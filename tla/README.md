# TLA+ models of someproxy

someproxy tunnels TCP streams and raw IP packets through the TURN relays (VK) or
the media channels (Telemost) of a video call. A client and a server join the same
call, set up several DTLS connections through relays, and run a multiplexer over
all of them. Relays are slow, drop connections, and kick participants; so most of the
difficulty of this program lies in keeping one multiplexer alive over connections that
come and go. That is what these modules model, check with TLC and, for the core, prove
with TLAPS.

## 1. Inventory

### Components

| Component (source) | State | Operations | Correct when |
|---|---|---|---|
| Connection management (`internal/mux/mux.go`) | `conns` slots, `activeReaders`, `reconnecting`, `allDead`, `inFrames`, `connDied` | `AddConn`, `RemoveConn`, `readLoop`, `CloseOldestConn`, `BeginReconnect`, `EndReconnect`, `Close` | counters exact, death of the mux noticed, slots never stale, a live connection keeps its slot |
| Streams (`mux.go`) | `streams`, `pendingFrames`, per stream `assignedConn`, `nextStripSeq`, `inflight`; per connection `writeCh`, `rtxRing` | `OpenStream`, `Write`, `writeLoop`, `DispatchLoop`, `Close`, retransmission in `RemoveConn` | in-order delivery, no chunk lost that a ring could resend, `Close` returns, end of stream comes last and arrives |
| Reorder buffer (`protocol.go`) | `nextSeq`, heap, `gapSince` | `Insert`, `FlushAll`, `GapTimedOut` | in order, no duplicates, timer runs exactly while frames wait |
| Connection selection, ping (`mux.go`) | SWRR weights, RTTs, last pong | `selectConn`, `pingLoop`, `IsHealthy` | every slot is used in proportion, a silent mux is noticed |
| Raw packet ring (`ringbuf.go`) | ring, notify channel | `Push`, `Pop`, `Close` | bounded FIFO dropping the oldest |
| Reconnect manager (`internal/client/reconnect.go`, `handleReconnections` of `internal/server/server.go`) | locals of `Run`, the conn-ok channel | wake, probe, ask, dial, back off | target restored, never exceeded, bracket always closed |
| Client session (`internal/client/client.go`) | current session, `fullReconnect` channel | manager, session-end goroutine, full-reconnect loop | every lost session replaced, none torn down without a cause |
| Multi-call pool (`internal/tunnel/pool.go`, `slot.go`, `signaling.go`) | slots, `reconnectCh`, `reconnecting`, shared mux, signaling router | `StartClient`, `StartServer`, `reconnectLoop`, `reconnectSlot`, `monitorSlots`, `Close` | every slot serves again after a failure, nothing outlives `Close` |
| Server sessions and relay accept (`server.go`) | the client being accepted (its nonce), batches and handshakes under way, `sessions` by UUID | `runPersistentRelaySession`, `acceptOneClient`, `runTelemostSession`, `getOrCreateSession`, drain and rotation goroutines | one client at a time, every batch answered, always back to accepting |
| VK signaling (`internal/provider/vk/signal.go`) | WebSocket, one incoming channel with several readers, subscriptions, `remotePeer` | resets and acks, relay batches, `WaitForSessionEnd`, `DrainAndRoute`, `Subscribe` | a message reaches the waiter it is for |
| Telemost RTP (`internal/provider/telemost/rtpconn.go`, `nack.go`, `fec.go`) | write and packet sequences, retransmit buffer, NACK gaps, FEC groups, reassembly | `Write`, `HandleTrack`, NACKs, recovery, `reassemblyLoop` | writes delivered whole, once and in order, or the connection ends |
| Telemost pairing (`telemost.go`, `goloom.go`, `webrtc.go`, `displaynames.go`) | participants and whom each has pinned | `ConnectPaired`, `WaitForPeer...`, probing, `Close` | two ends pair with each other and never with a ghost |
| TURN manager (`internal/turn`) | allocations | `Allocate`, `AllocateGradual`, `CloseAll` | every allocation reported once, none leaks |
| Mobile binding (`mobile/bind/tunnel.go`) | installed tunnel state, `muxReady`, `networkForce`, `rootCtx` | `Start`, `Stop`, `reconnectLoop`, `applyState`, `teardownMux`, `networkSettled`, `getMux` | no state leaks or is overwritten, a lost mux is replaced, waiters are woken, `Stop` ends everything |
| DTLS, proxies, netstack, captcha, monitoring, commands, apps | | | glue around libraries |

### How they interact

The provider's signaling connection carries conn-new and conn-ok messages and session
ends. TURN and DTLS (or RTP) make connections which the client, the server or the pool
hands to `AddConn`. Each connection has a reader and a writer goroutine; readers feed
`inFrames`, which one `DispatchLoop` drains into the streams. A dying reader removes its
slot, announces the slot number on `connDied` and, when it is the last, closes `allDead`
and `inFrames`: that ends the `DispatchLoop`, and nothing opens these channels again. The
reconnect manager and the pool replace connections; a session or slot whose signaling
dies is replaced as a whole.

### What is hard here

* `readLoop`'s exit, `AddConn`, `RemoveConn`, `EndReconnect` and `Close` interleave between
  two locks or two atomics;
* slot numbers are reused, and travel through channels after their owner is gone;
* frames of one stream travel on several connections, so that open, data and close
  overtake each other; a connection that breaks loses any suffix of its traffic;
* answers come after the waiter has timed out and carry no correlation; several goroutines,
  some of a session that has ended, read the same channel and drop what is not for them;
* media packets are lost, repeated and reordered, and participants of a crashed process stay
  visible under the same names;
* goroutines of an old session or slot outlive it and act on the new one;
* sequence numbers wrap, channels are full, timers belong to a gap that has been filled.

`PROJECT.json` lists these at their lines, under "hazards", with the properties aimed at each.

## 2. Modules

| Module | Models | Composition |
|---|---|---|
| `MuxConns`, `MCMuxConns` | connection management | the mux interleaved with its owners: drain goroutine, rotation, reconnecting goroutines, `Close` |
| `MuxConnsProofs` | | theorems about `MuxConns` |
| `InOrderStream` | the promise of a stream: a prefix of what was written, in order, then an end; after an end torn out of a running dispatch, only that nothing delivered is taken back | abstract |
| `ReorderOps` | `Insert`, `FlushAll`, `dispatchStriped`, `closeStream` as operators, and the outcomes of a `closeStream` that overlaps a dispatch | used by the next two |
| `ReorderBuffer` | one striped receiver under arbitrary arrival, with `RemoveConn` in another goroutine | implements `InOrderStream` |
| `ReorderBufferProofs` | | theorems about `ReorderBuffer`, lemmas about `ReorderOps` |
| `MuxStream`, `MCMuxStream` | one stream in one direction, sender to receiver, over connections that are cut | composes writer, `writeLoop`s, rings, network and `ReorderOps`; implements `InOrderStream` |
| `MuxStreamProofs` | | theorems about `MuxStream`; instantiates `ReorderBufferProofs` |
| `ReconnectManager` | client `Run`/`reconnectOne`, server handler, signaling between them | over an abstract mux |
| `ClientSession` | full reconnects of `RunRelayToRelay` | over abstract sessions |
| `RelaySetup` | set-up and end of a relay session: `connectRelaySession`, `AllocateGradual`, `acceptOneClient`, the signaling calls of both | composes client, server and signaling |
| `RelaySetupProofs` | | theorems about `RelaySetup` |
| `RTPConn` | one direction of the Telemost transport: `Write`, NACK, FEC, tracks and their lock, reassembly | composes sender, lossy media path and the receiver's goroutines |
| `RTPConnProofs` | | theorems about `RTPConn` |
| `TelemostPairing` | how the participants of both sides find each other and become a session | composes server, clients and conference; its connections are those of `RTPConn` |
| `TelemostPairingProofs` | | theorems about `TelemostPairing` |
| `CallPool` | the multi-call pool in both roles | over an abstract mux |
| `CallPoolProofs` | | theorems about `CallPool` |
| `MobileTunnel` | the reconnecting tunnel of the mobile binding | over abstract tunnel states |
| `MobileTunnelProofs` | | theorems about `MobileTunnel` and about `ReconnectManager` (the manager a relay state runs) |

### State and actions

**MuxConns.** `conns`, `activeReaders`, `reconnecting`, `connDied` are the fields of `Mux`;
`allDead` and `inFramesClosed` say whether those channels are closed. `pc[c]` is the life of a
connection: `AddConn` makes it "placed" (the critical section) and `StartReader` counts and starts
the reader; `PeerFails`, `ReadAfterClose` and `FrameRejected` are the three ways out of `readLoop`'s
loop; the deferred function is `ReaderRemoves`, `ReaderNotifies` (a `select` with `default`: the
index is dropped when `connDied` is full), `ReaderLeaves` (the decrement), `ReaderChecks` (the load
of `reconnecting`) and `ReaderClosesSignals` (under `sync.Once`). `DrainReceive`/`DrainRemoves`,
`ChooseOldest`/`CloseOldest`, `BeginReconnect`/`ReconnectAdds`/`EndReconnect`/`EndChecks`/
`EndClosesSignals` and `CloseBegins`/`CloseSnapshots`/`CloseConn`/`CloseReturns` are the other
operations, cut at their shared accesses. `drained` is a history variable. Only the slot half of
`RemoveConn` is here; the rings and gap checks are in `MuxStream` and `ReorderBuffer`.

**ReorderOps, ReorderBuffer.** A `Stream` is a record: what has been handed to the reader,
the reorder buffer (`nextSeq`, the set of buffered numbers, `gapSince`), the flag `closed`, and how it ended.
Sequence numbers are taken modulo `SeqSpace`, and compared as the code compares
`int32(a-b)`. The capacity of the heap is `MaxFrames`. `Tick` advances the clock that
`GapTimedOut` reads. Two goroutines touch the stream without a lock. `loop` is `DispatchLoop`, cut after
the look-up (`ReceiveData`), after `Insert` (`InsertFrame`), after each send on `recv` (`SendChunk`) and
before the limits (`CheckLimits`). `closer` is the reader of a dead connection in `RemoveConn`: it sees a
gap (`ConnDies`), swaps `closed` (`SwapClosed`), closes `done` (`CloseDone`), takes what is buffered
(`Flush`) and sends it (`FlushSend`), then closes `recv`. Where the two meet in the heap and its map
(`HeapRace`) every outcome is possible, a panic included. A stream closed while `loop` is not idle has
`ended = "torn"`.

**MuxStream.** `striping` is what `shouldStripe` returned when the stream was created. A connection
is a FIFO `net[c]`; `Cut` lets any suffix vanish, and writes succeed into the void until
`ReaderExits`. `StartWrite`, `PushRing`, `TrySend`, `TryAlt`, `SyncSend` are the steps of a striped
`Write` (select, ring, channel of the chosen connection, channel of another one, synchronous write);
`WriteUnstriped` is the pinned path. `RemoveFromSlot`, `DrainRing`, `Resend` are `RemoveConn`;
`CloseStarts`/`CloseSends` are `Stream.Close`, with its wait for `inflight`. `Receive` is `readLoop`
and `DispatchLoop` of the peer, with `pendingFrames`; what arrived before FrameOpen is dispatched frame
by frame (`Replay`), because a `RemoveConn` may look at the stream's gap in between (`PeerReaderExits`).
The peer's `closeStream` from `RemoveConn` is `PeerSwaps` and `PeerCloses`; when a data frame is dispatched
between the two, `Dispatched` offers the torn outcomes of `ReorderOps` next to the regular one. What
`GapSeen` tells the reader is arbitrary while a frame is on its way to `Insert`.

**ReconnectManager.** `pc` is where `Run` stands; `critical`, `needed`, `attempt` are its
locals. The mux is its number of readers, the bracket, `allDead` and a health flag. A
conn-ok is "cur" or "old" with respect to the running attempt, which the code cannot tell
apart. The server's handlers (`ServerAnswers`, `LateServerAnswers`, `ServerFails`,
`AcceptTimeout`) run concurrently with the client.

**ClientSession.** Sessions are numbered; managers and session-end goroutines are sets of
the numbers of sessions they were started for; `token` is the one-place `fullReconnect`.

**CallPool.** `CallSlot` objects have identities, so a replaced object that still holds a
signaling connection is visible; `live[o]` says which mux reads the connections of `o`,
"orphan" being a mux nobody holds. `job[w]` is a `reconnectSlot` goroutine. Delays are
omitted: a wait may end at any time. `MustClose` is when the owner closes the pool: after a start
that failed, and in the server when `Dead()` ends `runMultiRelaySession`.

**MobileTunnel.** A `tunnelState` is a number; `phase` says whether a connect holds it, it is
installed (`cur`: the fields `m`, `mgr`, `sigClient`, `pool` and `muxCancel`, which are set and
cleared together), taken out or released. `ready` is the identity of the channel in `muxReady`,
`rdy` the one `applyState` has read under the lock and closes later. `Swap` and `Release` are the
two halves of `teardownMux`; `LoopSwaps`, `StopSwaps`, `SettleSwaps`, `ManagerTears` and
`MonitorTears` are its five callers. `Install`, `Launch` and `SignalReady` are the three parts of
`applyState`. A connect is one step that fails or returns what its function builds (`DirectState`,
`RelayState`, `PoolState`); backoffs and timers may end at any time. `Start` is called once, as the applications do, which make a `Tunnel` per session; `Stop`
may come at any time, also while `Start` connects.

**RelaySetup.** Clients are numbered in the order they start; the number is the nonce. `cpc`
follows `connectRelaySession` (reset, ack, token batch, gradual batches, answers, dials), `spc`
the server (join, first batch, further batches, allocation, wait for the first connection,
session). `toS` and `toC` are the incoming channels of the two signaling clients. `watch` is the
`WaitForSessionEnd` goroutine of the running session, first waiting, then draining after a hungup;
`stale` holds those of ended sessions that were handling a message when their context was cancelled
and may choose the channel once more in their `select`. `AllocateGradual` fills a channel of one
batch from allocations that are retried (`Tried`, in the order of their batch) and given up; relay addresses are counted. `lost` and
`stolen` are history: where an outstanding batch went, and whether a leftover goroutine took a
message of the present client.

**RTPConn.** A chunk is its header (write number, index, total), a FEC parity the set of packets
XORed into it. `Write`/`SendChunk` number chunks and packets, fill `retx` and the open `groups`;
frames in `net` may be taken in any order or never. A track has a goroutine. `HandleTrack` passes a frame of
the locked track to `raw` (`rawPktCh`), and on a track that may be locked reads `nextReadSeq` into `hand`;
`LockTrack` decides from that value under `lockedMu` (`MayLock`), and may set `nextReadSeq` (`LockSeq`),
whatever `reassemblyLoop` or another track has done in between. `HandleRaw` is `reliabilityLoop`: it
records gaps (`RecordGaps`, `Advanced`, `Pruned`), recovers from parity (`HandleFEC`) and feeds `readCh`.
`reassemblyLoop` is at `asm`: `Reassemble` takes a chunk, `Look` finds the next write complete or not,
`Deliver` removes it, counts `nextReadSeq` up and hands it to Read, `SetTimer` and `StallFires` are the
stall timer. `SendNACK`, `HandleNACK` and `NACKLost` close the loop: a NACK of three or more packets that
comes while the side it goes to is not locked is dropped by its `HandleTrack`. `jumps` is history: where a lock has set
`nextReadSeq`.

**TelemostPairing.** `parts` is the conference: each participant is joined, named, a ghost (its
process crashed) or gone, and has a pin. The server sets up all its indexes at once (`SrvJoin`,
`SrvAnnounce`, `SrvFinds`, `SrvReady`), then waits for all of them (`SrvCollect`), reads token and
session ID one after another (`SrvHandshake`), and serves. The client connects its indexes one
by one: from those listed when it joined, probing several candidates with the same name for valid
data (`CliProbe`), or from a fresh joiner. What arrives decrypts only under the key both ends
derive from the pair they pinned (`SessionKey`, `Hears`); frames written before the reader has its
key are lost, and what it reads then is `Junk`.

### Abstractions common to all

Payloads are chunk numbers. Encryption, addresses, logging, statistics and the content of
signaling messages are left out. `selectConn` may return any slotted connection, which
includes what the weighted round robin would return. Network, relays and libraries are
external: connections may fail at any step.

## 3. Runs

### Runs that pass

| Run | Shows | Bounds and why they are enough |
|---|---|---|
| `mux` | `ReadersCounted`, `DeathNoticed`, `NoStaleSlot`, `LiveConnHasSlot`, `CloseReapsReaders` | 2 connections, with a drain goroutine, a reconnecting one, rotation and `Close`: a slot is reused, and one connection is added in a bracket while the other dies; `connDied` of capacity 1, so that it overflows. |
| `reorder` | `TimerIffBuffered`, `GracefulEndHasNoHole`, `InOrderDelivery` (refinement of `InOrderStream`) | 8 chunks in a space of 8 numbers, starting at 0 and at 5 (so they wrap); at most 3 frames can be ahead of the point of delivery, and a buffer of 2 overflows; clock to 2 with a timeout of 1; one `RemoveConn` that finds a gap |
| `stream_striped` | `ChunkBackedByRing`, `InflightExact`, `StreamInOrder` (refinement of `InOrderStream`) | 2 connections, 2 chunks, a ring of 1 (evicts), a channel of 2, writes that time out, a gap timeout of 0 with a clock to 1, so that the peer's `RemoveConn` sees a gap |
| `stream_live` | `CloseReturns`, `PinnedEofComplete` | both modes; 2 connections, 1 chunk, a channel of 1: `Close` waits for a frame on a connection that breaks |
| `reconnect` | `NeverOverTarget`, `StoppedMuxCanDie`, `PromptlyRestored` | target 3, so that normal and critical mode differ; 2 attempts, 2 faults and 3 losses: a late answer meets a later attempt |
| `session` | `LostSessionReplaced`, `HangupReconnects` | 3 sessions: goroutines of two old sessions act on the third |
| `pool` | `NoStrandedSignaling`, `RouterTracksSlots`, `OrphanMuxReaped`, `SignalingRepaired` | server; 2 slots, 3 objects, 2 reconnect goroutines at a time, any two failures of six kinds, or one death of connections, which may take the mux with it and is then the only failure (`Cost`). The two invariants were also checked once for the client with any two failures of all seven kinds (about a million states) |
| `mobile` | `InstalledIsCurrent`, `ReadyClosedOnce`, `NoOrphanedReady`, `MuxRestored`, `StopReleasesAll` | relay mode (the one with most goroutines), 2 tunnel states: goroutines of the first act on the second; 2 failures in a row are fatal, so that one is retried. |
| `relay` | `AckFreesServer`, `BatchNotForgotten`, `RepliesMatch`, `BatchAnswered`, `ServerRecovers` | 2 clients, one after the other, so that the second meets what the first left behind; one token and one anonymous connection, so that there are two batches and a follow-up wait; 2 reset messages. Three clients were checked once (3.3 million states) |
| `rtp` | `ContiguousDelivery`, `PoolAuthentic`, `GapNotForgotten`, `GapRepaired`, `HoleEnds` | 3 packets in up to 3 writes of one or two chunks, on 2 tracks that may be live at once, so that one locks while a write locked by the other is delivered; two interleaved groups of two, so that one parity is sent; a retransmit buffer of 2, so that slots are reused; `Prune` at every second packet; one place in `rawPktCh` and `readCh`, so that they fill. The numbers do not wrap (see below). Before the tracks had goroutines of their own, 5 packets and 4 writes were checked once |
| `telemost` | `AcceptedMutual`, `OneClientPerSession`, `ServesFreshClient` | 2 connections; 3 server sessions and client runs in any mixture and one fault: a client that replaces another while the server pairs, a ghost of either side. Two faults, and one connection with 5 starts, were checked once |

The `TypeOK` of `MuxConns`, `MuxStream`, `RelaySetup`, `TelemostPairing` and `RTPConn` is a conjunct
of an invariant of their run and proved with it; that of `MobileTunnel` is a theorem. The proofs about
`CallPool`, `ReconnectManager` and `ReorderBuffer` include the types those need.

Every invariant of every passing run, both refinements of `InOrderStream` and the action property
`RepliesMatch` are also proved without bounds (section 4), except `PoolAuthentic` and `GapNotForgotten` of
`rtp`, which the wrap of the numbers makes false in general. For the proved ones the runs show that the properties
are not vacuous, and each property is known to fail when the code is changed.

Deadlock is not checked: every one of these systems may stop, when the
bounded set of connections, chunks, sessions or failures is used up or after `Close`.

### The run that finds a disagreement with a comment

It is the "finding" in `PROJECT.json`, with the quoted line.

| Run | Property violated | What happens |
|---|---|---|
| `mux_drain_evicts` | `DrainSparesLive` | the drain goroutine's second `RemoveConn(idx)` evicts the live connection that reused the slot |

### Other deviations that the models exhibit

These were seen in counterexamples while the properties above were being found. They are why some of
those carry a condition; no run is kept for them.

* `CloseOldestConn` (mux.go:886) counts connections that are already dying as alive, so that
  fewer than `minAlive` may remain.
* `Dead()` can be closed while a connection added between the last reader's decrement and the
  close is being read (mux.go:341). `DeathNoticed` states the other direction.
* The gap timer is reset only when the reorder buffer is empty (protocol.go:197): the timer of a
  filled gap goes on for a younger one. `TimerIffBuffered` states what the timer does measure.
* `RemoveConn` closes a stream with a stale gap from the goroutine of a reader (mux.go:949) while
  `DispatchLoop` may be between the look-up and the limits of `dispatchStriped` (mux.go:1081-1136), with no
  lock between them. The chunks `FlushAll` returns can then come before those `Insert` has returned
  and `dispatchStriped` still sends; both change the heap and its map; and a send on `recv` after its close
  (mux.go:1156, 1117) panics. This is what "torn" stands for in `InOrderStream`: `InOrderDelivery` and
  `StreamInOrder` hold up to such a close, and after it say only that nothing is taken back.
* A connection is in its slot before its reader is counted (mux.go:748 and 759): an `EndReconnect` or the
  last reader's exit between the two declares the mux dead with a live connection in it.
* A striped `FrameClose` may overtake data that is still on another connection (mux.go:1440); when no
  frame is in the reorder buffer the reader sees the end too early. `PinnedEofComplete` states that a
  pinned stream has no such problem.
* A striped `FrameClose` that overtakes its `FrameOpen` is dropped (mux.go:1263); data that arrives after
  its stream has ended stays in `pendingFrames`.
* A pinned stream whose write fails falls back to another connection (mux.go:641) and its
  unnumbered data can overtake what is in flight, hence `StreamInOrder` only for striped streams.
* When the last connection dies outside a bracket, `ReconnectManager.Run` keeps the dead mux
  (reconnect.go:122).
* Of all connections alive but unhealthy reconnect.go:137 says "probe and force reconnect of 1", and line 138
  sets `needed` to 1; but line 149 computes it anew and lines 150-151 go back to waiting, so that no
  reconnect is forced unless the probe has killed a connection. The model does what the code does
  (`Probed`); forcing one would break `NeverOverTarget`.
* A conn-ok that comes after its attempt has timed out is taken for the answer to the next one
  (reconnect.go:225), and so on for all later attempts, hence the condition in `PromptlyRestored` that no
  attempt times out.
* After an av-reset nobody watches for the hangup of the session (client.go:681), hence `resets` in
  `HangupReconnects`; and after a hangup the old session's manager finds its closed signaling
  dead and has the new session torn down (client.go:705).
* In the pool: a slot whose first `Connect` fails is never tried again (pool.go:88); a retry may be taken
  before the deferred `reconnecting.Delete` and be dropped (pool.go:360), hence the condition in
  `SignalingRepaired`; connections are added to a mux that is dead, "the dead mux" (pool.go:280); and a
  reconnect under way when `Close` runs leaves a signaling connection and a mux nobody holds (pool.go:356),
  hence `~done` in the invariants.
* In the mobile tunnel: a connect that succeeds after `Stop` is installed and released by nobody
  (tunnel.go:307 and 1213), hence `late` in `StopReleasesAll`; after a fatal error nothing wakes the
  `getMux` callers until `Stop` (tunnel.go:1199); a force signal sent after the reconnect's last drain
  tears the fresh mux down (tunnel.go:1488); and a pool is reconnected as a single call (tunnel.go:1188).
* In the relay set-up: the token batch carries the final flag when no anonymous connection is to
  follow, but allocations whose token failed are retried anonymously and follow it (client.go:390);
  the server has stopped listening by then. After a hungup the drain swallows the next client's
  resets and batches until the idle timeout (signal.go:743), and that client waits in
  `RecvRelayBatch`, which has no timeout. A follow-up batch that `AllocateGradual` delays by more
  than 30 s, as its backoff may, meets a server that has gone on (server.go:770); a last gradual
  batch that is empty is not announced, so that the server waits out those 30 s. The client's loop
  may leave `AllocateGradual` blocked on a channel nobody reads (manager.go:449). An empty answer
  decodes to one empty address, which the client dials (it counts as a failed dial here). A leftover
  `WaitForSessionEnd` goroutine can take a message of the next client, hence `stolen`. A refresh of
  the credentials tears down whatever session is served (server.go:680).
* In the Telemost transport: the first packet that arrives sets the number to deliver next
  (rtpconn.go:683), so earlier writes are skipped, and `ContiguousDelivery` starts at the first
  write delivered; the same holds for frames that come before the key is set. `HandleTrack` reads
  `nextReadSeq` (rtpconn.go:682) and acts on it later, sharing no lock across the two with
  `reassemblyLoop`: a second track that has read 0 sets it after write 0 was delivered, and Read is given
  `<<0, 2>>`, or a write that has just been delivered a second time, `<<2, 2>>`. `jumps` names these places, and
  `ContiguousDelivery` says that there are no others. When it falls inside `deliverReady`, the chunks of the new
  number are removed instead of those delivered (rtpconn.go:314). The stall timer is not
  restarted for a younger gap, and closes a connection although the missing chunk may already wait
  in `readCh`. A NACK for three or more packets is dropped while the side it goes to is not locked (rtpconn.go:702).
  `Prune` is given a write number where it expects a packet number (rtpconn.go:402);
  `GapNotForgotten` holds because packets never run behind writes, as long as neither wraps: later,
  when the two have drifted half the space apart, live gaps are pruned. At the
  wrap of 16 bits the groups of three stop matching (65536 is no multiple of 3), so that the decoder
  makes chunks nobody sent; a `nextReadSeq` that has wrapped to 0 is taken for "nothing read yet", and a late
  duplicate kept since the previous round may be delivered. After the replacement of a track,
  packets more than 50 writes ahead are refused for ever (rtpconn.go:685), and a lost last packet is
  noticed by nobody until another one follows.
* In the Telemost pairing: a server session whose client is gone does not end by itself, because
  `RTPConn` has no read deadline for the mux's idle timeout to use (mux.go:196, server.go:449);
  hence `spc = "wait"` in `FreshStart`. The server ignores participants that were there before it
  (goloom.go:384), so that a client which came first is never served; it serves nobody until all its
  indexes have paired, and reads their tokens one after another. A "fresh joiner" of the client
  (goloom.go:536) may be one that has left again. The first frames of a client are lost when the
  server's key comes late, hence `Junk` in `ServesFreshClient`.

### Fairness

Weak fairness (with the exception of `RTPConn`), and only for goroutines the Go scheduler runs and calls that are
bounded: readers leaving once their read fails (every read returns: a closed or cut
connection errors, and pings every 10 s make a cut visible), `Close`, the end of a reconnect
bracket, `writeLoop` and `Write` (writes have a deadline), timers of the reconnect manager,
an answer of a server that has been asked, pool goroutines. Failures, new connections,
`Cancel` and the caller's `Write` and `Close` are never fair. In `CallPool` and
`ReconnectManager` the readers of connections whose mux is dead or whose signaling was closed
are fair to leave. In `MobileTunnel` an attempt of the loop is fair to end (`attemptTimeout`), the
connect of `Start`, which has no timeout, is not. In `CallPool` the owner is fair to close a pool it
must close. In `RelaySetup` the timers, allocations and handshakes of the server end, VK announces who
has left, and connections of a client that is gone exceed the idle timeout; the client is fair only in
taking an answer that has come. In `RTPConn` its loops and the stall timer are weakly fair, and a NACK and a retransmission on
the locked track are strongly fair: the loss of the media path is random, so what is sent again and again gets
through; of NACKs this also asks that the sender's own receiving side be locked from time to time, or
that some NACK name fewer than three packets. In `TelemostPairing` every step of
the program is fair and ghosts expire; starts, exits, crashes and failures are not.

## 4. Proofs

`MuxConnsProofs` proves, for every finite set of connections and of reconnecting goroutines,
every channel capacity and every combination of owners (`ConstantsAssumption` is all that is
assumed):

* `CountersExact`: `TypeOK` and `ReadersCounted`. Neither is inductive alone: that
  `activeReaders` stays a natural number needs it to be the cardinality of the set of readers,
  and that needs the types. The inductive invariant is `Counting`, their conjunction; each
  action adds an element to or removes one from the set (`CountUp`, `CountDown`), or leaves
  it alone (`SameCounts`).
* `DeathNeverMissed`: `DeathNoticed`, inductive relative to `Counting`. When there is no
  reader and no bracket, `allDead` is closed or some goroutine is between its decrement
  and its check (`DeathBeingChecked`). It is the argument that the decrement-then-load in
  `readLoop` and in `EndReconnect` cannot both miss the other.
* `SlotsNeverStale`: `NoStaleSlot`, inductive relative to `TypeOK`: a slot holds only
  connections whose reader has not removed them, at the index they were given.
* `SlotsKept`: `LiveConnHasSlot`, inductive relative to `TypeOK`. The history variable `drained`
  says that a drain goroutine has called `RemoveConn`: until then, and for ever in the modes
  without one, only a connection's own reader takes it out of its slot. After that it is false,
  as run `mux_drain_evicts` shows.

`MobileTunnelProofs` proves for every number of tunnel states, every failure limit and every mode
(from `MobileAssumption`) `ReadyNeverClosedTwice`, `WaitersReached` and `NoStateOverwritten`, the
three invariants of `mobile` about channels and ownership. None is inductive alone. The invariant
`IInv` adds that Start and the loop are never in `applyState` together (`OneApplier`), that from its
look at `t.m` or its teardown to `applyState` the loop can rely on no state being installed
(`NoMuxWhileConnecting`), and that `muxReady` is open and unread exactly while there is no mux
(`ReadyMatchesMux`). Every action is one of six kinds (swap, release, connect, install, close,
move), with one lemma for each.

Two more theorems take a second invariant on top of `IInv`, `TypesInv`. `TypesKept` is `TypeOK`: a
`muxReady` channel is replaced only for a state that was made and will never be installed again
(`Renewals`), so there are never more channels than states. `StopTakesAll` is what remains of
`StopReleasesAll` without fairness: once Stop has made its swap no state is installed unless it is
recorded as `late`. It needs that running is never set again (`Stopping`). Both invariants were
checked by TLC with 3 states and all modes (5.1 million states) before they were proved.

The module extends `ReconnectManager` too, whose specification is therefore called `ReconnectSpec`, and
proves for every target, attempt limit and channel capacity (from `ReconnectAssumption`)
`TargetNeverExceeded` and `DeathOutlivesRun`. `needed` is computed when the loop wakes and is spent one
`Dial` at a time while readers come and go, so `NeverOverTarget` is not inductive: `Room` bounds what
may still be added by what the target leaves free. For the second, `Bracket` says where in `Run` the reconnect bracket is open, and
`DeathSignalled` that outside of it a mux without readers has closed `allDead`.

`CallPoolProofs` proves for every number of slots, set of objects and goroutines, either role and
any failures (from `PoolAssumption`) `ReconnectsExclusive`, `SignalingNeverStranded` and `RouterExact`.
The last two follow once `LoadOrStore` is seen to give a slot to one goroutine at a time
(`SlotsExclusive`) which then always finds the object it made in its slot (`WorksOnCurrent`); these
two are a theorem of their own, the one the other two rest on.

`TelemostPairingProofs` proves for every number of connections, runs and faults (from
`PairingAssumption`) `PairsMutual` and `SessionsUnmixed`. The invariant `Received` says of what a
server connection has read that its sender pinned that connection and pins nothing else any more; that
outlives replaced clients and crashes because participant IDs are unique to a run (`IdFacts`) and a
run pins only while it is being set up.

`RelaySetupProofs` proves for every number of connections, tokens, batch size, retries and clients
(from `RelayAssumption`) `AckedClientIsServed`, `AnswersMatch` (an action property) and
`BatchInOnePlace`. The invariant orders the incoming channels: messages of a client are behind
those of earlier clients and its batches behind its reset (`Ordered`), a batch is in one place only
(`Once`), and the relay addresses in the system never exceed the connections the client asked for
(`ClientShare`, `ServerShare`); these last also give the types.

`ReorderBufferProofs` proves for every even `SeqSpace`, `MaxFrames` and `GapTimeout`, every number of
chunks that fits in the space and every first sequence number (from `ReorderAssumption` and
`ChunksAssumption`):

* `TimerRunsWhileBuffered`, `GracefulEndComplete`: an open stream has handed over the chunks up to
  `nextSeq` and buffers only later ones, less than half the space ahead (`Behaves`), where
  `int32(a-b) < 0` is the order of the chunks (`AtFacts`);
* `DeliversInOrder`: the refinement of `InOrderStream`, at every interleaving of the two goroutines. What
  `Insert` flushes continues the prefix, also while `dispatchStriped` still has some of it in hand
  (`InsertFacts`); a close that finds `DispatchLoop` elsewhere flushes in order; and nothing is claimed of
  a torn one but that it appends. That `closeStream` can put any buffer in order is a fact about finite sets with
  a strict order (`Sorted`, by the ranks of their elements).

The lemmas are about the operators of `ReorderOps` and not about the state machine, so that the next
module can use them.

`MuxStreamProofs` proves for every finite set of connections, every capacity, every number of chunks
up to half the sequence space (from `StreamAssumption` and `ReorderAssumption`) `CloseWaitsExactly`,
`NormalChunkBacked`, `PinnedEndComplete` and `StripedInOrder`. The inductive invariant has a part
for each:

* `Flow`: `inflight` is the number of places taken in the channels plus the chunk in hand; that it stays
  below the number of chunks needs the chunk that is selected and not yet counted;
* `Rings`: a chunk that is not excepted is in a ring that has not been drained or among the frames being
  resent. This is stronger than `ChunkBackedByRing`, which counts every copy: copies in flight are
  lost by `Cut`, so only the ring can carry the induction;
* `OneOpen` and `Receiver`: FrameOpen is sent once, so a striped receiver never starts anew and is a
  reorder buffer that begins at 0. The lemmas of `ReorderBufferProofs`, instantiated, then give the step
  of the refinement (`NextStream`); because no more than half the space is used, no frame is ever
  outside the window of the comparison (`InWindow`), which `ReorderBuffer` has to require of its
  environment;
* `Pinned`: while all connections are up, FrameOpen, the chunks and FrameClose stand in this order on
  the pinned connection, and those received and those in flight are together all that were written
  (`Line`). `PinnedEndComplete` assumes that no write times out, as its run does: after a timeout the
  code goes on with another connection.

`RTPConnProofs` proves for every size of the sequence space, of the FEC groups and their stride, of the
retransmit buffer, of the channels and of the writes, any number of tracks, and however often both numbers
wrap (from `RTPAssumption`):

* `TypeCorrect`: `TypeOK`. It is not inductive: `Types` adds that every frame on the media path, in `raw`
  or in the hand of a track carries a write number and a chunk, so that whatever `LockTrack` sets
  `nextReadSeq` to is one; that a sent chunk is within its write; and that what is recovered by XOR, of the
  right packets or not, is a chunk.
* `ReadsContiguous`: `ContiguousDelivery`, inductive together with `Counted`: unless a lock has set
  `nextReadSeq` since, it is the number after the last write delivered or, while `deliverReady` has a write
  in hand, that write's own. A lock may fall between `Look` and `Deliver`; that is why the write in
  hand is followed apart from `nextReadSeq`.
* `HolesWatched`: when a hole holds back later writes, the stall timer runs, or `reassemblyLoop` is in a
  pass that will set it, or a chunk is in `readCh` or a packet in `raw` that will start one. The last two
  are needed because a lock may move `nextReadSeq` and make a hole of what was none; its own packet
  goes into `raw` with it.
* `RecoveryExact`: about `HandleFEC` in any state. A parity of different chunks, one of whose members is
  missing and the others held as sent, gives back exactly that one. That parity packets are computed
  from the packets they name is what `PoolAuthentic` adds; it holds only until the numbers wrap (section
  3), and is model-checked.

Proofs take nothing but the named assumptions on the constants and one hypothesis: that no write times out
in `PinnedEndComplete`. Bounds such as `MaxTime`, the
number of chunks or of clients are constants and may have any value.

Only model-checked: all liveness properties (fairness and ENABLED are outside what the prover
handles), hence everything about `ClientSession`, whose two properties are of that kind; and
`PoolAuthentic` and `GapNotForgotten`, whose run stays in the first round of the sequence space. What becomes
of gaps and FEC groups after that is neither checked nor proved.

## 5. Not modelled, and the plan

Done so far: connection management, reorder buffer, one stream, the two kinds of reconnect, the pool,
the mobile tunnel, the relay set-up with its signaling and gradual allocation, the Telemost
transport and pairing. Next, in order:

1. `MuxDispatch`: several streams, `maxStreams`, accept queue, two dispatchers in pool mode, striping flags that differ between the two sides.
2. `ServerSessions`: the direct mode's listener, `getOrCreateSession` and its `Dead()` watcher,
   connections that join a dying session: one mux per client, orphan connections reaped, sessions
   removed.
3. `RawRing` and the retransmit ring as implementations of one bounded FIFO.
4. The wrap of both sequence spaces in `RTPConn`, and pacing; incoming buffers that fill in `RelaySetup`.
5. The connect functions of the mobile tunnel, composed with `RelaySetup`.
6. Smooth weighted round robin of `selectConn` against its specification; half-close of the proxies.

Theorems to add: that the retransmit ring and the channels of `MuxStream` are bounded FIFOs, when
`RawRing` is written; what is left of `PoolAuthentic` and `GapNotForgotten` across the wrap, for a model
in which frames do not outlive half a round.

Left out for good: the pion, gVisor and WebRTC libraries, HTTP joins and captcha, the
applications' user interfaces, monitoring and speed tests: pure input and output, or glue.
