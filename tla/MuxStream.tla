----------------------------- MODULE MuxStream ------------------------------
(***************************************************************************)
(* One stream of the multiplexer, from Stream.Write on one side to         *)
(* Stream.Read on the other, over several connections that may break       *)
(* (internal/mux/mux.go): OpenStream, Write, the writeLoop of every        *)
(* connection, its retransmit ring, readLoop's exit with RemoveConn and    *)
(* the resending of the ring, Close, and DispatchLoop at the receiver.     *)
(*                                                                         *)
(* A connection is a FIFO of frames.  When it is cut the receiver still    *)
(* reads a prefix of what is in flight; the sender's writes succeed into   *)
(* the void until its readLoop notices.  Frames of different connections   *)
(* are interleaved freely.                                                 *)
(***************************************************************************)
EXTENDS ReorderOps

CONSTANTS
    Conns,         \* the connections, all in their slots at the start
    Nil,           \* no connection
    Modes,         \* the values of shouldStripe() considered
    NumChunks,     \* bound: chunks written
    WriteChCap,    \* capacity of muxConn.writeCh (256)
    RingSize,      \* retransmitRingSize (128)
    WriteTimeouts, \* TRUE: a write may hit its 5s deadline on a live connection
    MaxTime        \* bound on the clock

ASSUME StreamAssumption ==
    /\ Nil \notin Conns /\ IsFiniteSet(Conns)
    /\ Modes \subseteq BOOLEAN /\ Modes # {}
    /\ NumChunks \in 1..(SeqSpace \div 2)
    /\ WriteChCap \in Nat
    /\ RingSize \in Nat \ {0}
    /\ WriteTimeouts \in BOOLEAN

VARIABLES
    striping,  \* shouldStripe() when the stream was created, both sides
    life,      \* of each connection, see Lives
    wch,       \* muxConn.writeCh: frames queued for writeLoop
    ring,      \* muxConn.rtxRing, oldest first
    resend,    \* frames RemoveConn has drained from the ring and still resends
    net,       \* frames in flight
    spc,       \* sender: Stream life
    wpc,       \* sender: where Write stands
    wconn,     \* sender: connection Write has selected
    more,      \* sender: the running Write has chunks left after this one
    pinned,    \* sender: Stream.assignedConn, which only unstriped streams use
    nextStripSeq, \* sender
    inflight,  \* sender: Stream.inflight
    st,        \* receiver: the Stream, meaningful once opened
    opened,    \* receiver: FrameOpen has been dispatched
    pending,   \* receiver: pendingFrames[id]
    replay,    \* receiver: the pending frames FrameOpen still replays
    lostPeers, \* receiver: connections whose readLoop has exited
    stale,     \* receiver: a RemoveConn has seen a gap that has timed out
    now,       \* the clock of the gap timer
    risky,     \* history: frames that are not, or no longer, backed by a ring
    owed       \* history: chunks whose Write was done when Close was called

connVars == <<life, wch, ring, resend, net>>
sendVars == <<striping, spc, wpc, wconn, more, pinned, nextStripSeq, inflight, owed>>
recvVars == <<st, opened, pending, replay, lostPeers, stale, now>>
vars == <<striping, life, wch, ring, resend, net, spc, wpc, wconn, more, pinned,
          nextStripSeq, inflight, st, opened, pending, replay, lostPeers, stale, now, risky,
          owed>>

(***************************************************************************)
(* "up"; "cut": broken, unnoticed; "closed": readLoop has closed the       *)
(* connection and writeCh; "removed": out of its slot; "drained": its ring *)
(* is being resent.                                                        *)
(***************************************************************************)
Lives == {"up", "cut", "closed", "removed", "drained"}

Open     == [type |-> "open", n |-> 0]
Close    == [type |-> "close", n |-> 0]
Data(n)  == [type |-> "data", n |-> n]

\* Connections selectConn can return.
Slots == {c \in Conns : life[c] \in {"up", "cut", "closed"}}

\* A write on c returns no error.
Writable(c) == life[c] \in {"up", "cut"}

\* Mutation: readLoop leaves writeCh open when it exits.
ChNeverClosed(c) == TRUE

\* writeCh has not been closed by readLoop.
ChOpen(c) == life[c] \in {"up", "cut"}

Init ==
    /\ striping \in Modes
    /\ life = [c \in Conns |-> "up"]
    /\ wch = [c \in Conns |-> <<>>]
    /\ ring = [c \in Conns |-> <<>>]
    /\ resend = [c \in Conns |-> <<>>]
    /\ net = [c \in Conns |-> <<>>]
    /\ spc = "new"
    /\ wpc = "idle"
    /\ wconn = Nil
    /\ more = FALSE
    /\ pinned = Nil
    /\ nextStripSeq = 0
    /\ inflight = 0
    /\ st = newStream(0)
    /\ opened = FALSE
    /\ pending = <<>>
    /\ replay = <<>>
    /\ lostPeers = {}
    /\ stale = FALSE
    /\ now = 0
    /\ risky = {}
    /\ owed = 0

-----------------------------------------------------------------------------
(***************************************************************************)
(* conn.Write of a batch of frames on c: they are in flight, or lost when  *)
(* the connection has been cut.                                            *)
(***************************************************************************)
Transmit(c, frames) ==
    net' = IF life[c] = "up" THEN [net EXCEPT ![c] = @ \o frames] ELSE net

\* sendFrameOn(mc, f): write on mc, on failure on another connection if
\* selectConn offers one; ok tells whether an error is returned.
SendFrameOn(mc, f, ok) ==
    \/ /\ Writable(mc)
       /\ Transmit(mc, <<f>>)
       /\ ok
    \/ /\ ~Writable(mc) \/ WriteTimeouts
       /\ \/ \E fallback \in Slots \ {mc} :
                \/ Writable(fallback) /\ Transmit(fallback, <<f>>) /\ ok
                \/ (~Writable(fallback) \/ WriteTimeouts) /\ UNCHANGED net /\ ~ok
          \/ Slots \subseteq {mc} /\ UNCHANGED net /\ ~ok
          \/ mc \in Slots /\ UNCHANGED net /\ ~ok

\* selectConn: the weights are abstracted, any slotted connection may win.
SelectConn(c) == IF Slots = {} THEN c = Nil ELSE c \in Slots

\* OpenStream: FrameOpen goes synchronously over the assigned connection.
OpenStream ==
    /\ spc = "new"
    /\ \E c \in Conns \cup {Nil} :
          /\ SelectConn(c)
          /\ pinned' = IF striping THEN Nil ELSE c
          /\ \/ /\ c = Nil
                /\ spc' = "failed"
                /\ UNCHANGED net
             \/ /\ c # Nil
                /\ \/ SendFrameOn(c, Open, TRUE) /\ spc' = "open"
                   \/ SendFrameOn(c, Open, FALSE) /\ spc' = "failed"
    /\ UNCHANGED <<striping, life, wch, ring, resend, wpc, wconn, more, nextStripSeq, inflight,
                   recvVars, risky, owed>>

-----------------------------------------------------------------------------
(***************************************************************************)
(* Write of one chunk on a striped stream.  Chunks are numbered by their   *)
(* stripSeq.  A Write that returned an error is the last one (io.Copy).    *)
(***************************************************************************)
Chunk == nextStripSeq - 1

\* Write starts a chunk: the first one only on an open stream, the others of the
\* same call whatever has happened to the stream since.
NextChunk ==
    /\ wpc = "idle"
    /\ spc = "open" \/ more
    /\ nextStripSeq < NumChunks
    /\ more' \in {FALSE, nextStripSeq + 1 < NumChunks}

StartWrite ==
    /\ striping
    /\ NextChunk
    /\ nextStripSeq' = nextStripSeq + 1
    /\ \E c \in Conns \cup {Nil} :
          /\ SelectConn(c)
          /\ wconn' = c
          /\ wpc' = IF c = Nil THEN "error" ELSE "selected"
    /\ UNCHANGED <<striping, connVars, spc, pinned, inflight, recvVars, risky, owed>>

\* retransmitRing.Push, evicting the oldest frame of a full ring.
Push(r, f) == IF Len(r) < RingSize THEN Append(r, f) ELSE Append(Tail(r), f)

Evicted(r) == IF Len(r) < RingSize THEN {} ELSE {Head(r).n}

\* rtxRing.Push under its lock, then inflight.Add(1).
PushRing ==
    /\ wpc = "selected"
    /\ ring' = [ring EXCEPT ![wconn] = Push(@, Data(Chunk))]
    /\ risky' = risky \cup Evicted(ring[wconn])
    /\ inflight' = inflight + 1
    /\ wpc' = "pushed"
    /\ UNCHANGED <<striping, life, wch, resend, net, spc, wconn, more, pinned, nextStripSeq, recvVars, owed>>

HasRoom(c) == ChOpen(c) /\ Len(wch[c]) < WriteChCap

\* The chunk is out of Write's hands.
WriteDone == wpc' = "idle" /\ wconn' = Nil

\* trySendWriteCh on the selected connection: a closed channel counts as full.
TrySend ==
    /\ wpc = "pushed"
    /\ \/ /\ HasRoom(wconn)
          /\ wch' = [wch EXCEPT ![wconn] = Append(@, Data(Chunk))]
          /\ WriteDone
       \/ /\ ~HasRoom(wconn)
          /\ wpc' = "full"
          /\ UNCHANGED <<wch, wconn>>
    /\ UNCHANGED <<striping, life, ring, resend, net, spc, more, pinned, nextStripSeq,
                   inflight, recvVars, risky, owed>>

\* The other connections are tried under Mux.mu; the frame is not in the ring
\* of the connection that takes it.
TryAlt ==
    /\ wpc = "full"
    /\ \/ \E alt \in Slots \ {wconn} :
             /\ HasRoom(alt)
             /\ wch' = [wch EXCEPT ![alt] = Append(@, Data(Chunk))]
             /\ WriteDone
             /\ risky' = risky \cup {Chunk}
       \/ /\ \A alt \in Slots \ {wconn} : ~HasRoom(alt)
          /\ wpc' = "allfull"
          /\ UNCHANGED <<wch, wconn, risky>>
    /\ UNCHANGED <<striping, life, ring, resend, net, spc, more, pinned, nextStripSeq,
                   inflight, recvVars, owed>>

\* Mutation: the last-resort write forgets inflight.Done.
SyncSendNoDone ==
    /\ wpc = "allfull"
    /\ \E ok \in BOOLEAN : SendFrameOn(wconn, Data(Chunk), ok)
    /\ WriteDone
    /\ risky' = risky \cup {Chunk}
    /\ UNCHANGED <<striping, life, wch, ring, resend, spc, more, pinned, nextStripSeq,
                   inflight, recvVars, owed>>

\* All channels full: a synchronous write whose error is ignored.
SyncSend ==
    /\ wpc = "allfull"
    /\ \E ok \in BOOLEAN : SendFrameOn(wconn, Data(Chunk), ok)
    /\ inflight' = inflight - 1
    /\ WriteDone
    /\ risky' = risky \cup {Chunk}
    /\ UNCHANGED <<striping, life, wch, ring, resend, spc, more, pinned, nextStripSeq, recvVars, owed>>

\* Write on a stream that is not striped: always the pinned connection, no
\* sequence number on the wire (the chunk number is the model's label), no ring.
WriteUnstriped ==
    /\ ~striping
    /\ NextChunk
    /\ \E ok \in BOOLEAN :
          /\ SendFrameOn(pinned, Data(nextStripSeq), ok)
          /\ nextStripSeq' = IF ok THEN nextStripSeq + 1 ELSE nextStripSeq
          /\ wpc' = IF ok THEN "idle" ELSE "error"
    /\ UNCHANGED <<striping, life, wch, ring, resend, spc, wconn, pinned, inflight,
                   recvVars, risky, owed>>

-----------------------------------------------------------------------------
(***************************************************************************)
(* writeLoop(c): a batch of queued frames becomes one write.  After the    *)
(* connection has been closed the remaining frames are drained into failing*)
(* writes.  inflight.Done is called for each frame either way.             *)
(***************************************************************************)
\* Mutation: a batch counts as one write in inflight.
WriteLoopDoneOnce(c) ==
    /\ \E n \in 1..Len(wch[c]) :
          /\ wch' = [wch EXCEPT ![c] = SubSeq(@, n + 1, Len(@))]
          /\ inflight' = inflight - 1
          /\ \/ Writable(c) /\ Transmit(c, SubSeq(wch[c], 1, n))
             \/ (~Writable(c) \/ WriteTimeouts) /\ UNCHANGED net
    /\ UNCHANGED <<striping, life, ring, resend, spc, wpc, wconn, more, pinned, nextStripSeq,
                   recvVars, risky, owed>>

WriteLoop(c) ==
    /\ \E n \in 1..Len(wch[c]) :
          /\ wch' = [wch EXCEPT ![c] = SubSeq(@, n + 1, Len(@))]
          /\ inflight' = inflight - n
          /\ \/ Writable(c) /\ Transmit(c, SubSeq(wch[c], 1, n))
             \/ (~Writable(c) \/ WriteTimeouts) /\ UNCHANGED net
    /\ UNCHANGED <<striping, life, ring, resend, spc, wpc, wconn, more, pinned, nextStripSeq,
                   recvVars, risky, owed>>

\* The connection breaks: the receiver will read a prefix of what is in flight.
Cut(c) ==
    /\ life[c] = "up"
    /\ life' = [life EXCEPT ![c] = "cut"]
    /\ \E n \in 0..Len(net[c]) : net' = [net EXCEPT ![c] = SubSeq(@, 1, n)]
    /\ UNCHANGED <<wch, ring, resend, sendVars, recvVars, risky>>

\* The sender's readLoop gets an error: conn.Close and close(writeCh).
ReaderExits(c) ==
    /\ life[c] = "cut"
    /\ life' = [life EXCEPT ![c] = "closed"]
    /\ UNCHANGED <<wch, ring, resend, net, sendVars, recvVars, risky>>

\* After writeDone, RemoveConn takes the connection out of its slot.
RemoveFromSlot(c) ==
    /\ life[c] = "closed"
    /\ wch[c] = <<>>
    /\ life' = [life EXCEPT ![c] = "removed"]
    /\ UNCHANGED <<wch, ring, resend, net, sendVars, recvVars, risky>>

\* rtxRing.Drain.
DrainRing(c) ==
    /\ life[c] = "removed"
    /\ life' = [life EXCEPT ![c] = "drained"]
    /\ resend' = [resend EXCEPT ![c] = ring[c]]
    /\ ring' = [ring EXCEPT ![c] = <<>>]
    /\ UNCHANGED <<wch, net, sendVars, recvVars, risky>>

\* One frame is written, best effort, to a surviving connection; without one
\* the rest is given up.
Resend(c) ==
    /\ resend[c] # <<>>
    /\ \/ \E alt \in Slots :
             /\ resend' = [resend EXCEPT ![c] = Tail(@)]
             /\ risky' = risky \cup {Head(resend[c]).n}
             /\ \/ Writable(alt) /\ Transmit(alt, <<Head(resend[c])>>)
                \/ (~Writable(alt) \/ WriteTimeouts) /\ UNCHANGED net
       \/ /\ Slots = {}
          /\ resend' = [resend EXCEPT ![c] = <<>>]
          /\ risky' = risky \cup {f.n : f \in ToSet(resend[c])}
          /\ UNCHANGED net
    /\ UNCHANGED <<life, wch, ring, sendVars, recvVars>>

-----------------------------------------------------------------------------
(***************************************************************************)
(* Stream.Close: no Write starts any more, the queued frames are waited    *)
(* for, then FrameClose is sent on whatever connection selectConn returns  *)
(* (striped) or on the assigned one.                                       *)
(***************************************************************************)
CloseStarts ==
    /\ spc = "open"
    /\ spc' = "closing"
    /\ owed' = IF striping /\ wpc # "idle" THEN Chunk ELSE nextStripSeq
    /\ UNCHANGED <<striping, connVars, wpc, wconn, more, pinned, nextStripSeq, inflight,
                   recvVars, risky>>

\* Mutation: FrameClose is sent on any connection also when data is pinned.
CloseOnAny ==
    /\ spc = "closing"
    /\ inflight = 0
    /\ spc' = "closed"
    /\ \E c \in Conns \cup {Nil} :
          /\ SelectConn(c)
          /\ IF c = Nil THEN UNCHANGED net
             ELSE \E ok \in BOOLEAN : SendFrameOn(c, Close, ok)
    /\ UNCHANGED <<striping, life, wch, ring, resend, wpc, wconn, more, pinned, nextStripSeq,
                   inflight, recvVars, risky, owed>>

CloseSends ==
    /\ spc = "closing"
    /\ inflight = 0
    /\ spc' = "closed"
    /\ \E c \in Conns \cup {Nil} :
          /\ IF striping THEN SelectConn(c) ELSE c = pinned
          /\ IF c = Nil THEN UNCHANGED net
             ELSE \E ok \in BOOLEAN : SendFrameOn(c, Close, ok)
    /\ UNCHANGED <<striping, life, wch, ring, resend, wpc, wconn, more, pinned, nextStripSeq,
                   inflight, recvVars, risky, owed>>

-----------------------------------------------------------------------------
(***************************************************************************)
(* The receiver: readLoop and DispatchLoop.                                *)
(***************************************************************************)
Registered == opened /\ ~Ended(st)

\* dispatch of a data frame to a registered stream, and what can come of it.  When a
\* RemoveConn has swapped closed, the rest of its closeStream may fall inside.
Dispatched(s, n) ==
    IF striping
    THEN {dispatchStriped(s, n, now)} \cup (IF s.closed THEN TornClose(s, {n}) ELSE {})
    ELSE {[s EXCEPT !.recv = Append(@, n)]}

\* FrameOpen: create the stream; what arrived before it will be replayed.
ReceiveOpen ==
    /\ opened' = TRUE
    /\ st' = newStream(0)
    /\ replay' = pending
    /\ pending' = <<>>

\* dispatch of a frame that arrived before FrameOpen; RemoveConn, which is not
\* run by DispatchLoop, may look at the stream in between.
Replay ==
    /\ replay # <<>>
    /\ replay' = Tail(replay)
    /\ IF Ended(st) THEN UNCHANGED st ELSE st' \in Dispatched(st, Head(replay))
    /\ UNCHANGED <<connVars, sendVars, opened, pending, lostPeers, stale, now, risky>>

\* FrameData: buffered when the id is not in the streams map, whether the
\* stream has not been opened yet or has been closed already.
ReceiveData(n) ==
    /\ IF Registered
       THEN st' \in Dispatched(st, n) /\ UNCHANGED pending
       ELSE pending' = Append(pending, n) /\ UNCHANGED st
    /\ UNCHANGED <<opened, replay>>

\* FrameClose: dropped when the id is not in the streams map.
ReceiveClose ==
    /\ st' = IF Registered THEN dispatchClose(st) ELSE st
    /\ UNCHANGED <<opened, pending, replay>>

Receive(c) ==
    /\ net[c] # <<>> /\ replay = <<>>
    /\ net' = [net EXCEPT ![c] = Tail(@)]
    /\ LET f == Head(net[c]) IN
          CASE f.type = "open"  -> ReceiveOpen
            [] f.type = "data"  -> ReceiveData(f.n)
            [] f.type = "close" -> ReceiveClose
    /\ UNCHANGED <<life, wch, ring, resend, sendVars, lostPeers, stale, now, risky>>

\* A data frame is being dispatched, or will be.
Dispatching == replay # <<>> \/ \E c \in Conns : net[c] # <<>>

\* Whether RemoveConn sees a gap that has timed out in the stream's reorder buffer;
\* while Insert changes the buffer it may see one that is not there, or none.
GapSeen ==
    IF ~striping \/ ~Registered THEN {FALSE}
    ELSE IF Dispatching THEN BOOLEAN
    ELSE {GapTimedOut(st.reorder, now)}

\* The receiver's readLoop of a cut connection exits; its RemoveConn looks.
PeerReaderExits(c) ==
    /\ life[c] # "up"
    /\ net[c] = <<>>
    /\ c \notin lostPeers
    /\ lostPeers' = lostPeers \cup {c}
    /\ \E seen \in GapSeen : stale' = (stale \/ seen)
    /\ UNCHANGED <<connVars, sendVars, st, opened, pending, replay, now, risky>>

\* Its closeStream swaps closed, unless the stream has been closed meanwhile.
PeerSwaps ==
    /\ stale
    /\ stale' = FALSE
    /\ st' = [st EXCEPT !.closed = TRUE]
    /\ UNCHANGED <<connVars, sendVars, opened, pending, replay, lostPeers, now, risky>>

\* The rest of closeStream, while DispatchLoop is elsewhere.
PeerCloses ==
    /\ st.closed /\ ~Ended(st)
    /\ st' = finishClose(st, "gap")
    /\ UNCHANGED <<connVars, sendVars, opened, pending, replay, lostPeers, stale, now, risky>>

Tick ==
    /\ now < MaxTime
    /\ now' = now + 1
    /\ UNCHANGED <<connVars, sendVars, st, opened, pending, replay, lostPeers, stale, risky>>

-----------------------------------------------------------------------------
ConnStep(c) ==
    \/ WriteLoop(c)
    \/ ReaderExits(c)
    \/ RemoveFromSlot(c)
    \/ DrainRing(c)
    \/ Resend(c)

WriteStep == PushRing \/ TrySend \/ TryAlt \/ SyncSend

Next ==
    \/ OpenStream
    \/ StartWrite
    \/ WriteStep
    \/ WriteUnstriped
    \/ CloseStarts
    \/ CloseSends
    \/ Replay
    \/ \E c \in Conns : ConnStep(c) \/ Cut(c) \/ Receive(c) \/ PeerReaderExits(c)
    \/ PeerSwaps \/ PeerCloses
    \/ Tick

(***************************************************************************)
(* Goroutines run: every write ends by its deadline, a cut connection is   *)
(* noticed by its idle timeout.  Nothing obliges the application to write, *)
(* or a connection to break.                                               *)
(***************************************************************************)
Fairness ==
    /\ \A c \in Conns : WF_vars(ConnStep(c)) /\ WF_vars(Receive(c))
    /\ WF_vars(WriteStep) /\ WF_vars(Replay)
    /\ WF_vars(CloseSends)

Spec == Init /\ [][Next]_vars

FairSpec == Spec /\ Fairness

-----------------------------------------------------------------------------
(***************************************************************************)
(* Properties.                                                             *)
(***************************************************************************)
Frames(s) == {f.n : f \in {g \in ToSet(s) : g.type = "data"}}

\* Every variable has its type; in particular inflight never goes below zero
\* (a WaitGroup panics there) and no channel or ring exceeds its capacity.
TypeOK ==
    /\ life \in [Conns -> Lives]
    /\ \A c \in Conns : Len(wch[c]) <= WriteChCap /\ Len(ring[c]) <= RingSize
    /\ spc \in {"new", "open", "failed", "closing", "closed"}
    /\ wpc \in {"idle", "error", "selected", "pushed", "full", "allfull"}
    /\ wconn \in Conns \cup {Nil}
    /\ pinned \in Conns \cup {Nil}
    /\ nextStripSeq \in 0..NumChunks
    /\ inflight \in 0..NumChunks
    /\ opened \in BOOLEAN
    /\ lostPeers \subseteq Conns /\ stale \in BOOLEAN
    /\ more \in BOOLEAN
    /\ owed \in 0..NumChunks
    /\ risky \subseteq 0..(NumChunks - 1)

\* The chunks of a striped stream reach the reader once each and in the order of
\* Write, however the connections interleave, break and are resent: duplicates made
\* by the retransmission are dropped, and only closeStream may hand over chunks
\* beyond a hole.  A closeStream of the peer's RemoveConn that overlaps
\* dispatchStriped (mux.go:949 against 1114-1121) is excepted, as InOrderStream
\* says: what had been delivered stays, what follows it is open.
InOrder == INSTANCE InOrderStream WITH out <- st.recv, end <- StreamEnd[st.ended]

StreamInOrder == InOrder!Spec

\* Chunks of which a copy is at the receiver, on its way, or held by a
\* connection that will still send or resend it.
Recoverable(n) ==
    \/ n \in ToSet(st.recv) \cup st.reorder.h \cup ToSet(pending) \cup ToSet(replay)
    \/ Ended(st)
    \/ \E c \in Conns :
          n \in Frames(net[c]) \cup Frames(wch[c]) \cup Frames(resend[c])
    \/ \E c \in Conns : life[c] # "drained" /\ n \in Frames(ring[c])
    \/ n = Chunk /\ wpc \in {"selected", "pushed", "full", "allfull", "error"}

\* A chunk that took the normal path is never lost with its connection: when
\* the connection is cut at any moment of Write, writeLoop or RemoveConn, a copy
\* is in the ring that will be resent.  Only eviction from a full ring, the
\* other-connection and last-resort paths and the single resend are excepted.
ChunkBackedByRing ==
    striping => \A n \in 0..(nextStripSeq - 1) : n \in risky \/ Recoverable(n)

\* The places taken in the write channels.
Queued == {q \in Conns \X (1..WriteChCap) : q[2] <= Len(wch[q[1]])}

\* inflight counts exactly the frames of this stream that sit in a write
\* channel or are in the hands of Write, so that Close waits for all of them
\* and for nothing else; and every variable keeps its type.
InflightExact ==
    /\ TypeOK
    /\ inflight = Cardinality(Queued)
                  + (IF wpc \in {"pushed", "full", "allfull"} THEN 1 ELSE 0)

\* Stream.Close returns, whatever connections break while it waits.
CloseReturns == spc = "closing" ~> spc = "closed"

\* As long as no connection breaks, the reader of a pinned stream that sees its
\* end has been given everything written before Close: FrameClose follows the data
\* on the connection Stream.Close takes from assignedConn.  A striped FrameClose
\* may overtake data ("Striped: any conn is fine (data already flushed).").
PinnedEofComplete ==
    ~striping /\ st.ended = "close" /\ (\A c \in Conns : life[c] = "up")
        => Len(st.recv) >= owed
=============================================================================
