------------------------------ MODULE RTPConn -------------------------------
(***************************************************************************)
(* The reliability layer over Telemost's video tracks (rtpconn.go, nack.go *)
(* and fec.go): one direction of an RTPConn, from Write on one side to the *)
(* ordered channel that Read takes from on the other, with the NACKs that  *)
(* go back.  The SFU between them loses and reorders frames.               *)
(*                                                                         *)
(* A chunk stands for its header: write sequence, index and total.  The    *)
(* XOR of a FEC group is the set of its members, since XORing a member     *)
(* again removes it.  Both sequence spaces are SeqSpace numbers wide.      *)
(***************************************************************************)
EXTENDS Integers, Sequences, FiniteSets, FiniteSetsExt, Functions

CONSTANTS
    SeqSpace,     \* 65536 in the code
    Near,         \* 50: distance at which seqClose accepts a track
    FecK,         \* fecK: members of a FEC group
    FecStride,    \* fecStride: interleaved groups
    RetxBufSize,  \* entries of the retransmit buffer
    PruneEvery,   \* 64: packets between two Prunes
    MaxChunks,    \* bound: chunks of one Write
    MaxWrites,    \* bound: calls of Write
    MaxPackets,   \* bound: packets sent for the first time
    MaxTracks,    \* bound: tracks the peer's frames come by, one after another or at once
    RawCap,       \* capacity of rawPktCh (256)
    ReadCap       \* capacity of readCh (256)

ASSUME RTPAssumption ==
    /\ {SeqSpace, FecK, FecStride, RetxBufSize, PruneEvery, MaxChunks,
        MaxWrites, MaxPackets, MaxTracks, RawCap, ReadCap} \subseteq Nat \ {0}
    /\ Near \in Nat /\ SeqSpace % 2 = 0

VARIABLES
    \* sender
    writes,     \* Writes begun (seqNum is this number modulo SeqSpace)
    chunk,      \* chunks of the current Write still to send, with its total
    nextPkt,    \* packets sent (nextPktSeq is this number modulo SeqSpace)
    groups,     \* FECEncoder: the members of each open group, oldest first
    retx,       \* RetransmitBuffer: slot -> [seq, chunk]
    \* SFU
    net,        \* frames that may reach the receiver
    nacks,      \* sequences asked for in NACK packets that may reach the sender
    \* receiver
    track,      \* track -> "new" until its first frame, "live" while HandleTrack's
                \*   goroutine reads it, "gone"
    locked,     \* lockedSSRC, or NoTrack
    hand,       \* track -> the packet its goroutine wants to lock on, with the
                \*   nextReadSeq it has read, or None
    raw,        \* rawPktCh
    nextRead,   \* nextReadSeq
    pool,       \* FECDecoder: pktSeq -> chunk
    gaps, received, nextExpect, initialized,   \* NACKTracker
    readCh,     \* chunks on their way to reassemblyLoop
    reassembly, \* chunks held by it
    asm,        \* where it is: [at |-> "select", "look", "found" or "timer", w |-> ...]
    stall,      \* the stall timer runs
    delivered,  \* write sequences put into orderedCh
    closed,     \* the connection was closed
    \* history
    sentAs,     \* pktSeq -> chunk, for every packet sent
    jumps,      \* lengths of delivered at which a lock set nextReadSeq
    seen,       \* pktSeqs received or recovered
    first, top  \* first and highest pktSeq the NACK tracker recorded

sendVars == <<writes, chunk, nextPkt, groups, retx, sentAs>>
lockVars == <<track, locked, hand, jumps>>
nackVars == <<gaps, received, nextExpect, initialized, seen, first, top>>
asmVars == <<reassembly, asm, stall, delivered, closed>>
vars == <<sendVars, net, nacks, lockVars, raw, nextRead, pool, nackVars, readCh, asmVars>>

-----------------------------------------------------------------------------
(* Sequence arithmetic.                                                    *)

Seq16(n) == n % SeqSpace

\* int16(a-b) > 0
seqAfter(a, b) == Seq16(a - b) \in 1..(SeqSpace \div 2 - 1)

seqClose(a, b) == Seq16(a - b) \in 0..Near \/ Seq16(b - a) \in 0..Near

\* The numbers from a up to, not including, b.
SeqRange(a, b) == {Seq16(a + i) : i \in 0..(Seq16(b - a) - 1)}

Put(f, x, y) == [z \in DOMAIN f \cup {x} |-> IF z = x THEN y ELSE f[z]]

Seqs == 0..(SeqSpace - 1)
Chunks == [w : Seqs, i : 0..(MaxChunks - 1), total : 1..MaxChunks]
Tracks == 1..MaxTracks
NoTrack == 0
None == [nrs |-> -1]

Data(s, c) == [t |-> "data", seq |-> s, chunk |-> c]
Retx(s, c) == [t |-> "retx", seq |-> s, chunk |-> c]
Fec(s, members) == [t |-> "fec", seq |-> s, xor |-> members]

Init ==
    /\ writes = 0 /\ chunk = [left |-> 0, total |-> 0] /\ nextPkt = 0
    /\ groups = [g \in 0..(FecStride - 1) |-> <<>>]
    /\ retx = <<>> /\ net = {} /\ nacks = {}
    /\ track = [t \in Tracks |-> "new"] /\ locked = NoTrack
    /\ hand = [t \in Tracks |-> None] /\ raw = <<>> /\ nextRead = 0 /\ pool = <<>>
    /\ gaps = {} /\ received = {} /\ nextExpect = 0 /\ initialized = FALSE
    /\ readCh = <<>> /\ reassembly = {} /\ asm = [at |-> "select", w |-> 0]
    /\ stall = FALSE /\ delivered = <<>> /\ jumps = {} /\ closed = FALSE
    /\ sentAs = <<>> /\ seen = {} /\ first = 0 /\ top = 0

-----------------------------------------------------------------------------
(* Sender.                                                                 *)

\* Write takes the next write sequence and splits its argument.
Write(total) ==
    /\ chunk.left = 0 /\ writes < MaxWrites /\ nextPkt + total <= MaxPackets /\ ~closed
    /\ writes' = writes + 1
    /\ chunk' = [left |-> total, total |-> total]
    /\ UNCHANGED <<nextPkt, groups, retx, sentAs, net, nacks, lockVars, raw, nextRead,
                   pool, nackVars, readCh, asmVars>>

\* FECEncoder.AddPacket: the group is chosen by the packet sequence; a full
\* one gives a parity packet and starts anew.
AddPacket(s, c) ==
    LET g == s % FecStride
        members == Append(groups[g], [seq |-> s, chunk |-> c])
        full == Len(members) = FecK
    IN  /\ groups' = [groups EXCEPT ![g] = IF full THEN <<>> ELSE members]
        /\ net' = net \cup {Data(s, c)} \cup
                    (IF full
                     THEN {Fec(members[1].seq, {members[i].chunk : i \in 1..FecK})}
                     ELSE {})

\* One chunk: it is kept for retransmission, sent, and added to its group.
SendChunk ==
    LET s == Seq16(nextPkt)
        c == [w |-> Seq16(writes - 1), i |-> chunk.total - chunk.left, total |-> chunk.total]
    IN  /\ ~closed /\ chunk.left > 0
        /\ chunk' = [chunk EXCEPT !.left = @ - 1]
        /\ nextPkt' = nextPkt + 1
        /\ retx' = Put(retx, s % RetxBufSize, [seq |-> s, chunk |-> c])
        /\ sentAs' = Put(sentAs, s, c)
        /\ AddPacket(s, c)
        /\ UNCHANGED <<writes, nacks, lockVars, raw, nextRead, pool, nackVars, readCh,
                       asmVars>>

Stored(s) == s % RetxBufSize \in DOMAIN retx /\ retx[s % RetxBufSize].seq = s

\* Mutation: a NACK is consumed and nothing is sent.
HandleNACKSilent(s) ==
    /\ ~closed /\ s \in nacks
    /\ nacks' = nacks \ {s}
    /\ UNCHANGED <<sendVars, net, lockVars, raw, nextRead, pool, nackVars, readCh, asmVars>>

\* handleNACKPacket: a sequence that is still in the buffer is sent again.  A
\* NACK packet names several; each goes its own way here.
HandleNACK(s) ==
    /\ ~closed /\ s \in nacks
    /\ nacks' = nacks \ {s}
    /\ net' = IF Stored(s) THEN net \cup {Retx(s, retx[s % RetxBufSize].chunk)} ELSE net
    /\ UNCHANGED <<sendVars, lockVars, raw, nextRead, pool, nackVars, readCh, asmVars>>

\* A NACK does not arrive, or names three or more packets and comes while the
\* sender's own receiving side is not locked, which drops it.
NACKLost(s) ==
    /\ ~closed /\ s \in nacks
    /\ nacks' = nacks \ {s}
    /\ UNCHANGED <<sendVars, net, lockVars, raw, nextRead, pool, nackVars, readCh, asmVars>>

-----------------------------------------------------------------------------
(* SFU and tracks.  A frame that is lost stays in net for ever; so does    *)
(* one that HandleTrack drops for its track before it looks at the write   *)
(* sequence.                                                               *)

\* The track closes (re-negotiation): its goroutine ends and releases its lock.
TrackCloses(t) ==
    /\ ~closed /\ locked = t /\ hand[t] = None
    /\ track' = [track EXCEPT ![t] = "gone"]
    /\ locked' = NoTrack
    /\ UNCHANGED <<sendVars, net, nacks, hand, jumps, raw, nextRead, pool, nackVars, readCh,
                   asmVars>>

-----------------------------------------------------------------------------
(* Receiver: HandleTrack.                                                  *)

\* A frame on the locked track goes to reliabilityLoop.  On a track that could
\* be locked, the goroutine reads nextReadSeq for a packet that has a write
\* sequence.
HandleTrack(t, p) ==
    /\ ~closed /\ track[t] # "gone" /\ hand[t] = None
    /\ \A u \in 1..(t - 1) : track[u] # "new"
    /\ track' = [track EXCEPT ![t] = "live"]
    /\ net' = net \ {p}
    /\ \/ /\ locked = t /\ Len(raw) < RawCap
          /\ raw' = Append(raw, p)
          /\ UNCHANGED hand
       \/ /\ locked = NoTrack /\ p.t \in {"data", "retx"}
          /\ hand' = [hand EXCEPT ![t] = [nrs |-> nextRead, p |-> p]]
          /\ UNCHANGED raw
    /\ UNCHANGED <<sendVars, nacks, locked, jumps, nextRead, pool, nackVars, readCh,
                   asmVars>>

\* A track is taken when nothing was read yet or the packet's write sequence is
\* near.
MayLock(w, nrs) == nrs = 0 \/ seqClose(w, nrs)

\* Mutation: every lock restarts the read sequence at the packet's.
LockSeqAlways(w, nrs) == w

\* The read sequence after locking: the packet's if nothing had been read.
LockSeq(w, nrs) == IF nrs = 0 /\ w # 0 THEN w ELSE nextRead

\* The goroutine decides under lockedMu, from the nextReadSeq it read before:
\* reassemblyLoop may have moved on, and another track may have been locked.
LockTrack(t) ==
    LET p == hand[t].p
        w == p.chunk.w
        nrs == hand[t].nrs
    IN  /\ ~closed /\ hand[t] # None
        /\ hand' = [hand EXCEPT ![t] = None]
        /\ IF locked = NoTrack /\ MayLock(w, nrs)
           THEN /\ locked' = t
                /\ nextRead' = LockSeq(w, nrs)
                /\ jumps' = IF nrs = 0 /\ w # 0
                            THEN jumps \cup {Len(delivered) + (IF asm.at = "found" THEN 1 ELSE 0)}
                            ELSE jumps
                /\ raw' = Append(raw, p)
           ELSE UNCHANGED <<locked, nextRead, jumps, raw>>
        /\ UNCHANGED <<sendVars, net, nacks, track, pool, nackVars, readCh, asmVars>>

-----------------------------------------------------------------------------
(* Receiver: reliabilityLoop.                                              *)

\* NACKTracker.Record and Resolve end by moving nextExpect past what has been
\* received.
Advanced(rec) ==
    LET n == CHOOSE n \in 0..SeqSpace :
                 /\ \A i \in 0..(n - 1) : Seq16(nextExpect + i) \in rec
                 /\ Seq16(nextExpect + n) \notin rec \/ n = SeqSpace
    IN  [next |-> Seq16(nextExpect + n),
         rec |-> rec \ {Seq16(nextExpect + i) : i \in 0..(n - 1)}]

\* The missing sequences a new packet uncovers.
RecordGaps(s, rec) ==
    IF seqAfter(s, nextExpect) THEN SeqRange(nextExpect, s) \ rec ELSE {}

\* Mutation: Prune is given the packet's own sequence.
PrunedByPacket(S, s) == IF s % PruneEvery = 0 THEN {x \in S : ~seqAfter(s, x)} ELSE S

\* Prune is given a write sequence, and takes it for a packet sequence.
Pruned(S, s) == IF s % PruneEvery = 0 THEN {x \in S : ~seqAfter(nextRead, x)} ELSE S

\* handleDataPacket.
HandleData(s, c) ==
    /\ pool' = Restrict(Put(pool, s, c), Pruned(DOMAIN pool \cup {s}, s))
    /\ seen' = seen \cup {s}
    /\ IF ~initialized
       THEN /\ nextExpect' = Seq16(s + 1) /\ initialized' = TRUE
            /\ first' = s /\ top' = s
            /\ UNCHANGED <<gaps, received>>
       ELSE LET rec == received \cup {s}
                found == (gaps \ {s}) \cup RecordGaps(s, rec)
            IN  /\ gaps' = Pruned(found, s)
                /\ nextExpect' = Advanced(rec).next
                /\ received' = Pruned(Advanced(rec).rec, s)
                /\ top' = IF seqAfter(s, top) THEN s ELSE top
                /\ UNCHANGED <<initialized, first>>
    /\ readCh' = Append(readCh, c)

\* Mutation: the decoder takes neighbouring packets for the group.
MembersAdjacent(p) == {Seq16(p.seq + i) : i \in 0..(FecK - 1)}

\* FECDecoder.Recover: the group the parity packet names.
Members(p) == {Seq16(p.seq + i * FecStride) : i \in 0..(FecK - 1)}

\* handleFECPacket: with exactly one member missing, the XOR of the parity and
\* the others is that member; of other packets than its members it is no chunk
\* that was sent, and discarded when its length is impossible.
HandleFEC(p) ==
    LET missing == Members(p) \ DOMAIN pool
        left == LET have == {pool[s] : s \in Members(p) \cap DOMAIN pool}
                IN  (p.xor \ have) \cup (have \ p.xor)
    IN  \/ /\ Cardinality(missing) = 1
           /\ \E s \in missing, c \in IF Cardinality(left) = 1 THEN left ELSE Chunks :
                /\ pool' = Put(pool, s, c)
                /\ gaps' = gaps \ {s}
                /\ nextExpect' = Advanced(received \cup {s}).next
                /\ received' = Advanced(received \cup {s}).rec
                /\ seen' = seen \cup {s}
                /\ readCh' = Append(readCh, c)
           /\ UNCHANGED <<initialized, first, top>>
        \/ /\ Cardinality(missing) # 1 \/ Cardinality(left) # 1
           /\ UNCHANGED <<pool, nackVars, readCh>>

HandleRaw ==
    LET p == Head(raw)
    IN  /\ ~closed /\ raw # <<>> /\ Len(readCh) < ReadCap
        /\ raw' = Tail(raw)
        /\ IF p.t = "fec" THEN HandleFEC(p) ELSE HandleData(p.seq, p.chunk)
        /\ UNCHANGED <<sendVars, net, nacks, lockVars, nextRead, asmVars>>

\* A gap is due for a first NACK when FEC had its time, and for another one
\* when the last has been lost or answered.
GetNACKs == gaps \ nacks

\* nackLoop.
SendNACK(s) ==
    /\ ~closed /\ s \in GetNACKs
    /\ nacks' = nacks \cup {s}
    /\ UNCHANGED <<sendVars, net, lockVars, raw, nextRead, pool, nackVars, readCh, asmVars>>

-----------------------------------------------------------------------------
(* Receiver: reassemblyLoop.                                               *)

Complete(R, w) ==
    \E c \in R : c.w = w /\ \A i \in 0..(c.total - 1) :
                    [w |-> w, i |-> i, total |-> c.total] \in R

HasBufferedAhead(R, next) == ~Complete(R, next) /\ \E c \in R : seqAfter(c.w, next)

\* Mutation: the timer is stopped but never started.
TimerNeverStarts(R, next) == stall /\ HasBufferedAhead(R, next)

\* The stall timer runs on, starts or stops.
TimerAfter(R, next) == HasBufferedAhead(R, next)

At(step, w) == [at |-> step, w |-> w]

\* A chunk arrives; deliverReady begins.
Reassemble ==
    /\ ~closed /\ asm.at = "select" /\ readCh # <<>>
    /\ readCh' = Tail(readCh)
    /\ reassembly' = reassembly \cup {Head(readCh)}
    /\ asm' = At("look", 0)
    /\ UNCHANGED <<sendVars, net, nacks, lockVars, raw, nextRead, pool, nackVars, stall,
                   delivered, closed>>

\* deliverReady finds the next write complete, or ends.
Look ==
    /\ ~closed /\ asm.at = "look"
    /\ asm' = IF Complete(reassembly, nextRead) THEN At("found", nextRead) ELSE At("timer", 0)
    /\ UNCHANGED <<sendVars, net, nacks, lockVars, raw, nextRead, pool, nackVars, readCh,
                   reassembly, stall, delivered, closed>>

\* It deletes what nextReadSeq names by now, increments it and gives the write
\* it found to Read.
Deliver ==
    /\ ~closed /\ asm.at = "found"
    /\ reassembly' = {c \in reassembly : c.w # nextRead}
    /\ nextRead' = Seq16(nextRead + 1)
    /\ delivered' = Append(delivered, asm.w)
    /\ asm' = At("look", 0)
    /\ UNCHANGED <<sendVars, net, nacks, lockVars, raw, pool, nackVars, readCh, stall, closed>>

\* The stall timer after deliverReady: running exactly when later writes are
\* held back.
SetTimer ==
    /\ ~closed /\ asm.at = "timer"
    /\ stall' = TimerAfter(reassembly, nextRead)
    /\ asm' = At("select", 0)
    /\ UNCHANGED <<sendVars, net, nacks, lockVars, raw, nextRead, pool, nackVars, readCh,
                   reassembly, delivered, closed>>

\* Three seconds with a write missing: the connection is closed, unless the
\* write was completed meanwhile.
StallFires ==
    /\ ~closed /\ asm.at = "select" /\ stall
    /\ IF Complete(reassembly, nextRead)
       THEN stall' = FALSE /\ asm' = At("look", 0) /\ UNCHANGED closed
       ELSE closed' = TRUE /\ UNCHANGED <<stall, asm>>
    /\ UNCHANGED <<sendVars, net, nacks, lockVars, raw, nextRead, pool, nackVars, readCh,
                   reassembly, delivered>>

-----------------------------------------------------------------------------
Next ==
    \/ \E n \in 1..MaxChunks : Write(n)
    \/ SendChunk
    \/ \E s \in nacks : HandleNACK(s) \/ NACKLost(s)
    \/ \E t \in Tracks : TrackCloses(t) \/ LockTrack(t)
    \/ \E t \in Tracks, p \in net : HandleTrack(t, p)
    \/ HandleRaw
    \/ \E s \in gaps : SendNACK(s)
    \/ Reassemble \/ Look \/ Deliver \/ SetTimer \/ StallFires

\* The packets that can become gaps: the tracker begins with the first packet it
\* sees, and finds a missing one by a later one.
Losable == 1..(MaxPackets - 2)

\* Fairness: the goroutines run and the stall timer fires.  The loss on the
\* media path is random: a frame or a NACK sent again and again gets through; of
\* NACKs this asks as well that the other direction be locked from time to time.
Fairness ==
    /\ WF_vars(Reassemble \/ Look \/ Deliver \/ SetTimer)
    /\ WF_vars(StallFires) /\ WF_vars(HandleRaw)
    /\ \A s \in Losable :
         /\ WF_vars(SendNACK(s))
         /\ SF_vars(HandleNACK(s))
         /\ SF_vars(\E p \in net : p.t = "retx" /\ p.seq = s /\ locked # NoTrack
                                     /\ HandleTrack(locked, p))

Spec == Init /\ [][Next]_vars /\ Fairness

-----------------------------------------------------------------------------
(* Properties.                                                             *)

\* The variables have the types of the code's fields.
TypeOK ==
    /\ writes \in 0..MaxWrites /\ nextPkt \in 0..MaxPackets
    /\ chunk.left \in 0..chunk.total
    /\ \A g \in DOMAIN groups : Len(groups[g]) < FecK
    /\ \A i \in DOMAIN retx : retx[i].seq % RetxBufSize = i
    /\ nacks \subseteq Seqs /\ gaps \subseteq Seqs /\ received \subseteq Seqs
    /\ nextRead \in Seqs /\ nextExpect \in Seqs
    /\ DOMAIN pool \subseteq Seqs /\ reassembly \subseteq Chunks
    /\ locked \in Tracks \cup {NoTrack} /\ (locked # NoTrack => track[locked] = "live")
    /\ Len(readCh) <= ReadCap
    /\ asm.at \in {"select", "look", "found", "timer"} /\ asm.w \in Seqs
    /\ {stall, closed, initialized} \subseteq BOOLEAN

\* Read is given each write followed by the next one, whatever was lost,
\* retransmitted, recovered or reordered, except where HandleTrack locked a
\* track with a nextReadSeq it had read as 0: deliverReady may have passed it
\* meanwhile, or be about to, and the write sequence it is set to skips writes
\* or comes to one a second time.
ContiguousDelivery ==
    \A i \in 1..(Len(delivered) - 1) :
        delivered[i + 1] = Seq16(delivered[i] + 1) \/ i \in jumps

\* What is held for a packet, and given to the reassembly under a sequence, is
\* what was sent in it: a FEC group never recovers anything else.  And Read is
\* given a write only when every packet of it has arrived.
PoolAuthentic ==
    /\ TypeOK
    /\ \A s \in DOMAIN pool : s \in DOMAIN sentAs /\ pool[s] = sentAs[s]
    /\ \A i \in DOMAIN delivered : \A s \in DOMAIN sentAs :
          sentAs[s].w = delivered[i] => s \in seen

\* A packet missing below the highest one recorded, of a write that is still
\* to be delivered, is asked for until it comes: no Record, Resolve or Prune
\* forgets it.
GapNotForgotten ==
    initialized =>
        \A s \in DOMAIN sentAs \ seen :
            /\ seqAfter(s, first) /\ seqAfter(top, s)
            /\ ~seqAfter(nextRead, sentAs[s].w)
            => s \in gaps

\* While the track lasts, a missing packet is received in the end, unless the
\* connection closes or its slot of the retransmit buffer is used again.
GapRepaired ==
    \A s \in Losable :
        (s \in gaps) ~> (s \notin gaps \/ closed \/ locked = NoTrack \/ ~Stored(s))

\* A hole does not hold back later writes for ever: it is filled or the
\* connection is closed.
HoleEnds ==
    HasBufferedAhead(reassembly, nextRead)
        ~> (closed \/ ~HasBufferedAhead(reassembly, nextRead))

=============================================================================
