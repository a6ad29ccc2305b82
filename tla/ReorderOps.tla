----------------------------- MODULE ReorderOps -----------------------------
(***************************************************************************)
(* The reorderBuffer of internal/mux/protocol.go as operators on a record  *)
(*   [h |-> the stripSeqs in the heap (and in seenSet: the code keeps both *)
(*          in step), nextSeq |-> ..., gapSince |-> time or NoGap].        *)
(* Payloads are identified with their sequence numbers, which are unsigned *)
(* integers of SeqSpace values compared by signed subtraction.             *)
(***************************************************************************)
EXTENDS Integers, Sequences, FiniteSets, SequencesExt

CONSTANTS
    SeqSpace,    \* 2^32 in the code
    MaxFrames,   \* reorderMaxFrames
    GapTimeout,  \* reorderGapTimeout, in clock ticks
    NoGap        \* the zero time.Time of gapSince

ASSUME ReorderAssumption ==
    /\ SeqSpace \in Nat \ {0, 1}
    /\ SeqSpace % 2 = 0
    /\ MaxFrames \in Nat
    /\ GapTimeout \in Nat
    /\ NoGap \notin Nat

\* Mutation: sequence numbers are compared as plain unsigned integers.
BeforeUnsigned(a, b) == a < b

\* int32(a - b) < 0
Before(a, b) == (a - b) % SeqSpace >= SeqSpace \div 2

newReorderBuffer == [h |-> {}, nextSeq |-> 0, gapSince |-> NoGap]

\* Number of consecutive frames of h from sequence number s on.
RunLength(h, s) ==
    CHOOSE n \in 0..Cardinality(h) :
        /\ \A i \in 0..(n - 1) : (s + i) % SeqSpace \in h
        /\ (s + n) % SeqSpace \notin h

Duplicate(rb, s) == Before(s, rb.nextSeq) \/ s \in rb.h

\* Mutation: only the delivered frames are recognised as duplicates, and a
\* second copy of a buffered frame is flushed on its own.
FlushedRepeated(rb, s) ==
    IF Before(s, rb.nextSeq) THEN <<>>
    ELSE IF s \in rb.h THEN <<s>>
    ELSE [i \in 1..RunLength(rb.h \cup {s}, rb.nextSeq) |-> (rb.nextSeq + i - 1) % SeqSpace]

\* What Insert returns: the payloads that are now deliverable, in order.
Flushed(rb, s) ==
    IF Duplicate(rb, s) THEN <<>>
    ELSE [i \in 1..RunLength(rb.h \cup {s}, rb.nextSeq) |-> (rb.nextSeq + i - 1) % SeqSpace]

\* Mutation: the gap timer keeps running when the buffer has drained.
InsertKeepsTimer(rb, s, now) ==
    IF Duplicate(rb, s) THEN rb
    ELSE LET flushed == Flushed(rb, s)
         IN  [h        |-> (rb.h \cup {s}) \ ToSet(flushed),
              nextSeq  |-> (rb.nextSeq + Len(flushed)) % SeqSpace,
              gapSince |-> IF s # rb.nextSeq /\ rb.gapSince = NoGap THEN now
                           ELSE rb.gapSince]

\* Insert at time now: what it leaves in the buffer.
Insert(rb, s, now) ==
    IF Duplicate(rb, s) THEN rb
    ELSE LET flushed == Flushed(rb, s)
             rest    == (rb.h \cup {s}) \ ToSet(flushed)
         IN  [h        |-> rest,
              nextSeq  |-> (rb.nextSeq + Len(flushed)) % SeqSpace,
              gapSince |-> IF rest = {} THEN NoGap
                           ELSE IF s # rb.nextSeq /\ rb.gapSince = NoGap THEN now
                           ELSE rb.gapSince]

Overflowed(rb) == Cardinality(rb.h) > MaxFrames

GapTimedOut(rb, now) ==
    /\ rb.gapSince # NoGap
    /\ rb.h # {}
    /\ now - rb.gapSince > GapTimeout

\* FlushAll: the buffered frames in sequence order (nextSeq is not advanced).
FlushAll(rb) ==
    CHOOSE q \in [1..Cardinality(rb.h) -> rb.h] :
        \A i, j \in DOMAIN q : i < j => Before(q[i], q[j])

FlushAllLeaves(rb) == [rb EXCEPT !.h = {}, !.gapSince = NoGap]

-----------------------------------------------------------------------------
(***************************************************************************)
(* The receiving half of a Stream (internal/mux/mux.go): the reorder       *)
(* buffer, what has been sent on recv, closePending, closed (the atomic    *)
(* flag closeStream swaps), and how the stream ended: from close(done) on, *)
(* "no" until then.  Only RemoveConn's closeStream can be found between    *)
(* the two, by DispatchLoop.  The reader is taken to keep up, so that a    *)
(* send on recv does not block.                                            *)
(***************************************************************************)
newStream(first) ==
    [reorder |-> [newReorderBuffer EXCEPT !.nextSeq = first],
     recv |-> <<>>, closePending |-> FALSE, closed |-> FALSE, ended |-> "no"]

Ended(st) == st.ended # "no"

\* What the reader's end of the stream has come to.
StreamEnd == [no |-> "open", torn |-> "torn", close |-> "ended", gap |-> "ended",
              overflow |-> "ended"]

\* closeStream after the swap: flush the reorder buffer into recv, in order.
finishClose(st, why) ==
    [st EXCEPT !.recv = @ \o FlushAll(st.reorder),
               !.reorder = FlushAllLeaves(st.reorder),
               !.closed = TRUE,
               !.ended = why]

closeStream(st, why) == IF st.closed THEN st ELSE finishClose(st, why)

\* Insert, and the sends of what it returns on recv.
insertFrame(st, s, now) ==
    [st EXCEPT !.reorder = Insert(@, s, now), !.recv = @ \o Flushed(st.reorder, s)]

\* What dispatchStriped does after the sends.
checkLimits(st, now) ==
    IF Overflowed(st.reorder) THEN closeStream(st, "overflow")
    ELSE IF GapTimedOut(st.reorder, now) THEN closeStream(st, "gap")
    ELSE IF st.closePending /\ st.reorder.h = {} THEN closeStream(st, "close")
    ELSE st

\* dispatchStriped for a frame with stripSeq s, when nothing falls inside.
dispatchStriped(st, s, now) == checkLimits(insertFrame(st, s, now), now)

\* Mutation: FrameClose is executed although frames wait in the buffer.
closeAtOnce(st) == closeStream(st, "close")

\* dispatch of FrameClose: deferred while the reorder buffer holds frames.
dispatchClose(st) ==
    IF st.reorder.h # {} THEN [st EXCEPT !.closePending = TRUE]
    ELSE closeStream(st, "close")

(***************************************************************************)
(* RemoveConn's closeStream (close(done), FlushAll, the sends, close(recv))*)
(* while dispatchStriped is under way with the frames f in hand, without a *)
(* lock: which of the two pops or sends first is open, a send may lose to  *)
(* done, the heap is changed from both sides.  The reader is given frames  *)
(* that had arrived, in any order, at most as many as there are (a bound); *)
(* a panic is the case where nothing follows.                              *)
(***************************************************************************)
TornClose(st, f) ==
    {[st EXCEPT !.recv = @ \o q, !.reorder = FlushAllLeaves(@), !.ended = "torn"] :
        q \in UNION {[1..k -> st.reorder.h \cup f] :
                        k \in 0..Cardinality(st.reorder.h \cup f)}}
=============================================================================
