--------------------------- MODULE ReorderBuffer ----------------------------
(***************************************************************************)
(* The receiving end of one striped stream (dispatch, dispatchStriped,     *)
(* closeStream and the gap check of RemoveConn in internal/mux/mux.go):    *)
(* frames of the stream arrive over several connections in any order, some *)
(* never, some more than once (retransmission), FrameClose among them, and *)
(* time passes.  Sequence numbers wrap.                                    *)
(*                                                                         *)
(* Two goroutines touch the stream without a lock: DispatchLoop, which     *)
(* looks the stream up, inserts, sends what Insert returned and then looks *)
(* at the limits; and the reader of a dead connection in RemoveConn, which *)
(* sees a gap that has timed out, swaps closed, closes done and removes    *)
(* the stream from the map, flushes the buffer and closes recv.  Steps of  *)
(* the one fall between steps of the other.  When the second finds the     *)
(* first between look-up and limits, the close is "torn".                  *)
(***************************************************************************)
EXTENDS ReorderOps

CONSTANTS
    NumChunks,   \* chunks the writer writes, at most SeqSpace
    Starts,      \* values nextSeq may have when the observation begins
    MaxTime      \* bound on the clock

ASSUME ChunksAssumption ==
    /\ NumChunks \in 1..SeqSpace
    /\ Starts \subseteq 0..(SeqSpace - 1)

VARIABLES
    st,           \* the Stream
    start,        \* sequence number of chunk 0
    now,          \* the clock
    loop,         \* DispatchLoop: [pc, hand], see below
    closer        \* the reader in RemoveConn: [pc, hand]

vars == <<st, start, now, loop, closer>>

(***************************************************************************)
(* loop.pc: "idle"; "insert", with the frame looked up for in hand; "send",*)
(* with the rest of what Insert returned in hand, and the limits still to  *)
(* be looked at; "panic": a send on the closed recv.                       *)
(* closer.pc: "none"; "stale", a timed-out gap has been seen; "swapped";   *)
(* in a torn close "flush", then "send" with the rest of what FlushAll     *)
(* returned in hand; "done", recv is closed.                               *)
(***************************************************************************)
Where(pc, hand) == [pc |-> pc, hand |-> hand]

Idle == Where("idle", <<>>)

Chunks == 0..(NumChunks - 1)

Wire(n) == (start + n) % SeqSpace

\* The chunks in recv, numbered in the order of Write.
Out == [i \in DOMAIN st.recv |-> CHOOSE n \in Chunks : Wire(n) = st.recv[i]]

\* "Works when sequences are within 2^31 of each other": a frame is never
\* further than half the sequence space from the point of delivery.
Window == SeqSpace \div 2

Init ==
    /\ start \in Starts
    /\ st = newStream(start)
    /\ now = 0
    /\ loop = Idle
    /\ closer = Where("none", <<>>)

\* A data frame carrying chunk n: dispatch finds the stream in the map.
ReceiveData(n) ==
    /\ loop.pc = "idle"
    /\ ~Ended(st)
    /\ n \in (Len(st.recv) - Window)..(Len(st.recv) + Window - 1)
    /\ loop' = Where("insert", <<Wire(n)>>)
    /\ UNCHANGED <<st, start, now, closer>>

InsertFrame ==
    /\ loop.pc = "insert"
    /\ st' = [st EXCEPT !.reorder = Insert(@, Head(loop.hand), now)]
    /\ loop' = Where("send", Flushed(st.reorder, Head(loop.hand)))
    /\ UNCHANGED <<start, now, closer>>

\* select on s.recv <- d and <-s.done: done is closed first, recv last.
SendChunk ==
    /\ loop.pc = "send" /\ loop.hand # <<>>
    /\ \/ /\ closer.pc # "done"
          /\ st' = [st EXCEPT !.recv = Append(@, Head(loop.hand))]
          /\ loop' = Where("send", Tail(loop.hand))
       \/ /\ Ended(st)
          /\ loop' = Idle
          /\ UNCHANGED st
       \/ /\ closer.pc = "done"
          /\ loop' = Where("panic", <<>>)
          /\ UNCHANGED st
    /\ UNCHANGED <<start, now, closer>>

CheckLimits ==
    /\ loop.pc = "send" /\ loop.hand = <<>>
    /\ st' = checkLimits(st, now)
    /\ loop' = Idle
    /\ UNCHANGED <<start, now, closer>>

ReceiveClose ==
    /\ loop.pc = "idle"
    /\ ~Ended(st)
    /\ st' = dispatchClose(st)
    /\ UNCHANGED <<start, now, loop, closer>>

-----------------------------------------------------------------------------
\* RemoveConn of a dying connection looks at every stream's reorder buffer; a look
\* while Insert changes it may see a gap that is not there.
ConnDies ==
    /\ closer.pc = "none"
    /\ ~Ended(st)
    /\ GapTimedOut(st.reorder, now) \/ loop.pc = "insert"
    /\ closer' = Where("stale", <<>>)
    /\ UNCHANGED <<st, start, now, loop>>

\* closed.Swap(true): the stream may have been closed since, or the gap filled.
SwapClosed ==
    /\ closer.pc = "stale"
    /\ st' = [st EXCEPT !.closed = TRUE]
    /\ closer' = Where(IF st.closed THEN "none" ELSE "swapped", <<>>)
    /\ UNCHANGED <<start, now, loop>>

\* close(done) and streams.Delete.  With DispatchLoop elsewhere nothing touches
\* the stream any more, and the rest of closeStream is one step with it.
CloseDone ==
    /\ closer.pc = "swapped"
    /\ IF loop.pc = "idle"
       THEN st' = finishClose(st, "gap") /\ closer' = Where("done", <<>>)
       ELSE st' = [st EXCEPT !.ended = "torn"] /\ closer' = Where("flush", <<>>)
    /\ UNCHANGED <<start, now, loop>>

Flush ==
    /\ closer.pc = "flush"
    /\ st' = [st EXCEPT !.reorder = FlushAllLeaves(@)]
    /\ closer' = Where("send", FlushAll(st.reorder))
    /\ UNCHANGED <<start, now, loop>>

\* FlushAll and Insert at once, on one heap and one map: the frames come out in
\* any order, any number of times or not at all, or an index is out of range.
HeapRace ==
    /\ closer.pc = "flush" /\ loop.pc = "insert"
    /\ st' \in TornClose(st, ToSet(loop.hand))
    /\ loop' \in {Idle, Where("panic", <<>>)}
    /\ closer' = Where("done", <<>>)
    /\ UNCHANGED <<start, now>>

FlushSend ==
    /\ closer.pc = "send"
    /\ IF closer.hand = <<>>
       THEN closer' = Where("done", <<>>) /\ UNCHANGED st
       ELSE /\ st' = [st EXCEPT !.recv = Append(@, Head(closer.hand))]
            /\ closer' = Where("send", Tail(closer.hand))
    /\ UNCHANGED <<start, now, loop>>

Tick ==
    /\ ~Ended(st)
    /\ now < MaxTime
    /\ now' = now + 1
    /\ UNCHANGED <<st, start, loop, closer>>

\* A panic ends the process.
Next ==
    /\ loop.pc # "panic"
    /\ \/ \E n \in Chunks : ReceiveData(n)
       \/ InsertFrame \/ SendChunk \/ CheckLimits
       \/ ReceiveClose
       \/ ConnDies \/ SwapClosed \/ CloseDone
       \/ Flush \/ HeapRace \/ FlushSend
       \/ Tick

Spec == Init /\ [][Next]_vars

-----------------------------------------------------------------------------
\* The buffer implements the in-order stream: every chunk is delivered once and
\* in order, also across the wrap of the sequence numbers and between the steps
\* of a RemoveConn that is about to close the stream; only the chunks flushed by
\* closeStream may come after a hole.  A close by RemoveConn that finds
\* dispatchStriped under way (mux.go:949 against 1114-1121) is excepted, as
\* InOrderStream says: what had been delivered stays, what follows it is open.
InOrder == INSTANCE InOrderStream WITH out <- Out, end <- StreamEnd[st.ended]

InOrderDelivery == InOrder!Spec

\* Until a torn close, the buffer holds only frames ahead of the reader, and a gap
\* timer runs exactly while it holds some (gapSince is neither left behind by a
\* filled gap nor missing when frames wait); and when dispatchStriped has
\* returned, a stream nobody has begun to close holds no more than the limit.
TimerIffBuffered ==
    /\ st.ended # "torn" =>
          /\ st.reorder.gapSince # NoGap <=> st.reorder.h # {}
          /\ st.reorder.nextSeq \notin st.reorder.h
    /\ loop.pc = "idle" /\ ~st.closed => Cardinality(st.reorder.h) <= MaxFrames

\* A graceful end (FrameClose, deferred or not) leaves no hole among the chunks
\* that had arrived by then: FrameClose waits for the reorder buffer to drain.
GracefulEndHasNoHole ==
    st.ended = "close" => \A i \in DOMAIN Out : Out[i] = i - 1
=============================================================================
