-------------------------- MODULE MuxStreamProofs ---------------------------
(***************************************************************************)
(* Proofs about MuxStream, for any finite set of connections, any channel, *)
(* ring and buffer sizes, any timeout and any number of chunks up to half  *)
(* the sequence space.                                                     *)
(*                                                                         *)
(* Argument.  A chunk leaves Write for exactly one place of a write        *)
(* channel, so inflight counts the places (Flow).  A chunk that is not     *)
(* excepted sits in the ring of a connection that has not been drained, or *)
(* among the frames being resent, from PushRing on (Rings); this says more *)
(* than ChunkBackedByRing, which counts every copy.  FrameOpen is sent     *)
(* once (OneOpen), so a striped receiver is a reorder buffer that begins   *)
(* at 0 (Receiver) and the lemmas of ReorderBufferProofs apply.  On a      *)
(* pinned stream whose connections are all up, the chunks follow FrameOpen *)
(* on one connection, and FrameClose follows those that were written       *)
(* before Close (Pinned).                                                  *)
(***************************************************************************)
EXTENDS MuxStream, FiniteSetTheorems, SequenceTheorems, TLAPS

\* A dispatch is one step here: DispatchLoop and RemoveConn are at rest.
Buf == INSTANCE ReorderBufferProofs WITH
    Starts <- {0}, start <- 0,
    loop <- [pc |-> "idle", hand |-> <<>>], closer <- [pc |-> "none", hand |-> <<>>]

Nums == 0..(NumChunks - 1)

DataFrames == [type : {"data"}, n : Nums]

AllFrames == [type : {"open", "data", "close"}, n : Nums]

InHand == wpc \in {"pushed", "full", "allfull"}

Types ==
    /\ striping \in BOOLEAN /\ life \in [Conns -> Lives]
    /\ wch \in [Conns -> Seq(DataFrames)] /\ ring \in [Conns -> Seq(DataFrames)]
    /\ resend \in [Conns -> Seq(DataFrames)] /\ net \in [Conns -> Seq(AllFrames)]
    /\ \A c \in Conns : Len(wch[c]) <= WriteChCap /\ Len(ring[c]) <= RingSize
    /\ spc \in {"new", "open", "failed", "closing", "closed"}
    /\ wpc \in {"idle", "error", "selected", "pushed", "full", "allfull"}
    /\ wconn \in Conns \cup {Nil} /\ pinned \in Conns \cup {Nil} /\ more \in BOOLEAN
    /\ nextStripSeq \in 0..NumChunks /\ owed \in 0..nextStripSeq
    /\ opened \in BOOLEAN /\ pending \in Seq(Nums) /\ replay \in Seq(Nums)
    /\ lostPeers \subseteq Conns /\ now \in Nat /\ risky \subseteq Nums
    /\ stale \in BOOLEAN /\ (stale => striping /\ opened)

\* Where the writer stands.
Writer ==
    /\ InHand \/ wpc = "selected" => wconn \in Conns
    /\ striping /\ wpc # "idle" => nextStripSeq >= 1
    /\ ~striping => wpc \in {"idle", "error"} /\ \A c \in Conns : wch[c] = <<>>
    /\ spc \in {"new", "failed"} => ~more /\ nextStripSeq = 0 /\ wpc = "idle"
    /\ spc \notin {"new", "failed"} /\ ~striping => pinned \in Conns

Flow ==
    /\ inflight = Cardinality(Queued) + (IF InHand THEN 1 ELSE 0)
    /\ inflight + (IF wpc = "selected" THEN 1 ELSE 0) <= nextStripSeq

\* Chunk n will be resent if a connection is lost.
Kept(n) ==
    \E c \in Conns : \/ n \in Frames(resend[c])
                     \/ life[c] # "drained" /\ n \in Frames(ring[c])

Rings ==
    /\ \A c \in Conns : resend[c] # <<>> => life[c] = "drained"
    /\ wpc = "pushed" /\ ChOpen(wconn) => Chunk \in risky \cup Frames(ring[wconn])
    /\ striping => \A n \in 0..(nextStripSeq - 1) :
                      n \in risky \/ Kept(n) \/ (n = Chunk /\ wpc # "idle")

\* There is one FrameOpen, and none left when it has been dispatched.
OneOpen ==
    /\ \A c, d \in Conns : \A i \in DOMAIN net[c], j \in DOMAIN net[d] :
          net[c][i].type = "open" /\ net[d][j].type = "open" =>
              spc # "new" /\ ~opened /\ c = d /\ i = j
    /\ spc = "new" => ~opened
    /\ ~opened => st = newStream(0) /\ replay = <<>>

Receiver == striping => Buf!Good(0, st) \/ Buf!Torn(st)

Intact == ~striping /\ ~WriteTimeouts /\ \A c \in Conns : life[c] = "up"

\* FrameOpen is on its way and is not one of the chunks.
Ahead(op) == IF op THEN 0 ELSE 1

\* The frames q of the pinned connection are in the order in which they were sent:
\* d chunks having been received, all those owed are received before FrameClose.
Line(q, d, op, pc, ow) ==
    \A i \in DOMAIN q :
        /\ q[i].type = "open" <=> i = 1 /\ ~op
        /\ q[i].type = "close" => pc = "closed" /\ d + (i - 1) - Ahead(op) >= ow

\* A stream that uses no reorder buffer.
PinnedStreams ==
    {s \in [reorder : [h : {{}}, nextSeq : {0}, gapSince : {NoGap}], recv : Seq(Nums),
             closePending : {FALSE}, closed : BOOLEAN, ended : {"no", "close"}] :
        s.closed <=> s.ended = "close"}

Pinned ==
    Intact =>
        /\ replay = <<>> /\ (~opened => pending = <<>>) /\ st \in PinnedStreams
        /\ \A c \in Conns : c # pinned \/ spc \in {"new", "failed"} => net[c] = <<>>
        /\ spc \in {"new", "failed"} => ~opened
        /\ st.ended = "close" => spc = "closed" /\ Len(st.recv) >= owed
        /\ spc \notin {"new", "failed"} =>
              /\ ~opened => net[pinned] # <<>>
              /\ spc # "closed" =>
                    Len(st.recv) + Len(net[pinned]) - Ahead(opened) = nextStripSeq
              /\ Line(net[pinned], Len(st.recv), opened, spc, owed)

IInv == Types /\ Writer /\ Flow /\ Rings /\ OneOpen /\ Receiver /\ Pinned

-----------------------------------------------------------------------------
LEMMA Numbers ==
    /\ SeqSpace \in Nat \ {0} /\ NumChunks \in Nat \ {0} /\ WriteChCap \in Nat
    /\ RingSize \in Nat \ {0} /\ MaxFrames \in Nat /\ NoGap \notin Nat
    /\ IsFiniteSet(Conns) /\ Nil \notin Conns /\ Modes \subseteq BOOLEAN
BY ReorderAssumption, StreamAssumption

LEMMA FrameFacts ==
    /\ DataFrames \subseteq AllFrames /\ Open \in AllFrames /\ Close \in AllFrames
    /\ Open.type = "open" /\ Close.type = "close"
    /\ \A n \in Nums : Data(n) \in DataFrames /\ Data(n).n = n /\ Data(n).type = "data"
BY Numbers DEF DataFrames, AllFrames, Open, Close, Data, Nums

LEMMA FramesOf ==
    ASSUME NEW q \in Seq(DataFrames)
    PROVE  \A n : n \in Frames(q) <=> \E i \in DOMAIN q : q[i].n = n
<1>1. \A i \in DOMAIN q : q[i] \in DataFrames
  BY ElementOfSeq
<1>2. \A i \in DOMAIN q : q[i].type = "data"
  BY <1>1 DEF DataFrames
<1>. QED
  BY <1>2 DEF Frames, ToSet

\* retransmitRing.Push keeps all frames but the one it evicts.
LEMMA PushFacts ==
    ASSUME NEW r \in Seq(DataFrames), Len(r) <= RingSize, NEW f \in DataFrames
    PROVE  /\ Push(r, f) \in Seq(DataFrames) /\ Len(Push(r, f)) <= RingSize
           /\ Evicted(r) \subseteq Nums
           /\ f.n \in Frames(Push(r, f)) /\ Frames(r) \subseteq Frames(Push(r, f)) \cup Evicted(r)
<1>1. CASE Len(r) < RingSize
  <2>1. PICK q : q = Append(r, f)
    OBVIOUS
  <2>2. /\ q \in Seq(DataFrames) /\ Len(q) = Len(r) + 1 /\ q[Len(q)] = f
        /\ DOMAIN q = 1..Len(q) /\ DOMAIN r = 1..Len(r) /\ Len(r) \in Nat
        /\ \A i \in 1..Len(r) : q[i] = r[i] /\ i \in 1..Len(q)
    BY <2>1
  <2>3. f.n \in Frames(q) /\ Frames(r) \subseteq Frames(q)
    BY <2>2, FramesOf
  <2>4. Push(r, f) = q /\ Evicted(r) = {}
    BY <1>1, <2>1 DEF Push, Evicted
  <2>5. Len(q) <= RingSize
    BY <1>1, <2>2, Numbers
  <2>. QED
    BY <2>2, <2>3, <2>4, <2>5
<1>2. CASE ~(Len(r) < RingSize)
  <2>1. PICK q : q = Append(Tail(r), f)
    OBVIOUS
  <2>2. Len(r) = RingSize /\ Len(r) \in Nat /\ r # <<>>
    BY <1>2, Numbers
  <2>3. /\ q \in Seq(DataFrames) /\ Len(q) = Len(r) /\ q[Len(q)] = f
        /\ DOMAIN q = 1..Len(q) /\ DOMAIN r = 1..Len(r)
        /\ \A i \in 2..Len(r) : q[i - 1] = r[i] /\ i - 1 \in 1..Len(q)
    BY <2>1, <2>2
  <2>4. Push(r, f) = q /\ Evicted(r) = {r[1].n}
    BY <1>2, <2>1, <2>2 DEF Push, Evicted
  <2>5. f.n \in Frames(q)
    BY <2>2, <2>3, FramesOf
  <2>6. ASSUME NEW n \in Frames(r), n # r[1].n
        PROVE  n \in Frames(q)
    <3>1. PICK i \in 1..Len(r) : r[i].n = n
      BY <2>3, FramesOf
    <3>2. i \in 2..Len(r)
      BY <2>2, <2>6, <3>1
    <3>. QED
      BY <2>3, <3>1, <3>2, FramesOf
  <2>7. r[1].n \in Nums
    <3>1. r[1] \in DataFrames
      BY <2>2
    <3>. QED
      BY <3>1 DEF DataFrames
  <2>. QED
    BY <2>2, <2>3, <2>4, <2>5, <2>6, <2>7
<1>. QED
  BY <1>1, <1>2

\* f is written to one connection, or is lost.
Grown(f) == net' = net \/ \E c \in Conns : net' = [net EXCEPT ![c] = @ \o f]

LEMMA SendGrows ==
    ASSUME NEW mc \in Conns, NEW f, NEW ok, SendFrameOn(mc, f, ok)
    PROVE  Grown(<<f>>)
BY Zenon DEF SendFrameOn, Transmit, Grown, Slots

LEMMA GrownType ==
    ASSUME net \in [Conns -> Seq(AllFrames)], NEW q \in Seq(AllFrames), Grown(q)
    PROVE  net' \in [Conns -> Seq(AllFrames)]
<1>1. CASE net' = net
  BY <1>1
<1>2. ASSUME NEW c \in Conns, net' = [net EXCEPT ![c] = @ \o q]
      PROVE  net' \in [Conns -> Seq(AllFrames)]
  <2>1. net[c] \o q \in Seq(AllFrames)
    OBVIOUS
  <2>. QED
    BY <1>2, <2>1
<1>. QED
  BY <1>1, <1>2 DEF Grown

-----------------------------------------------------------------------------
(* Types.                                                                  *)

ConnTypes ==
    /\ life \in [Conns -> Lives]
    /\ wch \in [Conns -> Seq(DataFrames)] /\ ring \in [Conns -> Seq(DataFrames)]
    /\ resend \in [Conns -> Seq(DataFrames)] /\ net \in [Conns -> Seq(AllFrames)]
    /\ \A c \in Conns : Len(wch[c]) <= WriteChCap /\ Len(ring[c]) <= RingSize

SendTypes ==
    /\ striping \in BOOLEAN
    /\ spc \in {"new", "open", "failed", "closing", "closed"}
    /\ wpc \in {"idle", "error", "selected", "pushed", "full", "allfull"}
    /\ wconn \in Conns \cup {Nil} /\ pinned \in Conns \cup {Nil} /\ more \in BOOLEAN
    /\ nextStripSeq \in 0..NumChunks /\ owed \in 0..nextStripSeq
    /\ risky \subseteq Nums

RecvTypes ==
    /\ opened \in BOOLEAN /\ pending \in Seq(Nums) /\ replay \in Seq(Nums)
    /\ lostPeers \subseteq Conns /\ now \in Nat
    /\ stale \in BOOLEAN /\ (stale => striping /\ opened)

LEMMA SplitTypes == Types <=> ConnTypes /\ SendTypes /\ RecvTypes
BY DEF Types, ConnTypes, SendTypes, RecvTypes

\* A frame read from a connection.
LEMMA HeadFacts ==
    ASSUME NEW T, NEW q \in Seq(T), q # <<>>
    PROVE  /\ Head(q) \in T /\ Tail(q) \in Seq(T) /\ Len(Tail(q)) = Len(q) - 1
           /\ Head(q) = q[1] /\ 1 \in DOMAIN q
           /\ \A i \in DOMAIN Tail(q) : i + 1 \in DOMAIN q /\ Tail(q)[i] = q[i + 1]
OBVIOUS

LEMMA ChunkType ==
    ASSUME Types, Writer, striping, wpc # "idle"
    PROVE  Chunk \in Nums /\ Chunk \in Nat /\ Chunk <= nextStripSeq
BY Numbers DEF Types, Writer, Chunk, Nums

LEMMA HandStriping ==
    ASSUME Types, Writer, InHand \/ wpc = "selected"
    PROVE  striping /\ wpc # "idle" /\ wconn \in Conns
BY DEF Types, Writer, InHand

LEMMA NextConnTypes ==
    ASSUME Types, Writer, Next
    PROVE  ConnTypes'
<1>. USE DEF connVars, sendVars, recvVars
<1>1. CASE OpenStream
  <2>1. Grown(<<Open>>)
    BY <1>1, SendGrows, Zenon DEF OpenStream, Grown, Types
  <2>2. <<Open>> \in Seq(AllFrames)
    BY FrameFacts
  <2>3. net' \in [Conns -> Seq(AllFrames)]
    BY <2>1, <2>2, GrownType DEF Types
  <2>. QED
    BY <1>1, <2>3 DEF OpenStream, Types, ConnTypes
<1>2. CASE StartWrite
  BY <1>2 DEF StartWrite, Types, ConnTypes
<1>3. CASE PushRing
  <2>1. wconn \in Conns /\ Data(Chunk) \in DataFrames
    BY <1>3, HandStriping, ChunkType, FrameFacts DEF PushRing
  <2>2. /\ Push(ring[wconn], Data(Chunk)) \in Seq(DataFrames)
        /\ Len(Push(ring[wconn], Data(Chunk))) <= RingSize
    BY <2>1, PushFacts DEF Types
  <2>3. ring' = [ring EXCEPT ![wconn] = Push(ring[wconn], Data(Chunk))]
    BY <1>3 DEF PushRing
  <2>. QED
    BY <1>3, <2>1, <2>2, <2>3 DEF PushRing, Types, ConnTypes
<1>4. ASSUME NEW c \in Conns, HasRoom(c), wch' = [wch EXCEPT ![c] = Append(@, Data(Chunk))],
             UNCHANGED <<life, ring, resend, net>>, InHand
      PROVE  ConnTypes'
  <2>1. Data(Chunk) \in DataFrames
    BY <1>4, HandStriping, ChunkType, FrameFacts
  <2>2. /\ Append(wch[c], Data(Chunk)) \in Seq(DataFrames)
        /\ Len(Append(wch[c], Data(Chunk))) <= WriteChCap
    <3>1. wch[c] \in Seq(DataFrames) /\ Len(wch[c]) < WriteChCap
      BY <1>4 DEF HasRoom, Types
    <3>. QED
      BY <2>1, <3>1, Numbers
  <2>. QED
    BY <1>4, <2>2 DEF Types, ConnTypes
<1>5. CASE TrySend
  <2>1. InHand /\ wconn \in Conns
    BY <1>5, HandStriping DEF TrySend, InHand
  <2>2. CASE UNCHANGED wch
    BY <1>5, <2>2 DEF TrySend, Types, ConnTypes
  <2>. QED
    BY <1>4, <1>5, <2>1, <2>2 DEF TrySend
<1>6. CASE TryAlt
  <2>1. InHand /\ Slots \subseteq Conns
    BY <1>6 DEF TryAlt, InHand, Slots
  <2>2. CASE UNCHANGED wch
    BY <1>6, <2>2 DEF TryAlt, Types, ConnTypes
  <2>. QED
    BY <1>4, <1>6, <2>1, <2>2 DEF TryAlt
<1>7. CASE SyncSend
  <2>1. wconn \in Conns /\ <<Data(Chunk)>> \in Seq(AllFrames)
    BY <1>7, HandStriping, ChunkType, FrameFacts DEF SyncSend, InHand
  <2>2. Grown(<<Data(Chunk)>>)
    BY <1>7, <2>1, SendGrows, Zenon DEF SyncSend
  <2>3. net' \in [Conns -> Seq(AllFrames)]
    BY <2>1, <2>2, GrownType DEF Types
  <2>. QED
    BY <1>7, <2>3 DEF SyncSend, Types, ConnTypes
<1>8. CASE WriteUnstriped
  <2>1. pinned \in Conns /\ <<Data(nextStripSeq)>> \in Seq(AllFrames)
    <3>1. pinned \in Conns
      BY <1>8 DEF WriteUnstriped, NextChunk, Types, Writer
    <3>2. nextStripSeq \in Nums
      BY <1>8, Numbers DEF WriteUnstriped, NextChunk, Types, Nums
    <3>. QED
      BY <3>1, <3>2, FrameFacts
  <2>2. Grown(<<Data(nextStripSeq)>>)
    BY <1>8, <2>1, SendGrows, Zenon DEF WriteUnstriped
  <2>3. net' \in [Conns -> Seq(AllFrames)]
    BY <2>1, <2>2, GrownType DEF Types
  <2>. QED
    BY <1>8, <2>3 DEF WriteUnstriped, Types, ConnTypes
<1>9. CASE CloseStarts
  BY <1>9 DEF CloseStarts, Types, ConnTypes
<1>10. CASE CloseSends
  <2>1. Grown(<<Close>>)
    BY <1>10, SendGrows, Zenon DEF CloseSends, Grown, Types, SelectConn, Slots
  <2>2. <<Close>> \in Seq(AllFrames)
    BY FrameFacts
  <2>3. net' \in [Conns -> Seq(AllFrames)]
    BY <2>1, <2>2, GrownType DEF Types
  <2>. QED
    BY <1>10, <2>3 DEF CloseSends, Types, ConnTypes
<1>11. CASE Replay
  BY <1>11 DEF Replay, Types, ConnTypes
<1>12. ASSUME NEW c \in Conns, WriteLoop(c)
       PROVE  ConnTypes'
  <2>1. PICK n \in 1..Len(wch[c]) :
            /\ wch' = [wch EXCEPT ![c] = SubSeq(@, n + 1, Len(@))]
            /\ net' = net \/ net' = [net EXCEPT ![c] = @ \o SubSeq(wch[c], 1, n)]
    BY <1>12 DEF WriteLoop, Transmit
  <2>2. PICK q : q = wch[c]
    OBVIOUS
  <2>3. q \in Seq(DataFrames) /\ Len(q) <= WriteChCap /\ n \in 1..Len(q)
    BY <2>1, <2>2 DEF Types
  <2>4. /\ SubSeq(q, n + 1, Len(q)) \in Seq(DataFrames) /\ SubSeq(q, 1, n) \in Seq(DataFrames)
        /\ Len(SubSeq(q, n + 1, Len(q))) <= WriteChCap
    BY <2>3, Numbers
  <2>5. SubSeq(q, 1, n) \in Seq(AllFrames)
    <3>1. Seq(DataFrames) \subseteq Seq(AllFrames)
      BY FrameFacts
    <3>. QED
      BY <2>4, <3>1
  <2>6. net' \in [Conns -> Seq(AllFrames)]
    BY <2>1, <2>2, <2>5, GrownType DEF Types, Grown
  <2>. QED
    BY <1>12, <2>1, <2>2, <2>4, <2>6 DEF WriteLoop, Types, ConnTypes
<1>13. ASSUME NEW c \in Conns, ReaderExits(c) \/ RemoveFromSlot(c)
       PROVE  ConnTypes'
  BY <1>13 DEF ReaderExits, RemoveFromSlot, Types, ConnTypes, Lives
<1>14. ASSUME NEW c \in Conns, DrainRing(c)
       PROVE  ConnTypes'
  <2>1. <<>> \in Seq(DataFrames) /\ Len(<<>>) <= RingSize
    BY Numbers
  <2>. QED
    BY <1>14, <2>1 DEF DrainRing, Types, ConnTypes, Lives
<1>15. ASSUME NEW c \in Conns, Resend(c)
       PROVE  ConnTypes'
  <2>1. PICK q : q = resend[c]
    OBVIOUS
  <2>2. q \in Seq(DataFrames) /\ q # <<>>
    BY <1>15, <2>1 DEF Resend, Types
  <2>3. Tail(q) \in Seq(DataFrames) /\ Head(q) \in AllFrames
    BY <2>2, FrameFacts, HeadFacts
  <2>4. resend' \in [Conns -> Seq(DataFrames)]
    <3>1. \/ resend' = [resend EXCEPT ![c] = Tail(q)]
          \/ resend' = [resend EXCEPT ![c] = <<>>]
      BY <1>15, <2>1 DEF Resend
    <3>2. <<>> \in Seq(DataFrames)
      OBVIOUS
    <3>. QED
      BY <2>3, <3>1, <3>2 DEF Types
  <2>5. Grown(<<Head(q)>>)
    BY <1>15, <2>1, Zenon DEF Resend, Transmit, Grown, Slots
  <2>6. <<Head(q)>> \in Seq(AllFrames)
    BY <2>3
  <2>7. net' \in [Conns -> Seq(AllFrames)]
    BY <2>5, <2>6, GrownType DEF Types
  <2>. QED
    BY <1>15, <2>4, <2>7 DEF Resend, Types, ConnTypes
<1>16. ASSUME NEW c \in Conns, Cut(c)
       PROVE  ConnTypes'
  <2>1. PICK n \in 0..Len(net[c]) : net' = [net EXCEPT ![c] = SubSeq(@, 1, n)]
    BY <1>16 DEF Cut
  <2>2. PICK q : q = net[c]
    OBVIOUS
  <2>3. SubSeq(q, 1, n) \in Seq(AllFrames)
    <3>1. q \in Seq(AllFrames) /\ n \in 0..Len(q)
      BY <2>1, <2>2 DEF Types
    <3>. QED
      BY <3>1
  <2>. QED
    BY <1>16, <2>1, <2>2, <2>3 DEF Cut, Types, ConnTypes, Lives
<1>17. ASSUME NEW c \in Conns, Receive(c)
       PROVE  ConnTypes'
  <2>1. Tail(net[c]) \in Seq(AllFrames)
    BY <1>17, HeadFacts DEF Receive, Types
  <2>. QED
    BY <1>17, <2>1 DEF Receive, Types, ConnTypes
<1>18. ASSUME NEW c \in Conns, PeerReaderExits(c)
       PROVE  ConnTypes'
  BY <1>18 DEF PeerReaderExits, Types, ConnTypes
<1>19. CASE Tick \/ PeerSwaps \/ PeerCloses
  BY <1>19 DEF Tick, PeerSwaps, PeerCloses, Types, ConnTypes
<1>. QED
  BY <1>1, <1>2, <1>3, <1>5, <1>6, <1>7, <1>8, <1>9, <1>10, <1>11, <1>12, <1>13, <1>14, <1>15,
     <1>16, <1>17, <1>18, <1>19 DEF Next, WriteStep, ConnStep

LEMMA NextSendTypes ==
    ASSUME Types, Writer, Next
    PROVE  SendTypes'
<1>. USE DEF connVars, sendVars, recvVars
<1>1. CASE OpenStream
  BY <1>1, Numbers DEF OpenStream, Types, SendTypes
<1>2. CASE StartWrite
  <2>1. nextStripSeq' \in 0..NumChunks /\ owed' \in 0..nextStripSeq'
    BY <1>2, Numbers DEF StartWrite, NextChunk, Types
  <2>2. wconn' \in Conns \cup {Nil} /\ wpc' \in {"error", "selected"} /\ more' \in BOOLEAN
    <3>1. (nextStripSeq + 1 < NumChunks) \in BOOLEAN
      OBVIOUS
    <3>2. more' \in BOOLEAN
      BY <1>2, <3>1, Zenon DEF StartWrite, NextChunk
    <3>3. wconn' \in Conns \cup {Nil} /\ wpc' \in {"error", "selected"}
      BY <1>2 DEF StartWrite
    <3>. QED
      BY <3>2, <3>3
  <2>. QED
    BY <1>2, <2>1, <2>2 DEF StartWrite, Types, SendTypes
<1>3. CASE PushRing
  <2>1. wconn \in Conns
    BY <1>3, HandStriping DEF PushRing
  <2>2. Evicted(ring[wconn]) \subseteq Nums
    <3>1. ring[wconn] \in Seq(DataFrames) /\ Len(ring[wconn]) <= RingSize
      BY <2>1 DEF Types
    <3>2. ring[wconn] = <<>> \/ ring[wconn][1] \in DataFrames
      BY <3>1
    <3>3. \A f \in DataFrames : f \in DataFrames
      OBVIOUS
    <3>4. ASSUME ring[wconn] # <<>>
          PROVE  Evicted(ring[wconn]) \subseteq Nums
      BY <3>2, <3>4 DEF Evicted, DataFrames
    <3>5. ASSUME ring[wconn] = <<>>
          PROVE  Evicted(ring[wconn]) \subseteq Nums
      <4>1. Len(<<>>) = 0 /\ 0 < RingSize
        BY Numbers
      <4>. QED
        BY <3>5, <4>1, Zenon DEF Evicted
    <3>. QED
      BY <3>4, <3>5
  <2>. QED
    BY <1>3, <2>2 DEF PushRing, Types, SendTypes
<1>4. ASSUME WriteDone \/ UNCHANGED wconn, wpc' \in {"idle", "full", "allfull"}, InHand,
             risky' = risky \/ risky' = risky \cup {Chunk},
             UNCHANGED <<striping, spc, more, pinned, nextStripSeq, owed>>
      PROVE  SendTypes'
  <2>1. Chunk \in Nums
    BY <1>4, HandStriping, ChunkType
  <2>. QED
    BY <1>4, <2>1 DEF WriteDone, Types, SendTypes
<1>5. CASE TrySend
  BY <1>4, <1>5 DEF TrySend, WriteDone, InHand
<1>6. CASE TryAlt
  BY <1>4, <1>6 DEF TryAlt, WriteDone, InHand
<1>7. CASE SyncSend
  BY <1>4, <1>7 DEF SyncSend, WriteDone, InHand
<1>8. CASE WriteUnstriped
  <2>1. nextStripSeq' \in 0..NumChunks /\ owed' \in 0..nextStripSeq'
    BY <1>8, Numbers DEF WriteUnstriped, NextChunk, Types
  <2>2. wpc' \in {"idle", "error"} /\ more' \in BOOLEAN
    <3>1. (nextStripSeq + 1 < NumChunks) \in BOOLEAN
      OBVIOUS
    <3>2. more' \in BOOLEAN
      BY <1>8, <3>1, Zenon DEF WriteUnstriped, NextChunk
    <3>3. wpc' \in {"idle", "error"}
      BY <1>8 DEF WriteUnstriped
    <3>. QED
      BY <3>2, <3>3
  <2>. QED
    BY <1>8, <2>1, <2>2 DEF WriteUnstriped, Types, SendTypes
<1>9. CASE CloseStarts
  <2>1. owed' \in 0..nextStripSeq
    <3>1. CASE striping /\ wpc # "idle"
      BY <1>9, <3>1 DEF CloseStarts, Chunk, Types, Writer
    <3>2. CASE ~(striping /\ wpc # "idle")
      BY <1>9, <3>2, Numbers DEF CloseStarts, Types
    <3>. QED
      BY <3>1, <3>2
  <2>. QED
    BY <1>9, <2>1 DEF CloseStarts, Types, SendTypes
<1>10. CASE CloseSends
  BY <1>10 DEF CloseSends, Types, SendTypes
<1>11. CASE Replay
  BY <1>11 DEF Replay, Types, SendTypes
<1>12. ASSUME NEW c \in Conns, ConnStep(c)
       PROVE  SendTypes'
  <2>1. ASSUME Resend(c)
        PROVE  risky' \subseteq Nums
    <3>1. PICK q : q = resend[c]
      OBVIOUS
    <3>2. q \in Seq(DataFrames) /\ q # <<>>
      BY <2>1, <3>1 DEF Resend, Types
    <3>3. \A f \in ToSet(q) : f \in DataFrames
      BY <3>2 DEF ToSet
    <3>4. \A f \in DataFrames : f.n \in Nums
      BY DEF DataFrames
    <3>5. Head(q) \in DataFrames
      BY <3>2
    <3>6. \/ risky' = risky \cup {Head(q).n}
          \/ risky' = risky \cup {f.n : f \in ToSet(q)}
      BY <2>1, <3>1, Zenon DEF Resend
    <3>7. {f.n : f \in ToSet(q)} \subseteq Nums /\ Head(q).n \in Nums /\ risky \subseteq Nums
      BY <3>3, <3>4, <3>5 DEF Types
    <3>. QED
      BY <3>6, <3>7
  <2>2. CASE Resend(c)
    BY <2>1, <2>2 DEF Resend, Types, SendTypes
  <2>. QED
    BY <1>12, <2>2 DEF ConnStep, WriteLoop, ReaderExits, RemoveFromSlot, DrainRing, Types, SendTypes
<1>13. ASSUME NEW c \in Conns,
              Cut(c) \/ Receive(c) \/ PeerReaderExits(c)
       PROVE  SendTypes'
  BY <1>13 DEF Cut, Receive, PeerReaderExits, Types, SendTypes
<1>14. CASE Tick \/ PeerSwaps \/ PeerCloses
  BY <1>14 DEF Tick, PeerSwaps, PeerCloses, Types, SendTypes
<1>. QED
  BY <1>1, <1>2, <1>3, <1>5, <1>6, <1>7, <1>8, <1>9, <1>10, <1>11, <1>12, <1>13, <1>14
     DEF Next, WriteStep

LEMMA NextRecvTypes ==
    ASSUME Types, Writer, Next
    PROVE  RecvTypes'
<1>. USE DEF connVars, sendVars, recvVars
<1>. striping' = striping
  BY DEF Next, OpenStream, StartWrite, WriteStep, PushRing, TrySend, TryAlt, SyncSend,
         WriteUnstriped, CloseStarts, CloseSends, ConnStep, WriteLoop, ReaderExits,
         RemoveFromSlot, DrainRing, Resend, Cut, Tick, Replay, Receive, PeerReaderExits,
         PeerSwaps, PeerCloses
<1>1. CASE UNCHANGED <<opened, pending, replay, lostPeers, stale, now>>
  BY <1>1 DEF Types, RecvTypes
<1>2. CASE Replay
  <2>1. Tail(replay) \in Seq(Nums)
    BY <1>2, HeadFacts DEF Replay, Types
  <2>. QED
    BY <1>2, <2>1 DEF Replay, Types, RecvTypes
<1>3. ASSUME NEW c \in Conns, Receive(c)
      PROVE  RecvTypes'
  <2>1. PICK f : f = Head(net[c])
    OBVIOUS
  <2>2. f \in AllFrames
    BY <1>3, <2>1, HeadFacts DEF Receive, Types
  <2>3. CASE f.type = "open"
    <3>1. <<>> \in Seq(Nums)
      OBVIOUS
    <3>2. ReceiveOpen /\ UNCHANGED <<lostPeers, stale, now>>
      BY <1>3, <2>1, <2>3 DEF Receive
    <3>. QED
      BY <3>1, <3>2 DEF ReceiveOpen, Types, RecvTypes
  <2>4. CASE f.type = "data"
    <3>1. ReceiveData(f.n) /\ UNCHANGED <<lostPeers, stale, now>>
      BY <1>3, <2>1, <2>4 DEF Receive
    <3>2. Append(pending, f.n) \in Seq(Nums)
      BY <2>2 DEF AllFrames, Types
    <3>. QED
      BY <3>1, <3>2 DEF ReceiveData, Types, RecvTypes
  <2>5. CASE f.type = "close"
    <3>1. ReceiveClose /\ UNCHANGED <<lostPeers, stale, now>>
      BY <1>3, <2>1, <2>5 DEF Receive
    <3>. QED
      BY <3>1 DEF ReceiveClose, Types, RecvTypes
  <2>. QED
    BY <2>2, <2>3, <2>4, <2>5 DEF AllFrames
<1>4. ASSUME NEW c \in Conns, PeerReaderExits(c)
      PROVE  RecvTypes'
  <2>1. UNCHANGED <<opened, pending, replay, now>> /\ lostPeers' \subseteq Conns
    BY <1>4 DEF PeerReaderExits, Types
  <2>2. PICK seen \in GapSeen : stale' = (stale \/ seen)
    BY <1>4 DEF PeerReaderExits
  <2>3. seen \in BOOLEAN /\ (seen => striping /\ opened)
    BY DEF GapSeen, GapTimedOut, Registered
  <2>. QED
    BY <2>1, <2>2, <2>3 DEF Types, RecvTypes
<1>5. CASE Tick
  BY <1>5 DEF Tick, Types, RecvTypes
<1>7. CASE PeerSwaps
  BY <1>7 DEF PeerSwaps, Types, RecvTypes
<1>6. \/ UNCHANGED <<opened, pending, replay, lostPeers, stale, now>> \/ Replay \/ Tick \/ PeerSwaps
      \/ \E c \in Conns : Receive(c) \/ PeerReaderExits(c)
  BY DEF Next, OpenStream, StartWrite, WriteStep, PushRing, TrySend, TryAlt, SyncSend,
         WriteUnstriped, CloseStarts, CloseSends, ConnStep, WriteLoop, ReaderExits,
         RemoveFromSlot, DrainRing, Resend, Cut, PeerCloses
<1>. QED
  BY <1>1, <1>2, <1>3, <1>4, <1>5, <1>6, <1>7

LEMMA NextWriter ==
    ASSUME Types, Writer, Next
    PROVE  Writer'
<1>. USE DEF connVars, sendVars, recvVars
<1>1. CASE OpenStream
  <2>1. \E c \in Conns \cup {Nil} :
           /\ SelectConn(c) /\ pinned' = IF striping THEN Nil ELSE c
           /\ (c = Nil /\ spc' = "failed") \/ (c # Nil /\ spc' \in {"open", "failed"})
    BY <1>1 DEF OpenStream
  <2>2. spc' \in {"open", "failed"} /\ (spc' = "open" /\ ~striping => pinned' \in Conns)
    BY <2>1
  <2>. QED
    BY <1>1, <2>2, Zenon DEF OpenStream, Types, Writer, InHand
<1>2. CASE StartWrite
  <2>1. striping /\ nextStripSeq' >= 1 /\ spc \notin {"new", "failed"}
    BY <1>2, Numbers DEF StartWrite, NextChunk, Types, Writer
  <2>2. wpc' = "error" \/ (wpc' = "selected" /\ wconn' \in Conns)
    BY <1>2, Zenon DEF StartWrite
  <2>. QED
    BY <1>2, <2>1, <2>2 DEF StartWrite, Writer, InHand
<1>3. CASE WriteStep
  <2>1. striping /\ wconn \in Conns /\ wpc # "idle"
    BY <1>3, HandStriping DEF WriteStep, PushRing, TrySend, TryAlt, SyncSend, InHand
  <2>2. /\ UNCHANGED <<striping, spc, more, pinned, nextStripSeq>>
        /\ wpc' = "idle" \/ (wconn' = wconn /\ wpc' \in {"pushed", "full", "allfull"})
    BY <1>3 DEF WriteStep, PushRing, TrySend, TryAlt, SyncSend, WriteDone
  <2>. QED
    BY <2>1, <2>2, Zenon DEF Writer, InHand
<1>4. CASE WriteUnstriped
  <2>1. spc \notin {"new", "failed"}
    BY <1>4 DEF WriteUnstriped, NextChunk, Types, Writer
  <2>2. wpc' \in {"idle", "error"}
    BY <1>4 DEF WriteUnstriped
  <2>. QED
    BY <1>4, <2>1, <2>2, Zenon DEF WriteUnstriped, Writer, InHand
<1>5. CASE CloseStarts \/ CloseSends
  BY <1>5 DEF CloseStarts, CloseSends, Writer, InHand
<1>6. ASSUME NEW c \in Conns, WriteLoop(c)
      PROVE  Writer'
  <2>1. striping
    <3>1. Len(wch[c]) >= 1
      BY <1>6 DEF WriteLoop, Types
    <3>. QED
      BY <3>1 DEF Types, Writer
  <2>. QED
    BY <1>6, <2>1, Zenon DEF WriteLoop, Writer, InHand
<1>7. CASE UNCHANGED <<striping, spc, wpc, wconn, more, pinned, nextStripSeq, wch>>
  BY <1>7, Zenon DEF Writer, InHand
<1>8. \/ OpenStream \/ StartWrite \/ WriteStep \/ WriteUnstriped \/ CloseStarts \/ CloseSends
      \/ \E c \in Conns : WriteLoop(c)
      \/ UNCHANGED <<striping, spc, wpc, wconn, more, pinned, nextStripSeq, wch>>
  BY DEF Next, ConnStep, ReaderExits, RemoveFromSlot, DrainRing, Resend, Cut, Replay, Receive,
         PeerReaderExits, PeerSwaps, PeerCloses, Tick
<1>. QED
  BY <1>1, <1>2, <1>3, <1>4, <1>5, <1>6, <1>7, <1>8

-----------------------------------------------------------------------------
(* Flow: inflight counts the places taken in the write channels.           *)

Places(w) == {q \in Conns \X (1..WriteChCap) : q[2] <= Len(w[q[1]])}

LEMMA PlacesFinite ==
    ASSUME NEW w
    PROVE  IsFiniteSet(Places(w)) /\ Cardinality(Places(w)) \in Nat
<1>1. IsFiniteSet(1..WriteChCap)
  BY Numbers, FS_Interval
<1>2. IsFiniteSet(Conns \X (1..WriteChCap))
  BY <1>1, Numbers, FS_Product
<1>3. Places(w) \in SUBSET (Conns \X (1..WriteChCap))
  BY DEF Places
<1>. QED
  BY <1>2, <1>3, FS_Subset, FS_CardinalityType

LEMMA PlacesAdd ==
    ASSUME NEW w \in [Conns -> Seq(DataFrames)], NEW c \in Conns, NEW f \in DataFrames,
           Len(w[c]) < WriteChCap,
           NEW v, v = [w EXCEPT ![c] = Append(@, f)]
    PROVE  Cardinality(Places(v)) = Cardinality(Places(w)) + 1
<1>1. PICK k : k = Len(w[c])
  OBVIOUS
<1>2. k \in Nat /\ k < WriteChCap /\ Len(v[c]) = k + 1 /\ \A d \in Conns : d # c => v[d] = w[d]
  BY <1>1
<1>3. <<c, k + 1>> \notin Places(w)
  BY <1>1, <1>2 DEF Places
<1>4. Places(v) = Places(w) \cup {<<c, k + 1>>}
  <2>1. ASSUME NEW d \in Conns, NEW i \in 1..WriteChCap
        PROVE  i <= Len(v[d]) <=> i <= Len(w[d]) \/ (d = c /\ i = k + 1)
    <3>1. CASE d = c
      BY <1>1, <1>2, <3>1, Numbers
    <3>2. CASE d # c
      BY <1>2, <3>2
    <3>. QED
      BY <3>1, <3>2
  <2>2. <<c, k + 1>> \in Conns \X (1..WriteChCap)
    BY <1>2, Numbers
  <2>3. ASSUME NEW q \in Conns \X (1..WriteChCap)
        PROVE  q \in Places(v) <=> q \in Places(w) \cup {<<c, k + 1>>}
    <3>1. PICK d \in Conns, i \in 1..WriteChCap : q = <<d, i>>
      OBVIOUS
    <3>2. q \in Places(v) <=> i <= Len(v[d])
      BY <3>1 DEF Places
    <3>3. q \in Places(w) <=> i <= Len(w[d])
      BY <3>1 DEF Places
    <3>4. q = <<c, k + 1>> <=> d = c /\ i = k + 1
      BY <3>1
    <3>. QED
      BY <2>1, <3>2, <3>3, <3>4
  <2>4. Places(v) \subseteq Conns \X (1..WriteChCap) /\ Places(w) \subseteq Conns \X (1..WriteChCap)
    BY DEF Places
  <2>. QED
    BY <2>2, <2>3, <2>4
<1>. QED
  BY <1>3, <1>4, PlacesFinite, FS_AddElement

LEMMA PlacesRemove ==
    ASSUME NEW w \in [Conns -> Seq(DataFrames)], NEW c \in Conns,
           Len(w[c]) <= WriteChCap, NEW n \in 1..Len(w[c]),
           NEW v, v = [w EXCEPT ![c] = SubSeq(@, n + 1, Len(@))]
    PROVE  Cardinality(Places(v)) = Cardinality(Places(w)) - n
<1>1. PICK k, j : k = Len(w[c]) /\ j = k - n
  OBVIOUS
<1>2. /\ k \in Nat /\ k <= WriteChCap /\ n \in 1..k /\ j \in 0..k
      /\ \A d \in Conns : d # c => v[d] = w[d]
  BY <1>1
<1>3. Len(v[c]) = j
  <2>1. PICK q : q = w[c]
    OBVIOUS
  <2>2. q \in Seq(DataFrames) /\ Len(q) = k /\ v[c] = SubSeq(q, n + 1, k)
    BY <1>1, <2>1
  <2>. QED
    BY <1>1, <1>2, <2>2
<1>. DEFINE T == {<<c, i>> : i \in (j + 1)..k}
<1>4. IsFiniteSet(T) /\ Cardinality(T) = n
  <2>. DEFINE f == [i \in (j + 1)..k |-> <<c, i>>]
  <2>1. f \in Bijection((j + 1)..k, T)
    <3>1. f \in [(j + 1)..k -> T]
      OBVIOUS
    <3>2. \A x, y \in (j + 1)..k : f[x] = f[y] => x = y
      OBVIOUS
    <3>3. \A t \in T : \E x \in (j + 1)..k : f[x] = t
      OBVIOUS
    <3>. QED
      BY <3>1, <3>2, <3>3 DEF Bijection, Injection, IsInjective, Surjection
  <2>2. IsFiniteSet((j + 1)..k) /\ Cardinality((j + 1)..k) = n
    <3>1. j + 1 \in Int /\ k \in Int /\ ~(j + 1 > k) /\ k - (j + 1) + 1 = n
      BY <1>1, <1>2
    <3>. QED
      BY <3>1, FS_Interval
  <2>3. ExistsBijection((j + 1)..k, T)
    BY <2>1 DEF ExistsBijection
  <2>. QED
    BY <2>2, <2>3, FS_Bijection
<1>5. T \subseteq Places(w) /\ Places(v) = Places(w) \ T
  <2>1. ASSUME NEW d \in Conns, NEW i \in 1..WriteChCap
        PROVE  i <= Len(v[d]) <=> i <= Len(w[d]) /\ ~(d = c /\ i \in (j + 1)..k)
    <3>1. CASE d = c
      BY <1>1, <1>2, <1>3, <3>1, Numbers
    <3>2. CASE d # c
      BY <1>2, <3>2
    <3>. QED
      BY <3>1, <3>2
  <2>2. ASSUME NEW i \in (j + 1)..k
        PROVE  <<c, i>> \in Places(w)
    <3>1. i \in 1..WriteChCap /\ i <= Len(w[c])
      BY <1>1, <1>2, Numbers
    <3>. QED
      BY <3>1 DEF Places
  <2>3. ASSUME NEW q \in Conns \X (1..WriteChCap)
        PROVE  q \in Places(v) <=> q \in Places(w) \ T
    <3>1. PICK d \in Conns, i \in 1..WriteChCap : q = <<d, i>>
      OBVIOUS
    <3>2. q \in Places(v) <=> i <= Len(v[d])
      BY <3>1 DEF Places
    <3>3. q \in Places(w) <=> i <= Len(w[d])
      BY <3>1 DEF Places
    <3>4. q \in T <=> d = c /\ i \in (j + 1)..k
      BY <3>1
    <3>. QED
      BY <2>1, <3>2, <3>3, <3>4
  <2>4. Places(v) \subseteq Conns \X (1..WriteChCap) /\ Places(w) \subseteq Conns \X (1..WriteChCap)
    BY DEF Places
  <2>. QED
    BY <2>2, <2>3, <2>4
<1>6. Places(w) \cap T = T
  BY <1>5
<1>7. Cardinality(Places(w) \ T) = Cardinality(Places(w)) - Cardinality(Places(w) \cap T)
  BY <1>4, PlacesFinite, FS_Difference
<1>. QED
  BY <1>4, <1>5, <1>6, <1>7

LEMMA NextFlow ==
    ASSUME Types, Writer, Flow, Next
    PROVE  Flow'
<1>. USE DEF connVars, sendVars, recvVars
<1>1. Queued = Places(wch) /\ Queued' = Places(wch')
  BY Zenon DEF Queued, Places
<1>2. PICK p : p = Cardinality(Places(wch))
  OBVIOUS
<1>3. /\ p \in Nat /\ inflight = p + (IF InHand THEN 1 ELSE 0) /\ nextStripSeq \in Nat
      /\ inflight + (IF wpc = "selected" THEN 1 ELSE 0) <= nextStripSeq
  BY <1>1, <1>2, PlacesFinite DEF Flow, Types
<1>4. ASSUME UNCHANGED <<wch, inflight, wpc, nextStripSeq>>
      PROVE  Flow'
  BY <1>4, Zenon DEF Flow, Queued, InHand
<1>5. ASSUME NEW c \in Conns, wpc \in {"pushed", "full"}, HasRoom(c), wpc' = "idle",
             wch' = [wch EXCEPT ![c] = Append(@, Data(Chunk))],
             inflight' = inflight, nextStripSeq' = nextStripSeq
      PROVE  Flow'
  <2>1. Data(Chunk) \in DataFrames
    BY <1>5, HandStriping, ChunkType, FrameFacts DEF InHand
  <2>2. Len(wch[c]) < WriteChCap /\ wch \in [Conns -> Seq(DataFrames)]
    BY <1>5 DEF HasRoom, Types
  <2>3. Cardinality(Places(wch')) = p + 1
    BY <1>2, <1>5, <2>1, <2>2, PlacesAdd
  <2>4. inflight' = Cardinality(Places(wch')) /\ inflight' <= nextStripSeq'
    BY <1>3, <1>5, <2>3 DEF InHand
  <2>. QED
    BY <1>1, <1>3, <1>5, <2>3, <2>4 DEF Flow, InHand
<1>6. CASE StartWrite
  <2>1. wch' = wch /\ inflight' = inflight /\ nextStripSeq' = nextStripSeq + 1
        /\ ~InHand /\ wpc # "selected" /\ wpc' \in {"error", "selected"}
    BY <1>6 DEF StartWrite, NextChunk, InHand
  <2>2. inflight' + (IF wpc' = "selected" THEN 1 ELSE 0) <= nextStripSeq'
    BY <1>3, <2>1
  <2>3. inflight' = Cardinality(Places(wch')) /\ ~InHand'
    BY <1>2, <1>3, <2>1 DEF InHand
  <2>. QED
    BY <1>1, <1>2, <1>3, <2>1, <2>2, <2>3 DEF Flow
<1>7. CASE PushRing
  <2>1. wch' = wch /\ inflight' = p + 1 /\ nextStripSeq' = nextStripSeq /\ wpc' = "pushed"
    BY <1>3, <1>7 DEF PushRing, InHand
  <2>2. inflight' <= nextStripSeq'
    BY <1>3, <1>7, <2>1 DEF PushRing, InHand
  <2>. QED
    BY <1>1, <1>2, <1>3, <2>1, <2>2 DEF Flow, InHand
<1>8. ASSUME InHand, wpc' \in {"full", "allfull"}, UNCHANGED <<wch, inflight, nextStripSeq>>
      PROVE  Flow'
  <2>1. inflight' = p + 1 /\ inflight' <= nextStripSeq' /\ Cardinality(Places(wch')) = p
    BY <1>2, <1>3, <1>8 DEF InHand
  <2>. QED
    BY <1>1, <1>3, <1>8, <2>1 DEF Flow, InHand
<1>9. CASE TrySend
  <2>1. InHand /\ wconn \in Conns
    BY <1>9, HandStriping DEF TrySend, InHand
  <2>. QED
    BY <1>5, <1>8, <1>9, <2>1 DEF TrySend, WriteDone
<1>10. CASE TryAlt
  <2>1. InHand
    BY <1>10 DEF TryAlt, InHand
  <2>. QED
    BY <1>5, <1>8, <1>10, <2>1 DEF TryAlt, WriteDone, Slots
<1>11. CASE SyncSend
  <2>1. wch' = wch /\ inflight' = inflight - 1 /\ nextStripSeq' = nextStripSeq
        /\ wpc' = "idle" /\ InHand
    BY <1>11 DEF SyncSend, WriteDone, InHand
  <2>2. inflight' = p /\ inflight' <= nextStripSeq' /\ Cardinality(Places(wch')) = p
    BY <1>2, <1>3, <2>1
  <2>. QED
    BY <1>1, <1>3, <2>1, <2>2 DEF Flow, InHand
<1>12. CASE WriteUnstriped
  <2>1. wch' = wch /\ inflight' = inflight /\ nextStripSeq' \in {nextStripSeq, nextStripSeq + 1}
        /\ ~InHand /\ wpc # "selected" /\ wpc' \in {"idle", "error"}
    BY <1>12 DEF WriteUnstriped, NextChunk, InHand
  <2>2. inflight' = p /\ inflight' <= nextStripSeq' /\ Cardinality(Places(wch')) = p
    BY <1>2, <1>3, <2>1
  <2>. QED
    BY <1>1, <1>3, <2>1, <2>2 DEF Flow, InHand
<1>13. ASSUME NEW c \in Conns, WriteLoop(c)
       PROVE  Flow'
  <2>1. PICK n \in 1..Len(wch[c]) :
            wch' = [wch EXCEPT ![c] = SubSeq(@, n + 1, Len(@))] /\ inflight' = inflight - n
    BY <1>13 DEF WriteLoop
  <2>2. UNCHANGED <<wpc, nextStripSeq>>
    BY <1>13 DEF WriteLoop
  <2>3. Cardinality(Places(wch')) = p - n /\ n \in Nat
    <3>1. wch \in [Conns -> Seq(DataFrames)] /\ Len(wch[c]) <= WriteChCap /\ Len(wch[c]) \in Nat
      BY DEF Types
    <3>2. n \in Nat
      BY <2>1, <3>1
    <3>3. PICK v : v = wch'
      OBVIOUS
    <3>4. v = [wch EXCEPT ![c] = SubSeq(@, n + 1, Len(@))]
      BY <2>1, <3>3
    <3>5. Cardinality(Places(v)) = Cardinality(Places(wch)) - n
      BY <3>1, <3>4, PlacesRemove
    <3>. QED
      BY <1>2, <3>2, <3>3, <3>5, Zenon
  <2>4. /\ inflight' = (p - n) + (IF InHand THEN 1 ELSE 0)
        /\ inflight' + (IF wpc = "selected" THEN 1 ELSE 0) <= nextStripSeq
    BY <1>3, <2>1, <2>3
  <2>. QED
    BY <1>1, <2>2, <2>3, <2>4 DEF Flow, InHand
<1>14. \/ UNCHANGED <<wch, inflight, wpc, nextStripSeq>>
       \/ StartWrite \/ WriteStep \/ WriteUnstriped \/ \E c \in Conns : WriteLoop(c)
  BY DEF Next, OpenStream, CloseStarts, CloseSends, ConnStep, ReaderExits, RemoveFromSlot,
         DrainRing, Resend, Cut, Replay, Receive, PeerReaderExits, PeerSwaps, PeerCloses, Tick
<1>. QED
  BY <1>4, <1>6, <1>7, <1>9, <1>10, <1>11, <1>12, <1>13, <1>14 DEF WriteStep

-----------------------------------------------------------------------------
(* Rings: what the ring of a lost connection will bring back.              *)

KeptIn(n, rs, lf, rg) ==
    \E c \in Conns : \/ n \in Frames(rs[c])
                     \/ lf[c] # "drained" /\ n \in Frames(rg[c])

LEMMA NextRings ==
    ASSUME Types, Writer, Rings, Next
    PROVE  Rings'
<1>. USE DEF connVars, sendVars, recvVars
<1>1. \A n : Kept(n) = KeptIn(n, resend, life, ring)
  BY DEF Kept, KeptIn
<1>2. \A n : Kept(n)' = KeptIn(n, resend', life', ring')
  BY DEF Kept, KeptIn
<1>3. \A x, y, z, n : KeptIn(n, x, y, z) \in BOOLEAN
  BY DEF KeptIn
<1>4. UNCHANGED nextStripSeq => UNCHANGED Chunk
  BY DEF Chunk
\* The third conjunct, when the chunks are the same.
<1>5. ASSUME UNCHANGED <<striping, nextStripSeq>>, risky \subseteq risky',
             \A n : KeptIn(n, resend, life, ring) =>
                        n \in risky' \/ KeptIn(n, resend', life', ring'),
             wpc # "idle" /\ wpc' = "idle" =>
                 Chunk \in risky' \/ KeptIn(Chunk, resend', life', ring')
      PROVE  striping' => \A n \in 0..(nextStripSeq' - 1) :
                 n \in risky' \/ Kept(n)' \/ (n = Chunk' /\ wpc' # "idle")
  <2>1. ASSUME NEW n \in 0..(nextStripSeq - 1), striping
        PROVE  n \in risky' \/ Kept(n)' \/ (n = Chunk' /\ wpc' # "idle")
    <3>1. n \in risky \/ KeptIn(n, resend, life, ring) \/ (n = Chunk /\ wpc # "idle")
      BY <1>1, <2>1, Zenon DEF Rings
    <3>. QED
      BY <1>2, <1>4, <1>5, <3>1, Zenon
  <2>. QED
    BY <1>5, <2>1, Zenon
<1>6. ASSUME UNCHANGED <<life, ring, resend>>
      PROVE  /\ \A n : KeptIn(n, resend, life, ring) =>
                        n \in risky' \/ KeptIn(n, resend', life', ring')
             /\ (\A c \in Conns : resend[c] # <<>> => life[c] = "drained")'
  BY <1>6, Zenon DEF Rings
<1>7. ASSUME UNCHANGED <<life, ring, resend, risky, wpc, wconn, striping, nextStripSeq>>
      PROVE  Rings'
  <2>1. (wpc = "pushed" /\ ChOpen(wconn) => Chunk \in risky \cup Frames(ring[wconn]))'
    BY <1>4, <1>7, Zenon DEF Rings, ChOpen
  <2>. QED
    BY <1>5, <1>6, <1>7, <2>1, Zenon DEF Rings
<1>8. CASE StartWrite
  <2>1. /\ UNCHANGED <<life, ring, resend, risky>> /\ wpc = "idle" /\ wpc' \in {"error", "selected"}
        /\ striping /\ nextStripSeq' = nextStripSeq + 1
    BY <1>8 DEF StartWrite, NextChunk
  <2>2. ASSUME NEW n \in 0..(nextStripSeq' - 1)
        PROVE  n \in risky' \/ Kept(n)' \/ (n = Chunk' /\ wpc' # "idle")
    <3>1. n \in 0..(nextStripSeq - 1) \/ n = Chunk'
      BY <2>1, <2>2 DEF Types, Chunk
    <3>2. n \in 0..(nextStripSeq - 1) => n \in risky \/ KeptIn(n, resend, life, ring)
      BY <1>1, <2>1, Zenon DEF Rings
    <3>. QED
      BY <1>2, <2>1, <3>1, <3>2, Zenon
  <2>3. wpc' # "pushed"
    BY <2>1
  <2>. QED
    BY <1>6, <2>1, <2>2, <2>3, Zenon DEF Rings
<1>9. CASE PushRing
  <2>1. wconn \in Conns /\ Data(Chunk) \in DataFrames /\ Data(Chunk).n = Chunk
    BY <1>9, HandStriping, ChunkType, FrameFacts DEF PushRing
  <2>2. PICK r : r = ring[wconn]
    OBVIOUS
  <2>3. r \in Seq(DataFrames) /\ Len(r) <= RingSize
    BY <2>1, <2>2 DEF Types
  <2>4. PICK q : q = Push(r, Data(Chunk))
    OBVIOUS
  <2>5. Chunk \in Frames(q) /\ Frames(r) \subseteq Frames(q) \cup Evicted(r)
    BY <2>1, <2>3, <2>4, PushFacts, Zenon
  <2>6. /\ ring' = [ring EXCEPT ![wconn] = q] /\ risky' = risky \cup Evicted(r)
        /\ UNCHANGED <<striping, nextStripSeq, life, resend, wconn>> /\ wpc' = "pushed"
    BY <1>9, <2>2, <2>4 DEF PushRing
  <2>7. ring'[wconn] = q /\ \A c \in Conns : c # wconn => ring'[c] = ring[c]
    BY <2>1, <2>6 DEF Types
  <2>8. \A n : KeptIn(n, resend, life, ring) => n \in risky' \/ KeptIn(n, resend', life', ring')
    BY <2>2, <2>5, <2>6, <2>7, Zenon DEF KeptIn
  <2>9. (wpc = "pushed" /\ ChOpen(wconn) => Chunk \in risky \cup Frames(ring[wconn]))'
    BY <1>4, <2>5, <2>6, <2>7, Zenon
  <2>10. (\A c \in Conns : resend[c] # <<>> => life[c] = "drained")'
    BY <2>6, Zenon DEF Rings
  <2>11. risky \subseteq risky' /\ wpc' # "idle"
    BY <2>6
  <2>. QED
    BY <1>5, <2>6, <2>8, <2>9, <2>10, <2>11, Zenon DEF Rings
<1>10. ASSUME InHand, UNCHANGED <<striping, nextStripSeq, life, ring, resend>>,
              risky \subseteq risky', wpc' # "pushed",
              wpc' = "idle" => Chunk \in risky' \/ KeptIn(Chunk, resend, life, ring)
       PROVE  Rings'
  BY <1>5, <1>6, <1>10, Zenon DEF Rings
<1>11. CASE TrySend
  <2>1. InHand /\ wconn \in Conns /\ wpc = "pushed"
    BY <1>11, HandStriping DEF TrySend, InHand
  <2>2. UNCHANGED <<striping, nextStripSeq, life, ring, resend, risky>> /\ wpc' \in {"idle", "full"}
    BY <1>11 DEF TrySend, WriteDone
  <2>3. ASSUME wpc' = "idle"
        PROVE  Chunk \in risky' \/ KeptIn(Chunk, resend, life, ring)
    <3>1. ChOpen(wconn)
      BY <1>11, <2>3 DEF TrySend, WriteDone, HasRoom
    <3>2. Chunk \in risky \cup Frames(ring[wconn]) /\ life[wconn] # "drained"
      BY <2>1, <3>1 DEF Rings, ChOpen
    <3>. QED
      BY <2>1, <2>2, <3>2 DEF KeptIn
  <2>. QED
    BY <1>10, <2>1, <2>2, <2>3
<1>12. CASE TryAlt
  <2>1. InHand /\ UNCHANGED <<striping, nextStripSeq, life, ring, resend>>
    BY <1>12 DEF TryAlt, InHand
  <2>2. risky \subseteq risky' /\ wpc' # "pushed" /\ (wpc' = "idle" => Chunk \in risky')
    BY <1>12 DEF TryAlt, WriteDone
  <2>. QED
    BY <1>10, <2>1, <2>2
<1>13. CASE SyncSend
  <2>1. InHand /\ UNCHANGED <<striping, nextStripSeq, life, ring, resend>>
    BY <1>13 DEF SyncSend, InHand
  <2>2. risky \subseteq risky' /\ wpc' # "pushed" /\ (wpc' = "idle" => Chunk \in risky')
    BY <1>13 DEF SyncSend, WriteDone
  <2>. QED
    BY <1>10, <2>1, <2>2
<1>14. CASE WriteUnstriped
  <2>1. /\ UNCHANGED <<striping, life, ring, resend>> /\ ~striping' /\ wpc' # "pushed"
    BY <1>14 DEF WriteUnstriped
  <2>. QED
    BY <1>6, <2>1, Zenon DEF Rings
\* A connection is cut, closed or taken out of its slot.
<1>15. ASSUME NEW c \in Conns, Cut(c) \/ ReaderExits(c) \/ RemoveFromSlot(c)
       PROVE  Rings'
  <2>1. /\ UNCHANGED <<ring, resend, risky, wpc, wconn, striping, nextStripSeq>>
        /\ \E l \in {"cut", "closed", "removed"} : life' = [life EXCEPT ![c] = l]
        /\ life[c] \in {"up", "cut", "closed"}
        /\ life'[c] \in {"up", "cut"} => life[c] \in {"up", "cut"}
    BY <1>15 DEF Cut, ReaderExits, RemoveFromSlot, Types
  <2>2. /\ \A d \in Conns : d # c => life'[d] = life[d]
        /\ life[c] # "drained" /\ life'[c] # "drained"
        /\ \A d \in Conns : life'[d] \in {"up", "cut"} => life[d] \in {"up", "cut"}
    BY <2>1 DEF Types
  <2>3. \A n : KeptIn(n, resend, life, ring) => n \in risky' \/ KeptIn(n, resend', life', ring')
    BY <2>1, <2>2, Zenon DEF KeptIn
  <2>4. (\A d \in Conns : resend[d] # <<>> => life[d] = "drained")'
    BY <2>1, <2>2, Zenon DEF Rings
  <2>5. (wpc = "pushed" /\ ChOpen(wconn) => Chunk \in risky \cup Frames(ring[wconn]))'
    <3>1. wpc = "pushed" => wconn \in Conns
      BY DEF Writer, InHand
    <3>. QED
      BY <1>4, <2>1, <2>2, <3>1, Zenon DEF Rings, ChOpen
  <2>. QED
    BY <1>5, <2>1, <2>3, <2>4, <2>5, Zenon DEF Rings
<1>16. ASSUME NEW c \in Conns, DrainRing(c)
       PROVE  Rings'
  <2>1. /\ UNCHANGED <<risky, wpc, wconn, striping, nextStripSeq>>
        /\ life[c] = "removed" /\ life' = [life EXCEPT ![c] = "drained"]
        /\ resend' = [resend EXCEPT ![c] = ring[c]] /\ ring' = [ring EXCEPT ![c] = <<>>]
    BY <1>16 DEF DrainRing
  <2>2. /\ life'[c] = "drained" /\ resend'[c] = ring[c] /\ resend[c] = <<>>
        /\ \A d \in Conns : d # c =>
              life'[d] = life[d] /\ resend'[d] = resend[d] /\ ring'[d] = ring[d]
    BY <2>1 DEF Types, Rings
  <2>3. \A n : n \notin Frames(<<>>)
    BY DEF Frames, ToSet
  <2>4. \A n : KeptIn(n, resend, life, ring) => n \in risky' \/ KeptIn(n, resend', life', ring')
    BY <2>2, <2>3, Zenon DEF KeptIn
  <2>5. (\A d \in Conns : resend[d] # <<>> => life[d] = "drained")'
    BY <2>2, Zenon DEF Rings
  <2>6. (wpc = "pushed" /\ ChOpen(wconn) => Chunk \in risky \cup Frames(ring[wconn]))'
    <3>1. wpc = "pushed" => wconn \in Conns
      BY DEF Writer, InHand
    <3>2. ~("drained" \in {"up", "cut"})
      OBVIOUS
    <3>. QED
      BY <1>4, <2>1, <2>2, <3>1, <3>2, Zenon DEF Rings, ChOpen
  <2>. QED
    BY <1>5, <2>1, <2>4, <2>5, <2>6, Zenon DEF Rings
<1>17. ASSUME NEW c \in Conns, Resend(c)
       PROVE  Rings'
  <2>1. PICK q : q = resend[c]
    OBVIOUS
  <2>2. q \in Seq(DataFrames) /\ q # <<>>
    BY <1>17, <2>1 DEF Resend, Types
  <2>3. /\ UNCHANGED <<wpc, wconn, striping, nextStripSeq, life, ring>>
        /\ \/ /\ resend' = [resend EXCEPT ![c] = Tail(q)]
              /\ risky' = risky \cup {Head(q).n}
           \/ /\ resend' = [resend EXCEPT ![c] = <<>>]
              /\ risky' = risky \cup {f.n : f \in ToSet(q)}
    BY <1>17, <2>1 DEF Resend
  <2>4. Frames(q) \subseteq {Head(q).n} \cup Frames(Tail(q))
    <3>1. ASSUME NEW f \in ToSet(q)
          PROVE  f = Head(q) \/ f \in ToSet(Tail(q))
      <4>1. PICK i \in 1..Len(q) : q[i] = f
        BY <2>2, <3>1 DEF ToSet
      <4>2. CASE i = 1
        BY <2>2, <4>1, <4>2
      <4>3. CASE i # 1
        <5>1. i - 1 \in DOMAIN Tail(q) /\ Tail(q)[i - 1] = q[i]
          BY <2>2, <4>1, <4>3
        <5>. QED
          BY <4>1, <5>1, Zenon DEF ToSet
      <4>. QED
        BY <4>2, <4>3
    <3>. QED
      BY <3>1, Zenon DEF Frames
  <2>5. Frames(q) \subseteq {f.n : f \in ToSet(q)}
    BY Zenon DEF Frames
  <2>6. /\ \A d \in Conns : d # c => resend'[d] = resend[d]
        /\ \/ resend'[c] = Tail(q) /\ risky' = risky \cup {Head(q).n}
           \/ resend'[c] = <<>> /\ risky' = risky \cup {f.n : f \in ToSet(q)}
    BY <2>3 DEF Types
  <2>7. risky \subseteq risky' /\ \A n \in Frames(q) : n \in risky' \/ n \in Frames(resend'[c])
    BY <2>4, <2>5, <2>6, Zenon
  <2>8. \A n : KeptIn(n, resend, life, ring) => n \in risky' \/ KeptIn(n, resend', life', ring')
    BY <2>1, <2>3, <2>6, <2>7, Zenon DEF KeptIn
  <2>9. (\A d \in Conns : resend[d] # <<>> => life[d] = "drained")'
    BY <2>1, <2>2, <2>3, <2>6, Zenon DEF Rings
  <2>10. (wpc = "pushed" /\ ChOpen(wconn) => Chunk \in risky \cup Frames(ring[wconn]))'
    BY <1>4, <2>3, <2>7, Zenon DEF Rings, ChOpen
  <2>. QED
    BY <1>5, <2>3, <2>7, <2>8, <2>9, <2>10, Zenon DEF Rings
<1>18. \/ UNCHANGED <<life, ring, resend, risky, wpc, wconn, striping, nextStripSeq>>
       \/ StartWrite \/ WriteStep \/ WriteUnstriped
       \/ \E c \in Conns : \/ Cut(c) \/ ReaderExits(c) \/ RemoveFromSlot(c) \/ DrainRing(c)
                           \/ Resend(c)
  BY DEF Next, OpenStream, CloseStarts, CloseSends, ConnStep, WriteLoop, Replay, Receive,
         PeerReaderExits, PeerSwaps, PeerCloses, Tick
<1>. QED
  BY <1>7, <1>8, <1>9, <1>11, <1>12, <1>13, <1>14, <1>15, <1>16, <1>17, <1>18 DEF WriteStep

-----------------------------------------------------------------------------
(* OneOpen: FrameOpen is sent once.                                        *)

\* Where a FrameOpen is in flight.
OpenAt(w, c, i) == i \in DOMAIN w[c] /\ w[c][i].type = "open"

LEMMA OneOpenAt ==
    OneOpen <=>
        /\ \A c, d \in Conns : \A i, j : OpenAt(net, c, i) /\ OpenAt(net, d, j) =>
              spc # "new" /\ ~opened /\ c = d /\ i = j
        /\ spc = "new" => ~opened
        /\ ~opened => st = newStream(0) /\ replay = <<>>
BY DEF OneOpen, OpenAt

\* What is sent, or lost with the connection, adds no FrameOpen.
LEMMA NoOpenAdded ==
    ASSUME net \in [Conns -> Seq(AllFrames)], NEW q \in Seq(AllFrames),
           \A i \in 1..Len(q) : q[i].type # "open", Grown(q),
           NEW d \in Conns, NEW j, OpenAt(net', d, j)
    PROVE  OpenAt(net, d, j)
<1>1. CASE net' = net
  BY <1>1
<1>2. ASSUME NEW c \in Conns, net' = [net EXCEPT ![c] = @ \o q]
      PROVE  OpenAt(net, d, j)
  <2>1. CASE d # c
    BY <1>2, <2>1 DEF OpenAt
  <2>2. CASE d = c
    <3>1. PICK r, v : r = net[c] /\ v = net'[c]
      OBVIOUS
    <3>2. r \in Seq(AllFrames) /\ v = r \o q
      BY <1>2, <3>1
    <3>3. /\ DOMAIN v = 1..(Len(r) + Len(q)) /\ DOMAIN r = 1..Len(r) /\ Len(r) \in Nat /\ Len(q) \in Nat
          /\ \A i \in 1..Len(r) : v[i] = r[i]
          /\ \A i \in (Len(r) + 1)..(Len(r) + Len(q)) : v[i] = q[i - Len(r)]
      BY <3>2
    <3>4. j \in DOMAIN v /\ v[j].type = "open"
      BY <2>2, <3>1 DEF OpenAt
    <3>5. CASE j \in 1..Len(r)
      BY <2>2, <3>1, <3>3, <3>4, <3>5 DEF OpenAt
    <3>6. CASE j \notin 1..Len(r)
      <4>1. j \in (Len(r) + 1)..(Len(r) + Len(q)) /\ j - Len(r) \in 1..Len(q)
        BY <3>3, <3>4, <3>6
      <4>. QED
        BY <3>3, <3>4, <4>1
    <3>. QED
      BY <3>5, <3>6
  <2>. QED
    BY <2>1, <2>2
<1>. QED
  BY <1>1, <1>2 DEF Grown

LEMMA OneOpenKept ==
    ASSUME OneOpen, UNCHANGED <<opened, st, replay>>, spc' = "new" => spc = "new",
           \A c \in Conns : \A i : OpenAt(net', c, i) => OpenAt(net, c, i)
    PROVE  OneOpen'
<1>1. OneOpen' <=>
        /\ \A c, d \in Conns : \A i, j : OpenAt(net', c, i) /\ OpenAt(net', d, j) =>
              spc' # "new" /\ ~opened' /\ c = d /\ i = j
        /\ spc' = "new" => ~opened'
        /\ ~opened' => st' = newStream(0) /\ replay' = <<>>
  BY DEF OneOpen, OpenAt
<1>. QED
  BY <1>1, OneOpenAt, Zenon

LEMMA NextOneOpen ==
    ASSUME Types, Writer, OneOpen, Next
    PROVE  OneOpen'
<1>. USE DEF connVars, sendVars, recvVars
<1>1. net \in [Conns -> Seq(AllFrames)]
  BY DEF Types
<1>2. OneOpen' <=>
        /\ \A c, d \in Conns : \A i, j : OpenAt(net', c, i) /\ OpenAt(net', d, j) =>
              spc' # "new" /\ ~opened' /\ c = d /\ i = j
        /\ spc' = "new" => ~opened'
        /\ ~opened' => st' = newStream(0) /\ replay' = <<>>
  BY DEF OneOpen, OpenAt
<1>3. ASSUME UNCHANGED <<opened, st, replay>>, spc' = "new" => spc = "new",
             \A c \in Conns : \A i : OpenAt(net', c, i) => OpenAt(net, c, i)
      PROVE  OneOpen'
  BY <1>3, OneOpenKept
<1>4. ASSUME UNCHANGED net
      PROVE  \A c \in Conns : \A i : OpenAt(net', c, i) => OpenAt(net, c, i)
  BY <1>4, Zenon
<1>5. ASSUME NEW q \in Seq(AllFrames), \A i \in 1..Len(q) : q[i].type # "open", Grown(q)
      PROVE  \A c \in Conns : \A i : OpenAt(net', c, i) => OpenAt(net, c, i)
  BY <1>1, <1>5, NoOpenAdded
<1>6. ASSUME NEW f \in AllFrames, f.type # "open", Grown(<<f>>)
      PROVE  \A c \in Conns : \A i : OpenAt(net', c, i) => OpenAt(net, c, i)
  <2>1. PICK q : q = <<f>>
    OBVIOUS
  <2>2. q \in Seq(AllFrames) /\ \A i \in 1..Len(q) : q[i].type # "open"
    BY <1>6, <2>1
  <2>. QED
    BY <1>5, <1>6, <2>1, <2>2
<1>7. CASE OpenStream
  <2>1. /\ spc = "new" /\ spc' # "new" /\ UNCHANGED <<opened, st, replay>>
        /\ ~opened
    BY <1>7 DEF OpenStream, OneOpen
  <2>2. \A c \in Conns : \A i : ~OpenAt(net, c, i)
    BY <2>1, OneOpenAt, Zenon
  <2>3. Grown(<<Open>>)
    BY <1>7, SendGrows, Zenon DEF OpenStream, Grown, Types
  <2>4. CASE net' = net
    BY <1>3, <1>4, <2>1, <2>4
  <2>5. ASSUME NEW c \in Conns, net' = [net EXCEPT ![c] = @ \o <<Open>>]
        PROVE  OneOpen'
    <3>1. PICK r : r = net[c]
      OBVIOUS
    <3>2. r \in Seq(AllFrames) /\ DOMAIN r = 1..Len(r) /\ Len(r) \in Nat
      BY <1>1, <3>1
    <3>3. net'[c] = Append(r, Open) /\ \A d \in Conns : d # c => net'[d] = net[d]
      BY <1>1, <2>5, <3>1
    <3>4. ASSUME NEW i, OpenAt(net', c, i)
          PROVE  i = Len(r) + 1
      <4>1. i \in 1..(Len(r) + 1) /\ Append(r, Open)[i].type = "open"
        BY <3>2, <3>3, <3>4 DEF OpenAt
      <4>2. i \in 1..Len(r) => Append(r, Open)[i] = r[i] /\ OpenAt(net, c, i)
        BY <3>1, <3>2, <4>1 DEF OpenAt
      <4>. QED
        BY <2>2, <3>2, <4>1, <4>2
    <3>5. \A d \in Conns : \A i : OpenAt(net', d, i) => d = c
      BY <2>2, <3>3, Zenon DEF OpenAt
    <3>. QED
      BY <1>2, <2>1, <3>4, <3>5, OneOpenAt, Zenon
  <2>. QED
    BY <2>3, <2>4, <2>5 DEF Grown
<1>8. CASE SyncSend
  <2>1. wconn \in Conns /\ Data(Chunk) \in AllFrames /\ Data(Chunk).type = "data"
    BY <1>8, HandStriping, ChunkType, FrameFacts DEF SyncSend, InHand
  <2>2. Grown(<<Data(Chunk)>>)
    BY <1>8, <2>1, SendGrows, Zenon DEF SyncSend
  <2>. QED
    BY <1>3, <1>6, <1>8, <2>1, <2>2 DEF SyncSend
<1>9. CASE WriteUnstriped
  <2>1. pinned \in Conns
    BY <1>9 DEF WriteUnstriped, NextChunk, Types, Writer
  <2>2. nextStripSeq \in Nums
    BY <1>9, Numbers DEF WriteUnstriped, NextChunk, Types, Nums
  <2>3. Grown(<<Data(nextStripSeq)>>)
    BY <1>9, <2>1, SendGrows, Zenon DEF WriteUnstriped
  <2>4. Data(nextStripSeq) \in AllFrames /\ Data(nextStripSeq).type = "data"
    BY <2>2, FrameFacts
  <2>. QED
    BY <1>3, <1>6, <1>9, <2>3, <2>4 DEF WriteUnstriped
<1>10. CASE CloseSends
  <2>1. Grown(<<Close>>)
    BY <1>10, SendGrows, Zenon DEF CloseSends, Grown, Types, SelectConn, Slots
  <2>. QED
    BY <1>3, <1>6, <1>10, <2>1, FrameFacts DEF CloseSends
<1>11. ASSUME NEW c \in Conns, WriteLoop(c)
       PROVE  OneOpen'
  <2>1. PICK n \in 1..Len(wch[c]) :
            net' = net \/ net' = [net EXCEPT ![c] = @ \o SubSeq(wch[c], 1, n)]
    BY <1>11 DEF WriteLoop, Transmit
  <2>2. PICK w, q : w = wch[c] /\ q = SubSeq(w, 1, n)
    OBVIOUS
  <2>3. w \in Seq(DataFrames) /\ n \in 1..Len(w)
    BY <2>1, <2>2 DEF Types
  <2>4. q \in Seq(DataFrames)
    BY <2>2, <2>3
  <2>5. q \in Seq(AllFrames) /\ \A i \in 1..Len(q) : q[i].type # "open"
    <3>1. \A i \in 1..Len(q) : q[i] \in DataFrames
      BY <2>4
    <3>2. \A f \in DataFrames : f.type # "open"
      BY DEF DataFrames
    <3>3. Seq(DataFrames) \subseteq Seq(AllFrames)
      BY FrameFacts
    <3>. QED
      BY <2>4, <3>1, <3>2, <3>3
  <2>6. Grown(q)
    BY <2>1, <2>2 DEF Grown
  <2>7. \A d \in Conns : \A i : OpenAt(net', d, i) => OpenAt(net, d, i)
    BY <1>5, <2>5, <2>6
  <2>. QED
    BY <1>3, <1>11, <2>7 DEF WriteLoop
<1>12. ASSUME NEW c \in Conns, Resend(c)
       PROVE  OneOpen'
  <2>1. PICK f : f = Head(resend[c])
    OBVIOUS
  <2>2. f \in DataFrames
    BY <1>12, <2>1, HeadFacts DEF Resend, Types
  <2>3. f \in AllFrames /\ f.type # "open"
    BY <2>2, FrameFacts DEF DataFrames
  <2>4. Grown(<<f>>)
    BY <1>12, <2>1, Zenon DEF Resend, Transmit, Grown, Slots
  <2>. QED
    BY <1>3, <1>6, <1>12, <2>3, <2>4 DEF Resend
<1>13. ASSUME NEW c \in Conns, Cut(c)
       PROVE  OneOpen'
  <2>1. PICK n \in 0..Len(net[c]) : net' = [net EXCEPT ![c] = SubSeq(@, 1, n)]
    BY <1>13 DEF Cut
  <2>2. PICK q : q = net[c]
    OBVIOUS
  <2>3. q \in Seq(AllFrames) /\ n \in 0..Len(q) /\ net'[c] = SubSeq(q, 1, n)
        /\ \A d \in Conns : d # c => net'[d] = net[d]
    BY <1>1, <2>1, <2>2
  <2>4. /\ DOMAIN SubSeq(q, 1, n) \subseteq DOMAIN q
        /\ \A i \in DOMAIN SubSeq(q, 1, n) : SubSeq(q, 1, n)[i] = q[i]
    BY <2>3
  <2>5. \A d \in Conns : \A i : OpenAt(net', d, i) => OpenAt(net, d, i)
    BY <2>2, <2>3, <2>4, Zenon DEF OpenAt
  <2>. QED
    BY <1>3, <1>13, <2>5 DEF Cut
<1>14. ASSUME NEW c \in Conns, Receive(c)
       PROVE  OneOpen'
  <2>1. PICK q, f : q = net[c] /\ f = Head(q)
    OBVIOUS
  <2>2. q \in Seq(AllFrames) /\ q # <<>>
    BY <1>1, <1>14, <2>1 DEF Receive
  <2>3. /\ f \in AllFrames /\ f = q[1] /\ 1 \in DOMAIN q
        /\ \A i \in DOMAIN Tail(q) :
              i \in Nat \ {0} /\ i + 1 \in DOMAIN q /\ Tail(q)[i] = q[i + 1]
    BY <2>1, <2>2
  <2>4. net'[c] = Tail(q) /\ \A d \in Conns : d # c => net'[d] = net[d]
    BY <1>1, <1>14, <2>1 DEF Receive
  <2>5. ASSUME NEW d \in Conns, NEW i, OpenAt(net', d, i)
        PROVE  /\ d # c => OpenAt(net, d, i)
               /\ d = c => OpenAt(net, c, i + 1) /\ i \in Nat \ {0}
    BY <2>1, <2>3, <2>4, <2>5, Zenon DEF OpenAt
  <2>6. spc' = spc /\ replay = <<>>
    BY <1>14 DEF Receive
  <2>7. CASE f.type = "open"
    <3>1. OpenAt(net, c, 1)
      BY <2>1, <2>3, <2>7, Zenon DEF OpenAt
    <3>2. spc # "new" /\ \A d \in Conns : \A i : OpenAt(net, d, i) => d = c /\ i = 1
      BY <3>1, OneOpenAt, Zenon
    <3>3. \A d \in Conns : \A i : ~OpenAt(net', d, i)
      <4>1. ASSUME NEW d \in Conns, NEW i, OpenAt(net', d, i)
            PROVE  FALSE
        <5>1. CASE d # c
          BY <2>5, <3>2, <4>1, <5>1, Zenon
        <5>2. CASE d = c
          <6>1. OpenAt(net, c, i + 1) /\ i \in Nat \ {0}
            BY <2>5, <4>1, <5>2
          <6>2. i + 1 = 1
            BY <3>2, <6>1, Zenon
          <6>. QED
            BY <6>1, <6>2
        <5>. QED
          BY <5>1, <5>2
      <4>. QED
        BY <4>1, Zenon
    <3>4. opened' = TRUE
      BY <1>14, <2>1, <2>7 DEF Receive, ReceiveOpen
    <3>. QED
      BY <1>2, <2>6, <3>2, <3>3, <3>4, Zenon
  <2>8. CASE f.type # "open"
    <3>1. /\ UNCHANGED <<opened, replay>> /\ (~opened => st' = st)
      <4>1. f.type = "data" \/ f.type = "close"
        BY <2>3, <2>8 DEF AllFrames
      <4>2. f.type = "data" => ReceiveData(f.n)
        BY <1>14, <2>1 DEF Receive
      <4>3. f.type = "close" => ReceiveClose
        BY <1>14, <2>1 DEF Receive
      <4>. QED
        BY <4>1, <4>2, <4>3 DEF ReceiveData, ReceiveClose, Registered
    <3>2. ASSUME NEW d \in Conns, NEW e \in Conns, NEW i, NEW j,
                 OpenAt(net', d, i), OpenAt(net', e, j)
          PROVE  spc # "new" /\ ~opened /\ d = e /\ i = j
      <4>1. CASE d = c /\ e = c
        <5>1. spc # "new" /\ ~opened /\ i + 1 = j + 1 /\ i \in Nat /\ j \in Nat
          BY <2>5, <3>2, <4>1, OneOpenAt, Zenon
        <5>. QED
          BY <4>1, <5>1
      <4>2. CASE d # c /\ e # c
        <5>1. OpenAt(net, d, i) /\ OpenAt(net, e, j)
          BY <2>5, <3>2, <4>2, Zenon
        <5>. QED
          BY <5>1, OneOpenAt, Zenon
      <4>3. CASE d = c /\ e # c
        BY <2>5, <3>2, <4>3, OneOpenAt, Zenon
      <4>4. CASE d # c /\ e = c
        BY <2>5, <3>2, <4>4, OneOpenAt, Zenon
      <4>. QED
        BY <4>1, <4>2, <4>3, <4>4
    <3>. QED
      BY <1>2, <2>6, <3>1, <3>2, OneOpenAt, Zenon
  <2>. QED
    BY <2>7, <2>8
<1>15. ASSUME opened \/ UNCHANGED st, opened \/ UNCHANGED replay, UNCHANGED <<net, opened, spc>>
       PROVE  OneOpen'
  BY <1>2, <1>15, OneOpenAt, Zenon
<1>16. CASE Replay
  BY <1>15, <1>16 DEF Replay, OneOpen
<1>17. ASSUME NEW c \in Conns, PeerReaderExits(c)
       PROVE  OneOpen'
  BY <1>15, <1>17 DEF PeerReaderExits
<1>20. CASE PeerSwaps \/ PeerCloses
  <2>1. opened
    <3>1. stale => opened
      BY DEF Types
    <3>2. ~opened => ~st.closed
      BY DEF OneOpen, newStream
    <3>. QED
      BY <1>20, <3>1, <3>2 DEF PeerSwaps, PeerCloses
  <2>. QED
    BY <1>15, <1>20, <2>1 DEF PeerSwaps, PeerCloses
<1>18. CASE UNCHANGED <<net, opened, st, replay>> /\ (spc' = "new" => spc = "new")
  BY <1>3, <1>4, <1>18
<1>19. \/ OpenStream \/ SyncSend \/ WriteUnstriped \/ CloseSends \/ Replay \/ PeerSwaps \/ PeerCloses
       \/ \E c \in Conns : \/ WriteLoop(c) \/ Resend(c) \/ Cut(c) \/ Receive(c)
                           \/ PeerReaderExits(c)
       \/ UNCHANGED <<net, opened, st, replay>> /\ (spc' = "new" => spc = "new")
  BY DEF Next, StartWrite, WriteStep, PushRing, TrySend, TryAlt, CloseStarts, ConnStep,
         ReaderExits, RemoveFromSlot, DrainRing, Tick
<1>. QED
  BY <1>7, <1>8, <1>9, <1>10, <1>11, <1>12, <1>13, <1>14, <1>16, <1>17, <1>18, <1>19, <1>20

-----------------------------------------------------------------------------
(* Receiver: a striped stream is a reorder buffer that begins at 0.        *)

\* What ReorderBufferProofs assumes of its constants.
LEMMA BufAssumption ==
    /\ NumChunks \in 1..SeqSpace /\ {0} \subseteq 0..(SeqSpace - 1)
    /\ SeqSpace \div 2 \in Nat /\ NumChunks <= SeqSpace \div 2 /\ SeqSpace \div 2 <= SeqSpace
<1>1. SeqSpace \div 2 \in Nat /\ SeqSpace \div 2 <= SeqSpace
  BY Numbers
<1>2. NumChunks \in 1..(SeqSpace \div 2)
  BY StreamAssumption
<1>3. PICK h : h = SeqSpace \div 2
  OBVIOUS
<1>. QED
  BY <1>1, <1>2, <1>3, Numbers

\* The operators of ReorderOps are the same in both modules.
LEMMA SameOps ==
    /\ \A s : Buf!Ended(s) = Ended(s)
    /\ \A s, n, t : Buf!dispatchStriped(s, n, t) = dispatchStriped(s, n, t)
    /\ \A s : Buf!dispatchClose(s) = dispatchClose(s)
    /\ \A s, w : Buf!finishClose(s, w) = finishClose(s, w)
    /\ \A s, f : Buf!TornClose(s, f) = TornClose(s, f)
    /\ Buf!newStream(0) = newStream(0)
<1>1. \A a : Buf!Cardinality(a) = Cardinality(a)
  BY Zenon DEF Buf!Cardinality, Cardinality
<1>2. \A a, b : Buf!Before(a, b) = Before(a, b)
  BY DEF Buf!Before, Before
<1>3. \A a : Buf!ToSet(a) = ToSet(a)
  BY DEF Buf!ToSet, ToSet
<1>4. \A a, b : Buf!RunLength(a, b) = RunLength(a, b)
  BY <1>1, Zenon DEF Buf!RunLength, RunLength
<1>5. \A a, b : Buf!Duplicate(a, b) = Duplicate(a, b)
  BY <1>2, Zenon DEF Buf!Duplicate, Duplicate
<1>6. \A a, b : Buf!Flushed(a, b) = Flushed(a, b)
  BY <1>4, <1>5, Zenon DEF Buf!Flushed, Flushed
<1>7. \A a, b, c : Buf!Insert(a, b, c) = Insert(a, b, c)
  BY <1>3, <1>5, <1>6, Zenon DEF Buf!Insert, Insert
<1>8. \A a : Buf!FlushAll(a) = FlushAll(a)
  BY <1>1, Zenon DEF Buf!FlushAll, FlushAll, Buf!Before, Before
<1>9. \A a, b : Buf!finishClose(a, b) = finishClose(a, b)
  BY <1>8, Zenon DEF Buf!finishClose, finishClose, Buf!FlushAllLeaves, FlushAllLeaves
<1>10. \A a, b : Buf!closeStream(a, b) = closeStream(a, b)
  BY <1>9, Zenon DEF Buf!closeStream, closeStream
<1>11. \A s, n, t : Buf!dispatchStriped(s, n, t) = dispatchStriped(s, n, t)
  <2>1. \A b : Buf!Overflowed(b) = Overflowed(b)
    BY <1>1, Zenon DEF Buf!Overflowed, Overflowed
  <2>2. \A b, t : Buf!GapTimedOut(b, t) = GapTimedOut(b, t)
    BY Zenon DEF Buf!GapTimedOut, GapTimedOut
  <2>3. \A s, t : Buf!checkLimits(s, t) = checkLimits(s, t)
    BY <1>10, <2>1, <2>2, Zenon DEF Buf!checkLimits, checkLimits
  <2>4. \A s, n, t : Buf!insertFrame(s, n, t) = insertFrame(s, n, t)
    BY <1>6, <1>7, Zenon DEF Buf!insertFrame, insertFrame
  <2>. QED
    BY <2>3, <2>4, Zenon DEF Buf!dispatchStriped, dispatchStriped
<1>12. \A s : Buf!dispatchClose(s) = dispatchClose(s)
  BY <1>10, Zenon DEF Buf!dispatchClose, dispatchClose
<1>13. \A s, f : Buf!TornClose(s, f) = TornClose(s, f)
  BY <1>1, Zenon DEF Buf!TornClose, TornClose, Buf!FlushAllLeaves, FlushAllLeaves
<1>14. \A s : Buf!Ended(s) = Ended(s)
  BY Zenon DEF Buf!Ended, Ended
<1>15. Buf!newStream(0) = newStream(0)
  BY Zenon DEF newStream, Buf!newStream, newReorderBuffer, Buf!newReorderBuffer
<1>. QED
  BY <1>9, <1>11, <1>12, <1>13, <1>14, <1>15

\* Chunk n has sequence number n.
LEMMA AtZero ==
    ASSUME NEW n \in Nums
    PROVE  Buf!At(0, n) = n
<1>1. n \in Int /\ n \in 0..(SeqSpace - 1) /\ SeqSpace \in Nat \ {0}
  BY BufAssumption, Numbers DEF Nums
<1>2. (0 + n) % SeqSpace = n
  BY <1>1
<1>. QED
  BY <1>2 DEF Buf!At

\* Every chunk is within the window in which sequence numbers can be compared.
LEMMA InWindow ==
    ASSUME NEW s, Buf!Behaves(0, s), NEW n \in Nums
    PROVE  n \in (Len(s.recv) - (SeqSpace \div 2))..(Len(s.recv) + (SeqSpace \div 2) - 1)
<1>1. PICK d, w : d = Len(s.recv) /\ w = SeqSpace \div 2
  OBVIOUS
<1>2. d \in Nat /\ d <= NumChunks
  BY <1>1 DEF Buf!Behaves, Buf!Streams, Buf!Prefix
<1>3. w \in Nat /\ NumChunks <= w /\ n \in 0..(NumChunks - 1)
  BY <1>1, BufAssumption DEF Nums
<1>4. n \in (d - w)..(d + w - 1)
  BY <1>2, <1>3, Numbers
<1>. QED
  BY <1>1, <1>4, Zenon

\* From s the stream goes to t.
StreamStep(s, t) ==
    /\ ~Ended(s) /\ Buf!Behaves(0, s)
    /\ \/ Buf!Good(0, t) /\ Buf!Continues(0, Len(s.recv), t)
       \/ Buf!Torn(t) /\ InOrder!IsPrefix(s.recv, t.recv)

LEMMA StreamSteps ==
    ASSUME NEW s, Buf!Behaves(0, s), ~Ended(s), NEW time \in Nat
    PROVE  /\ \A n \in Nums : StreamStep(s, dispatchStriped(s, n, time))
           /\ StreamStep(s, dispatchClose(s))
           /\ StreamStep(s, [s EXCEPT !.closed = TRUE])
           /\ StreamStep(s, finishClose(s, "gap"))
           /\ s.closed => \A f : \A t \in TornClose(s, f) : StreamStep(s, t)
<1>2. 0 \in Buf!Seqs
  BY Numbers DEF Buf!Seqs
<1>3. ASSUME NEW n \in Nums
      PROVE  StreamStep(s, dispatchStriped(s, n, time))
  <2>1. /\ n \in Buf!Chunks
        /\ n \in (Len(s.recv) - Buf!Window)..(Len(s.recv) + Buf!Window - 1)
    BY InWindow DEF Buf!Window, Buf!Chunks, Nums
  <2>2. PICK t : t = Buf!dispatchStriped(s, Buf!At(0, n), time)
    OBVIOUS
  <2>3. Buf!Good(0, t) /\ Buf!Continues(0, Len(s.recv), t)
    BY <1>2, <2>1, <2>2, Buf!DataFacts, BufAssumption, ReorderAssumption
  <2>4. t = dispatchStriped(s, n, time)
    BY <2>2, AtZero, SameOps, Zenon
  <2>. QED
    BY <2>3, <2>4, Zenon DEF StreamStep
<1>4. StreamStep(s, dispatchClose(s))
  <2>1. PICK t : t = Buf!dispatchClose(s)
    OBVIOUS
  <2>2. (Buf!Behaves(0, t) \/ Buf!Closed(0, t)) /\ Buf!Continues(0, Len(s.recv), t)
    BY <1>2, <2>1, Buf!CloseFrameFacts, BufAssumption, ReorderAssumption
  <2>. QED
    BY <2>1, <2>2, SameOps, Zenon DEF StreamStep, Buf!Good
<1>5. StreamStep(s, [s EXCEPT !.closed = TRUE])
  <2>1. PICK t : t = [s EXCEPT !.closed = TRUE]
    OBVIOUS
  <2>2. Buf!Behaves(0, t) /\ Buf!Continues(0, Len(s.recv), t)
    BY <1>2, <2>1, Buf!SwapFacts, BufAssumption, ReorderAssumption
  <2>. QED
    BY <2>1, <2>2, Zenon DEF StreamStep, Buf!Good
<1>6. StreamStep(s, finishClose(s, "gap"))
  <2>1. PICK t : t = Buf!finishClose(s, "gap")
    OBVIOUS
  <2>2. Len(s.recv) \in 0..Len(s.recv)
    BY DEF Buf!Behaves, Buf!Streams
  <2>3. Buf!Closed(0, t) /\ Buf!Continues(0, Len(s.recv), t)
    BY <1>2, <2>1, <2>2, Buf!FinishFacts, BufAssumption, ReorderAssumption
  <2>. QED
    BY <2>1, <2>3, SameOps, Zenon DEF StreamStep, Buf!Good
<1>7. ASSUME s.closed, NEW f, NEW t \in TornClose(s, f)
      PROVE  StreamStep(s, t)
  <2>1. s \in Buf!Streams /\ t \in Buf!TornClose(s, f)
    BY <1>7, SameOps DEF Buf!Behaves
  <2>2. Buf!Torn(t) /\ Buf!IsPrefix(s.recv, t.recv)
    BY <1>7, <2>1, Buf!TearFacts, BufAssumption, ReorderAssumption DEF Buf!Streams
  <2>. QED
    BY <2>2, Zenon DEF StreamStep, Buf!IsPrefix, InOrder!IsPrefix
<1>. QED
  BY <1>3, <1>4, <1>5, <1>6, <1>7

\* dispatch of a data frame to a striped stream.
LEMMA DispatchedSteps ==
    ASSUME NEW s, Buf!Behaves(0, s), ~Ended(s), striping, now \in Nat, NEW n \in Nums,
           NEW t \in Dispatched(s, n)
    PROVE  StreamStep(s, t)
<1>1. CASE t = dispatchStriped(s, n, now)
  BY <1>1, StreamSteps, Zenon
<1>2. CASE s.closed /\ t \in TornClose(s, {n})
  BY <1>2, StreamSteps, Zenon
<1>. QED
  BY <1>1, <1>2 DEF Dispatched

\* Every step leaves a striped stream alone or is a step of the buffer.
LEMMA NextStream ==
    ASSUME Types, OneOpen, Receiver, striping, Next
    PROVE  UNCHANGED striping /\ (st' = st \/ StreamStep(st, st'))
<1>. USE DEF connVars, sendVars, recvVars
<1>1. /\ ~Ended(st) => Buf!Behaves(0, st)
      /\ Ended(st) => st.closed /\ [st EXCEPT !.closed = TRUE] = st
      /\ now \in Nat
  <2>1. Buf!Good(0, st) \/ Buf!Torn(st)
    BY DEF Receiver
  <2>2. now \in Nat
    BY DEF Types
  <2>3. CASE Buf!Torn(st)
    BY <2>2, <2>3 DEF Buf!Torn, Buf!LooseStreams, Ended
  <2>4. CASE Buf!Good(0, st)
    BY <2>2, <2>4, SameOps DEF Buf!Good, Buf!Closed, Buf!Behaves, Buf!Streams, Ended
  <2>. QED
    BY <2>1, <2>3, <2>4
<1>2. CASE Replay
  <2>1. PICK n : n = Head(replay)
    OBVIOUS
  <2>2. n \in Nums
    BY <1>2, <2>1, HeadFacts DEF Replay, Types
  <2>3. UNCHANGED striping /\ (st' = st \/ (~Ended(st) /\ st' \in Dispatched(st, n)))
    BY <1>2, <2>1, Zenon DEF Replay
  <2>. QED
    BY <1>1, <2>2, <2>3, DispatchedSteps, Zenon
<1>3. ASSUME NEW c \in Conns, Receive(c)
      PROVE  UNCHANGED striping /\ (st' = st \/ StreamStep(st, st'))
  <2>1. PICK f : f = Head(net[c])
    OBVIOUS
  <2>2. f \in AllFrames /\ 1 \in DOMAIN net[c] /\ f = net[c][1] /\ UNCHANGED striping
    BY <1>3, <2>1, HeadFacts DEF Receive, Types
  <2>3. CASE f.type = "open"
    <3>1. st' = newStream(0)
      BY <1>3, <2>1, <2>3 DEF Receive, ReceiveOpen
    <3>2. ~opened
      BY <2>2, <2>3, Zenon DEF OneOpen
    <3>3. st = newStream(0)
      BY <3>2 DEF OneOpen
    <3>. QED
      BY <2>2, <3>1, <3>3
  <2>4. CASE f.type = "data"
    <3>1. st' = st \/ (~Ended(st) /\ st' \in Dispatched(st, f.n))
      BY <1>3, <2>1, <2>4, Zenon DEF Receive, ReceiveData, Registered
    <3>2. f.n \in Nums
      BY <2>2 DEF AllFrames
    <3>. QED
      BY <1>1, <2>2, <3>1, <3>2, DispatchedSteps, Zenon
  <2>5. CASE f.type = "close"
    <3>1. ReceiveClose
      BY <1>3, <2>1, <2>5 DEF Receive
    <3>2. st' = st \/ (~Ended(st) /\ st' = dispatchClose(st))
      BY <3>1, Zenon DEF ReceiveClose, Registered
    <3>. QED
      BY <1>1, <2>2, <3>2, StreamSteps, Zenon
  <2>. QED
    BY <2>2, <2>3, <2>4, <2>5 DEF AllFrames
<1>4. CASE PeerSwaps
  <2>1. UNCHANGED striping /\ st' = [st EXCEPT !.closed = TRUE]
    BY <1>4, Zenon DEF PeerSwaps
  <2>. QED
    BY <1>1, <2>1, StreamSteps, Zenon
<1>5. CASE PeerCloses
  <2>1. UNCHANGED striping /\ ~Ended(st) /\ st' = finishClose(st, "gap")
    BY <1>5, Zenon DEF PeerCloses
  <2>. QED
    BY <1>1, <2>1, StreamSteps, Zenon
<1>6. \/ Replay \/ PeerSwaps \/ PeerCloses \/ \E c \in Conns : Receive(c)
      \/ UNCHANGED <<striping, st>>
  BY DEF Next, OpenStream, StartWrite, WriteStep, PushRing, TrySend, TryAlt, SyncSend,
         WriteUnstriped, CloseStarts, CloseSends, ConnStep, WriteLoop, ReaderExits,
         RemoveFromSlot, DrainRing, Resend, Cut, PeerReaderExits, Tick
<1>. QED
  BY <1>2, <1>3, <1>4, <1>5, <1>6

LEMMA NextReceiver ==
    ASSUME Types, OneOpen, Receiver, Next
    PROVE  Receiver'
<1>1. UNCHANGED striping
  BY DEF Next, OpenStream, StartWrite, WriteStep, PushRing, TrySend, TryAlt, SyncSend,
         WriteUnstriped, CloseStarts, CloseSends, ConnStep, WriteLoop, ReaderExits,
         RemoveFromSlot, DrainRing, Resend, Cut, Tick, Replay, Receive, PeerReaderExits,
         PeerSwaps, PeerCloses, connVars, sendVars, recvVars
<1>2. Receiver' <=> (striping' => Buf!Good(0, st') \/ Buf!Torn(st'))
  BY Zenon DEF Receiver
<1>3. striping => st' = st \/ StreamStep(st, st')
  BY NextStream
<1>. QED
  BY <1>1, <1>2, <1>3, Zenon DEF Receiver, StreamStep

\* recv, as the numbers of the chunks.
LEMMA OutIsRecv ==
    ASSUME NEW s, s \in Buf!Streams, NEW d, Buf!Continues(0, d, s)
    PROVE  Buf!OutOf(0, s) = s.recv
<1>1. PICK n : n = Len(s.recv)
  OBVIOUS
<1>2. PICK c \in [1..n -> Buf!Chunks] : \A i \in 1..n : s.recv[i] = Buf!At(0, c[i])
  BY <1>1, Zenon DEF Buf!Continues
<1>3. Buf!OutOf(0, s) = c
  <2>1. 0 \in Buf!Seqs
    BY Numbers DEF Buf!Seqs
  <2>. QED
    BY <1>1, <1>2, <2>1, Buf!Numbered, BufAssumption, ReorderAssumption
<1>4. ASSUME NEW i \in 1..n
      PROVE  s.recv[i] = c[i]
  <2>1. c[i] \in Nums
    BY <1>2 DEF Buf!Chunks, Nums
  <2>. QED
    BY <1>2, <2>1, AtZero
<1>5. s.recv \in Seq(Buf!Seqs)
  BY DEF Buf!Streams
<1>6. s.recv = [i \in 1..n |-> s.recv[i]]
  BY <1>1, <1>5
<1>7. c = [i \in 1..n |-> c[i]]
  BY <1>2
<1>. QED
  BY <1>3, <1>4, <1>6, <1>7, Zenon

-----------------------------------------------------------------------------
(* Pinned: a stream that is not striped, while no connection breaks.       *)

LEMMA LineAppend ==
    ASSUME NEW q \in Seq(AllFrames), NEW d \in Nat, NEW ow \in Nat, NEW op \in BOOLEAN,
           NEW pc, NEW pc2, pc = "closed" => pc2 = "closed",
           Line(q, d, op, pc, ow), op \/ q # <<>>,
           NEW f \in AllFrames, f.type # "open",
           f.type = "close" => pc2 = "closed" /\ d + Len(q) - Ahead(op) >= ow
    PROVE  Line(Append(q, f), d, op, pc2, ow)
<1>1. PICK r, k : r = Append(q, f) /\ k = Len(q)
  OBVIOUS
<1>2. /\ k \in Nat /\ DOMAIN r = 1..(k + 1) /\ r[k + 1] = f
      /\ \A i \in 1..k : i \in DOMAIN q /\ r[i] = q[i]
      /\ op \/ k >= 1
  BY <1>1
<1>3. ASSUME NEW i \in 1..(k + 1)
      PROVE  /\ r[i].type = "open" <=> i = 1 /\ ~op
             /\ r[i].type = "close" => pc2 = "closed" /\ d + (i - 1) - Ahead(op) >= ow
  <2>1. CASE i \in 1..k
    <3>1. /\ q[i].type = "open" <=> i = 1 /\ ~op
          /\ q[i].type = "close" => pc = "closed" /\ d + (i - 1) - Ahead(op) >= ow
      BY <1>2, <2>1 DEF Line
    <3>. QED
      BY <1>2, <2>1, <3>1
  <2>2. CASE i = k + 1
    <3>1. ~(i = 1 /\ ~op) /\ i - 1 = k /\ r[i] = f
      BY <1>2, <2>2
    <3>. QED
      BY <1>1, <3>1
  <2>. QED
    BY <1>2, <2>1, <2>2
<1>. QED
  BY <1>1, <1>2, <1>3 DEF Line

LEMMA LineTail ==
    ASSUME NEW q \in Seq(AllFrames), q # <<>>, NEW d \in Nat, NEW e \in Nat, NEW ow \in Nat,
           NEW op \in BOOLEAN, NEW pc, Line(q, d, op, pc, ow),
           e >= d + 1 - Ahead(op) \/ e >= ow
    PROVE  Line(Tail(q), e, TRUE, pc, ow)
<1>1. PICK r, k : r = Tail(q) /\ k = Len(q)
  OBVIOUS
<1>2. /\ k \in Nat \ {0} /\ DOMAIN r = 1..(k - 1)
      /\ \A i \in 1..(k - 1) : i + 1 \in DOMAIN q /\ r[i] = q[i + 1]
  BY <1>1
<1>3. ASSUME NEW i \in 1..(k - 1)
      PROVE  /\ r[i].type # "open"
             /\ r[i].type = "close" => pc = "closed" /\ e + (i - 1) - 0 >= ow
  <2>1. /\ q[i + 1].type = "open" <=> i + 1 = 1 /\ ~op
        /\ q[i + 1].type = "close" => pc = "closed" /\ d + ((i + 1) - 1) - Ahead(op) >= ow
    BY <1>2 DEF Line
  <2>2. r[i] = q[i + 1] /\ i + 1 # 1 /\ (i + 1) - 1 = i /\ i \in Nat \ {0}
    BY <1>2
  <2>3. Ahead(op) \in {0, 1}
    BY DEF Ahead
  <2>. QED
    BY <2>1, <2>2, <2>3
<1>. QED
  BY <1>1, <1>2, <1>3 DEF Line, Ahead

\* dispatch of FrameClose to a stream whose reorder buffer is empty.
LEMMA CloseEmpty ==
    ASSUME NEW s \in PinnedStreams, s.ended = "no"
    PROVE  /\ dispatchClose(s) \in PinnedStreams
           /\ dispatchClose(s).recv = s.recv /\ dispatchClose(s).ended = "close"
<1>1. PICK rb : rb = s.reorder
  OBVIOUS
<1>2. rb \in [h : {{}}, nextSeq : {0}, gapSince : {NoGap}]
  BY <1>1 DEF PinnedStreams
<1>3. s.reorder = rb /\ s.recv \in Seq(Nums) /\ ~s.closed
  BY <1>1 DEF PinnedStreams
<1>4. FlushAll(rb) = <<>>
  <2>1. rb.h = {} /\ Cardinality(rb.h) = 0
    BY <1>2, FS_EmptySet
  <2>2. PICK Q : Q = [1..0 -> {}]
    OBVIOUS
  <2>3. <<>> \in Q /\ \A q \in Q : q = <<>>
    BY <2>2
  <2>4. \A i, j \in DOMAIN <<>> : i < j => Before(<<>>[i], <<>>[j])
    OBVIOUS
  <2>5. FlushAll(rb) = CHOOSE q \in Q : \A i, j \in DOMAIN q : i < j => Before(q[i], q[j])
    BY <2>1, <2>2, Zenon DEF FlushAll
  <2>. QED
    BY <2>3, <2>4, <2>5, Zenon
<1>5. FlushAllLeaves(rb) \in [h : {{}}, nextSeq : {0}, gapSince : {NoGap}]
  BY <1>2 DEF FlushAllLeaves
<1>6. s.recv \o <<>> = s.recv
  BY <1>3
<1>7. dispatchClose(s) = [s EXCEPT !.recv = s.recv, !.reorder = FlushAllLeaves(rb),
                                   !.closed = TRUE, !.ended = "close"]
  <2>1. s.reorder.h = {} /\ ~s.closed
    BY <1>2, <1>3
  <2>2. dispatchClose(s) = closeStream(s, "close")
    BY <2>1, Zenon DEF dispatchClose
  <2>3. closeStream(s, "close") =
          [s EXCEPT !.recv = s.recv \o FlushAll(s.reorder),
                    !.reorder = FlushAllLeaves(s.reorder), !.closed = TRUE, !.ended = "close"]
    BY <2>1, Zenon DEF closeStream, finishClose
  <2>. QED
    BY <1>3, <1>4, <1>6, <2>2, <2>3, Zenon
<1>. QED
  BY <1>3, <1>5, <1>7 DEF PinnedStreams

LEMMA DataAppended ==
    ASSUME NEW s \in PinnedStreams, NEW n \in Nums
    PROVE  LET t == [s EXCEPT !.recv = Append(s.recv, n)] IN
           t \in PinnedStreams /\ Len(t.recv) = Len(s.recv) + 1 /\ t.ended = s.ended
<1>1. s.recv \in Seq(Nums)
  BY DEF PinnedStreams
<1>2. PICK r : r = Append(s.recv, n)
  OBVIOUS
<1>3. r \in Seq(Nums) /\ Len(r) = Len(s.recv) + 1
  BY <1>1, <1>2
<1>. QED
  BY <1>2, <1>3 DEF PinnedStreams

\* A write on a connection that is up is in flight, without an error.
LEMMA IntactSend ==
    ASSUME Types, Intact, NEW c \in Conns, NEW f, NEW ok, SendFrameOn(c, f, ok)
    PROVE  /\ ok /\ net'[c] = Append(net[c], f)
           /\ \A d \in Conns : d # c => net'[d] = net[d]
<1>1. Writable(c) /\ ~WriteTimeouts /\ life[c] = "up"
  BY DEF Intact, Writable
<1>2. ok /\ Transmit(c, <<f>>)
  BY <1>1, Zenon DEF SendFrameOn
<1>3. net' = [net EXCEPT ![c] = net[c] \o <<f>>]
  BY <1>1, <1>2 DEF Transmit
<1>4. net[c] \in Seq(AllFrames)
  BY DEF Types
<1>5. net[c] \o <<f>> = Append(net[c], f)
  BY <1>4
<1>. QED
  BY <1>2, <1>3, <1>5 DEF Types

\* The steps that are left while the connections are up.
LEMMA IntactSteps ==
    ASSUME Types, Writer, Rings, Next, Intact', Pinned
    PROVE  /\ Intact /\ UNCHANGED striping
           /\ \/ OpenStream \/ WriteUnstriped \/ CloseStarts \/ CloseSends
              \/ \E c \in Conns : Receive(c)
              \/ Tick
<1>. USE DEF connVars, sendVars, recvVars
<1>1. UNCHANGED striping
  BY DEF Next, OpenStream, StartWrite, WriteStep, PushRing, TrySend, TryAlt, SyncSend,
         WriteUnstriped, CloseStarts, CloseSends, ConnStep, WriteLoop, ReaderExits,
         RemoveFromSlot, DrainRing, Resend, Cut, Tick, Replay, Receive, PeerReaderExits,
         PeerSwaps, PeerCloses
<1>2. ~striping /\ ~WriteTimeouts /\ \A c \in Conns : life'[c] = "up"
  BY <1>1 DEF Intact
<1>3. ASSUME NEW c \in Conns, Cut(c) \/ ReaderExits(c) \/ RemoveFromSlot(c) \/ DrainRing(c)
      PROVE  FALSE
  <2>1. \E l \in Lives \ {"up"} : life' = [life EXCEPT ![c] = l]
    BY <1>3 DEF Cut, ReaderExits, RemoveFromSlot, DrainRing, Lives
  <2>2. life'[c] # "up"
    BY <2>1 DEF Types
  <2>. QED
    BY <1>2, <2>2
<1>4. life' = life
  BY <1>3 DEF Next, OpenStream, StartWrite, WriteStep, PushRing, TrySend, TryAlt, SyncSend,
         WriteUnstriped, CloseStarts, CloseSends, ConnStep, WriteLoop, Resend, Tick, Replay,
         Receive, PeerReaderExits, PeerSwaps, PeerCloses
<1>5. Intact
  BY <1>2, <1>4 DEF Intact
<1>6. ~StartWrite /\ ~WriteStep
  BY <1>2, HandStriping DEF StartWrite, WriteStep, PushRing, TrySend, TryAlt, SyncSend, InHand
<1>7. ~Replay
  BY <1>5, Zenon DEF Replay, Pinned
<1>9. ~PeerSwaps /\ ~PeerCloses
  <2>1. ~stale
    BY <1>2 DEF Types
  <2>2. st \in PinnedStreams
    BY <1>5 DEF Pinned
  <2>. QED
    BY <2>1, <2>2 DEF PeerSwaps, PeerCloses, PinnedStreams, Ended
<1>8. ASSUME NEW c \in Conns
      PROVE  ~ConnStep(c) /\ ~Cut(c) /\ ~PeerReaderExits(c)
  <2>1. ~WriteLoop(c)
    <3>1. Len(wch[c]) = 0
      BY <1>2 DEF Writer
    <3>. QED
      BY <3>1 DEF WriteLoop
  <2>2. ~Resend(c)
    BY <1>2, <1>4 DEF Resend, Rings
  <2>3. ~PeerReaderExits(c)
    BY <1>2, <1>4 DEF PeerReaderExits
  <2>. QED
    BY <1>3, <2>1, <2>2, <2>3 DEF ConnStep
<1>. QED
  BY <1>1, <1>5, <1>6, <1>7, <1>8, <1>9 DEF Next

LEMMA NextPinned ==
    ASSUME Types, Writer, Rings, OneOpen, Pinned, Next
    PROVE  Pinned'
<1>. USE DEF connVars, sendVars, recvVars
<1>1. SUFFICES ASSUME Intact'
               PROVE  /\ replay' = <<>> /\ (~opened' => pending' = <<>>) /\ st' \in PinnedStreams
                      /\ \A c \in Conns : c # pinned' \/ spc' \in {"new", "failed"} => net'[c] = <<>>
                      /\ spc' \in {"new", "failed"} => ~opened'
                      /\ st'.ended = "close" => spc' = "closed" /\ Len(st'.recv) >= owed'
                      /\ spc' \notin {"new", "failed"} =>
                            /\ ~opened' => net'[pinned'] # <<>>
                            /\ spc' # "closed" =>
                                  Len(st'.recv) + Len(net'[pinned']) - Ahead(opened') = nextStripSeq'
                            /\ Line(net'[pinned'], Len(st'.recv), opened', spc', owed')
  BY Zenon DEF Pinned, PinnedStreams, Line, Ahead
<1>2. Intact /\ ~striping /\ ~WriteTimeouts /\ UNCHANGED striping
  BY <1>1, IntactSteps, Zenon DEF Intact
<1>3. PICK d, k, p, q : d = Len(st.recv) /\ k = nextStripSeq /\ p = pinned /\ q = net[p]
  OBVIOUS
<1>4. /\ replay = <<>> /\ (~opened => pending = <<>>) /\ st \in PinnedStreams
      /\ \A c \in Conns : c # p \/ spc \in {"new", "failed"} => net[c] = <<>>
      /\ spc \in {"new", "failed"} => ~opened
      /\ st.ended = "close" => spc = "closed" /\ d >= owed
  BY <1>2, <1>3, Zenon DEF Pinned
<1>5. ASSUME spc \notin {"new", "failed"}
      PROVE  /\ p \in Conns /\ q \in Seq(AllFrames) /\ Len(q) \in Nat
             /\ ~opened => q # <<>>
             /\ spc # "closed" => d + Len(q) - Ahead(opened) = k
             /\ Line(q, d, opened, spc, owed)
  <2>1. p \in Conns
    BY <1>2, <1>3, <1>5, Zenon DEF Writer
  <2>2. q \in Seq(AllFrames)
    BY <1>3, <2>1 DEF Types
  <2>3. /\ ~opened => q # <<>>
        /\ spc # "closed" => d + Len(q) - Ahead(opened) = k
        /\ Line(q, d, opened, spc, owed)
    BY <1>2, <1>3, <1>5, Zenon DEF Pinned
  <2>. QED
    BY <2>1, <2>2, <2>3
<1>6. /\ k \in Nat /\ owed \in Nat /\ owed <= k /\ d \in Nat
      /\ opened \in BOOLEAN /\ Ahead(opened) \in {0, 1}
      /\ net \in [Conns -> Seq(AllFrames)]
  BY <1>3, <1>4 DEF Types, PinnedStreams, Ahead
<1>7. CASE OpenStream
  <2>1. /\ spc = "new" /\ UNCHANGED <<opened, pending, replay, st, owed, nextStripSeq>>
        /\ ~opened /\ st = newStream(0) /\ nextStripSeq = 0
    BY <1>4, <1>7 DEF OpenStream, OneOpen, Writer
  <2>2. /\ st.recv = <<>> /\ st.ended = "no"
    BY <2>1 DEF newStream
  <2>3. CASE spc' = "failed" /\ net' = net
    BY <1>4, <2>1, <2>2, <2>3
  <2>4. ASSUME NEW c \in Conns, pinned' = c, SendFrameOn(c, Open, TRUE), spc' = "open"
        PROVE  /\ \A e \in Conns : e # c => net'[e] = <<>>
               /\ net'[c] = <<Open>>
    <3>1. net'[c] = Append(net[c], Open) /\ \A e \in Conns : e # c => net'[e] = net[e]
      BY <1>2, <2>4, IntactSend
    <3>2. Append(<<>>, Open) = <<Open>>
      OBVIOUS
    <3>. QED
      BY <1>4, <2>1, <3>1, <3>2
  <2>5. \/ spc' = "failed" /\ net' = net
        \/ \E c \in Conns : pinned' = c /\ SendFrameOn(c, Open, TRUE) /\ spc' = "open"
    <3>1. ASSUME NEW c \in Conns
          PROVE  ~SendFrameOn(c, Open, FALSE)
      BY <1>2, IntactSend
    <3>. QED
      BY <1>2, <1>7, <3>1, Zenon DEF OpenStream
  <2>6. CASE spc' = "open" /\ \E c \in Conns : pinned' = c /\ SendFrameOn(c, Open, TRUE)
    <3>1. PICK c \in Conns : pinned' = c /\ SendFrameOn(c, Open, TRUE)
      BY <2>6
    <3>2. (\A e \in Conns : e # c => net'[e] = <<>>) /\ net'[c] = <<Open>>
      BY <2>4, <2>6, <3>1
    <3>3. Line(<<Open>>, 0, FALSE, "open", owed)
      BY FrameFacts DEF Line
    <3>4. Len(<<Open>>) = 1 /\ <<Open>> # <<>> /\ Len(<<>>) = 0 /\ Ahead(FALSE) = 1
      BY DEF Ahead
    <3>5. opened' = FALSE /\ Len(st'.recv) = 0
      BY <1>6, <2>1, <2>2
    <3>6. Line(net'[pinned'], Len(st'.recv), opened', spc', owed')
      BY <2>1, <2>6, <3>1, <3>2, <3>3, <3>5, Zenon
    <3>7. Len(st'.recv) + Len(net'[pinned']) - Ahead(opened') = nextStripSeq'
      <4>1. Len(net'[pinned']) = 1 /\ Ahead(opened') = 1 /\ nextStripSeq' = 0
        BY <2>1, <3>1, <3>2, <3>4, <3>5
      <4>. QED
        BY <3>5, <4>1
    <3>. QED
      BY <1>4, <2>1, <2>2, <2>6, <3>1, <3>2, <3>4, <3>6, <3>7
  <2>. QED
    BY <2>3, <2>5, <2>6
\* A frame is sent on the pinned connection.
<1>8. ASSUME NEW f \in AllFrames, f.type # "open", spc \notin {"new", "failed"},
             net'[p] = Append(q, f), \A c \in Conns : c # p => net'[c] = net[c],
             UNCHANGED <<opened, pending, replay, st, owed, pinned>>,
             spc = "closed" => spc' = "closed", spc' \notin {"new", "failed"},
             f.type = "close" => spc = "closing" /\ spc' = "closed",
             spc' # "closed" => nextStripSeq' = k + 1 /\ spc # "closed"
      PROVE  Pinned'
  <2>1. f.type = "close" => d + Len(q) - Ahead(opened) >= owed
    BY <1>5, <1>6, <1>8
  <2>2. Line(Append(q, f), d, opened, spc', owed)
    BY <1>5, <1>6, <1>8, <2>1, LineAppend
  <2>3. Len(Append(q, f)) = Len(q) + 1 /\ Append(q, f) # <<>>
    BY <1>5, <1>8
  <2>4. ASSUME spc' # "closed"
        PROVE  d + (Len(q) + 1) - Ahead(opened) = k + 1
    BY <1>5, <1>6, <1>8, <2>4
  <2>5. spc' # "closed" => Len(st'.recv) + Len(net'[pinned']) - Ahead(opened') = nextStripSeq'
    <3>1. /\ Len(st'.recv) = d /\ Len(net'[pinned']) = Len(q) + 1 /\ opened' = opened
      BY <1>3, <1>8, <2>3
    <3>. QED
      BY <1>8, <2>4, <3>1
  <2>6. Line(net'[pinned'], Len(st'.recv), opened', spc', owed')
    BY <1>3, <1>8, <2>2, Zenon
  <2>7. /\ net'[pinned'] # <<>> /\ \A c \in Conns : c # pinned' => net'[c] = <<>>
    BY <1>3, <1>4, <1>8, <2>3, Zenon
  <2>8. st'.ended = "close" => spc' = "closed" /\ Len(st'.recv) >= owed'
    BY <1>3, <1>4, <1>8
  <2>. QED
    BY <1>4, <1>8, <2>5, <2>6, <2>7, <2>8, Zenon DEF Pinned
<1>9. CASE WriteUnstriped
  <2>1. spc \notin {"new", "failed"} /\ UNCHANGED <<opened, pending, replay, st, owed, pinned, spc>>
    BY <1>9 DEF WriteUnstriped, NextChunk, Writer
  <2>2. nextStripSeq \in Nums
    BY <1>9, Numbers DEF WriteUnstriped, NextChunk, Types, Nums
  <2>3. PICK f : f = Data(nextStripSeq)
    OBVIOUS
  <2>4. f \in AllFrames /\ f.type = "data"
    BY <2>2, <2>3, FrameFacts
  <2>5. PICK ok \in BOOLEAN : SendFrameOn(p, f, ok) /\ nextStripSeq' = IF ok THEN k + 1 ELSE k
    BY <1>3, <1>9, <2>3 DEF WriteUnstriped
  <2>6. ok /\ net'[p] = Append(q, f) /\ \A c \in Conns : c # p => net'[c] = net[c]
    BY <1>2, <1>3, <1>5, <2>1, <2>5, IntactSend
  <2>7. nextStripSeq' = k + 1
    BY <2>5, <2>6
  <2>8. Pinned'
    BY <1>8, <2>1, <2>4, <2>6, <2>7
  <2>. QED
    BY <1>1, <2>8, Zenon DEF Pinned
<1>10. CASE CloseSends
  <2>1. /\ spc = "closing" /\ spc' = "closed"
        /\ UNCHANGED <<opened, pending, replay, st, owed, pinned>>
    BY <1>10 DEF CloseSends
  <2>2. p \in Conns /\ p # Nil
    BY <1>5, <2>1, Numbers
  <2>3. \E ok \in BOOLEAN : SendFrameOn(p, Close, ok)
    BY <1>2, <1>3, <1>10, <2>2, Zenon DEF CloseSends
  <2>4. net'[p] = Append(q, Close) /\ \A c \in Conns : c # p => net'[c] = net[c]
    BY <1>2, <1>3, <2>2, <2>3, IntactSend
  <2>5. Pinned'
    BY <1>8, <2>1, <2>4, FrameFacts
  <2>. QED
    BY <1>1, <2>5, Zenon DEF Pinned
<1>11. CASE CloseStarts
  <2>1. /\ spc = "open" /\ spc' = "closing" /\ owed' = k
        /\ UNCHANGED <<net, opened, pending, replay, st, pinned, nextStripSeq>>
    BY <1>2, <1>3, <1>11 DEF CloseStarts
  <2>2. st'.ended # "close"
    BY <1>4, <2>1
  <2>3. \A i \in DOMAIN q : /\ q[i].type = "open" <=> i = 1 /\ ~opened
                            /\ q[i].type # "close"
    BY <1>5, <2>1 DEF Line
  <2>4. Line(net'[pinned'], Len(st'.recv), opened', spc', owed')
    BY <1>3, <2>1, <2>3, Zenon DEF Line
  <2>. QED
    BY <1>3, <1>4, <1>5, <2>1, <2>2, <2>4, Zenon
<1>12. CASE Tick
  <2>1. UNCHANGED <<net, opened, pending, replay, st, pinned, nextStripSeq, spc, owed>>
    BY <1>12 DEF Tick
  <2>. QED
    BY <1>3, <1>4, <1>5, <2>1, Zenon
<1>13. ASSUME NEW c \in Conns, Receive(c)
       PROVE  Pinned'
  <2>1. c = p /\ spc \notin {"new", "failed"} /\ q # <<>>
    BY <1>3, <1>4, <1>13 DEF Receive
  <2>2. PICK f : f = Head(q)
    OBVIOUS
  <2>3. /\ f \in AllFrames /\ Tail(q) \in Seq(AllFrames) /\ Len(Tail(q)) = Len(q) - 1
        /\ f = q[1] /\ 1 \in DOMAIN q
    BY <1>5, <2>1, <2>2, HeadFacts
  <2>4. /\ net'[p] = Tail(q) /\ \A e \in Conns : e # p => net'[e] = net[e]
        /\ UNCHANGED <<spc, pinned, nextStripSeq, owed>>
    BY <1>3, <1>6, <1>13, <2>1 DEF Receive
  <2>5. /\ f.type = "open" <=> ~opened
        /\ f.type = "close" => spc = "closed" /\ d - Ahead(opened) >= owed
    <3>1. f.type = "open" <=> 1 = 1 /\ ~opened
      BY <1>5, <2>1, <2>3, Zenon DEF Line
    <3>2. f.type = "close" => spc = "closed" /\ d + (1 - 1) - Ahead(opened) >= owed
      BY <1>5, <2>1, <2>3, Zenon DEF Line
    <3>3. f.type = "open" <=> ~opened
      BY <3>1, Zenon
    <3>4. ASSUME f.type = "close"
          PROVE  spc = "closed" /\ d - Ahead(opened) >= owed
      <4>1. PICK a : a = Ahead(opened)
        OBVIOUS
      <4>2. spc = "closed" /\ d + (1 - 1) - a >= owed
        BY <3>2, <3>4, <4>1
      <4>3. d - a >= owed
        BY <1>6, <4>1, <4>2
      <4>. QED
        BY <4>1, <4>2, <4>3
    <3>. QED
      BY <3>3, <3>4, Zenon
  \* The stream has received e chunks when f has been dispatched.
  <2>6. ASSUME NEW e \in Nat, Len(st'.recv) = e, opened' = TRUE, replay' = <<>>,
               st' \in PinnedStreams,
               e >= d + 1 - Ahead(opened) \/ e >= owed,
               spc # "closed" => e = d + 1 - Ahead(opened),
               st'.ended = "close" => spc = "closed" /\ e >= owed
        PROVE  Pinned'
    <3>1. Line(Tail(q), e, TRUE, spc, owed)
      BY <1>5, <1>6, <2>1, <2>6, LineTail
    <3>2. ASSUME spc # "closed"
          PROVE  e + (Len(q) - 1) - 0 = k
      <4>1. PICK l, a : l = Len(q) /\ a = Ahead(opened)
        OBVIOUS
      <4>2. l \in Nat /\ a \in {0, 1} /\ d + l - a = k /\ e = d + 1 - a
        BY <1>5, <1>6, <2>1, <2>6, <3>2, <4>1
      <4>3. e + (l - 1) - 0 = k
        BY <1>6, <4>2
      <4>. QED
        BY <4>1, <4>3
    <3>3. Ahead(TRUE) = 0
      BY DEF Ahead
    <3>4. spc' # "closed" => Len(st'.recv) + Len(net'[pinned']) - Ahead(opened') = nextStripSeq'
      BY <1>3, <2>3, <2>4, <2>6, <3>2, <3>3
    <3>5. Line(net'[pinned'], Len(st'.recv), opened', spc', owed')
      BY <1>3, <2>4, <2>6, <3>1, Zenon
    <3>6. \A b \in Conns : b # pinned' => net'[b] = <<>>
      BY <1>3, <1>4, <2>4, Zenon
    <3>. QED
      BY <2>1, <2>4, <2>6, <3>4, <3>5, <3>6, Zenon DEF Pinned
  <2>7. CASE f.type = "open"
    <3>1. ~opened /\ opened' = TRUE /\ st' = newStream(0) /\ replay' = pending
      BY <1>3, <1>13, <2>1, <2>2, <2>5, <2>7 DEF Receive, ReceiveOpen
    <3>2. st' = st /\ replay' = <<>>
      BY <1>4, <3>1 DEF OneOpen
    <3>3. Ahead(opened) = 1 /\ d = d + 1 - Ahead(opened)
      BY <1>6, <3>1 DEF Ahead
    <3>. QED
      BY <1>3, <1>4, <1>6, <2>6, <3>1, <3>2, <3>3
  <2>8. CASE f.type = "data"
    <3>1. opened /\ ReceiveData(f.n) /\ replay' = <<>> /\ opened' = TRUE
      BY <1>3, <1>4, <1>6, <1>13, <2>1, <2>2, <2>5, <2>8 DEF Receive, ReceiveData
    <3>2. Ahead(opened) = 0
      BY <3>1 DEF Ahead
    <3>3. CASE ~Ended(st)
      <4>1. st' = [st EXCEPT !.recv = Append(st.recv, f.n)]
        BY <1>2, <3>1, <3>3 DEF ReceiveData, Registered, Dispatched
      <4>2. f.n \in Nums
        BY <2>3 DEF AllFrames
      <4>3. st' \in PinnedStreams /\ Len(st'.recv) = d + 1 /\ st'.ended = "no"
        BY <1>3, <1>4, <3>3, <4>1, <4>2, DataAppended DEF Ended
      <4>4. PICK e : e = d + 1
        OBVIOUS
      <4>5. e \in Nat /\ e = d + 1 - Ahead(opened) /\ e >= d + 1 - Ahead(opened)
        BY <1>6, <3>2, <4>4
      <4>. QED
        BY <2>6, <3>1, <4>3, <4>4, <4>5
    <3>4. CASE Ended(st)
      <4>1. st' = st /\ st.ended = "close"
        BY <1>4, <3>1, <3>4 DEF ReceiveData, Registered, Ended, PinnedStreams
      <4>. QED
        BY <1>3, <1>4, <1>6, <2>6, <3>1, <4>1
    <3>. QED
      BY <3>3, <3>4
  <2>9. CASE f.type = "close"
    <3>1. /\ opened /\ ReceiveClose /\ replay' = <<>> /\ opened' = TRUE
          /\ spc = "closed" /\ d >= owed
      <4>1. ReceiveClose
        BY <1>3, <1>13, <2>1, <2>2, <2>9 DEF Receive
      <4>2. opened /\ spc = "closed" /\ d - Ahead(opened) >= owed
        BY <2>5, <2>9
      <4>3. replay' = <<>> /\ opened' = TRUE
        BY <1>4, <1>6, <4>1, <4>2 DEF ReceiveClose
      <4>4. Ahead(opened) = 0
        BY <4>2 DEF Ahead
      <4>5. d - 0 >= owed
        BY <4>2, <4>4, Zenon
      <4>6. d >= owed
        BY <1>6, <4>5
      <4>. QED
        BY <4>1, <4>2, <4>3, <4>6
    <3>2. CASE ~Ended(st)
      <4>1. st' = dispatchClose(st) /\ st.ended = "no"
        BY <1>4, <3>1, <3>2 DEF ReceiveClose, Registered, Ended
      <4>2. st' \in PinnedStreams /\ Len(st'.recv) = d
        BY <1>3, <1>4, <4>1, CloseEmpty
      <4>. QED
        BY <1>6, <2>6, <3>1, <4>2
    <3>3. CASE Ended(st)
      <4>1. st' = st
        BY <3>1, <3>3 DEF ReceiveClose, Registered
      <4>. QED
        BY <1>3, <1>4, <1>6, <2>6, <3>1, <4>1
    <3>. QED
      BY <3>2, <3>3
  <2>. QED
    BY <2>3, <2>7, <2>8, <2>9 DEF AllFrames
<1>14. ASSUME NEW c \in Conns, Receive(c)
       PROVE  /\ replay' = <<>> /\ (~opened' => pending' = <<>>) /\ st' \in PinnedStreams
              /\ \A e \in Conns : e # pinned' \/ spc' \in {"new", "failed"} => net'[e] = <<>>
              /\ spc' \in {"new", "failed"} => ~opened'
              /\ st'.ended = "close" => spc' = "closed" /\ Len(st'.recv) >= owed'
              /\ spc' \notin {"new", "failed"} =>
                    /\ ~opened' => net'[pinned'] # <<>>
                    /\ spc' # "closed" =>
                          Len(st'.recv) + Len(net'[pinned']) - Ahead(opened') = nextStripSeq'
                    /\ Line(net'[pinned'], Len(st'.recv), opened', spc', owed')
  BY <1>1, <1>13, <1>14, Zenon DEF Pinned
<1>15. \/ OpenStream \/ WriteUnstriped \/ CloseStarts \/ CloseSends
       \/ \E c \in Conns : Receive(c)
       \/ Tick
  BY <1>1, IntactSteps, Zenon
<1>. QED
  BY <1>7, <1>9, <1>10, <1>11, <1>12, <1>14, <1>15, Zenon

-----------------------------------------------------------------------------
(* The inductive invariant.                                                *)

LEMMA InitIInv == Init => IInv
<1>. SUFFICES ASSUME Init
              PROVE  IInv
  OBVIOUS
<1>1. Types
  <2>1. <<>> \in Seq(DataFrames) /\ <<>> \in Seq(AllFrames) /\ <<>> \in Seq(Nums) /\ Len(<<>>) = 0
    OBVIOUS
  <2>2. 0 \in 0..NumChunks /\ 0 <= WriteChCap /\ 0 <= RingSize /\ striping \in BOOLEAN
    BY Numbers DEF Init
  <2>3. /\ wch \in [Conns -> Seq(DataFrames)] /\ ring \in [Conns -> Seq(DataFrames)]
        /\ resend \in [Conns -> Seq(DataFrames)] /\ net \in [Conns -> Seq(AllFrames)]
        /\ life \in [Conns -> Lives]
        /\ \A c \in Conns : Len(wch[c]) <= WriteChCap /\ Len(ring[c]) <= RingSize
    BY <2>1, <2>2 DEF Init, Lives
  <2>4. SendTypes
    <3>1. /\ spc = "new" /\ wpc = "idle" /\ wconn = Nil /\ pinned = Nil /\ more = FALSE
          /\ nextStripSeq = 0 /\ owed = 0 /\ risky = {}
      BY Zenon DEF Init
    <3>2. owed \in 0..nextStripSeq
      BY <3>1
    <3>. QED
      BY <2>2, <3>1, <3>2 DEF SendTypes
  <2>5. RecvTypes
    BY <2>1 DEF Init, RecvTypes
  <2>. QED
    BY <2>3, <2>4, <2>5, SplitTypes DEF ConnTypes
<1>2. Writer
  BY DEF Init, Writer, InHand
<1>3. Flow
  <2>1. \A c \in Conns : Len(wch[c]) = 0
    BY DEF Init
  <2>2. ASSUME NEW b \in Queued
        PROVE  FALSE
    <3>1. b[1] \in Conns /\ b[2] \in 1..WriteChCap /\ b[2] <= Len(wch[b[1]])
      BY <2>2 DEF Queued
    <3>. QED
      BY <2>1, <3>1, Numbers
  <2>3. Queued = {}
    BY <2>2
  <2>4. Cardinality(Queued) = 0
    BY <2>3, FS_EmptySet
  <2>5. inflight = 0 /\ nextStripSeq = 0 /\ wpc = "idle"
    BY DEF Init
  <2>. QED
    BY <2>4, <2>5 DEF Flow, InHand
<1>4. Rings
  <2>1. /\ \A c \in Conns : resend[c] = <<>>
        /\ wpc = "idle" /\ nextStripSeq = 0
    BY DEF Init
  <2>2. 0..(nextStripSeq - 1) = {}
    BY <2>1
  <2>. QED
    BY <2>1, <2>2, Zenon DEF Rings
<1>5. OneOpen
  <2>1. \A c \in Conns : DOMAIN net[c] = {}
    BY DEF Init
  <2>2. opened = FALSE /\ st = newStream(0) /\ replay = <<>>
    BY DEF Init
  <2>. QED
    BY <2>1, <2>2, Zenon DEF OneOpen
<1>6. Receiver
  <2>1. 0 \in Buf!Seqs /\ st = Buf!newStream(0)
    BY Numbers, SameOps DEF Buf!Seqs, Init
  <2>2. Buf!Behaves(0, st)
    BY <2>1, Buf!NewStreamFacts, BufAssumption, ReorderAssumption
  <2>. QED
    BY <2>2, Zenon DEF Receiver, Buf!Good
<1>7. Pinned
  <2>1. st \in PinnedStreams
    <3>1. <<>> \in Seq(Nums)
      OBVIOUS
    <3>2. st = newStream(0)
      BY DEF Init
    <3>. QED
      BY <3>1, <3>2 DEF PinnedStreams, newStream, newReorderBuffer
  <2>2. st.ended = "no"
    BY DEF Init, newStream
  <2>3. replay = <<>> /\ pending = <<>> /\ spc = "new" /\ ~opened
    BY DEF Init
  <2>4. \A c \in Conns : net[c] = <<>>
    BY DEF Init
  <2>. QED
    BY <2>1, <2>2, <2>3, <2>4 DEF Pinned
<1>. QED
  BY <1>1, <1>2, <1>3, <1>4, <1>5, <1>6, <1>7 DEF IInv

LEMMA NextIInv == IInv /\ [Next]_vars => IInv'
<1>1. ASSUME IInv, Next
      PROVE  IInv'
  <2>1. Types'
    <3>1. ConnTypes' /\ SendTypes' /\ RecvTypes'
      BY <1>1, NextConnTypes, NextSendTypes, NextRecvTypes DEF IInv
    <3>. QED
      BY <3>1 DEF Types, ConnTypes, SendTypes, RecvTypes
  <2>2. Writer' /\ Flow'
    BY <1>1, NextWriter, NextFlow DEF IInv
  <2>3. Rings' /\ OneOpen'
    BY <1>1, NextRings, NextOneOpen DEF IInv
  <2>4. Receiver' /\ Pinned'
    BY <1>1, NextReceiver, NextPinned DEF IInv
  <2>. QED
    BY <2>1, <2>2, <2>3, <2>4 DEF IInv
<1>2. ASSUME IInv, UNCHANGED vars
      PROVE  IInv'
  <2>. USE <1>2 DEF vars
  <2>1. Types'
    BY DEF IInv, Types
  <2>2. Writer' /\ Flow'
    BY Zenon DEF IInv, Writer, Flow, InHand, Queued
  <2>3. Rings'
    BY Zenon DEF IInv, Rings, Kept, ChOpen, Chunk, Frames
  <2>4. OneOpen'
    <3>1. \A c \in Conns : \A i : OpenAt(net', c, i) => OpenAt(net, c, i)
      BY <1>2 DEF vars
    <3>2. UNCHANGED <<opened, st, replay>> /\ (spc' = "new" => spc = "new")
      BY <1>2 DEF vars
    <3>. QED
      BY <1>2, <3>1, <3>2, OneOpenKept DEF IInv
  <2>5. Receiver'
    <3>1. Receiver' <=> (striping' => Buf!Good(0, st') \/ Buf!Torn(st'))
      BY Zenon DEF Receiver
    <3>. QED
      BY <3>1, Zenon DEF IInv, Receiver
  <2>6. Pinned'
    BY Zenon DEF IInv, Pinned, Intact, PinnedStreams, Line, Ahead
  <2>. QED
    BY <2>1, <2>2, <2>3, <2>4, <2>5, <2>6 DEF IInv
<1>. QED
  BY <1>1, <1>2

LEMMA Inductive == Spec => []IInv
BY InitIInv, NextIInv, PTL DEF Spec

-----------------------------------------------------------------------------
\* inflight (the WaitGroup that Stream.Close waits on) counts exactly the chunks
\* that sit in a write channel or are in the hands of Stream.Write, never goes
\* below zero, and no channel or ring exceeds its capacity.
THEOREM CloseWaitsExactly == Spec => []InflightExact
<1>1. ASSUME IInv
      PROVE  InflightExact
  <2>1. Types /\ Flow
    BY <1>1 DEF IInv
  <2>2. PICK p : p = Cardinality(Queued)
    OBVIOUS
  <2>3. p \in Nat
    <3>1. Queued = Places(wch)
      BY Zenon DEF Queued, Places
    <3>. QED
      BY <2>2, <3>1, PlacesFinite
  <2>4. inflight = p + (IF InHand THEN 1 ELSE 0) /\ inflight <= nextStripSeq
    BY <2>1, <2>2, <2>3 DEF Flow, Types
  <2>5. inflight \in 0..NumChunks
    BY <2>1, <2>3, <2>4, Numbers DEF Types
  <2>6. owed \in 0..NumChunks /\ risky \subseteq 0..(NumChunks - 1)
    BY <2>1, Numbers DEF Types, Nums
  <2>7. TypeOK
    BY <2>1, <2>5, <2>6 DEF TypeOK, Types
  <2>. QED
    BY <2>1, <2>7 DEF InflightExact, Flow, InHand
<1>. QED
  BY <1>1, Inductive, PTL

\* A chunk that took the normal path of Stream.Write is held by a ring, or by the
\* frames RemoveConn resends, until it has been resent: connections may break at
\* any moment of Write, writeLoop and RemoveConn.
THEOREM NormalChunkBacked == Spec => []ChunkBackedByRing
<1>1. ASSUME IInv
      PROVE  ChunkBackedByRing
  <2>1. ASSUME striping, NEW n \in 0..(nextStripSeq - 1)
        PROVE  n \in risky \/ Recoverable(n)
    <3>1. n \in risky \/ Kept(n) \/ (n = Chunk /\ wpc # "idle")
      BY <1>1, <2>1, Zenon DEF IInv, Rings
    <3>2. Kept(n) => Recoverable(n)
      BY Zenon DEF Kept, Recoverable
    <3>3. wpc # "idle" => wpc \in {"selected", "pushed", "full", "allfull", "error"}
      BY <1>1 DEF IInv, Types
    <3>4. n = Chunk /\ wpc # "idle" => Recoverable(n)
      BY <3>3, Zenon DEF Recoverable
    <3>. QED
      BY <3>1, <3>2, <3>4
  <2>. QED
    BY <2>1 DEF ChunkBackedByRing
<1>. QED
  BY <1>1, Inductive, PTL

\* A stream that is not striped, when no write times out: the reader that sees the
\* end of the stream while no connection has broken has been given everything
\* written before Stream.Close, which sends FrameClose on assignedConn.
THEOREM PinnedEndComplete ==
    ASSUME WriteTimeouts = FALSE
    PROVE  Spec => []PinnedEofComplete
<1>1. ASSUME IInv
      PROVE  PinnedEofComplete
  <2>1. ASSUME ~striping, st.ended = "close", \A c \in Conns : life[c] = "up"
        PROVE  Len(st.recv) >= owed
    <3>1. Intact
      BY <2>1 DEF Intact
    <3>. QED
      BY <1>1, <2>1, <3>1, Zenon DEF IInv, Pinned
  <2>. QED
    BY <2>1 DEF PinnedEofComplete
<1>. QED
  BY <1>1, Inductive, PTL

\* The receiving end of a striped stream implements the in-order stream although
\* its frames come over connections that break and are resent: DispatchLoop hands
\* the chunks over once each and in the order of Stream.Write.  A closeStream of the
\* peer's RemoveConn that overlaps dispatchStriped may hand over anything after what
\* had been delivered.
THEOREM StripedInOrder == Spec /\ striping => StreamInOrder
<1>1. Init => InOrder!Init
  <2>1. SUFFICES ASSUME Init
                 PROVE  st.recv = <<>> /\ StreamEnd[st.ended] = "open"
    BY Zenon DEF InOrder!Init
  <2>2. st.recv = <<>> /\ st.ended = "no"
    BY <2>1, Zenon DEF Init, newStream
  <2>. QED
    BY <2>2 DEF StreamEnd
<1>2. ASSUME IInv, striping, [Next]_vars
      PROVE  UNCHANGED striping /\ [InOrder!Next]_<<st.recv, StreamEnd[st.ended]>>
  <2>1. PICK s, t, e, f : s = st /\ t = st' /\ e = StreamEnd[st.ended] /\ f = StreamEnd[st.ended]'
    OBVIOUS
  <2>2. UNCHANGED striping /\ (t = s \/ StreamStep(s, t))
    <3>1. CASE Next
      BY <1>2, <2>1, <3>1, NextStream DEF IInv
    <3>2. CASE UNCHANGED vars
      BY <2>1, <3>2 DEF vars
    <3>. QED
      BY <1>2, <3>1, <3>2
  <2>3. CASE t = s
    BY <2>1, <2>2, <2>3, Zenon DEF StreamEnd
  <2>4. CASE StreamStep(s, t)
    <3>1. PICK o, p : o = s.recv /\ p = t.recv
      OBVIOUS
    <3>2. f = StreamEnd[t.ended] /\ e = "open"
      BY <2>1, <2>4 DEF StreamEnd, StreamStep, Ended
    <3>3. /\ Buf!Behaves(0, s) /\ 0 \in Buf!Seqs /\ s \in Buf!Streams /\ Buf!Prefix(0, s)
      BY <2>4, Numbers DEF StreamStep, Buf!Seqs, Buf!Behaves
    <3>4. Buf!OutOf(0, s) = o
      <4>1. Len(s.recv) \in 0..Len(s.recv)
        BY <3>3 DEF Buf!Streams
      <4>2. Buf!Continues(0, Len(s.recv), s)
        BY <3>3, <4>1, Buf!OpenContinues, BufAssumption, ReorderAssumption
      <4>. QED
        BY <3>1, <3>3, <4>2, OutIsRecv
    <3>5. CASE Buf!Behaves(0, t) /\ Buf!Continues(0, Len(s.recv), t)
      <4>1. /\ t \in Buf!Streams /\ Buf!Prefix(0, t) /\ Len(s.recv) <= Len(t.recv)
            /\ t.ended = "no"
        BY <3>5, SameOps DEF Buf!Behaves, Buf!Continues, Buf!Ended
      <4>2. f = "open"
        BY <3>2, <4>1 DEF StreamEnd
      <4>3. Buf!OutOf(0, t) = p
        BY <3>1, <3>5, <4>1, OutIsRecv
      <4>4. \/ p = o
            \/ \E k \in 1..(NumChunks - Len(o)) : p = o \o [i \in 1..k |-> Len(o) + i - 1]
        <5>1. \/ Buf!OutOf(0, t) = Buf!OutOf(0, s)
              \/ \E k \in 1..(NumChunks - Len(Buf!OutOf(0, s))) :
                    Buf!OutOf(0, t) =
                      Buf!OutOf(0, s) \o [i \in 1..k |-> Len(Buf!OutOf(0, s)) + i - 1]
          BY <3>3, <4>1, Buf!Delivers, BufAssumption, ReorderAssumption
        <5>. QED
          BY <3>4, <4>3, <5>1, Zenon
      <4>5. ASSUME NEW k \in 1..(NumChunks - Len(o)), p = o \o [i \in 1..k |-> Len(o) + i - 1]
            PROVE  InOrder!Deliver
        BY <2>1, <3>1, <3>2, <4>2, <4>5, Zenon DEF InOrder!Deliver
      <4>6. p = o => UNCHANGED <<st.recv, StreamEnd[st.ended]>>
        BY <2>1, <3>1, <3>2, <4>2, Zenon
      <4>. QED
        BY <2>2, <4>4, <4>5, <4>6 DEF InOrder!Next
    <3>6. CASE Buf!Closed(0, t) /\ Buf!Continues(0, Len(s.recv), t)
      <4>1. t \in Buf!Streams /\ t.ended \in {"close", "gap", "overflow"}
        BY <3>6, SameOps DEF Buf!Closed, Buf!Streams, Buf!Ended
      <4>2. f = "ended"
        BY <3>2, <4>1 DEF StreamEnd
      <4>3. Buf!OutOf(0, t) = p
        BY <3>1, <3>6, <4>1, OutIsRecv
      <4>4. /\ Buf!IsPrefix(o, p)
            /\ \A i \in DOMAIN p \ DOMAIN o :
                  /\ p[i] \in Len(o)..(NumChunks - 1)
                  /\ \A j \in DOMAIN p : i < j => p[i] < p[j]
        BY <3>3, <3>4, <3>6, <4>1, <4>3, Buf!Finishes, BufAssumption, ReorderAssumption
      <4>5. InOrder!IsPrefix(o, p)
        BY <4>4, Zenon DEF Buf!IsPrefix, InOrder!IsPrefix
      <4>6. InOrder!Finish
        BY <2>1, <3>1, <3>2, <4>2, <4>4, <4>5, Zenon DEF InOrder!Finish
      <4>. QED
        BY <2>2, <4>6 DEF InOrder!Next
    <3>7. CASE Buf!Torn(t) /\ InOrder!IsPrefix(s.recv, t.recv)
      <4>1. f = "torn"
        BY <3>2, <3>7 DEF Buf!Torn, Buf!LooseStreams, StreamEnd
      <4>2. InOrder!Tear
        BY <2>1, <3>2, <3>7, <4>1, Zenon DEF InOrder!Tear
      <4>. QED
        BY <2>2, <4>2 DEF InOrder!Next
    <3>. QED
      BY <2>4, <3>5, <3>6, <3>7 DEF StreamStep, Buf!Good
  <2>. QED
    BY <2>2, <2>3, <2>4
<1>3. IInv /\ striping /\ [Next]_vars
        => striping' /\ [InOrder!Next]_<<st.recv, StreamEnd[st.ended]>>
  BY <1>2, Zenon
<1>. QED
  BY Inductive, <1>1, <1>3, PTL DEF Spec, StreamInOrder, InOrder!Spec
=============================================================================
