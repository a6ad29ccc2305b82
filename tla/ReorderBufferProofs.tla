------------------------ MODULE ReorderBufferProofs -------------------------
(***************************************************************************)
(* Proofs about ReorderBuffer, for any even number of sequence numbers     *)
(* (2^32 in the code), any buffer limit and timeout, any number of chunks  *)
(* that fits in the sequence space and any first sequence number.          *)
(*                                                                         *)
(* Argument.  Sequence numbers are never compared across more than half    *)
(* of their space, and there int32(a - b) < 0 is the order of the chunks   *)
(* (AtFacts), also across the wrap.  So while the stream is open, what     *)
(* has been sent and what DispatchLoop still has in hand are together the  *)
(* chunks up to nextSeq (Whole), and the buffer holds chunks beyond it     *)
(* (Behaves): what Insert flushes continues the one, and what it leaves    *)
(* stays in the other.  closeStream empties the buffer in order, which     *)
(* exists because a finite set of numbers can be put in order (Sorted).    *)
(* Three phases: Open, in which RemoveConn may already have swapped        *)
(* closed; Over, which nothing leaves; and Loose, after a torn close, of   *)
(* which only what had been delivered by then is known.                    *)
(***************************************************************************)
EXTENDS ReorderBuffer, FiniteSetTheorems, SequenceTheorems, TLAPS

Seqs == 0..(SeqSpace - 1)

Buffers == [h : SUBSET Seqs, nextSeq : Seqs, gapSince : Nat \cup {NoGap}]

Streams ==
    [reorder : Buffers, recv : Seq(Seqs), closePending : BOOLEAN, closed : BOOLEAN,
     ended : {"no", "close", "gap", "overflow"}]

\* The sequence number of chunk n when chunk 0 has number a.
At(a, n) == (a + n) % SeqSpace

\* recv holds the first chunks, in order.
Prefix(a, s) ==
    /\ Len(s.recv) <= NumChunks
    /\ \A i \in DOMAIN s.recv : s.recv[i] = At(a, i - 1)

\* The buffer holds chunks of numbers first .. d + Window - 1.
Holds(a, first, d, h) ==
    \A x \in h : \E n \in first..(d + Window - 1) : n < NumChunks /\ x = At(a, n)

TimerFits(rb) == rb.gapSince # NoGap <=> rb.h # {}

\* A stream whose reader has been given the chunks up to nextSeq: it may have
\* overflowed or timed out, and RemoveConn may have swapped its flag.
Behaves(a, s) ==
    /\ s \in Streams /\ ~Ended(s) /\ Prefix(a, s)
    /\ s.reorder.nextSeq = At(a, Len(s.recv))
    /\ Holds(a, Len(s.recv) + 1, Len(s.recv), s.reorder.h)
    /\ TimerFits(s.reorder)

Closed(a, s) ==
    /\ s \in Streams /\ Ended(s) /\ s.closed
    /\ s.reorder.h = {} /\ s.reorder.gapSince = NoGap
    /\ s.ended = "close" => Prefix(a, s)

\* What t's reader was given continues the first d chunks, in order.
Continues(a, d, t) ==
    \E c \in [1..Len(t.recv) -> Chunks] :
        /\ \A i \in 1..Len(t.recv) : t.recv[i] = At(a, c[i])
        /\ d <= Len(t.recv) /\ \A i \in 1..d : c[i] = i - 1
        /\ \A i \in (d + 1)..Len(t.recv) :
              d <= c[i] /\ \A j \in 1..Len(t.recv) : i < j => c[i] < c[j]

Good(a, s) == Behaves(a, s) \/ Closed(a, s)

\* Nothing is known of the buffer of a stream that was torn.
LooseStreams(B, S) ==
    [reorder : B, recv : Seq(S), closePending : BOOLEAN, closed : BOOLEAN, ended : {"torn"}]

Torn(s) == s.closed /\ \E B, S : s \in LooseStreams(B, S)

\* The stream as it will be when DispatchLoop has sent what it has in hand.
InHand(l) == IF l.pc = "send" THEN l.hand ELSE <<>>

Whole(s, l) == [s EXCEPT !.recv = s.recv \o InHand(l)]

\* A frame dispatch has looked up the stream for.
Looked(a, d, l) ==
    \E n \in Chunks : n \in (d - Window)..(d + Window - 1) /\ l.hand = <<At(a, n)>>

\* The stream is open; RemoveConn may be about to close it.
Open(a, s, l, c) ==
    /\ s \in Streams /\ Behaves(a, Whole(s, l))
    /\ l \in [pc : {"idle", "insert", "send"}, hand : Seq(Seqs)]
    /\ c.pc \in {"none", "stale", "swapped"}
    /\ c.pc = "swapped" <=> s.closed
    /\ l.pc = "insert" => Looked(a, Len(s.recv), l)
    /\ l.pc = "idle" /\ ~s.closed => Cardinality(s.reorder.h) <= MaxFrames

Over(a, s, l, c) == Closed(a, s) /\ l.pc = "idle" /\ c.pc \in {"none", "stale", "done"}

Loose(s, c) == Torn(s) /\ c.pc \in {"flush", "send", "done"}

IInv ==
    /\ start \in Seqs /\ now \in Nat
    /\ \/ Open(start, st, loop, closer)
       \/ Over(start, st, loop, closer)
       \/ Loose(st, closer)

-----------------------------------------------------------------------------
(* Arithmetic modulo SeqSpace.                                             *)

LEMMA ModFacts ==
    ASSUME NEW M \in Nat \ {0}, NEW a \in Int
    PROVE  /\ a % M \in 0..(M - 1) /\ a \div M \in Int
           /\ a = M * (a \div M) + (a % M)
OBVIOUS

LEMMA ModUnique ==
    ASSUME NEW M \in Nat \ {0}, NEW q \in Int, NEW r \in 0..(M - 1)
    PROVE  (M * q + r) % M = r
OBVIOUS

\* Adding a multiple of M.
LEMMA ModShift ==
    ASSUME NEW M \in Nat \ {0}, NEW q \in Int, NEW b \in Int
    PROVE  (M * q + b) % M = b % M
<1>1. PICK p, r : p = b \div M /\ r = b % M
  OBVIOUS
<1>2. p \in Int /\ r \in 0..(M - 1) /\ b = M * p + r
  BY <1>1, ModFacts
<1>3. PICK x, y : x = q + p /\ y = M * q + b
  OBVIOUS
<1>4. x \in Int /\ y = M * x + r
  BY <1>2, <1>3
<1>5. (M * x + r) % M = r
  BY <1>2, <1>4, ModUnique
<1>6. y % M = r
  BY <1>4, <1>5, Zenon
<1>. QED
  BY <1>1, <1>3, <1>6, Zenon

LEMMA ModAdd ==
    ASSUME NEW M \in Nat \ {0}, NEW a \in Int, NEW b \in Int
    PROVE  ((a % M) + b) % M = (a + b) % M
<1>1. PICK q, r : q = a \div M /\ r = a % M
  OBVIOUS
<1>2. q \in Int /\ r \in 0..(M - 1) /\ a = M * q + r
  BY <1>1, ModFacts
<1>3. PICK x, y : x = r + b /\ y = a + b
  OBVIOUS
<1>4. x \in Int /\ y = M * q + x
  BY <1>2, <1>3
<1>5. (M * q + x) % M = x % M
  BY <1>2, <1>4, ModShift
<1>. QED
  BY <1>1, <1>3, <1>4, <1>5, Zenon

LEMMA ModSub ==
    ASSUME NEW M \in Nat \ {0}, NEW a \in Int, NEW b \in Int
    PROVE  ((a % M) - (b % M)) % M = (a - b) % M
<1>1. PICK q, r, p, t : q = a \div M /\ r = a % M /\ p = b \div M /\ t = b % M
  OBVIOUS
<1>2. /\ q \in Int /\ r \in 0..(M - 1) /\ a = M * q + r
      /\ p \in Int /\ t \in 0..(M - 1) /\ b = M * p + t
  BY <1>1, ModFacts
<1>3. PICK x, y, z : x = q - p /\ y = r - t /\ z = a - b
  OBVIOUS
<1>4. x \in Int /\ y \in Int /\ z = M * x + y
  BY <1>2, <1>3
<1>5. (M * x + y) % M = y % M
  BY <1>4, ModShift
<1>. QED
  BY <1>1, <1>3, <1>4, <1>5, Zenon

\* Numbers less than M apart are told apart.
LEMMA ModInjective ==
    ASSUME NEW M \in Nat \ {0}, NEW a \in Int, NEW b \in Int,
           a - b < M, b - a < M, a % M = b % M
    PROVE  a = b
<1>1. PICK q, r, p : q = a \div M /\ r = a % M /\ p = b \div M
  OBVIOUS
<1>2. q \in Int /\ p \in Int /\ r \in Int /\ a = M * q + r /\ b = M * p + r
  BY <1>1, ModFacts
<1>3. a - b = M * (q - p) /\ b - a = M * (p - q)
  BY <1>2
<1>4. CASE q > p
  <2>1. q - p >= 1 /\ q - p \in Int
    BY <1>2, <1>4
  <2>2. M * (q - p) >= M
    BY <2>1
  <2>. QED
    BY <1>3, <2>2
<1>5. CASE p > q
  <2>1. p - q >= 1 /\ p - q \in Int
    BY <1>2, <1>5
  <2>2. M * (p - q) >= M
    BY <2>1
  <2>. QED
    BY <1>3, <2>2
<1>. QED
  BY <1>2, <1>4, <1>5

LEMMA Sizes ==
    /\ SeqSpace \in Nat \ {0} /\ Window \in Nat \ {0} /\ SeqSpace = Window + Window
    /\ MaxFrames \in Nat /\ GapTimeout \in Nat /\ NoGap \notin Nat
    /\ NumChunks \in Nat \ {0} /\ NumChunks <= SeqSpace /\ Starts \subseteq Seqs
<1>1. SeqSpace \in Nat \ {0, 1} /\ SeqSpace % 2 = 0
  BY ReorderAssumption
<1>2. SeqSpace = 2 * (SeqSpace \div 2) + (SeqSpace % 2) /\ SeqSpace \div 2 \in Int
  BY <1>1, ModFacts
<1>3. SeqSpace = Window + Window /\ Window \in Int
  BY <1>1, <1>2 DEF Window
<1>4. Window \in Nat \ {0}
  BY <1>1, <1>3
<1>. QED
  BY <1>1, <1>3, <1>4, ReorderAssumption, ChunksAssumption DEF Seqs

\* Sequence numbers of chunks: distinct within the space, ordered within half of
\* it.
LEMMA AtFacts ==
    ASSUME NEW a \in Seqs, NEW m \in Int, NEW n \in Int
    PROVE  /\ At(a, m) \in Seqs
           /\ (At(a, m) + n) % SeqSpace = At(a, m + n)
           /\ m - n < SeqSpace /\ n - m < SeqSpace /\ At(a, m) = At(a, n) => m = n
           /\ m - n < Window /\ n - m <= Window => (Before(At(a, m), At(a, n)) <=> m < n)
<1>1. a \in Int /\ a + m \in Int /\ a + n \in Int /\ m - n \in Int
  BY Sizes DEF Seqs
<1>2. At(a, m) \in Seqs
  BY <1>1, Sizes, ModFacts DEF At, Seqs
<1>3. (At(a, m) + n) % SeqSpace = At(a, m + n)
  <2>1. (((a + m) % SeqSpace) + n) % SeqSpace = ((a + m) + n) % SeqSpace
    BY <1>1, Sizes, ModAdd
  <2>2. (a + m) + n = a + (m + n)
    BY <1>1
  <2>. QED
    BY <2>1, <2>2 DEF At
<1>4. ASSUME m - n < SeqSpace, n - m < SeqSpace, At(a, m) = At(a, n)
      PROVE  m = n
  <2>1. (a + m) - (a + n) < SeqSpace /\ (a + n) - (a + m) < SeqSpace
    BY <1>1, <1>4
  <2>2. a + m = a + n
    BY <1>1, <1>4, <2>1, Sizes, ModInjective DEF At
  <2>. QED
    BY <1>1, <2>2
<1>5. ASSUME m - n < Window, n - m <= Window
      PROVE  Before(At(a, m), At(a, n)) <=> m < n
  <2>1. (At(a, m) - At(a, n)) % SeqSpace = (m - n) % SeqSpace
    <3>1. PICK x, y : x = a + m /\ y = a + n
      OBVIOUS
    <3>2. x \in Int /\ y \in Int /\ x - y = m - n
      BY <1>1, <3>1
    <3>3. ((x % SeqSpace) - (y % SeqSpace)) % SeqSpace = (x - y) % SeqSpace
      BY <3>2, Sizes, ModSub
    <3>. QED
      BY <3>1, <3>2, <3>3, Zenon DEF At
  <2>2. CASE m < n
    <3>1. (m - n) + SeqSpace \in 0..(SeqSpace - 1) /\ (m - n) + SeqSpace >= Window
      BY <1>5, <2>2, Sizes
    <3>2. m - n = SeqSpace * (-1) + ((m - n) + SeqSpace)
      BY Sizes
    <3>3. (m - n) % SeqSpace = (m - n) + SeqSpace
      BY <3>1, <3>2, Sizes, ModUnique
    <3>. QED
      BY <2>1, <2>2, <3>1, <3>3 DEF Before, Window
  <2>3. CASE ~(m < n)
    <3>1. m - n \in 0..(SeqSpace - 1)
      BY <1>5, <2>3, Sizes
    <3>2. m - n = SeqSpace * 0 + (m - n)
      BY Sizes
    <3>3. (m - n) % SeqSpace = m - n
      BY <3>1, <3>2, Sizes, ModUnique
    <3>. QED
      BY <1>5, <2>1, <2>3, <3>3, Sizes DEF Before, Window
  <2>. QED
    BY <2>2, <2>3
<1>. QED
  BY <1>2, <1>3, <1>4, <1>5

-----------------------------------------------------------------------------
(* Finite sets of numbers.                                                 *)

LEMMA Least ==
    ASSUME NEW G \in SUBSET Nat, G # {}
    PROVE  \E m \in G : \A g \in G : m <= g
<1>1. PICK m \in G : \A g \in G : ~(<<g, m>> \in OpToRel(<, Nat))
  BY WFMin, NatLessThanWellFounded
<1>2. ASSUME NEW g \in G
      PROVE  ~(g < m)
  BY <1>1 DEF OpToRel
<1>. QED
  BY <1>2

LEMMA SeqsFinite ==
    ASSUME NEW h \in SUBSET Seqs
    PROVE  IsFiniteSet(h) /\ Cardinality(h) \in Nat
<1>1. IsFiniteSet(Seqs)
  BY Sizes, FS_Interval DEF Seqs
<1>. QED
  BY <1>1, FS_Subset, FS_CardinalityType

\* The number of elements of S up to x.
Rank(S, x) == Cardinality({y \in S : y <= x})

LEMMA RankGrows ==
    ASSUME NEW S \in SUBSET Int, IsFiniteSet(S), NEW x \in S, NEW y \in S
    PROVE  /\ Rank(S, x) \in 1..Cardinality(S)
           /\ x < y => Rank(S, x) < Rank(S, y)
<1>1. ASSUME NEW z \in S
      PROVE  /\ IsFiniteSet({w \in S : w <= z})
             /\ Rank(S, z) \in Nat /\ Rank(S, z) <= Cardinality(S)
  <2>1. {w \in S : w <= z} \in SUBSET S
    OBVIOUS
  <2>. QED
    BY <2>1, FS_Subset, FS_CardinalityType DEF Rank
<1>2. Rank(S, x) # 0
  <2>1. x \in {w \in S : w <= x}
    OBVIOUS
  <2>. QED
    BY <1>1, <2>1, FS_EmptySet DEF Rank
<1>3. ASSUME x < y
      PROVE  Rank(S, x) < Rank(S, y)
  <2>1. {w \in S : w <= x} \in SUBSET {w \in S : w <= y}
    <3>1. ASSUME NEW w \in S, w <= x
          PROVE  w <= y
      <4>1. w \in Int /\ x \in Int /\ y \in Int
        OBVIOUS
      <4>. QED
        BY <1>3, <3>1, <4>1
    <3>. QED
      BY <3>1
  <2>2. y \in {w \in S : w <= y} /\ y \notin {w \in S : w <= x}
    BY <1>3
  <2>3. Rank(S, x) <= Rank(S, y) /\ Rank(S, x) # Rank(S, y)
    BY <1>1, <2>1, <2>2, FS_Subset DEF Rank
  <2>4. Rank(S, x) \in Nat /\ Rank(S, y) \in Nat
    BY <1>1
  <2>. QED
    BY <2>3, <2>4
<1>4. Cardinality(S) \in Nat
  BY FS_CardinalityType
<1>5. Rank(S, x) \in Nat /\ Rank(S, x) <= Cardinality(S)
  BY <1>1
<1>6. Rank(S, x) \in 1..Cardinality(S)
  BY <1>2, <1>4, <1>5
<1>. QED
  BY <1>3, <1>6

\* A finite set of numbers can be put in order.
LEMMA Sorted ==
    ASSUME NEW S \in SUBSET Int, IsFiniteSet(S)
    PROVE  \E q \in [1..Cardinality(S) -> S] :
               \A i, j \in 1..Cardinality(S) : i < j => q[i] < q[j]
<1>. DEFINE c == Cardinality(S)
            r == [x \in S |-> Rank(S, x)]
<1>1. c \in Nat
  BY FS_CardinalityType
<1>2. r \in [S -> 1..c]
  BY RankGrows
<1>3. ASSUME NEW x \in S, NEW y \in S, x < y
      PROVE  r[x] < r[y]
  BY <1>3, RankGrows
<1>4. r \in Injection(S, 1..c)
  <2>1. ASSUME NEW x \in S, NEW y \in S, r[x] = r[y]
        PROVE  x = y
    <3>1. r[x] \in Int /\ r[y] \in Int
      BY <1>2
    <3>2. ~(x < y) /\ ~(y < x)
      BY <1>3, <2>1, <3>1
    <3>. QED
      BY <3>2
  <2>. QED
    BY <1>2, <2>1 DEF Injection, IsInjective
<1>5. IsFiniteSet(1..c) /\ Cardinality(1..c) = c
  BY <1>1, FS_Interval
<1>6. r \in Surjection(S, 1..c)
  BY <1>4, <1>5, FS_Injection
<1>7. \A i \in 1..c : \E x \in S : r[x] = i
  BY <1>6 DEF Surjection
<1>. DEFINE q == [i \in 1..c |-> CHOOSE x \in S : r[x] = i]
<1>8. \A i \in 1..c : q[i] \in S /\ r[q[i]] = i
  BY <1>7
<1>9. ASSUME NEW i \in 1..c, NEW j \in 1..c, i < j
      PROVE  q[i] < q[j]
  <2>1. q[i] \in S /\ q[j] \in S /\ r[q[i]] = i /\ r[q[j]] = j
    BY <1>8
  <2>2. PICK x \in S, y \in S : x = q[i] /\ y = q[j]
    BY <2>1
  <2>3. r[x] = i /\ r[y] = j
    BY <2>1, <2>2
  <2>4. x # y
    BY <1>9, <2>3
  <2>5. ~(y < x)
    BY <1>3, <1>9, <2>3
  <2>6. x \in Int /\ y \in Int
    OBVIOUS
  <2>7. x < y
    BY <2>4, <2>5, <2>6
  <2>. QED
    BY <2>2, <2>7
<1>10. q \in [1..c -> S]
  BY <1>8
<1>. QED
  BY <1>9, <1>10

-----------------------------------------------------------------------------
(* The operators of the buffer.                                            *)

\* Frames in the buffer are told apart by the numbers of their chunks.
LEMMA AtInjective ==
    ASSUME NEW a \in Seqs, NEW d \in Int,
           NEW m \in d..(d + Window), NEW n \in d..(d + Window), At(a, m) = At(a, n)
    PROVE  m = n
<1>1. m \in Int /\ n \in Int /\ m - n <= Window /\ n - m <= Window
  BY Sizes
<1>2. m - n < SeqSpace /\ n - m < SeqSpace
  BY <1>1, Sizes
<1>. QED
  BY <1>1, <1>2, AtFacts

\* A run ends before the first chunk that is missing, which is within the
\* window: int32 comparison has the buffer to itself.
LEMMA RunFacts ==
    ASSUME NEW a \in Seqs, NEW d \in Nat, NEW h \in SUBSET Seqs, Holds(a, d, d, h)
    PROVE  LET k == RunLength(h, At(a, d)) IN
           /\ k \in 0..Window
           /\ \A i \in 0..(k - 1) : At(a, d + i) \in h
           /\ At(a, d + k) \notin h
           /\ k # 0 => d + k <= NumChunks
<1>. DEFINE G == {n \in Nat : At(a, d + n) \notin h}
<1>1. \A i \in Int : (At(a, d) + i) % SeqSpace = At(a, d + i)
  BY AtFacts
<1>2. Window \in G
  <2>1. SUFFICES ASSUME At(a, d + Window) \in h
                 PROVE  FALSE
    BY Sizes
  <2>2. PICK n \in d..(d + Window - 1) : At(a, d + Window) = At(a, n)
    BY <2>1 DEF Holds
  <2>3. n \in d..(d + Window) /\ d + Window \in d..(d + Window) /\ n # d + Window
    BY Sizes
  <2>. QED
    BY <2>2, <2>3, AtInjective
<1>3. PICK m \in G : \A g \in G : m <= g
  BY <1>2, Least
<1>4. m \in Nat /\ m <= Window /\ At(a, d + m) \notin h
  BY <1>2, <1>3
<1>5. ASSUME NEW i \in 0..(m - 1)
      PROVE  At(a, d + i) \in h
  <2>1. i \in Nat /\ ~(m <= i)
    BY <1>4
  <2>. QED
    BY <1>3, <2>1
<1>6. m <= Cardinality(h)
  <2>. DEFINE f == [i \in 0..(m - 1) |-> At(a, d + i)]
  <2>1. f \in [0..(m - 1) -> h]
    BY <1>5
  <2>2. ASSUME NEW i \in 0..(m - 1), NEW j \in 0..(m - 1), f[i] = f[j]
        PROVE  i = j
    <3>1. At(a, d + i) = At(a, d + j)
      BY <2>2
    <3>2. d + i \in d..(d + Window) /\ d + j \in d..(d + Window)
      BY <1>4, Sizes
    <3>3. d + i = d + j
      BY <3>1, <3>2, AtInjective
    <3>. QED
      BY <1>4, <3>3
  <2>3. f \in Injection(0..(m - 1), h)
    BY <2>1, <2>2 DEF Injection, IsInjective
  <2>4. Cardinality(0..(m - 1)) <= Cardinality(h)
    BY <2>3, SeqsFinite, FS_Injection
  <2>5. Cardinality(0..(m - 1)) = m
    BY <1>4, FS_Interval
  <2>. QED
    BY <2>4, <2>5
<1>7. m \in 0..Cardinality(h)
  BY <1>4, <1>6, SeqsFinite
<1>8. PICK k : k = RunLength(h, At(a, d))
  OBVIOUS
<1>9. /\ k \in 0..Cardinality(h)
      /\ \A i \in 0..(k - 1) : (At(a, d) + i) % SeqSpace \in h
      /\ (At(a, d) + k) % SeqSpace \notin h
  <2>1. /\ \A i \in 0..(m - 1) : (At(a, d) + i) % SeqSpace \in h
        /\ (At(a, d) + m) % SeqSpace \notin h
    <3>1. m \in Int /\ \A i \in 0..(m - 1) : i \in Int
      BY <1>4
    <3>. QED
      BY <1>1, <1>4, <1>5, <3>1, Zenon
  <2>. QED
    BY <1>7, <1>8, <2>1 DEF RunLength
<1>10. /\ k \in Nat
       /\ \A i \in 0..(k - 1) : At(a, d + i) \in h
       /\ At(a, d + k) \notin h
  <2>1. k \in Nat /\ k \in Int /\ \A i \in 0..(k - 1) : i \in Int
    BY <1>9, SeqsFinite
  <2>. QED
    BY <1>1, <1>9, <2>1, Zenon
<1>11. k <= Window
  <2>1. SUFFICES ASSUME ~(k <= Window)
                 PROVE  FALSE
    OBVIOUS
  <2>2. Window \in 0..(k - 1)
    BY <1>10, <2>1, Sizes
  <2>. QED
    BY <1>2, <1>10, <2>2
<1>12. k # 0 => d + k <= NumChunks
  <2>1. SUFFICES ASSUME k # 0
                 PROVE  d + k <= NumChunks
    OBVIOUS
  <2>2. k - 1 \in 0..(k - 1)
    BY <1>10, <2>1
  <2>3. PICK n \in d..(d + Window - 1) : n < NumChunks /\ At(a, d + (k - 1)) = At(a, n)
    BY <1>10, <2>2 DEF Holds
  <2>4. n \in d..(d + Window) /\ d + (k - 1) \in d..(d + Window)
    BY <1>10, <1>11, <2>1, Sizes
  <2>5. n = d + (k - 1)
    BY <2>3, <2>4, AtInjective
  <2>. QED
    BY <1>10, <2>3, <2>5, Sizes
<1>13. k \in 0..Window
  BY <1>10, <1>11, Sizes
<1>. QED
  BY <1>8, <1>10, <1>12, <1>13

\* FlushAll hands over the frames of the buffer in the order of their chunks.
LEMMA FlushFacts ==
    ASSUME NEW a \in Seqs, NEW d \in Nat, NEW rb \in Buffers, Holds(a, d, d, rb.h)
    PROVE  \E c \in [1..Cardinality(rb.h) -> d..(NumChunks - 1)] :
               /\ \A i, j \in 1..Cardinality(rb.h) : i < j => c[i] < c[j]
               /\ FlushAll(rb) = [i \in 1..Cardinality(rb.h) |-> At(a, c[i])]
<1>1. PICK h, k : h = rb.h /\ k = Cardinality(h)
  OBVIOUS
<1>2. h \in SUBSET Seqs /\ IsFiniteSet(h) /\ k \in Nat /\ Holds(a, d, d, h)
  BY <1>1, SeqsFinite DEF Buffers
<1>. DEFINE g == [x \in h |-> CHOOSE n \in d..(d + Window - 1) : n < NumChunks /\ x = At(a, n)]
            S == {g[x] : x \in h}
<1>3. \A x \in h : g[x] \in d..(d + Window - 1) /\ g[x] < NumChunks /\ x = At(a, g[x])
  BY <1>2 DEF Holds
<1>4. ASSUME NEW x \in h, NEW y \in h
      PROVE  Before(x, y) <=> g[x] < g[y]
  <2>1. PICK m, n : m = g[x] /\ n = g[y]
    OBVIOUS
  <2>2. m \in d..(d + Window - 1) /\ n \in d..(d + Window - 1) /\ x = At(a, m) /\ y = At(a, n)
    BY <1>3, <2>1
  <2>3. m \in Int /\ n \in Int /\ m - n < Window /\ n - m <= Window
    BY <2>2, Sizes
  <2>4. Before(At(a, m), At(a, n)) <=> m < n
    BY <2>3, AtFacts
  <2>. QED
    BY <2>1, <2>2, <2>4, Zenon
<1>5. S \in SUBSET Int /\ IsFiniteSet(S) /\ Cardinality(S) = k
  <2>1. g \in [h -> S]
    OBVIOUS
  <2>2. g \in Bijection(h, S)
    <3>1. \A x, y \in h : g[x] = g[y] => x = y
      BY <1>3
    <3>2. \A z \in S : \E x \in h : g[x] = z
      OBVIOUS
    <3>. QED
      BY <2>1, <3>1, <3>2 DEF Bijection, Injection, IsInjective, Surjection
  <2>3. IsFiniteSet(S) /\ Cardinality(S) = Cardinality(h)
    BY <1>2, <2>2, FS_Bijection DEF ExistsBijection
  <2>4. \A x \in h : g[x] \in Int
    BY <1>3
  <2>5. S \in SUBSET Int
    BY <2>4
  <2>. QED
    BY <1>1, <2>3, <2>5
<1>6. PICK q \in [1..k -> S] : \A i, j \in 1..k : i < j => q[i] < q[j]
  BY <1>5, Sorted
<1>. DEFINE f == [i \in 1..k |-> At(a, q[i])]
<1>7. ASSUME NEW i \in 1..k
      PROVE  f[i] \in h /\ g[f[i]] = q[i]
  <2>1. PICK x \in h : q[i] = g[x]
    BY <1>6
  <2>2. x = At(a, g[x])
    BY <1>3
  <2>. QED
    BY <2>1, <2>2
<1>8. f \in [1..k -> h] /\ \A i, j \in 1..k : i < j => Before(f[i], f[j])
  BY <1>4, <1>6, <1>7
<1>9. PICK p \in [1..k -> h] : FlushAll(rb) = p /\ \A i, j \in 1..k : i < j => Before(p[i], p[j])
  <2>1. FlushAll(rb) = CHOOSE e \in [1..k -> h] : \A i, j \in DOMAIN e : i < j => Before(e[i], e[j])
    BY <1>1 DEF FlushAll
  <2>2. DOMAIN f = 1..k /\ \A e \in [1..k -> h] : DOMAIN e = 1..k
    OBVIOUS
  <2>. QED
    BY <1>8, <2>1, <2>2
<1>. PICK c : c = [i \in 1..k |-> g[p[i]]]
  OBVIOUS
<1>10. c \in [1..k -> d..(NumChunks - 1)]
  BY <1>2, <1>3, Sizes
<1>11. \A i, j \in 1..k : i < j => c[i] < c[j]
  BY <1>4, <1>9
<1>12. FlushAll(rb) = [i \in 1..k |-> At(a, c[i])]
  BY <1>3, <1>9
<1>13. k = Cardinality(rb.h)
  BY <1>1
<1>14. /\ c \in [1..Cardinality(rb.h) -> d..(NumChunks - 1)]
       /\ \A i, j \in 1..Cardinality(rb.h) : i < j => c[i] < c[j]
       /\ FlushAll(rb) = [i \in 1..Cardinality(rb.h) |-> At(a, c[i])]
  BY <1>10, <1>11, <1>12, <1>13, Zenon
<1>. QED
  BY <1>14, Zenon

-----------------------------------------------------------------------------
(* The operations of the stream.                                           *)

LEMMA OpenContinues ==
    ASSUME NEW a \in Seqs, NEW s, Behaves(a, s), NEW d \in 0..Len(s.recv)
    PROVE  Continues(a, d, s)
<1>1. PICK r, l : r = s.recv /\ l = Len(r)
  OBVIOUS
<1>2. /\ r \in Seq(Seqs) /\ l \in Nat /\ l <= NumChunks /\ DOMAIN r = 1..l /\ d \in 0..l
      /\ \A i \in DOMAIN r : r[i] = At(a, i - 1)
  BY <1>1 DEF Behaves, Streams, Prefix
<1>3. PICK c : c = [i \in 1..l |-> i - 1]
  OBVIOUS
<1>4. c \in [1..l -> Chunks]
  BY <1>2, <1>3, Sizes DEF Chunks
<1>5. /\ \A i \in 1..l : r[i] = At(a, c[i])
      /\ \A i \in 1..d : c[i] = i - 1
      /\ \A i \in (d + 1)..l : d <= c[i] /\ \A j \in 1..l : i < j => c[i] < c[j]
      /\ d <= l
  BY <1>2, <1>3
<1>. QED
  BY <1>1, <1>4, <1>5 DEF Continues

\* closeStream hands over the whole buffer, in order.
LEMMA FinishFacts ==
    ASSUME NEW a \in Seqs, NEW s, Behaves(a, s), NEW d \in 0..Len(s.recv),
           NEW why \in {"close", "gap", "overflow"}, why = "close" => s.reorder.h = {}
    PROVE  Closed(a, finishClose(s, why)) /\ Continues(a, d, finishClose(s, why))
<1>1. PICK t, rb, r, l : /\ t = finishClose(s, why) /\ rb = s.reorder
                         /\ r = s.recv /\ l = Len(r)
  OBVIOUS
<1>2. /\ s \in Streams /\ rb \in Buffers /\ r \in Seq(Seqs) /\ l \in Nat /\ DOMAIN r = 1..l
      /\ l <= NumChunks /\ d \in 0..l
      /\ \A i \in DOMAIN r : r[i] = At(a, i - 1)
  BY <1>1 DEF Behaves, Streams, Prefix
<1>3. Holds(a, l, l, rb.h)
  <2>1. Holds(a, l + 1, l, rb.h)
    BY <1>1 DEF Behaves
  <2>2. (l + 1)..(l + Window - 1) \subseteq l..(l + Window - 1)
    BY <1>2, Sizes
  <2>. QED
    BY <2>1, <2>2, Zenon DEF Holds
<1>4. PICK q, k : q = FlushAll(rb) /\ k = Cardinality(rb.h)
  OBVIOUS
<1>5. PICK c \in [1..k -> l..(NumChunks - 1)] :
          /\ \A i, j \in 1..k : i < j => c[i] < c[j]
          /\ q = [i \in 1..k |-> At(a, c[i])]
  <2>1. \E c \in [1..Cardinality(rb.h) -> l..(NumChunks - 1)] :
            /\ \A i, j \in 1..Cardinality(rb.h) : i < j => c[i] < c[j]
            /\ FlushAll(rb) = [i \in 1..Cardinality(rb.h) |-> At(a, c[i])]
    BY <1>2, <1>3, FlushFacts
  <2>. QED
    BY <1>4, <2>1, Zenon
<1>6. k \in Nat /\ (rb.h = {} => k = 0)
  BY <1>2, <1>4, SeqsFinite, FS_EmptySet DEF Buffers
<1>7. q \in Seq(Seqs) /\ Len(q) = k
  <2>1. ASSUME NEW i \in 1..k
        PROVE  At(a, c[i]) \in Seqs
    <3>1. PICK m : m = c[i]
      OBVIOUS
    <3>2. m \in Int
      BY <1>2, <1>5, <3>1
    <3>3. At(a, m) \in Seqs
      BY <3>2, AtFacts
    <3>. QED
      BY <3>1, <3>3
  <2>. QED
    BY <1>5, <1>6, <2>1
<1>8. t = [s EXCEPT !.recv = r \o q, !.reorder = [rb EXCEPT !.h = {}, !.gapSince = NoGap],
                    !.closed = TRUE, !.ended = why]
  BY <1>1, <1>4 DEF finishClose, FlushAllLeaves
<1>9. /\ t.recv = r \o q /\ t.ended = why /\ t.closed
      /\ t.reorder.h = {} /\ t.reorder.gapSince = NoGap
      /\ t \in Streams
  <2>1. r \o q \in Seq(Seqs)
    BY <1>2, <1>7
  <2>2. [rb EXCEPT !.h = {}, !.gapSince = NoGap] \in Buffers
    BY <1>2 DEF Buffers
  <2>. QED
    BY <1>2, <1>8, <2>1, <2>2 DEF Streams, Buffers
<1>10. PICK x, n : x = r \o q /\ n = l + k
  OBVIOUS
<1>11. /\ n \in Nat /\ Len(x) = n /\ DOMAIN x = 1..n
       /\ \A i \in 1..l : x[i] = At(a, i - 1)
       /\ \A i \in (l + 1)..n : i - l \in 1..k /\ x[i] = At(a, c[i - l])
  <2>1. Len(x) = n /\ \A i \in 1..n : x[i] = IF i <= l THEN r[i] ELSE q[i - l]
    BY <1>1, <1>2, <1>7, <1>10
  <2>2. n \in Nat /\ x \in Seq(Seqs)
    BY <1>2, <1>6, <1>7, <1>10
  <2>3. \A i \in 1..l : i \in 1..n /\ x[i] = r[i] /\ i \in DOMAIN r
    BY <1>2, <1>6, <1>10, <2>1
  <2>4. \A i \in (l + 1)..n : i - l \in 1..k /\ x[i] = q[i - l]
    BY <1>2, <1>6, <1>10, <2>1
  <2>5. DOMAIN x = 1..n
    BY <2>1, <2>2
  <2>6. \A i \in (l + 1)..n : i - l \in 1..k /\ x[i] = At(a, c[i - l])
    BY <1>5, <2>4
  <2>. QED
    BY <1>2, <2>1, <2>2, <2>3, <2>5, <2>6
<1>12. Closed(a, t)
  <2>1. ASSUME why = "close"
        PROVE  Prefix(a, t)
    <3>1. n = l
      BY <1>1, <1>2, <1>6, <1>10, <2>1
    <3>. QED
      BY <1>2, <1>9, <1>10, <1>11, <3>1 DEF Prefix
  <2>. QED
    BY <1>9, <2>1 DEF Closed, Ended
<1>13. Continues(a, d, t)
  <2>1. PICK e : e = [i \in 1..n |-> IF i <= l THEN i - 1 ELSE c[i - l]]
    OBVIOUS
  <2>2. /\ \A i \in 1..l : e[i] = i - 1
        /\ \A i \in (l + 1)..n : e[i] = c[i - l] /\ e[i] \in l..(NumChunks - 1)
    BY <1>2, <1>5, <1>6, <1>10, <1>11, <2>1
  <2>3. \A i \in 1..n : i \in 1..l \/ i \in (l + 1)..n
    BY <1>2, <1>11
  <2>4. e \in [1..n -> Chunks]
    <3>1. \A i \in 1..n : e[i] \in Chunks
      BY <1>2, <2>2, <2>3, Sizes DEF Chunks
    <3>. QED
      BY <2>1, <3>1
  <2>5. \A i \in 1..n : x[i] = At(a, e[i])
    BY <1>11, <2>2, <2>3
  <2>6. \A i \in 1..d : e[i] = i - 1
    BY <1>2, <2>2
  <2>7. ASSUME NEW i \in (d + 1)..n
        PROVE  d <= e[i] /\ \A j \in 1..n : i < j => e[i] < e[j]
    <3>1. i \in 1..n /\ i \in Int /\ d \in Nat
      BY <1>2, <1>11
    <3>2. CASE i <= l
      <4>1. e[i] = i - 1
        BY <2>2, <3>1, <3>2, <1>2
      <4>2. ASSUME NEW j \in 1..n, i < j
            PROVE  e[i] < e[j]
        BY <1>2, <1>11, <2>2, <2>3, <3>1, <3>2, <4>1, <4>2
      <4>. QED
        BY <3>1, <4>1, <4>2
    <3>3. CASE ~(i <= l)
      <4>1. i \in (l + 1)..n /\ i - l \in 1..k
        BY <1>2, <1>11, <3>1, <3>3
      <4>2. ASSUME NEW j \in 1..n, i < j
            PROVE  e[i] < e[j]
        <5>1. j \in (l + 1)..n
          BY <1>2, <1>11, <4>1, <4>2
        <5>2. j - l \in 1..k /\ i - l < j - l
          <6>1. i \in Int /\ j \in Int /\ l \in Int
            BY <1>2, <3>1
          <6>2. j - l \in 1..k
            BY <1>11, <5>1
          <6>. QED
            BY <4>2, <6>1, <6>2
        <5>3. e[i] = c[i - l] /\ e[j] = c[j - l]
          BY <2>2, <4>1, <5>1
        <5>. QED
          BY <1>5, <4>1, <5>2, <5>3
      <4>3. d <= e[i]
        BY <1>2, <2>2, <4>1
      <4>. QED
        BY <4>2, <4>3
    <3>. QED
      BY <3>2, <3>3
  <2>8. d <= n
    BY <1>2, <1>6, <1>10
  <2>. QED
    BY <1>9, <1>10, <1>11, <2>4, <2>5, <2>6, <2>7, <2>8 DEF Continues
<1>. QED
  BY <1>1, <1>12, <1>13

\* A stream that RemoveConn is closing is left to it.
LEMMA CloseFacts ==
    ASSUME NEW a \in Seqs, NEW s, Behaves(a, s),
           NEW why \in {"close", "gap", "overflow"}, why = "close" => s.reorder.h = {}
    PROVE  LET t == closeStream(s, why) IN
           /\ \/ t = s /\ s.closed
              \/ Closed(a, t) /\ ~s.closed
           /\ \A d \in 0..Len(s.recv) : Continues(a, d, t)
<1>1. CASE s.closed
  BY <1>1, OpenContinues DEF closeStream
<1>2. CASE ~s.closed
  BY <1>2, FinishFacts DEF closeStream
<1>. QED
  BY <1>1, <1>2

\* Insert hands over the run of chunks that has become complete, and nothing
\* else: a duplicate changes nothing.
LEMMA InsertFacts ==
    ASSUME NEW a \in Seqs, NEW s, Behaves(a, s), NEW time \in Nat, NEW n \in Chunks,
           n \in (Len(s.recv) - Window)..(Len(s.recv) + Window - 1),
           NEW t, t = [s EXCEPT !.reorder = Insert(s.reorder, At(a, n), time),
                                !.recv = s.recv \o Flushed(s.reorder, At(a, n))]
    PROVE  /\ Behaves(a, t) /\ Len(s.recv) <= Len(t.recv)
           /\ Flushed(s.reorder, At(a, n)) \in Seq(Seqs)
<1>1. PICK rb, r, d, x, b : /\ rb = s.reorder /\ r = s.recv /\ d = Len(r)
                            /\ x = At(a, n) /\ b = t.reorder
  OBVIOUS
<1>2. /\ s \in Streams /\ rb \in Buffers /\ r \in Seq(Seqs) /\ d \in Nat /\ DOMAIN r = 1..d
      /\ d <= NumChunks /\ s.ended = "no" /\ TimerFits(rb)
      /\ \A i \in 1..d : r[i] = At(a, i - 1)
      /\ rb.nextSeq = At(a, d) /\ Holds(a, d + 1, d, rb.h)
  BY <1>1 DEF Behaves, Streams, Prefix, Ended
<1>3. /\ n \in Int /\ n < NumChunks /\ n >= d - Window /\ n <= d + Window - 1 /\ x \in Seqs
  <2>1. n \in Int /\ n < NumChunks
    BY Sizes DEF Chunks
  <2>2. n \in (d - Window)..(d + Window - 1)
    BY <1>1, Zenon
  <2>3. At(a, n) \in Seqs
    BY <2>1, AtFacts
  <2>. QED
    BY <1>1, <1>2, <2>1, <2>2, <2>3, Sizes
<1>4. Before(x, rb.nextSeq) <=> n < d
  <2>1. n - d < Window /\ d - n <= Window /\ d \in Int
    BY <1>2, <1>3, Sizes
  <2>2. Before(At(a, n), At(a, d)) <=> n < d
    BY <1>3, <2>1, AtFacts
  <2>. QED
    BY <1>1, <1>2, <2>2, Zenon
<1>5. CASE Duplicate(rb, x)
  <2>1. Insert(rb, x, time) = rb /\ Flushed(rb, x) = <<>>
    BY <1>5 DEF Insert, Flushed
  <2>2. r \o <<>> = r
    BY <1>2
  <2>3. t = [s EXCEPT !.reorder = s.reorder, !.recv = s.recv]
    BY <1>1, <2>1, <2>2, Zenon
  <2>4. t = s
    BY <1>2, <2>3 DEF Streams
  <2>5. Len(s.recv) <= Len(s.recv) /\ <<>> \in Seq(Seqs)
    BY <1>1, <1>2
  <2>. QED
    BY <1>1, <2>1, <2>4, <2>5, Zenon
<1>6. CASE ~Duplicate(rb, x)
  <2>1. PICK h, k, q, rest : /\ h = rb.h \cup {x} /\ k = RunLength(h, At(a, d))
                             /\ q = Flushed(rb, x) /\ rest = h \ ToSet(q)
    OBVIOUS
  <2>2. h \in SUBSET Seqs /\ x \notin rb.h /\ d <= n
    BY <1>2, <1>3, <1>4, <1>6, <2>1 DEF Duplicate, Buffers
  <2>3. Holds(a, d, d, h)
    <3>1. (d + 1)..(d + Window - 1) \subseteq d..(d + Window - 1)
      BY <1>2, Sizes
    <3>2. n \in d..(d + Window - 1)
      BY <1>2, <1>3, <2>2, Sizes
    <3>3. ASSUME NEW y \in h
          PROVE  \E m \in d..(d + Window - 1) : m < NumChunks /\ y = At(a, m)
      <4>1. CASE y \in rb.h
        <5>1. PICK m \in (d + 1)..(d + Window - 1) : m < NumChunks /\ y = At(a, m)
          BY <1>2, <4>1 DEF Holds
        <5>. QED
          BY <3>1, <5>1
      <4>2. CASE y = x
        BY <1>1, <1>3, <3>2, <4>2, Zenon
      <4>. QED
        BY <2>1, <4>1, <4>2
    <3>. QED
      BY <3>3 DEF Holds
  <2>4. /\ k \in 0..Window /\ \A i \in 0..(k - 1) : At(a, d + i) \in h
        /\ At(a, d + k) \notin h /\ (k # 0 => d + k <= NumChunks)
    BY <1>2, <2>1, <2>2, <2>3, RunFacts
  <2>5. k \in Nat /\ d + k <= NumChunks
    BY <1>2, <2>4, Sizes
  <2>6. q = [i \in 1..k |-> At(a, d + i - 1)]
    <3>1. q = [i \in 1..k |-> (At(a, d) + i - 1) % SeqSpace]
      BY <1>2, <1>6, <2>1 DEF Flushed
    <3>2. ASSUME NEW i \in 1..k
          PROVE  (At(a, d) + i - 1) % SeqSpace = At(a, d + i - 1)
      <4>1. PICK j, y, z : j = i - 1 /\ y = At(a, d) /\ z = d + i - 1
        OBVIOUS
      <4>2. j \in Int /\ d \in Int /\ y \in Int /\ i \in Int
        BY <1>2, <2>5, <4>1, AtFacts DEF Seqs
      <4>3. y + i - 1 = y + j /\ d + j = z
        BY <1>2, <4>1, <4>2
      <4>4. (At(a, d) + j) % SeqSpace = At(a, d + j)
        BY <4>2, AtFacts
      <4>. QED
        BY <4>1, <4>3, <4>4, Zenon
    <3>. QED
      BY <3>1, <3>2, Zenon
  <2>7. /\ q \in Seq(Seqs) /\ Len(q) = k /\ DOMAIN q = 1..k
        /\ \A i \in 1..k : q[i] = At(a, d + i - 1)
    <3>1. \A i \in 1..k : At(a, d + i - 1) \in Seqs
      <4>1. \A i \in 1..k : d + i - 1 = d + (i - 1) /\ i - 1 \in 0..(k - 1)
        BY <1>2, <2>5
      <4>2. \A i \in 1..k : At(a, d + (i - 1)) \in Seqs
        BY <2>2, <2>4, <4>1
      <4>. QED
        BY <4>1, <4>2, Zenon
    <3>. QED
      BY <2>5, <2>6, <3>1
  <2>8. \A y : y \in ToSet(q) <=> \E i \in 0..(k - 1) : y = At(a, d + i)
    <3>1. \A y : y \in ToSet(q) <=> \E i \in 1..k : y = At(a, d + i - 1)
      BY <2>7 DEF ToSet
    <3>2. \A i \in 1..k : i - 1 \in 0..(k - 1) /\ d + (i - 1) = d + i - 1
      BY <1>2, <2>5
    <3>3. \A i \in 0..(k - 1) : i + 1 \in 1..k /\ d + (i + 1) - 1 = d + i
      BY <1>2, <2>5
    <3>. QED
      BY <3>1, <3>2, <3>3, Zenon
  <2>9. b = [h |-> rest, nextSeq |-> At(a, d + k),
             gapSince |-> IF rest = {} THEN NoGap
                          ELSE IF x # rb.nextSeq /\ rb.gapSince = NoGap THEN time
                          ELSE rb.gapSince]
    <3>1. t.reorder = Insert(rb, x, time)
      BY <1>1, <1>2 DEF Streams
    <3>2. (At(a, d) + k) % SeqSpace = At(a, d + k)
      BY <1>2, <2>5, AtFacts
    <3>3. (rb.nextSeq + Len(q)) % SeqSpace = At(a, d + k)
      BY <1>2, <2>7, <3>2, Zenon
    <3>. QED
      BY <1>1, <1>6, <2>1, <3>1, <3>3, Zenon DEF Insert
  <2>10. Holds(a, d + k + 1, d + k, rest)
    <3>1. ASSUME NEW y \in rest
          PROVE  \E m \in (d + k + 1)..(d + k + Window - 1) : m < NumChunks /\ y = At(a, m)
      <4>1. y \in h /\ y \notin ToSet(q)
        BY <2>1, <3>1
      <4>2. PICK m \in d..(d + Window - 1) : m < NumChunks /\ y = At(a, m)
        BY <2>3, <4>1 DEF Holds
      <4>3. m \in Int /\ m >= d /\ m <= d + Window - 1 /\ m # d + k
        BY <1>2, <2>4, <4>1, <4>2, Sizes
      <4>4. ~(m < d + k)
        <5>1. SUFFICES ASSUME m < d + k
                       PROVE  FALSE
          OBVIOUS
        <5>2. m - d \in 0..(k - 1) /\ d + (m - d) = m
          <6>1. d \in Int /\ k \in Int
            BY <1>2, <2>5
          <6>. QED
            BY <4>3, <5>1, <6>1
        <5>. QED
          BY <2>8, <4>1, <4>2, <5>2
      <4>5. m \in (d + k + 1)..(d + k + Window - 1)
        <5>1. d \in Int /\ k \in Nat /\ Window \in Int
          BY <1>2, <2>5, Sizes
        <5>. QED
          BY <4>3, <4>4, <5>1
      <4>. QED
        BY <4>2, <4>5
    <3>. QED
      BY <3>1 DEF Holds
  <2>11. TimerFits(b) /\ b.gapSince \in Nat \cup {NoGap}
    <3>1. CASE rest = {}
      BY <2>9, <3>1 DEF TimerFits
    <3>2. CASE rest # {} /\ x # rb.nextSeq /\ rb.gapSince = NoGap
      BY <2>9, <3>2, Sizes DEF TimerFits
    <3>3. CASE rest # {} /\ ~(x # rb.nextSeq /\ rb.gapSince = NoGap)
      <4>1. rb.gapSince # NoGap
        <5>1. SUFFICES ASSUME x = rb.nextSeq, rb.gapSince = NoGap
                       PROVE  FALSE
          BY <3>3
        <5>2. h = {At(a, d)}
          BY <1>2, <2>1, <5>1 DEF TimerFits
        <5>3. k # 0
          <6>1. d + 0 = d
            BY <1>2
          <6>. QED
            BY <2>4, <5>2, <6>1
        <5>4. 0 \in 0..(k - 1) /\ d + 0 = d
          BY <1>2, <2>5, <5>3
        <5>5. At(a, d) \in ToSet(q)
          BY <2>8, <5>4
        <5>. QED
          BY <2>1, <3>3, <5>2, <5>5
      <4>. QED
        BY <1>2, <2>9, <3>3, <4>1 DEF TimerFits, Buffers
    <3>. QED
      BY <3>1, <3>2, <3>3
  <2>12. t.recv = r \o q /\ t.ended = "no" /\ t \in Streams
    <3>1. b \in Buffers
      <4>1. rest \in SUBSET Seqs /\ At(a, d + k) \in Seqs
        <5>1. d + k \in Int
          BY <1>2, <2>5
        <5>. QED
          BY <2>1, <2>2, <5>1, AtFacts
      <4>. QED
        BY <2>9, <2>11, <4>1 DEF Buffers
    <3>2. r \o q \in Seq(Seqs)
      BY <1>2, <2>7
    <3>3. t = [s EXCEPT !.reorder = b, !.recv = r \o q]
      BY <1>1, <1>2, <2>1 DEF Streams
    <3>. QED
      BY <1>2, <3>1, <3>2, <3>3 DEF Streams
  <2>13. Len(t.recv) = d + k /\ Prefix(a, t)
    <3>1. PICK e : e = r \o q
      OBVIOUS
    <3>2. d = Len(r) /\ r \in Seq(Seqs) /\ q \in Seq(Seqs) /\ Len(q) = k
      BY <1>1, <1>2, <2>7
    <3>3. /\ Len(e) = d + k /\ DOMAIN e = 1..(d + k)
          /\ \A i \in 1..(d + k) : e[i] = IF i <= d THEN r[i] ELSE q[i - d]
      <4>1. Len(e) = d + k
        <5>1. Len(r \o q) = Len(r) + Len(q)
          BY <3>2
        <5>. QED
          BY <3>1, <3>2, <5>1, Zenon
      <4>2. e \in Seq(Seqs)
        BY <3>1, <3>2
      <4>3. DOMAIN e = 1..(d + k)
        BY <4>1, <4>2
      <4>4. \A i \in 1..(Len(r) + Len(q)) : e[i] = IF i <= Len(r) THEN r[i] ELSE q[i - Len(r)]
        BY <3>1, <3>2
      <4>. QED
        BY <3>2, <4>1, <4>3, <4>4
    <3>4. ASSUME NEW i \in 1..(d + k)
          PROVE  e[i] = At(a, i - 1)
      <4>1. CASE i <= d
        BY <1>2, <2>5, <3>3, <4>1
      <4>2. CASE ~(i <= d)
        <5>1. i - d \in 1..k /\ d + (i - d) - 1 = i - 1
          BY <1>2, <2>5, <4>2
        <5>2. q[i - d] = At(a, d + (i - d) - 1)
          BY <2>7, <5>1
        <5>. QED
          BY <3>3, <4>2, <5>1, <5>2
      <4>. QED
        BY <4>1, <4>2
    <3>. QED
      BY <2>5, <2>12, <3>1, <3>3, <3>4 DEF Prefix
  <2>14. t.reorder.nextSeq = At(a, Len(t.recv)) /\ t.reorder.h = rest
    <3>1. b.nextSeq = At(a, d + k) /\ b.h = rest
      BY <2>9
    <3>. QED
      BY <1>1, <2>13, <3>1, Zenon
  <2>15. Holds(a, Len(t.recv) + 1, Len(t.recv), t.reorder.h)
    BY <2>10, <2>13, <2>14, Zenon
  <2>16. Len(s.recv) <= Len(t.recv)
    <3>1. d <= d + k /\ d = Len(s.recv)
      BY <1>1, <1>2, <2>5
    <3>. QED
      BY <2>13, <3>1, Zenon
  <2>17. TimerFits(t.reorder)
    BY <1>1, <2>11, Zenon
  <2>18. Flushed(s.reorder, At(a, n)) \in Seq(Seqs)
    BY <1>1, <2>1, <2>7, Zenon
  <2>. QED
    BY <2>12, <2>13, <2>14, <2>15, <2>16, <2>17, <2>18 DEF Behaves, Ended
<1>. QED
  BY <1>5, <1>6

\* After the sends: a stream that goes on holds no more frames than the limit.
LEMMA CheckFacts ==
    ASSUME NEW a \in Seqs, NEW s, Behaves(a, s), NEW time \in Nat
    PROVE  LET t == checkLimits(s, time) IN
           /\ \/ t = s /\ (s.closed \/ Cardinality(s.reorder.h) <= MaxFrames)
              \/ Closed(a, t) /\ ~s.closed
           /\ \A d \in 0..Len(s.recv) : Continues(a, d, t)
<1>1. PICK t : t = checkLimits(s, time)
  OBVIOUS
<1>2. CASE t = s /\ ~Overflowed(s.reorder)
  <2>1. Cardinality(s.reorder.h) <= MaxFrames
    <3>1. s.reorder.h \in SUBSET Seqs
      BY DEF Behaves, Streams, Buffers
    <3>2. Cardinality(s.reorder.h) \in Nat
      BY <3>1, SeqsFinite
    <3>. QED
      BY <1>2, <3>2, Sizes DEF Overflowed
  <2>. QED
    BY <1>1, <1>2, <2>1, OpenContinues
<1>3. ASSUME NEW why \in {"close", "gap", "overflow"},
             t = closeStream(s, why), why = "close" => s.reorder.h = {}
      PROVE  /\ \/ t = s /\ s.closed
                \/ Closed(a, t) /\ ~s.closed
             /\ \A d \in 0..Len(s.recv) : Continues(a, d, t)
  BY <1>3, CloseFacts
<1>4. \/ t = s /\ ~Overflowed(s.reorder)
      \/ \E why \in {"close", "gap", "overflow"} :
             t = closeStream(s, why) /\ (why = "close" => s.reorder.h = {})
  BY <1>1 DEF checkLimits
<1>. QED
  BY <1>1, <1>2, <1>3, <1>4

LEMMA DataFacts ==
    ASSUME NEW a \in Seqs, NEW s, Behaves(a, s), NEW time \in Nat, NEW n \in Chunks,
           n \in (Len(s.recv) - Window)..(Len(s.recv) + Window - 1)
    PROVE  LET t == dispatchStriped(s, At(a, n), time) IN
           Good(a, t) /\ Continues(a, Len(s.recv), t)
<1>1. PICK got, d : got = insertFrame(s, At(a, n), time) /\ d = Len(s.recv)
  OBVIOUS
<1>2. got = [s EXCEPT !.reorder = Insert(s.reorder, At(a, n), time),
                      !.recv = s.recv \o Flushed(s.reorder, At(a, n))]
  BY <1>1, Zenon DEF insertFrame
<1>3. Behaves(a, got) /\ d <= Len(got.recv)
  BY <1>1, <1>2, InsertFacts, Zenon
<1>4. d \in 0..Len(got.recv)
  <2>1. s \in Streams /\ got \in Streams
    BY <1>3 DEF Behaves
  <2>. QED
    BY <1>1, <1>3, <2>1 DEF Streams
<1>5. PICK t : t = checkLimits(got, time)
  OBVIOUS
<1>6. (t = got \/ Closed(a, t)) /\ Continues(a, d, t)
  BY <1>3, <1>4, <1>5, CheckFacts
<1>7. t = dispatchStriped(s, At(a, n), time)
  BY <1>1, <1>5, Zenon DEF dispatchStriped
<1>. QED
  BY <1>1, <1>3, <1>6, <1>7, Zenon DEF Good

\* FrameClose: deferred, or executed on an empty buffer.
LEMMA CloseFrameFacts ==
    ASSUME NEW a \in Seqs, NEW s, Behaves(a, s)
    PROVE  LET t == dispatchClose(s) IN
           /\ \/ Behaves(a, t) /\ t.reorder = s.reorder /\ t.recv = s.recv /\ t.closed = s.closed
              \/ Closed(a, t) /\ ~s.closed
           /\ Continues(a, Len(s.recv), t)
<1>1. s \in Streams /\ Len(s.recv) \in 0..Len(s.recv)
  BY DEF Behaves, Streams
<1>2. CASE s.reorder.h = {}
  <2>1. dispatchClose(s) = closeStream(s, "close")
    BY <1>2 DEF dispatchClose
  <2>2. PICK t : t = closeStream(s, "close")
    OBVIOUS
  <2>3. (t = s \/ (Closed(a, t) /\ ~s.closed)) /\ Continues(a, Len(s.recv), t)
    BY <1>1, <1>2, <2>2, CloseFacts
  <2>. QED
    BY <2>1, <2>2, <2>3
<1>3. CASE s.reorder.h # {}
  <2>1. PICK t : t = dispatchClose(s)
    OBVIOUS
  <2>2. /\ t \in Streams /\ t.reorder = s.reorder /\ t.recv = s.recv /\ t.ended = s.ended
        /\ t.closed = s.closed
    BY <1>1, <1>3, <2>1 DEF dispatchClose, Streams
  <2>3. Behaves(a, t)
    BY <2>2 DEF Behaves, Prefix, Ended
  <2>4. Len(s.recv) \in 0..Len(t.recv)
    BY <1>1, <2>2
  <2>. QED
    BY <2>1, <2>2, <2>3, <2>4, OpenContinues
<1>. QED
  BY <1>2, <1>3

\* closed.Swap changes nothing the reader sees.
LEMMA SwapFacts ==
    ASSUME NEW a \in Seqs, NEW s, Behaves(a, s)
    PROVE  LET t == [s EXCEPT !.closed = TRUE] IN
           /\ Behaves(a, t) /\ t.closed /\ t.recv = s.recv /\ t.reorder = s.reorder
           /\ Continues(a, Len(s.recv), t)
<1>1. PICK t : t = [s EXCEPT !.closed = TRUE]
  OBVIOUS
<1>2. s \in Streams /\ Len(s.recv) \in 0..Len(s.recv)
  BY DEF Behaves, Streams
<1>3. /\ t \in Streams /\ t.reorder = s.reorder /\ t.recv = s.recv /\ t.ended = s.ended
      /\ t.closed
  BY <1>1, <1>2 DEF Streams
<1>4. Behaves(a, t)
  BY <1>3 DEF Behaves, Prefix, Ended
<1>. QED
  BY <1>1, <1>2, <1>3, <1>4, OpenContinues

-----------------------------------------------------------------------------
(* The inductive invariant.                                                *)

\* Chunks in hand, and chunks sent.
LEMMA WholeFacts ==
    ASSUME NEW s, s \in Streams, NEW l, l.hand \in Seq(Seqs)
    PROVE  /\ Whole(s, l) \in Streams
           /\ Whole(s, l) = [s EXCEPT !.recv = s.recv \o InHand(l)]
           /\ Whole(s, l).recv = s.recv \o InHand(l)
           /\ Whole(s, l).reorder = s.reorder /\ Whole(s, l).closed = s.closed
           /\ Whole(s, l).closePending = s.closePending /\ Whole(s, l).ended = s.ended
           /\ InHand(l) = <<>> => Whole(s, l) = s
<1>1. PICK q, r : q = InHand(l) /\ r = s.recv
  OBVIOUS
<1>2. q \in Seq(Seqs) /\ r \in Seq(Seqs)
  <2>1. <<>> \in Seq(Seqs)
    OBVIOUS
  <2>. QED
    BY <1>1, <2>1 DEF InHand, Streams
<1>3. r \o q \in Seq(Seqs) /\ r \o <<>> = r
  BY <1>2
<1>4. Whole(s, l) = [s EXCEPT !.recv = r \o q]
  BY <1>1 DEF Whole
<1>5. q = <<>> => Whole(s, l) = s
  BY <1>1, <1>3, <1>4 DEF Streams
<1>. QED
  BY <1>1, <1>3, <1>4, <1>5 DEF Streams

LEMMA NewStreamFacts ==
    ASSUME NEW a \in Seqs
    PROVE  /\ Behaves(a, newStream(a)) /\ newStream(a).recv = <<>>
           /\ Cardinality(newStream(a).reorder.h) <= MaxFrames /\ ~newStream(a).closed
<1>1. PICK s : s = newStream(a)
  OBVIOUS
<1>2. s = [reorder |-> [h |-> {}, nextSeq |-> a, gapSince |-> NoGap],
           recv |-> <<>>, closePending |-> FALSE, closed |-> FALSE, ended |-> "no"]
  BY <1>1 DEF newStream, newReorderBuffer
<1>3. <<>> \in Seq(Seqs) /\ Len(<<>>) = 0 /\ DOMAIN <<>> = {}
  OBVIOUS
<1>4. s.recv = <<>> /\ s.ended = "no" /\ ~s.closed /\ s.reorder.h = {}
      /\ s.reorder.gapSince = NoGap /\ s.reorder.nextSeq = a
  BY <1>2, Zenon
<1>5. s \in Streams
  BY <1>2, <1>3 DEF Streams, Buffers
<1>6. At(a, 0) = a
  <2>1. a \in 0..(SeqSpace - 1)
    BY DEF Seqs
  <2>2. (SeqSpace * 0 + a) % SeqSpace = a
    BY <2>1, Sizes, ModUnique
  <2>3. SeqSpace * 0 + a = a + 0
    BY <2>1, Sizes
  <2>. QED
    BY <2>2, <2>3, Zenon DEF At
<1>7. Behaves(a, s)
  <2>1. Prefix(a, s)
    BY <1>3, <1>4, Sizes DEF Prefix
  <2>. QED
    BY <1>3, <1>4, <1>5, <1>6, <2>1 DEF Behaves, Ended, Holds, TimerFits
<1>8. Cardinality(s.reorder.h) <= MaxFrames
  BY <1>4, Sizes, FS_EmptySet
<1>. QED
  BY <1>1, <1>4, <1>7, <1>8

LEMMA InitIInv == Init => IInv
<1>1. SUFFICES ASSUME Init
               PROVE  IInv
  OBVIOUS
<1>2. PICK a, s : a = start /\ s = st
  OBVIOUS
<1>3. a \in Seqs /\ now = 0 /\ s = newStream(a) /\ loop = Idle /\ closer = Where("none", <<>>)
  BY <1>1, <1>2, Sizes DEF Init
<1>4. s \in Streams /\ Behaves(a, s) /\ Cardinality(s.reorder.h) <= MaxFrames /\ ~s.closed
  BY <1>3, NewStreamFacts DEF Behaves
<1>5. <<>> \in Seq(Seqs)
  OBVIOUS
<1>6. /\ loop.pc = "idle" /\ loop.hand = <<>> /\ closer.pc = "none"
      /\ loop \in [pc : {"idle", "insert", "send"}, hand : Seq(Seqs)]
  BY <1>3, <1>5 DEF Idle, Where
<1>7. Whole(s, loop) = s
  <2>1. InHand(loop) = <<>>
    BY <1>6 DEF InHand
  <2>. QED
    BY <1>4, <1>5, <1>6, <2>1, WholeFacts
<1>8. Open(a, s, loop, closer)
  BY <1>4, <1>6, <1>7 DEF Open
<1>. QED
  BY <1>2, <1>3, <1>8 DEF IInv

\* What has been sent is the first chunks.
LEMMA OpenPrefix ==
    ASSUME NEW a \in Seqs, NEW s, NEW l, NEW c, Open(a, s, l, c)
    PROVE  s \in Streams /\ Prefix(a, s) /\ ~Ended(s)
<1>1. PICK w, q, r : w = Whole(s, l) /\ q = InHand(l) /\ r = s.recv
  OBVIOUS
<1>2. /\ s \in Streams /\ r \in Seq(Seqs) /\ q \in Seq(Seqs)
      /\ w.recv = r \o q /\ w.ended = s.ended /\ Behaves(a, w)
  <2>1. s \in Streams /\ Behaves(a, w) /\ l.hand \in Seq(Seqs) /\ <<>> \in Seq(Seqs)
    BY <1>1 DEF Open
  <2>2. q \in Seq(Seqs)
    BY <1>1, <2>1 DEF InHand
  <2>3. w.recv = r \o q /\ w.ended = s.ended
    BY <1>1, <2>1, WholeFacts
  <2>4. r \in Seq(Seqs)
    BY <1>1, <2>1 DEF Streams
  <2>. QED
    BY <2>1, <2>2, <2>3, <2>4
<1>3. Len(r \o q) <= NumChunks /\ \A i \in DOMAIN (r \o q) : (r \o q)[i] = At(a, i - 1)
  BY <1>2 DEF Behaves, Prefix
<1>4. \A i \in 1..Len(r) : i \in DOMAIN (r \o q) /\ (r \o q)[i] = r[i]
  BY <1>2
<1>5. Len(r) <= Len(r \o q) /\ Len(r) \in Nat /\ Len(r \o q) \in Nat /\ DOMAIN r = 1..Len(r)
  BY <1>2
<1>6. Prefix(a, s)
  BY <1>1, <1>3, <1>4, <1>5, Sizes DEF Prefix
<1>7. ~Ended(s)
  BY <1>2 DEF Behaves, Ended
<1>. QED
  BY <1>2, <1>6, <1>7

\* What a step does to the reader: it is given the next chunk, the end, or an end
\* of which nothing is known.
Advance(a, s, t) ==
    \/ ~Ended(t) /\ t.recv = s.recv
    \/ ~Ended(t) /\ t \in Streams /\ Prefix(a, t) /\ Len(t.recv) = Len(s.recv) + 1
    \/ Closed(a, t) /\ Continues(a, Len(s.recv), t)
    \/ Torn(t) /\ t.recv = s.recv

\* The steps of DispatchLoop on an open stream.
LEMMA LoopSteps ==
    ASSUME NEW a \in Seqs, NEW s, NEW l, NEW c, Open(a, s, l, c), NEW time \in Nat
    PROVE  /\ \A n \in Chunks :
                 l.pc = "idle" /\ n \in (Len(s.recv) - Window)..(Len(s.recv) + Window - 1)
                    => Open(a, s, Where("insert", <<At(a, n)>>), c)
           /\ l.pc = "insert"
                => Open(a, [s EXCEPT !.reorder = Insert(s.reorder, Head(l.hand), time)],
                        Where("send", Flushed(s.reorder, Head(l.hand))), c)
           /\ l.pc = "send" /\ l.hand # <<>>
                => LET t == [s EXCEPT !.recv = Append(s.recv, Head(l.hand))] IN
                   /\ Open(a, t, Where("send", Tail(l.hand)), c)
                   /\ Len(t.recv) = Len(s.recv) + 1
           /\ l.pc = "send" /\ l.hand = <<>>
                => LET t == checkLimits(s, time) IN
                   /\ Open(a, t, Idle, c) \/ Over(a, t, Idle, c)
                   /\ Advance(a, s, t)
           /\ l.pc = "idle"
                => LET t == dispatchClose(s) IN
                   /\ Open(a, t, l, c) \/ Over(a, t, l, c)
                   /\ Advance(a, s, t)
<1>1. /\ s \in Streams /\ Behaves(a, Whole(s, l)) /\ l.hand \in Seq(Seqs) /\ ~Ended(s)
      /\ s.recv \in Seq(Seqs) /\ Len(s.recv) \in Nat /\ <<>> \in Seq(Seqs)
  BY OpenPrefix DEF Open, Streams
<1>2. \A pc, q : Where(pc, q).pc = pc /\ Where(pc, q).hand = q
  BY DEF Where
<1>3. l.pc # "send" \/ l.hand = <<>> => InHand(l) = <<>> /\ Whole(s, l) = s /\ Behaves(a, s)
  <2>1. l.pc # "send" \/ l.hand = <<>> => InHand(l) = <<>>
    BY DEF InHand
  <2>. QED
    BY <1>1, <2>1, WholeFacts
<1>4. ASSUME NEW n \in Chunks, l.pc = "idle",
             n \in (Len(s.recv) - Window)..(Len(s.recv) + Window - 1)
      PROVE  Open(a, s, Where("insert", <<At(a, n)>>), c)
  <2>1. PICK k, x : k = Where("insert", <<x>>) /\ x = At(a, n)
    OBVIOUS
  <2>2. x \in Seqs
    <3>1. n \in Int
      BY DEF Chunks
    <3>. QED
      BY <2>1, <3>1, AtFacts
  <2>3. /\ k.pc = "insert" /\ k.hand = <<x>> /\ k.hand \in Seq(Seqs)
        /\ k \in [pc : {"idle", "insert", "send"}, hand : Seq(Seqs)]
    BY <2>1, <2>2 DEF Where
  <2>4. Whole(s, k) = s
    <3>1. InHand(k) = <<>>
      BY <2>3 DEF InHand
    <3>. QED
      BY <1>1, <2>3, <3>1, WholeFacts
  <2>5. Looked(a, Len(s.recv), k)
    BY <1>4, <2>1, <2>3, Zenon DEF Looked
  <2>6. Open(a, s, k, c)
    BY <1>1, <1>3, <1>4, <2>3, <2>4, <2>5 DEF Open
  <2>. QED
    BY <2>1, <2>6, Zenon
<1>5. ASSUME l.pc = "insert"
      PROVE  Open(a, [s EXCEPT !.reorder = Insert(s.reorder, Head(l.hand), time)],
                  Where("send", Flushed(s.reorder, Head(l.hand))), c)
  <2>1. PICK n \in Chunks : /\ n \in (Len(s.recv) - Window)..(Len(s.recv) + Window - 1)
                            /\ l.hand = <<At(a, n)>>
    BY <1>5 DEF Open, Looked
  <2>2. PICK x, t, k, q : /\ x = At(a, n) /\ t = [s EXCEPT !.reorder = Insert(s.reorder, x, time)]
                          /\ q = Flushed(s.reorder, x) /\ k = Where("send", q)
    OBVIOUS
  <2>3. PICK g : g = [s EXCEPT !.reorder = Insert(s.reorder, x, time), !.recv = s.recv \o q]
    OBVIOUS
  <2>4. Behaves(a, g)
    BY <1>3, <1>5, <2>1, <2>2, <2>3, InsertFacts
  <2>5. q \in Seq(Seqs)
    BY <1>3, <1>5, <2>1, <2>2, <2>3, InsertFacts
  <2>6. t \in Streams
    <3>1. g \in Streams /\ g.reorder = Insert(s.reorder, x, time)
      BY <1>1, <2>3, <2>4 DEF Behaves, Streams
    <3>. QED
      BY <1>1, <2>2, <3>1 DEF Streams
  <2>7. k.pc = "send" /\ k.hand = q /\ k \in [pc : {"idle", "insert", "send"}, hand : Seq(Seqs)]
    BY <2>2, <2>5 DEF Where
  <2>8. Whole(t, k) = g
    <3>1. InHand(k) = q
      BY <2>7 DEF InHand
    <3>2. t.recv = s.recv
      BY <1>1, <2>2 DEF Streams
    <3>3. Whole(t, k) = [t EXCEPT !.recv = s.recv \o q]
      BY <3>1, <3>2 DEF Whole
    <3>. QED
      BY <1>1, <2>2, <2>3, <3>3 DEF Streams
  <2>9. t.closed = s.closed
    BY <1>1, <2>2 DEF Streams
  <2>10. Open(a, t, k, c)
    BY <2>4, <2>6, <2>7, <2>8, <2>9 DEF Open
  <2>11. Head(l.hand) = x
    BY <2>1, <2>2
  <2>. QED
    BY <2>2, <2>10, <2>11, Zenon
<1>6. ASSUME l.pc = "send", l.hand # <<>>
      PROVE  LET t == [s EXCEPT !.recv = Append(s.recv, Head(l.hand))] IN
             /\ Open(a, t, Where("send", Tail(l.hand)), c)
             /\ Len(t.recv) = Len(s.recv) + 1
  <2>1. PICK t, k, q, h, r : /\ t = [s EXCEPT !.recv = Append(r, h)] /\ k = Where("send", q)
                             /\ q = Tail(l.hand) /\ h = Head(l.hand) /\ r = s.recv
    OBVIOUS
  <2>2. /\ q \in Seq(Seqs) /\ h \in Seqs /\ Append(r, h) \in Seq(Seqs)
        /\ Append(r, h) \o q = r \o l.hand /\ Len(Append(r, h)) = Len(r) + 1
    <3>1. PICK x, y : x = l.hand /\ y = <<h>>
      OBVIOUS
    <3>2. x \in Seq(Seqs) /\ x # <<>> /\ r \in Seq(Seqs) /\ q = Tail(x) /\ h = Head(x)
      BY <1>1, <1>6, <2>1, <3>1
    <3>3. h \in Seqs /\ q \in Seq(Seqs) /\ Len(q) = Len(x) - 1
          /\ \A i \in 1..Len(q) : q[i] = x[i + 1]
      BY <3>2, HeadTailProperties
    <3>4. y \in Seq(Seqs) /\ y \o q = x
      BY <3>1, <3>2, <3>3
    <3>5. (r \o y) \o q = r \o (y \o q)
      BY <3>2, <3>3, <3>4, ConcatAssociative
    <3>6. Append(r, h) = r \o y /\ Append(r, h) \in Seq(Seqs) /\ Len(Append(r, h)) = Len(r) + 1
      BY <3>1, <3>2, <3>3
    <3>. QED
      BY <3>1, <3>3, <3>4, <3>5, <3>6, Zenon
  <2>3. t \in Streams /\ t.recv = Append(r, h) /\ t.closed = s.closed
    BY <1>1, <2>1, <2>2 DEF Streams
  <2>4. k.pc = "send" /\ k.hand = q /\ k \in [pc : {"idle", "insert", "send"}, hand : Seq(Seqs)]
    BY <2>1, <2>2 DEF Where
  <2>5. Whole(t, k) = Whole(s, l)
    <3>1. InHand(k) = q /\ InHand(l) = l.hand
      BY <1>6, <2>4 DEF InHand
    <3>2. Whole(t, k) = [t EXCEPT !.recv = r \o l.hand]
      BY <2>2, <2>3, <3>1 DEF Whole
    <3>3. Whole(s, l) = [s EXCEPT !.recv = r \o l.hand]
      BY <2>1, <3>1 DEF Whole
    <3>. QED
      BY <1>1, <2>1, <3>2, <3>3 DEF Streams
  <2>6. Open(a, t, k, c)
    BY <1>1, <2>3, <2>4, <2>5 DEF Open
  <2>. QED
    BY <2>1, <2>2, <2>3, <2>6, Zenon
<1>7. Idle.pc = "idle" /\ Idle.hand = <<>> /\ Idle \in [pc : {"idle", "insert", "send"}, hand : Seq(Seqs)]
  BY <1>1 DEF Idle, Where
<1>8. ASSUME NEW t, Behaves(a, t), NEW k, k \in [pc : {"idle", "insert", "send"}, hand : Seq(Seqs)],
             k.pc = "idle", t.closed = s.closed,
             t.closed \/ Cardinality(t.reorder.h) <= MaxFrames
      PROVE  Open(a, t, k, c)
  <2>1. t \in Streams
    BY <1>8 DEF Behaves
  <2>2. Whole(t, k) = t
    <3>1. InHand(k) = <<>> /\ k.hand \in Seq(Seqs)
      BY <1>8 DEF InHand
    <3>. QED
      BY <2>1, <3>1, WholeFacts
  <2>. QED
    BY <1>8, <2>1, <2>2 DEF Open
<1>9. ASSUME l.pc = "send", l.hand = <<>>
      PROVE  LET t == checkLimits(s, time) IN
             /\ Open(a, t, Idle, c) \/ Over(a, t, Idle, c)
             /\ Advance(a, s, t)
  <2>1. PICK t : t = checkLimits(s, time)
    OBVIOUS
  <2>2. Len(s.recv) \in 0..Len(s.recv) /\ Behaves(a, s)
    BY <1>1, <1>3, <1>9
  <2>3. /\ \/ t = s /\ (s.closed \/ Cardinality(s.reorder.h) <= MaxFrames)
           \/ Closed(a, t) /\ ~s.closed
        /\ Continues(a, Len(s.recv), t)
    BY <2>1, <2>2, CheckFacts
  <2>4. CASE t = s /\ (s.closed \/ Cardinality(s.reorder.h) <= MaxFrames)
    BY <1>1, <1>7, <1>8, <2>1, <2>2, <2>4 DEF Advance
  <2>5. CASE Closed(a, t) /\ ~s.closed
    <3>1. c.pc \in {"none", "stale"}
      BY <2>5 DEF Open
    <3>. QED
      BY <1>7, <2>1, <2>3, <2>5, <3>1 DEF Over, Advance
  <2>. QED
    BY <2>3, <2>4, <2>5
<1>10. ASSUME l.pc = "idle"
       PROVE  LET t == dispatchClose(s) IN
              /\ Open(a, t, l, c) \/ Over(a, t, l, c)
              /\ Advance(a, s, t)
  <2>1. PICK t : t = dispatchClose(s)
    OBVIOUS
  <2>2. Behaves(a, s)
    BY <1>3, <1>10
  <2>3. /\ \/ Behaves(a, t) /\ t.reorder = s.reorder /\ t.recv = s.recv /\ t.closed = s.closed
           \/ Closed(a, t) /\ ~s.closed
        /\ Continues(a, Len(s.recv), t)
    BY <2>1, <2>2, CloseFrameFacts
  <2>4. CASE Behaves(a, t) /\ t.reorder = s.reorder /\ t.recv = s.recv /\ t.closed = s.closed
    <3>1. t.closed \/ Cardinality(t.reorder.h) <= MaxFrames
      BY <1>10, <2>4 DEF Open
    <3>2. l \in [pc : {"idle", "insert", "send"}, hand : Seq(Seqs)]
      BY DEF Open
    <3>3. Open(a, t, l, c)
      BY <1>8, <1>10, <2>4, <3>1, <3>2
    <3>4. ~Ended(t)
      BY <2>4 DEF Behaves
    <3>. QED
      BY <2>1, <2>4, <3>3, <3>4 DEF Advance
  <2>5. CASE Closed(a, t) /\ ~s.closed
    <3>1. c.pc \in {"none", "stale"}
      BY <2>5 DEF Open
    <3>. QED
      BY <1>10, <2>1, <2>3, <2>5, <3>1 DEF Over, Advance
  <2>. QED
    BY <2>3, <2>4, <2>5
<1>. QED
  BY <1>4, <1>5, <1>6, <1>9, <1>10

\* The steps of RemoveConn on an open stream.
LEMMA CloserSteps ==
    ASSUME NEW a \in Seqs, NEW s, NEW l, NEW c, Open(a, s, l, c)
    PROVE  /\ c.pc = "none" => Open(a, s, l, Where("stale", <<>>))
           /\ c.pc = "stale"
                => LET t == [s EXCEPT !.closed = TRUE] IN
                   /\ ~s.closed /\ Open(a, t, l, Where("swapped", <<>>))
                   /\ Advance(a, s, t)
           /\ c.pc = "swapped" /\ l.pc = "idle"
                => LET t == finishClose(s, "gap") IN
                   Over(a, t, l, Where("done", <<>>)) /\ Advance(a, s, t)
           /\ c.pc = "swapped" /\ l.pc # "idle"
                => LET t == [s EXCEPT !.ended = "torn"] IN
                   Loose(t, Where("flush", <<>>)) /\ Advance(a, s, t)
<1>1. /\ s \in Streams /\ Behaves(a, Whole(s, l)) /\ l.hand \in Seq(Seqs) /\ ~Ended(s)
      /\ Len(s.recv) \in 0..Len(s.recv)
  BY OpenPrefix DEF Open, Streams
<1>2. \A pc, q : Where(pc, q).pc = pc
  BY DEF Where
<1>3. CASE c.pc = "none"
  BY <1>2, <1>3 DEF Open
<1>4. CASE c.pc = "stale"
  <2>1. PICK t, k : t = [s EXCEPT !.closed = TRUE] /\ k = Where("swapped", <<>>)
    OBVIOUS
  <2>2. /\ t \in Streams /\ t.closed /\ t.recv = s.recv /\ t.reorder = s.reorder
        /\ t.ended = s.ended /\ k.pc = "swapped" /\ ~s.closed
    BY <1>1, <1>2, <1>4, <2>1 DEF Streams, Open
  <2>3. Whole(t, l) = [Whole(s, l) EXCEPT !.closed = TRUE]
    <3>1. Whole(t, l) = [t EXCEPT !.recv = s.recv \o InHand(l)]
      BY <2>2 DEF Whole
    <3>2. Whole(s, l) = [s EXCEPT !.recv = s.recv \o InHand(l)]
      BY DEF Whole
    <3>. QED
      BY <1>1, <2>1, <3>1, <3>2 DEF Streams
  <2>4. Behaves(a, Whole(t, l))
    BY <1>1, <2>3, SwapFacts
  <2>5. Open(a, t, l, k)
    BY <2>2, <2>4 DEF Open
  <2>6. Advance(a, s, t)
    BY <1>1, <2>2 DEF Advance, Ended
  <2>. QED
    BY <1>4, <2>1, <2>2, <2>5, <2>6
<1>5. CASE c.pc = "swapped" /\ l.pc = "idle"
  <2>1. PICK t, k : t = finishClose(s, "gap") /\ k = Where("done", <<>>)
    OBVIOUS
  <2>2. Whole(s, l) = s
    <3>1. InHand(l) = <<>>
      BY <1>5 DEF InHand
    <3>. QED
      BY <1>1, <3>1, WholeFacts
  <2>3. Closed(a, t) /\ Continues(a, Len(s.recv), t)
    BY <1>1, <2>1, <2>2, FinishFacts
  <2>4. k.pc = "done"
    BY <1>2, <2>1
  <2>. QED
    BY <1>5, <2>1, <2>3, <2>4 DEF Over, Advance
<1>6. CASE c.pc = "swapped" /\ l.pc # "idle"
  <2>1. PICK t, k : t = [s EXCEPT !.ended = "torn"] /\ k = Where("flush", <<>>)
    OBVIOUS
  <2>2. t \in LooseStreams(Buffers, Seqs) /\ t.closed /\ t.recv = s.recv
    BY <1>1, <1>6, <2>1 DEF Streams, LooseStreams, Open
  <2>3. Torn(t)
    BY <2>2 DEF Torn
  <2>. QED
    BY <1>2, <1>6, <2>1, <2>2, <2>3 DEF Loose, Advance
<1>. QED
  BY <1>3, <1>4, <1>5, <1>6

LEMMA SeqWiden ==
    ASSUME NEW S, NEW T, NEW q \in Seq(S)
    PROVE  q \in Seq(S \cup T) /\ q \in Seq(T \cup S)
OBVIOUS

\* What is added to recv comes after what had been delivered.
LEMMA PrefixStays ==
    ASSUME NEW S, NEW r \in Seq(S), NEW T, NEW q \in Seq(T)
    PROVE  r \o q \in Seq(S \cup T) /\ IsPrefix(r, r \o q) /\ IsPrefix(r, r)
<1>1. PICK e, n : e = r \o q /\ n = Len(r)
  OBVIOUS
<1>2. r \in Seq(S \cup T) /\ q \in Seq(S \cup T)
  BY SeqWiden
<1>3. SubSeq(r, 1, n) = [i \in 1..n |-> r[i]] /\ n \in Nat
  BY <1>1
<1>4. /\ e \in Seq(S \cup T) /\ n <= Len(e) /\ \A i \in 1..n : e[i] = r[i]
      /\ SubSeq(e, 1, n) = [i \in 1..n |-> e[i]]
  BY <1>1, <1>2
<1>. QED
  BY <1>1, <1>3, <1>4 DEF IsPrefix

\* The outcomes of a closeStream that overlaps dispatchStriped.
LEMMA TearFacts ==
    ASSUME NEW B, NEW S, NEW E, NEW s,
           s \in [reorder : B, recv : Seq(S), closePending : BOOLEAN, closed : BOOLEAN, ended : E],
           s.closed, NEW f, NEW t \in TornClose(s, f)
    PROVE  Torn(t) /\ IsPrefix(s.recv, t.recv)
<1>. DEFINE T == s.reorder.h \cup f
            b == FlushAllLeaves(s.reorder)
<1>1. PICK q \in UNION {[1..k -> T] : k \in 0..Cardinality(T)} :
          t = [s EXCEPT !.recv = s.recv \o q, !.reorder = b, !.ended = "torn"]
  BY Zenon DEF TornClose
<1>2. PICK k \in 0..Cardinality(T) : q \in [1..k -> T]
  BY <1>1
<1>3. k \in Nat
  OBVIOUS
<1>4. q \in Seq(T)
  BY <1>2, <1>3
<1>5. s.recv \o q \in Seq(S \cup T) /\ IsPrefix(s.recv, s.recv \o q)
  <2>1. PICK r : r = s.recv
    OBVIOUS
  <2>2. r \in Seq(S)
    BY <2>1
  <2>. QED
    BY <1>4, <2>1, <2>2, PrefixStays
<1>6. t \in LooseStreams(B \cup {b}, S \cup T) /\ t.closed /\ t.recv = s.recv \o q
  BY <1>1, <1>5 DEF LooseStreams
<1>. QED
  BY <1>5, <1>6, Zenon DEF Torn

\* A torn stream stays torn, and keeps what had been delivered.
LEMMA TornFacts ==
    ASSUME NEW s, Torn(s)
    PROVE  /\ s.ended = "torn" /\ Ended(s) /\ IsPrefix(s.recv, s.recv)
           /\ \A x : LET t == [s EXCEPT !.reorder = x] IN
                     Torn(t) /\ IsPrefix(s.recv, t.recv)
           /\ \A x : LET t == [s EXCEPT !.recv = Append(s.recv, x)] IN
                     Torn(t) /\ IsPrefix(s.recv, t.recv)
           /\ \A time : checkLimits(s, time) = s
           /\ \A f : \A t \in TornClose(s, f) : Torn(t) /\ IsPrefix(s.recv, t.recv)
<1>1. PICK B, S : s \in LooseStreams(B, S) /\ s.closed
  BY DEF Torn
<1>2. PICK r, n : r = s.recv /\ n = Len(r)
  OBVIOUS
<1>3. r \in Seq(S) /\ n \in Nat /\ s.ended = "torn" /\ SubSeq(r, 1, n) = [i \in 1..n |-> r[i]]
  BY <1>1, <1>2 DEF LooseStreams
<1>4. \A T : \A q \in Seq(T) : r \o q \in Seq(S \cup T) /\ IsPrefix(r, r \o q)
  BY <1>3, PrefixStays
<1>5. IsPrefix(r, r)
  BY <1>2, <1>3 DEF IsPrefix
<1>6. ASSUME NEW x
      PROVE  LET t == [s EXCEPT !.reorder = x] IN Torn(t) /\ IsPrefix(s.recv, t.recv)
  <2>1. PICK t : t = [s EXCEPT !.reorder = x]
    OBVIOUS
  <2>2. t \in LooseStreams(B \cup {x}, S) /\ t.closed /\ t.recv = r
    BY <1>1, <1>2, <2>1 DEF LooseStreams
  <2>. QED
    BY <1>2, <1>5, <2>1, <2>2, Zenon DEF Torn
<1>7. ASSUME NEW x
      PROVE  LET t == [s EXCEPT !.recv = Append(s.recv, x)] IN
             Torn(t) /\ IsPrefix(s.recv, t.recv)
  <2>1. PICK t : t = [s EXCEPT !.recv = Append(s.recv, x)]
    OBVIOUS
  <2>2. <<x>> \in Seq({x}) /\ Append(r, x) = r \o <<x>>
    BY <1>3
  <2>3. Append(r, x) \in Seq(S \cup {x}) /\ IsPrefix(r, Append(r, x))
    BY <1>4, <2>2
  <2>4. t \in LooseStreams(B, S \cup {x}) /\ t.closed /\ t.recv = Append(r, x)
    BY <1>1, <1>2, <2>1, <2>3 DEF LooseStreams
  <2>. QED
    BY <1>2, <2>1, <2>3, <2>4, Zenon DEF Torn
<1>8. ASSUME NEW time
      PROVE  checkLimits(s, time) = s
  BY <1>1 DEF checkLimits, closeStream
<1>9. ASSUME NEW f, NEW t \in TornClose(s, f)
      PROVE  Torn(t) /\ IsPrefix(s.recv, t.recv)
  BY <1>1, TearFacts DEF LooseStreams
<1>. QED
  BY <1>2, <1>3, <1>5, <1>6, <1>7, <1>8, <1>9 DEF Ended

\* No step disturbs what is known of an open stream; once it is over nothing
\* changes it, and once it is torn what had been delivered stays.
LEMMA Steps ==
    ASSUME IInv, Next
    PROVE  /\ IInv' /\ start' = start
           /\ \/ Open(start, st, loop, closer) /\ Advance(start, st, st')
              \/ Over(start, st, loop, closer) /\ st' = st
              \/ Torn(st) /\ Torn(st') /\ IsPrefix(st.recv, st'.recv)
<1>1. start' = start /\ start \in Seqs /\ now \in Nat /\ now' \in Nat
  <2>1. start' = start /\ (now' = now \/ now' = now + 1)
    BY Zenon DEF Next, ReceiveData, InsertFrame, SendChunk, CheckLimits, ReceiveClose,
           ConnDies, SwapClosed, CloseDone, Flush, HeapRace, FlushSend, Tick
  <2>. QED
    BY <2>1 DEF IInv
<1>2. PICK a, s, l, c, t, m, k : /\ a = start /\ s = st /\ l = loop /\ c = closer
                                 /\ t = st' /\ m = loop' /\ k = closer'
  OBVIOUS
<1>3. CASE Open(a, s, l, c)
  <2>1. SUFFICES (Open(a, t, m, k) \/ Over(a, t, m, k) \/ Loose(t, k)) /\ Advance(a, s, t)
    BY <1>1, <1>2, <1>3, Zenon DEF IInv
  <2>2. ~Ended(s) /\ s \in Streams
    BY <1>1, <1>2, <1>3, OpenPrefix
  <2>3. l.pc \in {"idle", "insert", "send"} /\ c.pc \in {"none", "stale", "swapped"}
    BY <1>3 DEF Open
  <2>4. t = s => Advance(a, s, t)
    BY <2>2 DEF Advance
  <2>5. ASSUME NEW n \in Chunks, ReceiveData(n)
        PROVE  Open(a, t, m, k) /\ Advance(a, s, t)
    <3>1. /\ l.pc = "idle" /\ n \in (Len(s.recv) - Window)..(Len(s.recv) + Window - 1)
          /\ m = Where("insert", <<At(a, n)>>) /\ t = s /\ k = c
      BY <1>2, <2>5, Zenon DEF ReceiveData, Wire, At
    <3>. QED
      BY <1>1, <1>2, <1>3, <2>4, <3>1, LoopSteps
  <2>6. CASE InsertFrame
    <3>1. /\ l.pc = "insert" /\ k = c /\ m = Where("send", Flushed(s.reorder, Head(l.hand)))
          /\ t = [s EXCEPT !.reorder = Insert(s.reorder, Head(l.hand), now)]
      BY <1>2, <2>6, Zenon DEF InsertFrame
    <3>2. Open(a, t, m, k)
      <4>1. Open(a, [s EXCEPT !.reorder = Insert(s.reorder, Head(l.hand), now)],
                 Where("send", Flushed(s.reorder, Head(l.hand))), c)
        BY <1>1, <1>2, <1>3, <3>1, LoopSteps, Zenon
      <4>. QED
        BY <3>1, <4>1, Zenon
    <3>3. Advance(a, s, t)
      BY <2>2, <3>1 DEF Advance, Ended, Streams
    <3>. QED
      BY <3>2, <3>3
  <2>7. CASE SendChunk
    <3>1. /\ l.pc = "send" /\ l.hand # <<>> /\ k = c
          /\ m = Where("send", Tail(l.hand))
          /\ t = [s EXCEPT !.recv = Append(s.recv, Head(l.hand))]
      BY <1>2, <2>2, <2>3, <2>7 DEF SendChunk
    <3>2. Open(a, t, m, k) /\ Len(t.recv) = Len(s.recv) + 1
      <4>1. LET u == [s EXCEPT !.recv = Append(s.recv, Head(l.hand))] IN
            /\ Open(a, u, Where("send", Tail(l.hand)), c)
            /\ Len(u.recv) = Len(s.recv) + 1
        BY <1>1, <1>2, <1>3, <3>1, LoopSteps, Zenon
      <4>. QED
        BY <3>1, <4>1, Zenon
    <3>3. t \in Streams /\ Prefix(a, t) /\ ~Ended(t)
      BY <1>1, <1>2, <3>2, OpenPrefix
    <3>. QED
      BY <3>2, <3>3 DEF Advance
  <2>8. CASE CheckLimits
    <3>1. l.pc = "send" /\ l.hand = <<>> /\ k = c /\ m = Idle /\ t = checkLimits(s, now)
      BY <1>2, <2>8, Zenon DEF CheckLimits
    <3>. QED
      BY <1>1, <1>2, <1>3, <3>1, LoopSteps
  <2>9. CASE ReceiveClose
    <3>1. l.pc = "idle" /\ k = c /\ m = l /\ t = dispatchClose(s)
      BY <1>2, <2>9, Zenon DEF ReceiveClose
    <3>. QED
      BY <1>1, <1>2, <1>3, <3>1, LoopSteps
  <2>10. CASE ConnDies
    <3>1. c.pc = "none" /\ k = Where("stale", <<>>) /\ t = s /\ m = l
      BY <1>2, <2>10, Zenon DEF ConnDies
    <3>. QED
      BY <1>1, <1>2, <1>3, <2>4, <3>1, CloserSteps
  <2>11. CASE SwapClosed
    <3>1. /\ c.pc = "stale" /\ m = l /\ t = [s EXCEPT !.closed = TRUE]
          /\ k = Where(IF s.closed THEN "none" ELSE "swapped", <<>>)
      BY <1>2, <2>11, Zenon DEF SwapClosed
    <3>2. ~s.closed
      BY <1>1, <1>2, <1>3, <3>1, CloserSteps
    <3>3. k = Where("swapped", <<>>)
      BY <3>1, <3>2
    <3>4. LET u == [s EXCEPT !.closed = TRUE] IN
          Open(a, u, l, Where("swapped", <<>>)) /\ Advance(a, s, u)
      BY <1>1, <1>2, <1>3, <3>1, CloserSteps, Zenon
    <3>. QED
      BY <3>1, <3>3, <3>4, Zenon
  <2>12. CASE CloseDone
    <3>1. /\ c.pc = "swapped" /\ m = l
          /\ IF l.pc = "idle" THEN t = finishClose(s, "gap") /\ k = Where("done", <<>>)
             ELSE t = [s EXCEPT !.ended = "torn"] /\ k = Where("flush", <<>>)
      BY <1>2, <2>12, Zenon DEF CloseDone
    <3>2. CASE l.pc = "idle"
      <4>1. LET u == finishClose(s, "gap") IN
            Over(a, u, l, Where("done", <<>>)) /\ Advance(a, s, u)
        BY <1>1, <1>2, <1>3, <3>1, <3>2, CloserSteps, Zenon
      <4>. QED
        BY <3>1, <3>2, <4>1, Zenon
    <3>3. CASE l.pc # "idle"
      <4>1. LET u == [s EXCEPT !.ended = "torn"] IN
            Loose(u, Where("flush", <<>>)) /\ Advance(a, s, u)
        BY <1>1, <1>2, <1>3, <3>1, <3>3, CloserSteps, Zenon
      <4>. QED
        BY <3>1, <3>3, <4>1, Zenon
    <3>. QED
      BY <3>2, <3>3
  <2>13. CASE Tick
    <3>1. t = s /\ m = l /\ k = c
      BY <1>2, <2>13, Zenon DEF Tick
    <3>. QED
      BY <1>3, <2>4, <3>1
  <2>14. ~Flush /\ ~HeapRace /\ ~FlushSend
    BY <1>2, <2>3 DEF Flush, HeapRace, FlushSend
  <2>. QED
    BY <2>5, <2>6, <2>7, <2>8, <2>9, <2>10, <2>11, <2>12, <2>13, <2>14 DEF Next
<1>4. CASE Over(a, s, l, c)
  <2>1. SUFFICES Over(a, t, m, k) /\ t = s
    BY <1>1, <1>2, <1>4, Zenon DEF IInv
  <2>2. Ended(s) /\ s.closed /\ s \in Streams /\ l.pc = "idle" /\ c.pc \in {"none", "stale", "done"}
    BY <1>4 DEF Over, Closed
  <2>3. SwapClosed
    BY <1>2, <2>2 DEF Next, ReceiveData, InsertFrame, SendChunk, CheckLimits, ReceiveClose,
                      ConnDies, SwapClosed, CloseDone, Flush, HeapRace, FlushSend, Tick
  <2>4. t = [s EXCEPT !.closed = TRUE] /\ m = l /\ k = Where("none", <<>>)
    BY <1>2, <2>2, <2>3, Zenon DEF SwapClosed
  <2>5. t = s /\ k.pc = "none"
    BY <2>2, <2>4 DEF Streams, Where
  <2>. QED
    BY <1>4, <2>2, <2>4, <2>5 DEF Over
<1>5. CASE Loose(s, c)
  <2>1. SUFFICES /\ Torn(t) /\ k.pc \in {"flush", "send", "done"}
                 /\ IsPrefix(s.recv, t.recv)
    BY <1>1, <1>2, <1>5, Zenon DEF IInv, Loose
  <2>2. Torn(s) /\ Ended(s) /\ c.pc \in {"flush", "send", "done"}
    BY <1>5, TornFacts DEF Loose
  <2>3. /\ IsPrefix(s.recv, s.recv)
        /\ \A x : LET u == [s EXCEPT !.reorder = x] IN
                  Torn(u) /\ IsPrefix(s.recv, u.recv)
        /\ \A x : LET u == [s EXCEPT !.recv = Append(s.recv, x)] IN
                  Torn(u) /\ IsPrefix(s.recv, u.recv)
        /\ \A time : checkLimits(s, time) = s
        /\ \A f : \A u \in TornClose(s, f) : Torn(u) /\ IsPrefix(s.recv, u.recv)
    BY <2>2, TornFacts
  <2>4. \A pc, q : Where(pc, q).pc = pc
    BY DEF Where
  <2>5. ~ReceiveClose /\ ~ConnDies /\ ~SwapClosed /\ ~CloseDone /\ ~Tick
    BY <1>2, <2>2 DEF ReceiveClose, ConnDies, SwapClosed, CloseDone, Tick
  <2>6. \A n \in Chunks : ~ReceiveData(n)
    BY <1>2, <2>2 DEF ReceiveData
  <2>7. CASE InsertFrame
    <3>1. k = c /\ \E x : t = [s EXCEPT !.reorder = x]
      BY <1>2, <2>7, Zenon DEF InsertFrame
    <3>. QED
      BY <2>2, <2>3, <3>1
  <2>8. CASE SendChunk
    <3>1. k = c /\ (t = s \/ \E x : t = [s EXCEPT !.recv = Append(s.recv, x)])
      BY <1>2, <2>8, Zenon DEF SendChunk
    <3>. QED
      BY <2>2, <2>3, <3>1
  <2>9. CASE CheckLimits
    <3>1. k = c /\ t = checkLimits(s, now)
      BY <1>2, <2>9, Zenon DEF CheckLimits
    <3>2. t = s
      BY <2>3, <3>1
    <3>. QED
      BY <2>2, <2>3, <3>1, <3>2
  <2>10. CASE Flush
    <3>1. k.pc = "send" /\ \E x : t = [s EXCEPT !.reorder = x]
      BY <1>2, <2>4, <2>10, Zenon DEF Flush
    <3>. QED
      BY <2>3, <3>1
  <2>11. CASE HeapRace
    <3>1. k.pc = "done" /\ \E f : t \in TornClose(s, f)
      BY <1>2, <2>4, <2>11, Zenon DEF HeapRace
    <3>. QED
      BY <2>3, <3>1
  <2>12. CASE FlushSend
    <3>1. /\ k.pc \in {"done", "send"}
          /\ t = s \/ \E x : t = [s EXCEPT !.recv = Append(s.recv, x)]
      BY <1>2, <2>4, <2>12 DEF FlushSend
    <3>. QED
      BY <2>2, <2>3, <3>1
  <2>. QED
    BY <2>5, <2>6, <2>7, <2>8, <2>9, <2>10, <2>11, <2>12 DEF Next
<1>. QED
  BY <1>2, <1>3, <1>4, <1>5, Zenon DEF IInv

LEMMA Inductive == Spec => []IInv
<1>1. IInv /\ [Next]_vars => IInv'
  <2>1. ASSUME IInv, UNCHANGED vars
        PROVE  IInv'
    <3>1. start' = start /\ st' = st /\ now' = now /\ loop' = loop /\ closer' = closer
      BY <2>1 DEF vars
    <3>. QED
      BY <2>1, <3>1, Zenon DEF IInv
  <2>. QED
    BY <2>1, Steps
<1>. QED
  BY InitIInv, <1>1, PTL DEF Spec

-----------------------------------------------------------------------------
\* The chunks handed over are known by their sequence numbers.
ChunkAt(a, x) == CHOOSE n \in Chunks : At(a, n) = x

ChunksOf(a, r) == [i \in DOMAIN r |-> ChunkAt(a, r[i])]

OutOf(a, s) == ChunksOf(a, s.recv)

LEMMA Numbered ==
    ASSUME NEW a \in Seqs, NEW s, s \in Streams, NEW c \in [1..Len(s.recv) -> Chunks],
           \A i \in 1..Len(s.recv) : s.recv[i] = At(a, c[i])
    PROVE  OutOf(a, s) = c
<1>1. DOMAIN s.recv = 1..Len(s.recv)
  BY DEF Streams
<1>2. ASSUME NEW m \in Chunks, NEW n \in Chunks, At(a, m) = At(a, n)
      PROVE  m = n
  <2>1. m \in Int /\ n \in Int /\ m - n < SeqSpace /\ n - m < SeqSpace
    BY Sizes DEF Chunks
  <2>. QED
    BY <1>2, <2>1, AtFacts
<1>3. ASSUME NEW i \in 1..Len(s.recv)
      PROVE  ChunkAt(a, s.recv[i]) = c[i]
  <2>1. c[i] \in Chunks /\ At(a, c[i]) = s.recv[i]
    BY <1>3
  <2>. QED
    BY <1>2, <2>1 DEF ChunkAt
<1>4. OutOf(a, s) = [i \in 1..Len(s.recv) |-> c[i]]
  BY <1>1, <1>3, Zenon DEF OutOf, ChunksOf
<1>. QED
  BY <1>4

LEMMA OutIsOutOf == Out = OutOf(start, st)
BY Zenon DEF Out, OutOf, ChunksOf, ChunkAt, Wire, At

\* While the stream is open, and after a graceful end, the chunks come without
\* a hole.
LEMMA PrefixOut ==
    ASSUME NEW a \in Seqs, NEW s, s \in Streams, Prefix(a, s)
    PROVE  OutOf(a, s) = [i \in 1..Len(s.recv) |-> i - 1]
<1>1. Len(s.recv) \in Nat /\ DOMAIN s.recv = 1..Len(s.recv) /\ Len(s.recv) <= NumChunks
  BY DEF Streams, Prefix
<1>2. PICK c : c = [i \in 1..Len(s.recv) |-> i - 1]
  OBVIOUS
<1>3. c \in [1..Len(s.recv) -> Chunks]
  BY <1>1, <1>2, Sizes DEF Chunks
<1>4. \A i \in 1..Len(s.recv) : s.recv[i] = At(a, c[i])
  BY <1>1, <1>2 DEF Prefix
<1>. QED
  BY <1>2, <1>3, <1>4, Numbered

-----------------------------------------------------------------------------
\* Until a torn close, the gap timer (gapSince, which dispatchStriped and
\* RemoveConn act on) runs exactly while frames wait, all of them ahead of nextSeq;
\* and a stream nobody has begun to close holds no more than reorderMaxFrames of
\* them when dispatchStriped has returned.
THEOREM TimerRunsWhileBuffered == Spec => []TimerIffBuffered
<1>1. ASSUME NEW a \in Seqs, NEW s, Behaves(a, s)
      PROVE  s.reorder.nextSeq \notin s.reorder.h
  <2>1. PICK d, x : d = Len(s.recv) /\ x = s.reorder.nextSeq
    OBVIOUS
  <2>2. d \in Nat /\ x = At(a, d) /\ Holds(a, d + 1, d, s.reorder.h)
    BY <1>1, <2>1 DEF Behaves, Streams
  <2>3. SUFFICES ASSUME x \in s.reorder.h
                 PROVE  FALSE
    BY <2>1
  <2>4. PICK n \in (d + 1)..(d + Window - 1) : x = At(a, n)
    BY <2>2, <2>3 DEF Holds
  <2>5. n \in d..(d + Window) /\ d \in d..(d + Window) /\ n # d
    BY <2>2, Sizes
  <2>6. d \in Int /\ At(a, n) = At(a, d)
    BY <2>2, <2>4
  <2>. QED
    BY <2>5, <2>6, AtInjective
<1>2. IInv => TimerIffBuffered
  <2>1. SUFFICES ASSUME IInv
                 PROVE  TimerIffBuffered
    OBVIOUS
  <2>2. CASE Open(start, st, loop, closer)
    <3>1. PICK w : w = Whole(st, loop)
      OBVIOUS
    <3>2. Behaves(start, w) /\ w.reorder = st.reorder /\ start \in Seqs
      <4>1. st \in Streams /\ loop.hand \in Seq(Seqs) /\ Behaves(start, w)
        BY <2>2, <3>1 DEF Open
      <4>. QED
        BY <2>1, <3>1, <4>1, WholeFacts DEF IInv
    <3>3. TimerFits(st.reorder) /\ st.reorder.nextSeq \notin st.reorder.h
      BY <1>1, <3>2 DEF Behaves
    <3>4. loop.pc = "idle" /\ ~st.closed => Cardinality(st.reorder.h) <= MaxFrames
      BY <2>2 DEF Open
    <3>. QED
      BY <3>3, <3>4 DEF TimerIffBuffered, TimerFits
  <2>3. CASE Over(start, st, loop, closer)
    BY <2>3 DEF TimerIffBuffered, Closed, Over
  <2>4. CASE Loose(st, closer)
    BY <2>4, TornFacts DEF TimerIffBuffered, Loose, Torn
  <2>. QED
    BY <2>1, <2>2, <2>3, <2>4 DEF IInv
<1>. QED
  BY Inductive, <1>2, PTL

\* A FrameClose waits for the chunks that are missing before those that have
\* arrived (closePending): a stream that ends gracefully gave its reader the
\* chunks from 0 on, without a hole.
THEOREM GracefulEndComplete == Spec => []GracefulEndHasNoHole
<1>1. IInv => GracefulEndHasNoHole
  <2>1. SUFFICES ASSUME IInv, st.ended = "close"
                 PROVE  \A i \in DOMAIN Out : Out[i] = i - 1
    BY DEF GracefulEndHasNoHole
  <2>2. ~Open(start, st, loop, closer)
    BY <2>1, OpenPrefix DEF IInv, Ended
  <2>3. ~Loose(st, closer)
    BY <2>1, TornFacts DEF Loose
  <2>4. start \in Seqs /\ st \in Streams /\ Prefix(start, st)
    BY <2>1, <2>2, <2>3 DEF IInv, Over, Closed
  <2>5. Out = [i \in 1..Len(st.recv) |-> i - 1]
    BY <2>4, OutIsOutOf, PrefixOut
  <2>. QED
    BY <2>5
<1>. QED
  BY Inductive, <1>1, PTL

\* Chunks in order after chunks in order, as the abstract stream sees it.
LEMMA Delivers ==
    ASSUME NEW a \in Seqs, NEW s, s \in Streams, Prefix(a, s),
           NEW t, t \in Streams, Prefix(a, t), Len(s.recv) <= Len(t.recv)
    PROVE  \/ OutOf(a, t) = OutOf(a, s)
           \/ \E k \in 1..(NumChunks - Len(OutOf(a, s))) :
                 OutOf(a, t) = OutOf(a, s) \o [i \in 1..k |-> Len(OutOf(a, s)) + i - 1]
<1>1. PICK d, n : d = Len(s.recv) /\ n = Len(t.recv)
  OBVIOUS
<1>3. d \in Nat /\ n \in Nat /\ d <= n /\ n <= NumChunks
  BY <1>1 DEF Streams, Prefix
<1>4. PICK o, p : o = OutOf(a, s) /\ p = OutOf(a, t)
  OBVIOUS
<1>5. o = [i \in 1..d |-> i - 1] /\ p = [i \in 1..n |-> i - 1]
  BY <1>1, <1>3, <1>4, PrefixOut, Zenon
<1>6. o \in Seq(Int) /\ Len(o) = d
  BY <1>3, <1>5
<1>7. CASE n = d
  BY <1>4, <1>5, <1>7
<1>8. CASE n # d
  <2>1. PICK k : k = n - d
    OBVIOUS
  <2>2. k \in Nat /\ k \in 1..(NumChunks - d) /\ d + k = n
    BY <1>3, <1>8, <2>1, Sizes
  <2>3. PICK q : q = [i \in 1..k |-> d + i - 1]
    OBVIOUS
  <2>4. q \in Seq(Int) /\ Len(q) = k
    BY <1>3, <2>2, <2>3
  <2>5. p = o \o q
    BY <1>3, <1>5, <1>6, <2>2, <2>3, <2>4
  <2>. QED
    BY <1>4, <1>6, <2>2, <2>3, <2>5, Zenon
<1>. QED
  BY <1>7, <1>8

LEMMA Finishes ==
    ASSUME NEW a \in Seqs, NEW s, s \in Streams, Prefix(a, s),
           NEW t, t \in Streams, Continues(a, Len(s.recv), t)
    PROVE  LET o == OutOf(a, s)
               p == OutOf(a, t)
           IN  /\ IsPrefix(o, p)
               /\ \A i \in DOMAIN p \ DOMAIN o :
                     /\ p[i] \in Len(o)..(NumChunks - 1)
                     /\ \A j \in DOMAIN p : i < j => p[i] < p[j]
<1>1. PICK d, n, o, p : d = Len(s.recv) /\ n = Len(t.recv) /\ o = OutOf(a, s) /\ p = OutOf(a, t)
  OBVIOUS
<1>2. d \in Nat /\ n \in Nat /\ s \in Streams /\ Prefix(a, s)
  BY <1>1 DEF Streams
<1>3. o = [i \in 1..d |-> i - 1]
  BY <1>1, <1>2, PrefixOut, Zenon
<1>4. PICK c \in [1..n -> Chunks] :
          /\ \A i \in 1..n : t.recv[i] = At(a, c[i])
          /\ d <= n /\ \A i \in 1..d : c[i] = i - 1
          /\ \A i \in (d + 1)..n : d <= c[i] /\ \A j \in 1..n : i < j => c[i] < c[j]
  BY <1>1, Zenon DEF Continues
<1>5. p = c
  <2>1. c \in [1..Len(t.recv) -> Chunks] /\ \A i \in 1..Len(t.recv) : t.recv[i] = At(a, c[i])
    BY <1>1, <1>4, Zenon
  <2>. QED
    BY <1>1, <2>1, Numbered
<1>6. o \in Seq(Int) /\ Len(o) = d /\ DOMAIN o = 1..d
  BY <1>2, <1>3
<1>7. p \in Seq(Int) /\ Len(p) = n /\ DOMAIN p = 1..n
  <2>1. c \in [1..n -> Int]
    BY Sizes DEF Chunks
  <2>2. c \in Seq(Int) /\ Len(c) = n /\ DOMAIN c = 1..n
    BY <1>2, <2>1
  <2>. QED
    BY <1>5, <2>2, Zenon
<1>8. IsPrefix(o, p)
  <2>1. SubSeq(o, 1, d) = [i \in 1..d |-> o[i]] /\ SubSeq(p, 1, d) = [i \in 1..d |-> p[i]]
    BY <1>2, <1>4, <1>6, <1>7
  <2>2. \A i \in 1..d : o[i] = p[i]
    BY <1>3, <1>4, <1>5
  <2>. QED
    BY <1>4, <1>6, <1>7, <2>1, <2>2 DEF IsPrefix
<1>9. ASSUME NEW i \in DOMAIN p \ DOMAIN o
      PROVE  /\ p[i] \in d..(NumChunks - 1)
             /\ \A j \in DOMAIN p : i < j => p[i] < p[j]
  <2>1. i \in (d + 1)..n
    BY <1>2, <1>6, <1>7
  <2>2. p[i] \in Chunks /\ d <= p[i] /\ \A j \in 1..n : i < j => p[i] < p[j]
    BY <1>2, <1>4, <1>5, <2>1
  <2>. QED
    BY <1>2, <1>7, <2>2, Sizes DEF Chunks
<1>. QED
  BY <1>1, <1>6, <1>8, <1>9, Zenon

\* What had been delivered stays.
LEMMA OutPrefix ==
    ASSUME NEW a \in Seqs, NEW S, NEW s, s.recv \in Seq(S),
           NEW T, NEW t, t.recv \in Seq(T), IsPrefix(s.recv, t.recv)
    PROVE  IsPrefix(OutOf(a, s), OutOf(a, t))
<1>1. PICK q, r, d, n, o, p : /\ q = s.recv /\ r = t.recv /\ d = Len(q) /\ n = Len(r)
                              /\ o = OutOf(a, s) /\ p = OutOf(a, t)
  OBVIOUS
<1>2. /\ q \in Seq(S) /\ r \in Seq(T) /\ d \in Nat /\ n \in Nat /\ d <= n
      /\ DOMAIN q = 1..d /\ DOMAIN r = 1..n
      /\ SubSeq(q, 1, d) = [i \in 1..d |-> q[i]] /\ SubSeq(r, 1, d) = [i \in 1..d |-> r[i]]
      /\ SubSeq(q, 1, d) = SubSeq(r, 1, d)
  BY <1>1 DEF IsPrefix
<1>3. \A i \in 1..d : q[i] = r[i]
  BY <1>2
<1>4. o = [i \in 1..d |-> ChunkAt(a, q[i])] /\ p = [i \in 1..n |-> ChunkAt(a, r[i])]
  <2>1. o = ChunksOf(a, q) /\ p = ChunksOf(a, r)
    BY <1>1, Zenon DEF OutOf
  <2>. QED
    BY <1>2, <2>1, Zenon DEF ChunksOf
<1>5. PICK X, Y : X = {ChunkAt(a, q[i]) : i \in 1..d} /\ Y = {ChunkAt(a, r[i]) : i \in 1..n}
  OBVIOUS
<1>6. /\ o \in Seq(X) /\ p \in Seq(Y) /\ Len(o) = d /\ Len(p) = n
      /\ SubSeq(o, 1, d) = [i \in 1..d |-> o[i]] /\ SubSeq(p, 1, d) = [i \in 1..d |-> p[i]]
  BY <1>2, <1>4, <1>5
<1>7. \A i \in 1..d : o[i] = p[i]
  BY <1>2, <1>3, <1>4
<1>. QED
  BY <1>1, <1>2, <1>6, <1>7 DEF IsPrefix

\* The reorder buffer implements the in-order stream: while the stream is open,
\* dispatchStriped delivers the chunks once each and in the order of Write,
\* whatever the order in which the connections bring them, and also between the
\* steps of a RemoveConn; closeStream may skip chunks that are missing, never
\* repeat or reorder, unless RemoveConn executes it while dispatchStriped is under
\* way: then what had been delivered stays, and nothing is said of what follows.
THEOREM DeliversInOrder == Spec => InOrderDelivery
<1>1. Init => InOrder!Init
  <2>1. SUFFICES ASSUME Init
                 PROVE  Out = <<>> /\ StreamEnd[st.ended] = "open"
    BY Zenon DEF InOrder!Init
  <2>2. st.recv = <<>> /\ st.ended = "no"
    BY <2>1, Zenon DEF Init, newStream
  <2>3. DOMAIN <<>> = {}
    OBVIOUS
  <2>. QED
    BY <2>2, <2>3 DEF Out, StreamEnd
<1>2. IInv /\ [Next]_vars => [InOrder!Next]_<<Out, StreamEnd[st.ended]>>
  <2>1. ASSUME UNCHANGED vars
        PROVE  UNCHANGED <<Out, StreamEnd[st.ended]>>
    BY <2>1 DEF vars, Out, StreamEnd, Wire
  <2>2. ASSUME IInv, Next
        PROVE  [InOrder!Next]_<<Out, StreamEnd[st.ended]>>
    <3>1. PICK a, s, t, o, p, e, f : /\ a = start /\ s = st /\ t = st' /\ o = Out /\ p = Out'
                                     /\ e = StreamEnd[st.ended] /\ f = StreamEnd[st.ended]'
      OBVIOUS
    <3>2. /\ start' = a /\ a \in Seqs
          /\ \/ Open(a, s, loop, closer) /\ Advance(a, s, t)
             \/ Over(a, s, loop, closer) /\ t = s
             \/ Torn(s) /\ Torn(t) /\ IsPrefix(s.recv, t.recv)
      <4>1. a \in Seqs
        BY <2>2, <3>1 DEF IInv
      <4>. QED
        BY <2>2, <3>1, <4>1, Steps, Zenon
    <3>3. o = OutOf(a, s)
      BY <3>1, OutIsOutOf, Zenon
    <3>4. p = OutOf(a, t)
      <4>1. Out' = OutOf(start', st')
        BY Zenon DEF Out, OutOf, ChunksOf, ChunkAt, Wire, At, Chunks
      <4>. QED
        BY <3>1, <3>2, <4>1, Zenon
    <3>5. e = StreamEnd[s.ended] /\ f = StreamEnd[t.ended]
      BY <3>1, Zenon DEF StreamEnd
    <3>6. /\ s.ended = "no" => e = "open"
          /\ s.ended = "torn" => e = "torn"
          /\ t.ended = "no" => f = "open"
          /\ t.ended = "torn" => f = "torn"
          /\ t.ended \in {"close", "gap", "overflow"} => f = "ended"
      BY <3>5 DEF StreamEnd
    <3>7. t.recv = s.recv => p = o
      BY <3>3, <3>4, Zenon DEF OutOf
    <3>8. p = o /\ f = e => UNCHANGED <<Out, StreamEnd[st.ended]>>
      BY <3>1, Zenon
    <3>9. ASSUME Torn(t), IsPrefix(s.recv, t.recv), e \in {"open", "torn"},
                 NEW S, s.recv \in Seq(S)
          PROVE  InOrder!Next
      <4>1. PICK T : t.recv \in Seq(T)
        BY <3>9 DEF Torn, LooseStreams
      <4>2. IsPrefix(o, p)
        BY <3>2, <3>3, <3>4, <3>9, <4>1, OutPrefix, Zenon
      <4>3. f = "torn"
        BY <3>6, <3>9, TornFacts
      <4>4. InOrder!Tear
        BY <3>1, <3>9, <4>2, <4>3, Zenon DEF InOrder!Tear, IsPrefix, InOrder!IsPrefix
      <4>. QED
        BY <4>4 DEF InOrder!Next
    <3>10. CASE Open(a, s, loop, closer) /\ Advance(a, s, t)
      <4>1. s \in Streams /\ Prefix(a, s) /\ s.ended = "no" /\ e = "open"
        BY <3>2, <3>6, <3>10, OpenPrefix DEF Ended
      <4>2. CASE ~Ended(t) /\ t.recv = s.recv
        BY <3>6, <3>7, <3>8, <4>1, <4>2 DEF Ended
      <4>3. CASE ~Ended(t) /\ t \in Streams /\ Prefix(a, t) /\ Len(t.recv) = Len(s.recv) + 1
        <5>1. f = "open"
          BY <3>6, <4>3 DEF Ended
        <5>2. Len(s.recv) <= Len(t.recv)
          BY <4>1, <4>3 DEF Streams
        <5>3. \/ p = o
              \/ \E k \in 1..(NumChunks - Len(o)) : p = o \o [i \in 1..k |-> Len(o) + i - 1]
          <6>1. \/ OutOf(a, t) = OutOf(a, s)
                \/ \E k \in 1..(NumChunks - Len(OutOf(a, s))) :
                      OutOf(a, t) = OutOf(a, s) \o [i \in 1..k |-> Len(OutOf(a, s)) + i - 1]
            BY <3>2, <4>1, <4>3, <5>2, Delivers
          <6>. QED
            BY <3>3, <3>4, <6>1, Zenon
        <5>4. ASSUME NEW k \in 1..(NumChunks - Len(o)), p = o \o [i \in 1..k |-> Len(o) + i - 1]
              PROVE  InOrder!Deliver
          BY <3>1, <4>1, <5>1, <5>4, Zenon DEF InOrder!Deliver
        <5>. QED
          BY <3>8, <4>1, <5>1, <5>3, <5>4 DEF InOrder!Next
      <4>4. CASE Closed(a, t) /\ Continues(a, Len(s.recv), t)
        <5>1. t \in Streams /\ f = "ended"
          BY <3>6, <4>4 DEF Closed, Streams, Ended
        <5>2. /\ IsPrefix(o, p)
              /\ \A i \in DOMAIN p \ DOMAIN o :
                    /\ p[i] \in Len(o)..(NumChunks - 1)
                    /\ \A j \in DOMAIN p : i < j => p[i] < p[j]
          BY <3>2, <3>3, <3>4, <4>1, <4>4, <5>1, Finishes, Zenon
        <5>3. InOrder!Finish
          BY <3>1, <4>1, <5>1, <5>2, Zenon DEF InOrder!Finish, IsPrefix, InOrder!IsPrefix
        <5>. QED
          BY <5>3 DEF InOrder!Next
      <4>5. CASE Torn(t) /\ t.recv = s.recv
        <5>1. s.recv \in Seq(Seqs)
          BY <4>1 DEF Streams
        <5>2. IsPrefix(t.recv, t.recv)
          BY <4>5, TornFacts
        <5>. QED
          BY <3>9, <4>1, <4>5, <5>1, <5>2
      <4>. QED
        BY <3>10, <4>2, <4>3, <4>4, <4>5 DEF Advance
    <3>11. CASE Over(a, s, loop, closer) /\ t = s
      BY <3>5, <3>7, <3>8, <3>11
    <3>12. CASE Torn(s) /\ Torn(t) /\ IsPrefix(s.recv, t.recv)
      <4>1. PICK S : s.recv \in Seq(S)
        BY <3>12 DEF Torn, LooseStreams
      <4>2. e = "torn"
        BY <3>6, <3>12, TornFacts
      <4>. QED
        BY <3>9, <3>12, <4>1, <4>2
    <3>. QED
      BY <3>2, <3>10, <3>11, <3>12
  <2>. QED
    BY <2>1, <2>2
<1>. QED
  BY Inductive, <1>1, <1>2, PTL DEF Spec, InOrderDelivery, InOrder!Spec
=============================================================================
