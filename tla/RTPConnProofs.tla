---------------------------- MODULE RTPConnProofs -----------------------------
(***************************************************************************)
(* Proofs about RTPConn, for any size of the sequence space, of the FEC    *)
(* groups, of the retransmit buffer and of the channels, any number of     *)
(* tracks, and however often the packet and the write numbers wrap.        *)
(*                                                                         *)
(* Argument.  Types says that every frame on its way carries a chunk of a  *)
(* write, so that whatever LockTrack sets nextReadSeq to is a write        *)
(* number.  Between two writes given to Read only deliverReady and a lock  *)
(* move nextReadSeq; Counted follows the write deliverReady has found      *)
(* apart from nextReadSeq, which a lock may change before it is removed.   *)
(* Watched: a lock may uncover a hole with no timer running, but its own   *)
(* packet is then on its way to reassemblyLoop, which sets the timer.      *)
(***************************************************************************)
EXTENDS RTPConn, FiniteSetTheorems, SequenceTheorems, TLAPS

Frames == [t : {"data", "retx"}, seq : Seqs, chunk : Chunks]
             \cup [t : {"fec"}, seq : Seqs, xor : SUBSET Chunks]

DataFrames == [t : {"data", "retx"}, seq : Seqs, chunk : Chunks]

SenderTypes ==
    /\ writes \in 0..MaxWrites /\ nextPkt \in 0..MaxPackets
    /\ chunk \in [left : 0..MaxChunks, total : 0..MaxChunks]
    /\ chunk.left <= chunk.total /\ nextPkt + chunk.left <= MaxPackets
    /\ groups \in [0..(FecStride - 1) -> Seq([seq : Seqs, chunk : Chunks])]
    /\ \A g \in 0..(FecStride - 1) : Len(groups[g]) < FecK
    /\ \A i \in DOMAIN retx : /\ retx[i] \in [seq : Seqs, chunk : Chunks]
                              /\ retx[i].seq % RetxBufSize = i

PathTypes ==
    /\ net \subseteq Frames
    /\ nacks \subseteq Seqs

TrackTypes ==
    /\ track \in [Tracks -> {"new", "live", "gone"}]
    /\ locked \in Tracks \cup {NoTrack} /\ (locked # NoTrack => track[locked] = "live")
    /\ hand \in [Tracks -> {None} \cup [nrs : Seqs, p : DataFrames]]
    /\ \A t \in Tracks : hand[t] # None => track[t] = "live"
    /\ raw \in Seq(Frames)

NackTypes ==
    /\ \A s \in DOMAIN pool : s \in Seqs /\ pool[s] \in Chunks
    /\ gaps \subseteq Seqs /\ received \subseteq Seqs /\ nextExpect \in Seqs
    /\ initialized \in BOOLEAN

AsmTypes ==
    /\ readCh \in Seq(Chunks) /\ Len(readCh) <= ReadCap
    /\ reassembly \subseteq Chunks
    /\ asm \in [at : {"select", "look", "found", "timer"}, w : Seqs]
    /\ stall \in BOOLEAN /\ closed \in BOOLEAN
    /\ nextRead \in Seqs /\ delivered \in Seq(Seqs)

Types == SenderTypes /\ PathTypes /\ TrackTypes /\ NackTypes /\ AsmTypes

-----------------------------------------------------------------------------
(* Sequence numbers.                                                       *)

LEMMA Parameters ==
    /\ SeqSpace \in Nat \ {0} /\ FecK \in Nat \ {0} /\ FecStride \in Nat \ {0}
    /\ RetxBufSize \in Nat \ {0} /\ MaxChunks \in Nat \ {0} /\ MaxWrites \in Nat \ {0}
    /\ MaxPackets \in Nat \ {0} /\ MaxTracks \in Nat \ {0} /\ ReadCap \in Nat \ {0}
BY RTPAssumption

LEMMA SeqType == \A n \in Int : Seq16(n) \in Seqs
BY Parameters DEF Seq16, Seqs

LEMMA Least ==
    ASSUME NEW G \in SUBSET Nat, G # {}
    PROVE  \E m \in G : \A g \in G : m <= g
<1>1. PICK m \in G : \A g \in G : ~(<<g, m>> \in OpToRel(<, Nat))
  BY WFMin, NatLessThanWellFounded
<1>2. ASSUME NEW g \in G
      PROVE  ~(g < m)
  BY <1>1 DEF OpToRel
<1>. QED
  BY <1>2

\* Record and Resolve advance to a sequence number and forget only what they
\* pass.
LEMMA AdvancedTypes ==
    ASSUME nextExpect \in Seqs, NEW rec \in SUBSET Seqs
    PROVE  Advanced(rec).next \in Seqs /\ Advanced(rec).rec \subseteq Seqs
<1>. DEFINE Passes(n) == /\ \A i \in 0..(n - 1) : Seq16(nextExpect + i) \in rec
                         /\ Seq16(nextExpect + n) \notin rec \/ n = SeqSpace
            G == {n \in Nat : Seq16(nextExpect + n) \notin rec \/ n = SeqSpace}
<1>1. PICK m \in G : \A g \in G : m <= g
  <2>1. SeqSpace \in G
    BY Parameters
  <2>. QED
    BY <2>1, Least
<1>2. m \in 0..SeqSpace /\ Passes(m)
  <2>1. m <= SeqSpace
    BY <1>1, Parameters
  <2>2. ASSUME NEW i \in 0..(m - 1)
        PROVE  Seq16(nextExpect + i) \in rec
    BY <1>1
  <2>. QED
    BY <1>1, <2>1, <2>2
<1>3. PICK n \in 0..SeqSpace : n = (CHOOSE k \in 0..SeqSpace : Passes(k))
  BY <1>2, Zenon
<1>4. /\ Advanced(rec).next = Seq16(nextExpect + n)
      /\ Advanced(rec).rec \subseteq rec
  BY <1>3 DEF Advanced
<1>5. nextExpect + n \in Int
  BY <1>3, Parameters DEF Seqs
<1>. QED
  BY <1>4, <1>5, SeqType

LEMMA PrunedTypes == \A S, s : Pruned(S, s) \subseteq S
BY DEF Pruned

LEMMA SeqFacts ==
    ASSUME NEW T, NEW q \in Seq(T)
    PROVE  /\ \A i \in 1..Len(q) : q[i] \in T
           /\ q # <<>> => Head(q) \in T /\ Tail(q) \in Seq(T) /\ Len(Tail(q)) = Len(q) - 1
OBVIOUS

LEMMA PutFacts ==
    ASSUME NEW f, NEW x, NEW y
    PROVE  /\ DOMAIN Put(f, x, y) = DOMAIN f \cup {x}
           /\ \A z \in DOMAIN f \cup {x} : Put(f, x, y)[z] = IF z = x THEN y ELSE f[z]
BY DEF Put

LEMMA PutTypes ==
    ASSUME NEW f, NEW x, NEW y, NEW D, NEW T, x \in D, y \in T,
           \A z \in DOMAIN f : z \in D /\ f[z] \in T
    PROVE  \A z \in DOMAIN Put(f, x, y) : z \in D /\ Put(f, x, y)[z] \in T
<1>1. ASSUME NEW z \in DOMAIN Put(f, x, y)
      PROVE  z \in D /\ Put(f, x, y)[z] \in T
  <2>1. z \in DOMAIN f \cup {x}
    BY PutFacts, Zenon
  <2>2. Put(f, x, y)[z] = IF z = x THEN y ELSE f[z]
    BY <2>1 DEF Put
  <2>. QED
    BY <2>1, <2>2
<1>. QED
  BY <1>1

-----------------------------------------------------------------------------
(* Types.                                                                  *)

\* The chunk SendChunk sends and the frames it makes of it.
LEMMA SendTypes ==
    ASSUME Types, SendChunk
    PROVE  SenderTypes' /\ PathTypes'
<1>. DEFINE s == Seq16(nextPkt)
            c == [w |-> Seq16(writes - 1), i |-> chunk.total - chunk.left, total |-> chunk.total]
            g == s % FecStride
            members == Append(groups[g], [seq |-> s, chunk |-> c])
            entry == [seq |-> s, chunk |-> c]
            full == Len(members) = FecK
<1>0. /\ chunk.left \in Nat /\ chunk.total \in Nat /\ chunk.left > 0
      /\ chunk.left <= chunk.total /\ chunk.total <= MaxChunks
      /\ chunk' = [chunk EXCEPT !.left = @ - 1] /\ nextPkt' = nextPkt + 1 /\ writes' = writes
  <2>1. chunk \in [left : 0..MaxChunks, total : 0..MaxChunks] /\ chunk.left <= chunk.total
    BY DEF Types, SenderTypes
  <2>2. chunk.left \in 0..MaxChunks /\ chunk.total \in 0..MaxChunks
    BY <2>1
  <2>3. /\ chunk.left > 0 /\ chunk' = [chunk EXCEPT !.left = @ - 1]
        /\ nextPkt' = nextPkt + 1 /\ writes' = writes
    BY DEF SendChunk
  <2>. QED
    BY <2>1, <2>2, <2>3, Parameters
<1>1. s \in Seqs /\ c \in Chunks /\ entry \in [seq : Seqs, chunk : Chunks]
  <2>1. nextPkt \in Int /\ writes - 1 \in Int
    BY Parameters DEF Types, SenderTypes
  <2>2. chunk.total - chunk.left \in 0..(MaxChunks - 1) /\ chunk.total \in 1..MaxChunks
    BY <1>0, Parameters
  <2>. QED
    BY <2>1, <2>2, SeqType DEF Chunks
<1>2. g \in 0..(FecStride - 1)
  BY <1>1, Parameters DEF Seqs
<1>3. /\ groups[g] \in Seq([seq : Seqs, chunk : Chunks]) /\ Len(groups[g]) < FecK
      /\ members \in Seq([seq : Seqs, chunk : Chunks]) /\ Len(members) = Len(groups[g]) + 1
  <2>1. groups[g] \in Seq([seq : Seqs, chunk : Chunks]) /\ Len(groups[g]) < FecK
    BY <1>2 DEF Types, SenderTypes
  <2>. HIDE DEF entry, g
  <2>. QED
    BY <1>1, <2>1
<1>4. SenderTypes'
  <2>1. /\ writes' \in 0..MaxWrites /\ nextPkt' \in 0..MaxPackets
        /\ chunk' \in [left : 0..MaxChunks, total : 0..MaxChunks]
        /\ chunk'.left <= chunk'.total /\ nextPkt' + chunk'.left <= MaxPackets
    <3>1. /\ chunk \in [left : 0..MaxChunks, total : 0..MaxChunks] /\ writes \in 0..MaxWrites
          /\ nextPkt \in 0..MaxPackets /\ nextPkt + chunk.left <= MaxPackets
      BY DEF Types, SenderTypes
    <3>2. chunk' = [left |-> chunk.left - 1, total |-> chunk.total]
      BY <1>0, <3>1
    <3>. QED
      BY <1>0, <3>1, <3>2, Parameters
  <2>2. groups' = [groups EXCEPT ![g] = IF full THEN <<>> ELSE members]
    BY DEF SendChunk, AddPacket
  <2>3. /\ groups' \in [0..(FecStride - 1) -> Seq([seq : Seqs, chunk : Chunks])]
        /\ \A h \in 0..(FecStride - 1) : Len(groups'[h]) < FecK
    <3>. DEFINE new == IF full THEN <<>> ELSE members
    <3>1. new \in Seq([seq : Seqs, chunk : Chunks]) /\ Len(new) < FecK
      <4>. HIDE DEF members, g
      <4>1. Len(<<>>) = 0 /\ <<>> \in Seq([seq : Seqs, chunk : Chunks])
        OBVIOUS
      <4>2. Len(members) <= FecK /\ Len(members) \in Nat
        BY <1>3, Parameters
      <4>. QED
        BY <1>3, <4>1, <4>2, Parameters
    <3>. QED
      BY <1>2, <2>2, <3>1 DEF Types, SenderTypes
  <2>4. \A i \in DOMAIN retx' : /\ retx'[i] \in [seq : Seqs, chunk : Chunks]
                                /\ retx'[i].seq % RetxBufSize = i
    <3>1. retx' = Put(retx, s % RetxBufSize, entry)
      BY DEF SendChunk
    <3>2. entry.seq = s
      OBVIOUS
    <3>. HIDE DEF s, entry
    <3>3. DOMAIN retx' = DOMAIN retx \cup {s % RetxBufSize}
      BY <3>1, PutFacts
    <3>4. \A i \in DOMAIN retx' : retx'[i] = IF i = s % RetxBufSize THEN entry ELSE retx[i]
      BY <3>1, <3>3, Zenon DEF Put
    <3>5. \A i \in DOMAIN retx : /\ retx[i] \in [seq : Seqs, chunk : Chunks]
                                /\ retx[i].seq % RetxBufSize = i
      BY DEF Types, SenderTypes
    <3>. QED
      BY <1>1, <3>2, <3>3, <3>4, <3>5
  <2>. QED
    BY <2>1, <2>3, <2>4 DEF SenderTypes
<1>5. PathTypes'
  <2>1. Data(s, c) \in Frames
    BY <1>1 DEF Frames, Data
  <2>2. ASSUME full
        PROVE  Fec(members[1].seq, {members[i].chunk : i \in 1..FecK}) \in Frames
    <3>3. Len(members) = FecK
      BY <2>2
    <3>. HIDE DEF members
    <3>1. \A i \in 1..FecK : members[i] \in [seq : Seqs, chunk : Chunks]
      BY <1>3, <3>3, SeqFacts
    <3>2. members[1].seq \in Seqs /\ {members[i].chunk : i \in 1..FecK} \subseteq Chunks
      BY <3>1, Parameters
    <3>. QED
      BY <3>2 DEF Frames, Fec
  <2>3. net' = net \cup {Data(s, c)} \cup
                 (IF full
                  THEN {Fec(members[1].seq, {members[i].chunk : i \in 1..FecK})}
                  ELSE {})
    BY DEF SendChunk, AddPacket
  <2>4. nacks' = nacks
    BY DEF SendChunk
  <2>. HIDE DEF full, members, s, c
  <2>. QED
    BY <2>1, <2>2, <2>3, <2>4 DEF Types, PathTypes
<1>. QED
  BY <1>4, <1>5

LEMMA NextSenderTypes ==
    ASSUME Types, Next
    PROVE  SenderTypes'
<1>1. CASE UNCHANGED sendVars
  BY <1>1 DEF sendVars, Types, SenderTypes
<1>2. ASSUME NEW n \in 1..MaxChunks, Write(n)
      PROVE  SenderTypes'
  <2>1. /\ writes \in 0..MaxWrites /\ nextPkt \in 0..MaxPackets
        /\ writes < MaxWrites /\ nextPkt + n <= MaxPackets /\ writes' = writes + 1
        /\ nextPkt' = nextPkt /\ chunk' = [left |-> n, total |-> n]
    BY <1>2 DEF Write, Types, SenderTypes
  <2>2. UNCHANGED <<groups, retx>>
    BY <1>2 DEF Write
  <2>3. n \in 0..MaxChunks
    BY Parameters
  <2>4. /\ writes' \in 0..MaxWrites /\ nextPkt' \in 0..MaxPackets
        /\ chunk' \in [left : 0..MaxChunks, total : 0..MaxChunks]
        /\ chunk'.left <= chunk'.total /\ nextPkt' + chunk'.left <= MaxPackets
    BY <2>1, <2>3, Parameters
  <2>. QED
    BY <2>2, <2>4 DEF Types, SenderTypes
<1>3. CASE SendChunk
  BY <1>3, SendTypes
<1>4. UNCHANGED sendVars \/ SendChunk \/ \E n \in 1..MaxChunks : Write(n)
  BY DEF Next, HandleNACK, NACKLost, TrackCloses, LockTrack, HandleTrack, HandleRaw,
         SendNACK, Reassemble, Look, Deliver, SetTimer, StallFires
<1>. QED
  BY <1>1, <1>2, <1>3, <1>4

LEMMA NextPathTypes ==
    ASSUME Types, Next
    PROVE  PathTypes'
<1>1. CASE UNCHANGED <<net, nacks>>
  BY <1>1 DEF Types, PathTypes
<1>2. CASE SendChunk
  BY <1>2, SendTypes
<1>3. ASSUME NEW s \in nacks, HandleNACK(s) \/ NACKLost(s)
      PROVE  PathTypes'
  <2>1. CASE HandleNACK(s) /\ Stored(s)
    <3>1. Retx(s, retx[s % RetxBufSize].chunk) \in Frames
      BY <2>1 DEF Stored, Types, SenderTypes, PathTypes, Frames, Retx
    <3>. QED
      BY <2>1, <3>1 DEF HandleNACK, Types, PathTypes
  <2>. QED
    BY <1>3, <2>1 DEF HandleNACK, NACKLost, Types, PathTypes
<1>4. ASSUME NEW t \in Tracks, NEW p \in net, HandleTrack(t, p)
      PROVE  PathTypes'
  BY <1>4 DEF HandleTrack, Types, PathTypes
<1>5. ASSUME NEW s \in gaps, SendNACK(s)
      PROVE  PathTypes'
  BY <1>5 DEF SendNACK, Types, PathTypes, NackTypes
<1>6. \/ UNCHANGED <<net, nacks>> \/ SendChunk
      \/ \E s \in nacks : HandleNACK(s) \/ NACKLost(s)
      \/ \E t \in Tracks, p \in net : HandleTrack(t, p)
      \/ \E s \in gaps : SendNACK(s)
  BY DEF Next, Write, TrackCloses, LockTrack, HandleRaw, Reassemble, Look, Deliver,
         SetTimer, StallFires
<1>. QED
  BY <1>1, <1>2, <1>3, <1>4, <1>5, <1>6

\* A goroutine's hand holds a frame with a write sequence.
LEMMA HandType ==
    ASSUME Types, NEW t \in Tracks, hand[t] # None
    PROVE  /\ hand[t].nrs \in Seqs /\ hand[t].p \in DataFrames /\ hand[t].p \in Frames
           /\ hand[t].p.chunk.w \in Seqs
<1>1. hand[t] \in [nrs : Seqs, p : DataFrames]
  BY DEF Types, TrackTypes
<1>. QED
  BY <1>1 DEF DataFrames, Frames, Chunks

LEMMA LockTypes ==
    ASSUME Types, NEW t \in Tracks, LockTrack(t)
    PROVE  TrackTypes' /\ nextRead' \in Seqs
<1>1. hand[t] # None /\ hand' = [hand EXCEPT ![t] = None] /\ track' = track
  BY DEF LockTrack
<1>2. locked' = locked \/ (locked' = t /\ track[t] = "live")
  BY <1>1 DEF LockTrack, Types, TrackTypes
<1>3. raw' = raw \/ raw' = Append(raw, hand[t].p)
  BY DEF LockTrack
<1>4. raw' \in Seq(Frames)
  BY <1>1, <1>3, HandType DEF Types, TrackTypes
<1>5. nextRead' \in Seqs
  BY <1>1, HandType DEF LockTrack, LockSeq, Types, AsmTypes
<1>. QED
  BY <1>1, <1>2, <1>4, <1>5 DEF Types, TrackTypes

LEMMA NextTrackTypes ==
    ASSUME Types, Next
    PROVE  TrackTypes'
<1>1. CASE UNCHANGED <<track, locked, hand, raw>>
  BY <1>1 DEF Types, TrackTypes
<1>2. ASSUME NEW t \in Tracks, TrackCloses(t)
      PROVE  TrackTypes'
  BY <1>2 DEF TrackCloses, Types, TrackTypes, NoTrack
<1>3. ASSUME NEW t \in Tracks, LockTrack(t)
      PROVE  TrackTypes'
  BY <1>3, LockTypes
<1>4. ASSUME NEW t \in Tracks, NEW p \in net, HandleTrack(t, p)
      PROVE  TrackTypes'
  <2>1. p \in Frames /\ (p.t \in {"data", "retx"} => p \in DataFrames)
    BY DEF Types, PathTypes, Frames, DataFrames
  <2>2. /\ track' \in [Tracks -> {"new", "live", "gone"}] /\ track' = [track EXCEPT ![t] = "live"]
        /\ locked' = locked
    BY <1>4 DEF HandleTrack, Types, TrackTypes
  <2>3. CASE locked = t /\ raw' = Append(raw, p) /\ hand' = hand
    BY <2>1, <2>2, <2>3 DEF Types, TrackTypes
  <2>4. CASE /\ p.t \in {"data", "retx"} /\ raw' = raw
             /\ hand' = [hand EXCEPT ![t] = [nrs |-> nextRead, p |-> p]]
    <3>1. [nrs |-> nextRead, p |-> p] \in [nrs : Seqs, p : DataFrames]
      BY <2>1, <2>4 DEF Types, AsmTypes
    <3>. QED
      BY <2>2, <2>4, <3>1 DEF Types, TrackTypes
  <2>. QED
    BY <1>4, <2>3, <2>4 DEF HandleTrack
<1>5. CASE HandleRaw
  <2>1. UNCHANGED <<track, locked, hand>> /\ raw # <<>> /\ raw' = Tail(raw)
    BY <1>5 DEF HandleRaw, lockVars
  <2>. QED
    BY <2>1 DEF Types, TrackTypes
<1>6. \/ UNCHANGED <<track, locked, hand, raw>> \/ HandleRaw
      \/ \E t \in Tracks : TrackCloses(t) \/ LockTrack(t)
      \/ \E t \in Tracks, p \in net : HandleTrack(t, p)
  BY DEF Next, Write, SendChunk, HandleNACK, NACKLost, SendNACK, Reassemble, Look, Deliver,
         SetTimer, StallFires, lockVars
<1>. QED
  BY <1>1, <1>2, <1>3, <1>4, <1>5, <1>6

\* A packet recorded and pruned, and a packet recovered.
LEMMA DataTypes ==
    ASSUME Types, NEW s \in Seqs, NEW c \in Chunks, HandleData(s, c)
    PROVE  NackTypes' /\ readCh' = Append(readCh, c)
<1>1. \A x \in DOMAIN pool' : x \in Seqs /\ pool'[x] \in Chunks
  <2>1. PICK f : f = Put(pool, s, c)
    OBVIOUS
  <2>2. \A x \in DOMAIN f : x \in Seqs /\ f[x] \in Chunks
    <3>1. \A x \in DOMAIN pool : x \in Seqs /\ pool[x] \in Chunks
      BY DEF Types, NackTypes
    <3>. QED
      BY <2>1, <3>1, PutTypes
  <2>3. DOMAIN f = DOMAIN pool \cup {s}
    BY <2>1, PutFacts
  <2>4. PICK D : D = Pruned(DOMAIN pool \cup {s}, s)
    OBVIOUS
  <2>5. pool' = Restrict(f, D) /\ D \subseteq DOMAIN f
    BY <2>1, <2>3, <2>4, PrunedTypes DEF HandleData
  <2>. QED
    BY <2>2, <2>5 DEF Restrict
<1>2. readCh' = Append(readCh, c)
  BY DEF HandleData
<1>3. CASE ~initialized
  <2>1. s + 1 \in Int
    BY DEF Seqs
  <2>2. Seq16(s + 1) \in Seqs
    BY <2>1, SeqType
  <2>3. nextExpect' = Seq16(s + 1) /\ initialized' = TRUE /\ UNCHANGED <<gaps, received>>
    BY <1>3 DEF HandleData
  <2>. QED
    BY <1>1, <1>2, <2>2, <2>3 DEF Types, NackTypes
<1>4. CASE initialized
  <2>1. PICK rec : rec = received \cup {s}
    OBVIOUS
  <2>2. PICK found : found = (gaps \ {s}) \cup RecordGaps(s, rec)
    OBVIOUS
  <2>3. /\ gaps' = Pruned(found, s) /\ nextExpect' = Advanced(rec).next
        /\ received' = Pruned(Advanced(rec).rec, s) /\ initialized' = initialized
    BY <1>4, <2>1, <2>2 DEF HandleData
  <2>4. rec \subseteq Seqs /\ nextExpect \in Seqs
    BY <2>1 DEF Types, NackTypes
  <2>5. RecordGaps(s, rec) \subseteq Seqs
    <3>1. \A i \in 0..(Seq16(s - nextExpect) - 1) : nextExpect + i \in Int
      BY <2>4 DEF Seqs
    <3>2. SeqRange(nextExpect, s) \subseteq Seqs
      BY <3>1, SeqType DEF SeqRange
    <3>. QED
      BY <3>2 DEF RecordGaps
  <2>6. found \subseteq Seqs
    BY <2>2, <2>5 DEF Types, NackTypes
  <2>7. Advanced(rec).next \in Seqs /\ Advanced(rec).rec \subseteq Seqs
    BY <2>4, AdvancedTypes
  <2>8. gaps' \subseteq Seqs /\ received' \subseteq Seqs
    BY <2>3, <2>6, <2>7, PrunedTypes
  <2>. QED
    BY <1>1, <1>2, <2>3, <2>7, <2>8 DEF Types, NackTypes
<1>. QED
  BY <1>3, <1>4

\* The XOR of a parity and of the members that are there.
Left(p) ==
    LET have == {pool[s] : s \in Members(p) \cap DOMAIN pool}
    IN  (p.xor \ have) \cup (have \ p.xor)

\* HandleFEC recovers a packet or does nothing.
LEMMA FECStep ==
    ASSUME NEW p, HandleFEC(p)
    PROVE  \/ UNCHANGED <<pool, gaps, received, nextExpect, initialized, readCh>>
           \/ \E s \in Members(p) \ DOMAIN pool,
                 c \in IF Cardinality(Left(p)) = 1 THEN Left(p) ELSE Chunks :
                /\ Members(p) \ DOMAIN pool = {s}
                /\ pool' = Put(pool, s, c) /\ gaps' = gaps \ {s}
                /\ nextExpect' = Advanced(received \cup {s}).next
                /\ received' = Advanced(received \cup {s}).rec
                /\ initialized' = initialized /\ readCh' = Append(readCh, c)
<1>1. CASE /\ Cardinality(Members(p) \ DOMAIN pool) = 1
           /\ ~UNCHANGED <<pool, gaps, received, nextExpect, initialized, readCh>>
  <2>1. PICK s \in Members(p) \ DOMAIN pool,
             c \in IF Cardinality(Left(p)) = 1 THEN Left(p) ELSE Chunks :
                /\ pool' = Put(pool, s, c) /\ gaps' = gaps \ {s}
                /\ nextExpect' = Advanced(received \cup {s}).next
                /\ received' = Advanced(received \cup {s}).rec
                /\ initialized' = initialized /\ readCh' = Append(readCh, c)
    BY <1>1 DEF HandleFEC, Left, nackVars
  <2>2. Members(p) \ DOMAIN pool = {s}
    <3>1. IsFiniteSet(0..(FecK - 1))
      BY Parameters, FS_Interval
    <3>2. IsFiniteSet(Members(p))
      <4>. DEFINE member == [i \in 0..(FecK - 1) |-> Seq16(p.seq + i * FecStride)]
      <4>1. Members(p) = {member[i] : i \in 0..(FecK - 1)}
        BY DEF Members
      <4>2. member \in Surjection(0..(FecK - 1), Members(p))
        BY <4>1 DEF Surjection
      <4>. QED
        BY <3>1, <4>2, FS_Surjection
    <3>3. IsFiniteSet(Members(p) \ DOMAIN pool)
      BY <3>2, FS_Subset
    <3>4. PICK x : Members(p) \ DOMAIN pool = {x}
      BY <1>1, <3>3, FS_Singleton
    <3>. QED
      BY <2>1, <3>4
  <2>. QED
    BY <2>1, <2>2
<1>2. CASE /\ Cardinality(Members(p) \ DOMAIN pool) # 1
           /\ ~UNCHANGED <<pool, gaps, received, nextExpect, initialized, readCh>>
  BY <1>2 DEF HandleFEC, nackVars
<1>. QED
  BY <1>1, <1>2

LEMMA FECTypes ==
    ASSUME Types, NEW p \in Frames, p.t = "fec", HandleFEC(p)
    PROVE  NackTypes' /\ (readCh' = readCh \/ \E c \in Chunks : readCh' = Append(readCh, c))
<1>1. p.seq \in Seqs /\ p.xor \subseteq Chunks
  BY DEF Frames
<1>2. Members(p) \subseteq Seqs
  <2>1. \A i \in 0..(FecK - 1) : p.seq + i * FecStride \in Int
    BY <1>1, Parameters DEF Seqs
  <2>. QED
    BY <2>1, SeqType DEF Members
<1>3. Left(p) \subseteq Chunks
  BY <1>1 DEF Left, Types, NackTypes
<1>4. CASE UNCHANGED <<pool, gaps, received, nextExpect, initialized, readCh>>
  BY <1>4 DEF Types, NackTypes
<1>5. CASE ~UNCHANGED <<pool, gaps, received, nextExpect, initialized, readCh>>
  <2>1. PICK s \in Members(p) \ DOMAIN pool,
             c \in IF Cardinality(Left(p)) = 1 THEN Left(p) ELSE Chunks :
                /\ pool' = Put(pool, s, c) /\ gaps' = gaps \ {s}
                /\ nextExpect' = Advanced(received \cup {s}).next
                /\ received' = Advanced(received \cup {s}).rec
                /\ initialized' = initialized /\ readCh' = Append(readCh, c)
    BY <1>5, FECStep, Zenon
  <2>2. s \in Seqs /\ c \in Chunks
    BY <1>2, <1>3
  <2>3. received \cup {s} \subseteq Seqs /\ nextExpect \in Seqs
    BY <2>2 DEF Types, NackTypes
  <2>4. nextExpect' \in Seqs /\ received' \subseteq Seqs
    BY <2>1, <2>3, AdvancedTypes
  <2>5. \A x \in DOMAIN pool' : x \in Seqs /\ pool'[x] \in Chunks
    <3>1. \A x \in DOMAIN pool : x \in Seqs /\ pool[x] \in Chunks
      BY DEF Types, NackTypes
    <3>. QED
      BY <2>1, <2>2, <3>1, PutTypes
  <2>. QED
    BY <2>1, <2>2, <2>4, <2>5 DEF Types, NackTypes
<1>. QED
  BY <1>4, <1>5

LEMMA RawTypes ==
    ASSUME Types, HandleRaw
    PROVE  /\ NackTypes' /\ readCh' \in Seq(Chunks) /\ Len(readCh') <= ReadCap
<1>1. raw # <<>> /\ Head(raw) \in Frames
  BY SeqFacts DEF HandleRaw, Types, TrackTypes
<1>2. Len(readCh) < ReadCap /\ readCh \in Seq(Chunks)
  BY DEF HandleRaw, Types, AsmTypes
<1>3. NackTypes' /\ (readCh' = readCh \/ \E c \in Chunks : readCh' = Append(readCh, c))
  <2>1. CASE Head(raw).t = "fec"
    BY <1>1, <2>1, FECTypes DEF HandleRaw
  <2>2. CASE Head(raw).t # "fec"
    <3>1. Head(raw).seq \in Seqs /\ Head(raw).chunk \in Chunks
      BY <1>1, <2>2 DEF Frames
    <3>2. HandleData(Head(raw).seq, Head(raw).chunk)
      BY <2>2 DEF HandleRaw
    <3>. QED
      BY <3>1, <3>2, DataTypes
  <2>. QED
    BY <2>1, <2>2
<1>. QED
  BY <1>2, <1>3, Parameters

LEMMA NextNackTypes ==
    ASSUME Types, Next
    PROVE  NackTypes'
<1>1. CASE UNCHANGED <<pool, gaps, received, nextExpect, initialized>>
  BY <1>1 DEF Types, NackTypes
<1>2. CASE HandleRaw
  BY <1>2, RawTypes
<1>3. UNCHANGED <<pool, gaps, received, nextExpect, initialized>> \/ HandleRaw
  BY DEF Next, Write, SendChunk, HandleNACK, NACKLost, TrackCloses, LockTrack, HandleTrack,
         SendNACK, Reassemble, Look, Deliver, SetTimer, StallFires, nackVars
<1>. QED
  BY <1>1, <1>2, <1>3

LEMMA NextAsmTypes ==
    ASSUME Types, Next
    PROVE  AsmTypes'
<1>1. CASE UNCHANGED <<asmVars, readCh, nextRead>>
  BY <1>1 DEF asmVars, Types, AsmTypes
<1>2. ASSUME NEW t \in Tracks, LockTrack(t)
      PROVE  AsmTypes'
  <2>1. UNCHANGED <<asmVars, readCh>> /\ nextRead' \in Seqs
    BY <1>2, LockTypes DEF LockTrack
  <2>. QED
    BY <2>1 DEF asmVars, Types, AsmTypes
<1>3. CASE HandleRaw
  <2>1. UNCHANGED <<asmVars, nextRead>>
    BY <1>3 DEF HandleRaw
  <2>. QED
    BY <1>3, <2>1, RawTypes DEF asmVars, Types, AsmTypes
<1>4. CASE Reassemble
  <2>1. /\ readCh # <<>> /\ readCh' = Tail(readCh) /\ reassembly' = reassembly \cup {Head(readCh)}
        /\ asm' = [at |-> "look", w |-> 0] /\ UNCHANGED <<nextRead, stall, delivered, closed>>
    BY <1>4 DEF Reassemble, At
  <2>2. readCh' \in Seq(Chunks) /\ Len(readCh') <= ReadCap /\ Head(readCh) \in Chunks
    BY <2>1, SeqFacts, Parameters DEF Types, AsmTypes
  <2>3. 0 \in Seqs
    BY Parameters DEF Seqs
  <2>. QED
    BY <2>1, <2>2, <2>3 DEF Types, AsmTypes
<1>5. CASE Look \/ SetTimer \/ StallFires
  <2>1. 0 \in Seqs
    BY Parameters DEF Seqs
  <2>2. stall' \in BOOLEAN
    BY <1>5 DEF Look, SetTimer, StallFires, TimerAfter, HasBufferedAhead, Types, AsmTypes
  <2>3. asm' \in [at : {"select", "look", "found", "timer"}, w : Seqs]
    BY <1>5, <2>1 DEF Look, SetTimer, StallFires, At, Types, AsmTypes
  <2>4. closed' \in BOOLEAN /\ UNCHANGED <<readCh, reassembly, nextRead, delivered>>
    BY <1>5 DEF Look, SetTimer, StallFires, Types, AsmTypes
  <2>. QED
    BY <2>2, <2>3, <2>4 DEF Types, AsmTypes
<1>6. CASE Deliver
  <2>1. nextRead + 1 \in Int /\ 0 \in Seqs /\ asm.w \in Seqs
    BY Parameters DEF Types, AsmTypes, Seqs
  <2>2. nextRead' \in Seqs /\ asm' = [at |-> "look", w |-> 0]
    BY <1>6, <2>1, SeqType DEF Deliver, At
  <2>3. delivered' = Append(delivered, asm.w) /\ reassembly' \subseteq reassembly
    BY <1>6 DEF Deliver
  <2>4. UNCHANGED <<readCh, stall, closed>>
    BY <1>6 DEF Deliver
  <2>. QED
    BY <2>1, <2>2, <2>3, <2>4 DEF Types, AsmTypes
<1>7. \/ UNCHANGED <<asmVars, readCh, nextRead>> \/ HandleRaw \/ Reassemble \/ Look \/ Deliver
      \/ SetTimer \/ StallFires \/ \E t \in Tracks : LockTrack(t)
  BY DEF Next, Write, SendChunk, HandleNACK, NACKLost, TrackCloses, HandleTrack, SendNACK
<1>. QED
  BY <1>1, <1>2, <1>3, <1>4, <1>5, <1>6, <1>7

LEMMA InitTypes == ASSUME Init PROVE Types
<1>. USE Parameters DEF Init
<1>1. 0 \in Seqs
  BY DEF Seqs
<1>2. SenderTypes
  BY DEF SenderTypes
<1>3. PathTypes /\ TrackTypes
  BY DEF PathTypes, TrackTypes, NoTrack, Tracks
<1>4. NackTypes
  <2>1. pool = <<>> /\ DOMAIN pool = {}
    OBVIOUS
  <2>. QED
    BY <1>1, <2>1 DEF NackTypes
<1>5. AsmTypes
  <2>1. asm \in [at : {"select", "look", "found", "timer"}, w : Seqs]
    BY <1>1
  <2>2. readCh \in Seq(Chunks) /\ Len(readCh) <= ReadCap /\ delivered \in Seq(Seqs)
    OBVIOUS
  <2>. QED
    BY <1>1, <2>1, <2>2 DEF AsmTypes
<1>. QED
  BY <1>2, <1>3, <1>4, <1>5 DEF Types

LEMMA NextTypes == ASSUME Types, [Next]_vars PROVE Types'
<1>1. CASE Next
  BY <1>1, NextSenderTypes, NextPathTypes, NextTrackTypes, NextNackTypes, NextAsmTypes
     DEF Types
<1>2. CASE UNCHANGED vars
  BY <1>2 DEF vars, sendVars, lockVars, nackVars, asmVars, Types, SenderTypes, PathTypes,
              TrackTypes, NackTypes, AsmTypes
<1>. QED
  BY <1>1, <1>2

\* Every variable of both ends keeps its type: sequence numbers stay within
\* their 16 bits, an open FEC group is never full, a packet lies in its slot of
\* the retransmit buffer, the tracker asks for packet numbers, and the locked
\* track is one whose goroutine runs.
THEOREM TypeCorrect == Spec => []TypeOK
<1>1. Types => TypeOK
  BY DEF Types, SenderTypes, PathTypes, TrackTypes, NackTypes, AsmTypes, TypeOK
<1>. QED
  BY <1>1, InitTypes, NextTypes, PTL DEF Spec

-----------------------------------------------------------------------------
(* What Read is given.                                                     *)

\* The write deliverReady has found, or looks for, follows the last one given to
\* Read, unless a lock moved nextReadSeq in between.
Follows(w, n) == n = 0 \/ w = Seq16(delivered[n] + 1) \/ n \in jumps

Counted ==
    /\ asm.at # "found" => Follows(nextRead, Len(delivered))
    /\ asm.at = "found" => /\ Follows(asm.w, Len(delivered))
                           /\ asm.w = nextRead \/ Len(delivered) + 1 \in jumps

LEMMA NextCounted ==
    ASSUME Types, Counted, ContiguousDelivery, [Next]_vars
    PROVE  Counted' /\ ContiguousDelivery'
<1>. DEFINE n == Len(delivered)
<1>0. delivered \in Seq(Seqs) /\ n \in Nat
  BY DEF Types, AsmTypes
<1>1. CASE UNCHANGED <<asm, nextRead, delivered, jumps>>
  BY <1>1 DEF Counted, Follows, ContiguousDelivery
<1>2. ASSUME NEW t \in Tracks, LockTrack(t)
      PROVE  Counted' /\ ContiguousDelivery'
  <2>1. UNCHANGED <<asm, delivered>>
    BY <1>2 DEF LockTrack, asmVars
  <2>2. \/ UNCHANGED <<nextRead, jumps>>
        \/ jumps' = jumps \cup {n + (IF asm.at = "found" THEN 1 ELSE 0)}
    BY <1>2 DEF LockTrack, LockSeq
  <2>3. jumps \subseteq jumps'
    BY <2>2
  <2>4. ContiguousDelivery'
    BY <2>1, <2>3 DEF ContiguousDelivery
  <2>5. CASE UNCHANGED <<nextRead, jumps>>
    BY <2>1, <2>4, <2>5 DEF Counted, Follows
  <2>6. CASE jumps' = jumps \cup {n + (IF asm.at = "found" THEN 1 ELSE 0)}
    BY <1>0, <2>1, <2>4, <2>6 DEF Counted, Follows
  <2>. QED
    BY <2>2, <2>5, <2>6
<1>3. CASE Reassemble \/ Look \/ SetTimer \/ StallFires
  <2>1. UNCHANGED <<nextRead, delivered, jumps>>
    BY <1>3 DEF Reassemble, Look, SetTimer, StallFires, lockVars
  <2>2. \/ asm' = asm \/ (asm.at # "found" /\ asm'.at # "found")
        \/ (asm.at # "found" /\ asm'.at = "found" /\ asm'.w = nextRead)
    BY <1>3 DEF Reassemble, Look, SetTimer, StallFires, At
  <2>. QED
    BY <2>1, <2>2 DEF Counted, Follows, ContiguousDelivery
<1>4. CASE Deliver
  <2>1. /\ asm.at = "found" /\ asm'.at = "look" /\ jumps' = jumps
        /\ nextRead' = Seq16(nextRead + 1) /\ delivered' = Append(delivered, asm.w)
    BY <1>4 DEF Deliver, At, lockVars
  <2>2. asm.w \in Seqs
    BY DEF Types, AsmTypes
  <2>3. /\ Len(delivered') = n + 1 /\ delivered'[n + 1] = asm.w
        /\ \A i \in 1..n : delivered'[i] = delivered[i]
    BY <1>0, <2>1, <2>2
  <2>4. Follows(asm.w, n) /\ (asm.w = nextRead \/ n + 1 \in jumps)
    BY <2>1 DEF Counted
  <2>5. Counted'
    BY <1>0, <2>1, <2>3, <2>4 DEF Counted, Follows
  <2>6. ASSUME NEW i \in 1..n
        PROVE  delivered'[i + 1] = Seq16(delivered'[i] + 1) \/ i \in jumps'
    <3>1. CASE i = n
      BY <1>0, <2>1, <2>3, <2>4, <3>1 DEF Follows
    <3>2. CASE i < n
      <4>1. i \in 1..(n - 1) /\ i + 1 \in 1..n
        BY <1>0, <3>2
      <4>. QED
        BY <2>1, <2>3, <4>1 DEF ContiguousDelivery
    <3>. QED
      BY <1>0, <3>1, <3>2
  <2>. QED
    BY <1>0, <2>3, <2>5, <2>6 DEF ContiguousDelivery
<1>5. \/ UNCHANGED <<asm, nextRead, delivered, jumps>>
      \/ \E t \in Tracks : LockTrack(t)
      \/ Reassemble \/ Look \/ SetTimer \/ StallFires \/ Deliver
  BY DEF Next, Write, SendChunk, HandleNACK, NACKLost, TrackCloses, HandleTrack, HandleRaw,
         SendNACK, asmVars, lockVars, vars
<1>. QED
  BY <1>1, <1>2, <1>3, <1>4, <1>5

\* Read is given each write followed by the next one, however the frames are
\* lost, repeated, recovered or reordered and however often the numbers wrap,
\* except where HandleTrack locked a track with a nextReadSeq it had read as 0.
THEOREM ReadsContiguous == Spec => []ContiguousDelivery
<1>1. Init => Counted /\ ContiguousDelivery
  BY DEF Init, Counted, Follows, ContiguousDelivery
<1>. QED
  BY <1>1, InitTypes, NextTypes, NextCounted, PTL DEF Spec

-----------------------------------------------------------------------------
(* The stall timer.                                                        *)

\* reassemblyLoop waits while a hole holds back later writes: the stall timer
\* runs, or a chunk is on its way to it, after which it sets the timer.
HoleWatched ==
    asm.at = "select" /\ HasBufferedAhead(reassembly, nextRead)
        => stall \/ readCh # <<>> \/ \E i \in DOMAIN raw : raw[i].t # "fec"

LEMMA NextWatched ==
    ASSUME Types, HoleWatched, [Next]_vars
    PROVE  HoleWatched'
<1>1. CASE UNCHANGED <<asm, reassembly, nextRead, stall, readCh, raw>>
  BY <1>1 DEF HoleWatched, HasBufferedAhead, Complete
<1>2. ASSUME NEW t \in Tracks, LockTrack(t)
      PROVE  HoleWatched'
  <2>1. UNCHANGED <<asm, reassembly, stall, readCh>> /\ hand[t] # None
    BY <1>2 DEF LockTrack, asmVars
  <2>2. \/ UNCHANGED <<nextRead, raw>>
        \/ raw' = Append(raw, hand[t].p)
    BY <1>2 DEF LockTrack
  <2>3. CASE UNCHANGED <<nextRead, raw>>
    BY <2>1, <2>3 DEF HoleWatched, HasBufferedAhead, Complete
  <2>4. CASE raw' = Append(raw, hand[t].p)
    <3>1. hand[t].p.t # "fec" /\ hand[t].p \in Frames
      BY <2>1, HandType DEF DataFrames
    <3>2. Len(raw) + 1 \in DOMAIN raw' /\ raw'[Len(raw) + 1] = hand[t].p
      BY <2>4, <3>1 DEF Types, TrackTypes
    <3>. QED
      BY <3>1, <3>2 DEF HoleWatched
  <2>. QED
    BY <2>2, <2>3, <2>4
<1>3. ASSUME NEW t \in Tracks, NEW p \in net, HandleTrack(t, p)
      PROVE  HoleWatched'
  <2>1. UNCHANGED <<asm, reassembly, nextRead, stall, readCh>>
    BY <1>3 DEF HandleTrack, asmVars
  <2>2. raw' = raw \/ raw' = Append(raw, p)
    BY <1>3 DEF HandleTrack
  <2>3. \A i \in DOMAIN raw : i \in DOMAIN raw' /\ raw'[i] = raw[i]
    BY <2>2 DEF Types, TrackTypes, PathTypes
  <2>. QED
    BY <2>1, <2>3 DEF HoleWatched, HasBufferedAhead, Complete
<1>4. CASE HandleRaw
  <2>1. UNCHANGED <<asm, reassembly, nextRead, stall>> /\ raw # <<>> /\ raw' = Tail(raw)
    BY <1>4 DEF HandleRaw, asmVars
  <2>2. CASE Head(raw).t # "fec"
    <3>1. HandleData(Head(raw).seq, Head(raw).chunk)
      BY <1>4, <2>2 DEF HandleRaw
    <3>2. readCh' = Append(readCh, Head(raw).chunk)
      BY <3>1 DEF HandleData
    <3>3. Head(raw).chunk \in Chunks
      BY <2>1, <2>2, SeqFacts DEF Types, TrackTypes, Frames
    <3>4. readCh' # <<>>
      BY <3>2, <3>3 DEF Types, AsmTypes
    <3>. QED
      BY <3>4 DEF HoleWatched
  <2>3. CASE Head(raw).t = "fec"
    <3>1. Head(raw) \in Frames /\ Len(raw') = Len(raw) - 1 /\ Head(raw) = raw[1]
      BY <2>1, SeqFacts DEF Types, TrackTypes
    <3>2. \A i \in DOMAIN raw : raw[i].t # "fec" => i - 1 \in DOMAIN raw' /\ raw'[i - 1] = raw[i]
      BY <2>1, <2>3, <3>1 DEF Types, TrackTypes
    <3>3. readCh # <<>> => readCh' # <<>>
      <4>1. HandleFEC(Head(raw))
        BY <1>4, <2>3 DEF HandleRaw
      <4>2. readCh' = readCh \/ \E c \in Chunks : readCh' = Append(readCh, c)
        BY <2>3, <3>1, <4>1, FECTypes
      <4>. QED
        BY <4>2 DEF Types, AsmTypes
    <3>. QED
      BY <2>1, <3>2, <3>3 DEF HoleWatched, HasBufferedAhead, Complete
  <2>. QED
    BY <2>2, <2>3
<1>5. CASE Reassemble \/ Look \/ Deliver
  BY <1>5 DEF Reassemble, Look, Deliver, At, HoleWatched
<1>6. CASE SetTimer
  BY <1>6 DEF SetTimer, TimerAfter, HoleWatched, HasBufferedAhead, Complete
<1>7. CASE StallFires
  <2>1. \/ asm'.at = "look"
        \/ UNCHANGED <<asm, reassembly, nextRead, stall, readCh, raw>>
    <3>1. CASE Complete(reassembly, nextRead)
      <4>1. asm' = At("look", 0)
        BY <1>7, <3>1, Zenon DEF StallFires
      <4>. QED
        BY <4>1 DEF At
    <3>2. CASE ~Complete(reassembly, nextRead)
      BY <1>7, <3>2 DEF StallFires
    <3>. QED
      BY <3>1, <3>2
  <2>. QED
    BY <1>1, <2>1 DEF HoleWatched
<1>8. \/ UNCHANGED <<asm, reassembly, nextRead, stall, readCh, raw>>
      \/ \E t \in Tracks : LockTrack(t)
      \/ \E t \in Tracks, p \in net : HandleTrack(t, p)
      \/ HandleRaw \/ Reassemble \/ Look \/ Deliver \/ SetTimer \/ StallFires
  BY DEF Next, Write, SendChunk, HandleNACK, NACKLost, TrackCloses, SendNACK, asmVars, vars
<1>. QED
  BY <1>1, <1>2, <1>3, <1>4, <1>5, <1>6, <1>7, <1>8

\* A hole that holds back later writes never goes unwatched, even when a lock
\* moves nextReadSeq under reassemblyLoop and uncovers it: what HoleEnds needs
\* besides fairness.
THEOREM HolesWatched == Spec => []HoleWatched
<1>1. Init => HoleWatched
  BY DEF Init, HoleWatched, HasBufferedAhead
<1>. QED
  BY <1>1, InitTypes, NextTypes, NextWatched, PTL DEF Spec

-----------------------------------------------------------------------------
(* Forward error correction.                                               *)

\* A parity packet of different chunks, of which the decoder lacks one and holds
\* the others as they were sent, gives back the missing one: it is kept under
\* its packet number, is no gap any more, and goes to the reassembly.
THEOREM RecoveryExact ==
    ASSUME NEW p, NEW f,
           p.xor = {f[s] : s \in Members(p)},
           \A s, t \in Members(p) : f[s] = f[t] => s = t,
           \A s \in Members(p) \cap DOMAIN pool : pool[s] = f[s],
           NEW m, Members(p) \ DOMAIN pool = {m},
           HandleFEC(p)
    PROVE  pool' = Put(pool, m, f[m]) /\ gaps' = gaps \ {m} /\ readCh' = Append(readCh, f[m])
<1>1. Left(p) = {f[m]}
  <2>. DEFINE have == {pool[s] : s \in Members(p) \cap DOMAIN pool}
  <2>1. have = {f[s] : s \in Members(p) \ {m}}
    OBVIOUS
  <2>2. p.xor \ have = {f[m]} /\ have \ p.xor = {}
    BY <2>1
  <2>. QED
    BY <2>2 DEF Left
<1>2. Cardinality(Left(p)) = 1 /\ Cardinality(Members(p) \ DOMAIN pool) = 1
  BY <1>1, FS_Singleton
<1>3. \E s \in {m}, c \in {f[m]} :
         pool' = Put(pool, s, c) /\ gaps' = gaps \ {s} /\ readCh' = Append(readCh, c)
  BY <1>1, <1>2 DEF HandleFEC, Left
<1>. QED
  BY <1>3

=============================================================================
