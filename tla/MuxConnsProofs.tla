--------------------------- MODULE MuxConnsProofs ---------------------------
(***************************************************************************)
(* Proofs about MuxConns, for any set of connections and reconnecting      *)
(* goroutines, any channel capacity and any owner.                         *)
(*                                                                         *)
(* Argument.  TypeOK alone is not inductive: activeReaders stays a natural *)
(* number only because it counts the readers in their Counted stages, so   *)
(* TypeOK and ReadersCounted are proved together (Counting).  DeathNoticed *)
(* and NoStaleSlot are then inductive relative to TypeOK.                  *)
(***************************************************************************)
EXTENDS MuxConns, FiniteSetTheorems, TLAPS

Readers == {c \in Conns : IsReader(c)}
Begun   == {r \in Reconnectors : rpc[r] = "begun"}

Counting == TypeOK /\ ReadersCounted

\* A finite set that gains one element has one more.
LEMMA CountUp ==
    ASSUME NEW P, NEW Q, NEW x, IsFiniteSet(P), x \notin P, Q = P \cup {x}
    PROVE  Cardinality(P) \in Nat /\ Cardinality(Q) = Cardinality(P) + 1
BY FS_AddElement, FS_CardinalityType

\* A finite set that loses one of its elements has one less, and had one.
LEMMA CountDown ==
    ASSUME NEW P, NEW Q, NEW x, IsFiniteSet(P), x \in P, Q = P \ {x}
    PROVE  /\ Cardinality(P) - 1 \in Nat
           /\ Cardinality(Q) = Cardinality(P) - 1
<1>1. IsFiniteSet(Q) /\ Cardinality(Q) = Cardinality(P) - 1
  BY FS_RemoveElement
<1>. QED
  BY <1>1, FS_CardinalityType

\* Readers and open brackets are finite, as Conns and Reconnectors are.
LEMMA FiniteCounts == IsFiniteSet(Readers) /\ IsFiniteSet(Begun)
<1>1. Readers \in SUBSET Conns /\ Begun \in SUBSET Reconnectors
  BY DEF Readers, Begun
<1>. QED
  BY <1>1, FS_Subset, ConstantsAssumption

\* What AddConn's critical section does to the slots.
LEMMA PlaceFacts ==
    ASSUME NEW c \in Conns, TypeOK, Place(c)
    PROVE  \E k \in Nat \ {0} :
             /\ pc[c] = "fresh"
             /\ pc' = [pc EXCEPT ![c] = "placed"]
             /\ idx' = [idx EXCEPT ![c] = k]
             /\ conns' \in Seq(Conns \cup {NoConn})
             /\ DOMAIN conns' = DOMAIN conns \cup {k}
             /\ conns'[k] = c
             /\ k \in DOMAIN conns => conns[k] = NoConn
             /\ \A i \in DOMAIN conns : i # k => conns'[i] = conns[i]
<1>1. ASSUME NEW i \in NilSlots,
             conns' = [conns EXCEPT ![i] = c],
             idx' = [idx EXCEPT ![c] = i]
      PROVE  /\ i \in Nat \ {0} /\ i \in DOMAIN conns /\ conns[i] = NoConn
             /\ conns' \in Seq(Conns \cup {NoConn})
             /\ DOMAIN conns' = DOMAIN conns
             /\ conns'[i] = c
             /\ \A j \in DOMAIN conns : j # i => conns'[j] = conns[j]
  BY <1>1 DEF NilSlots, TypeOK
<1>2. ASSUME conns' = Append(conns, c)
      PROVE  /\ Len(conns) + 1 \in Nat \ {0}
             /\ conns' \in Seq(Conns \cup {NoConn})
             /\ DOMAIN conns' = DOMAIN conns \cup {Len(conns) + 1}
             /\ conns'[Len(conns) + 1] = c
             /\ Len(conns) + 1 \notin DOMAIN conns
             /\ \A j \in DOMAIN conns : conns'[j] = conns[j]
  BY <1>2 DEF TypeOK
<1>3. CASE \E i \in NilSlots : /\ conns' = [conns EXCEPT ![i] = c]
                              /\ idx' = [idx EXCEPT ![c] = i]
  <2>1. PICK i \in NilSlots : /\ conns' = [conns EXCEPT ![i] = c]
                              /\ idx' = [idx EXCEPT ![c] = i]
    BY <1>3
  <2>. WITNESS i \in Nat \ {0}
  <2>. QED
    BY <2>1, <1>1 DEF Place
<1>4. CASE conns' = Append(conns, c) /\ idx' = [idx EXCEPT ![c] = Len(conns) + 1]
  <2>1. Len(conns) + 1 \in Nat \ {0}
    BY <1>2, <1>4
  <2>. WITNESS Len(conns) + 1 \in Nat \ {0}
  <2>. QED
    BY <1>2, <1>4 DEF Place
<1>. QED
  BY <1>3, <1>4 DEF Place

\* RemoveConn's write leaves a sequence of slots of the same length, in which
\* every other slot is as before.
LEMMA ClearSlotFacts ==
    ASSUME TypeOK, NEW i \in Nat, ClearSlot(i)
    PROVE  /\ conns' \in Seq(Conns \cup {NoConn})
           /\ DOMAIN conns' = DOMAIN conns
           /\ i \in DOMAIN conns => conns'[i] = NoConn
           /\ \A j \in DOMAIN conns : j # i => conns'[j] = conns[j]
<1>1. CASE i \in DOMAIN conns
  BY <1>1 DEF ClearSlot, TypeOK
<1>2. CASE i \notin DOMAIN conns
  BY <1>2 DEF ClearSlot, TypeOK
<1>. QED
  BY <1>1, <1>2

-----------------------------------------------------------------------------
\* Initially no reader and no bracket exist.
LEMMA InitCounting == Init => Counting
<1>. SUFFICES ASSUME Init PROVE Counting
  OBVIOUS
<1>0. conns \in Seq(Conns \cup {NoConn}) /\ connDied \in Seq(Nat)
  BY DEF Init
<1>1. TypeOK
  BY <1>0 DEF Init, TypeOK, Stages, RStages
<1>2. Readers = {} /\ Begun = {}
  BY DEF Init, Readers, Begun, IsReader, Counted
<1>. QED
  BY <1>1, <1>2, FS_EmptySet DEF Counting, ReadersCounted, Readers, Begun, Init

\* A step that moves no connection into or out of a Counted stage, opens or
\* closes no bracket and leaves the counters alone preserves ReadersCounted.
LEMMA SameCounts ==
    ASSUME ReadersCounted, Readers' = Readers, Begun' = Begun,
           UNCHANGED <<activeReaders, reconnecting>>
    PROVE  ReadersCounted'
BY DEF ReadersCounted, Readers, Begun

\* The counters follow the goroutines: one case per action.
LEMMA NextCounting == Counting /\ [Next]_vars => Counting'
<1>. SUFFICES ASSUME TypeOK, ReadersCounted, [Next]_vars
              PROVE  TypeOK' /\ ReadersCounted'
  BY DEF Counting
<1>. USE DEF connVars, readVars, ownerVars
<1>1. ASSUME NEW c \in Conns, AddConn(c)
      PROVE  TypeOK' /\ ReadersCounted'
  <2>1. PICK k \in Nat \ {0} :
             /\ pc[c] = "fresh"
             /\ pc' = [pc EXCEPT ![c] = "placed"]
             /\ idx' = [idx EXCEPT ![c] = k]
             /\ conns' \in Seq(Conns \cup {NoConn})
    BY <1>1, PlaceFacts DEF AddConn
  <2>2. TypeOK'
    BY <1>1, <2>1 DEF AddConn, TypeOK, Stages
  <2>3. Readers' = Readers /\ Begun' = Begun
    BY <1>1, <2>1 DEF AddConn, TypeOK, Readers, Begun, IsReader, Counted
  <2>. QED
    BY <1>1, <2>2, <2>3, SameCounts DEF AddConn
<1>2. ASSUME NEW c \in Conns, StartReader(c)
      PROVE  TypeOK' /\ ReadersCounted'
  <2>1. TypeOK'
    BY <1>2 DEF StartReader, TypeOK, Stages
  <2>2. c \notin Readers /\ Readers' = Readers \cup {c} /\ Begun' = Begun
    BY <1>2 DEF StartReader, TypeOK, Readers, Begun, IsReader, Counted
  <2>3. Cardinality(Readers') = Cardinality(Readers) + 1
    BY <2>2, CountUp, FiniteCounts
  <2>. QED
    BY <1>2, <2>1, <2>2, <2>3 DEF StartReader, ReadersCounted, Readers, Begun
<1>3. ASSUME NEW c \in Conns, LeaveLoop(c)
      PROVE  TypeOK' /\ ReadersCounted'
  <2>1. TypeOK'
    BY <1>3 DEF LeaveLoop, TypeOK, Stages
  <2>2. Readers' = Readers /\ Begun' = Begun
    BY <1>3 DEF LeaveLoop, TypeOK, Readers, Begun, IsReader, Counted
  <2>. QED
    BY <1>3, <2>1, <2>2, SameCounts DEF LeaveLoop
<1>4. ASSUME NEW c \in Conns, ReaderRemoves(c)
      PROVE  TypeOK' /\ ReadersCounted'
  <2>0. idx[c] \in Nat /\ ClearSlot(idx[c])
    BY <1>4 DEF ReaderRemoves, TypeOK
  <2>1. TypeOK'
    BY <1>4, <2>0, ClearSlotFacts DEF ReaderRemoves, TypeOK, Stages
  <2>2. Readers' = Readers /\ Begun' = Begun
    BY <1>4 DEF ReaderRemoves, TypeOK, Readers, Begun, IsReader, Counted
  <2>. QED
    BY <1>4, <2>1, <2>2, SameCounts DEF ReaderRemoves
<1>5. ASSUME NEW c \in Conns, ReaderNotifies(c)
      PROVE  TypeOK' /\ ReadersCounted'
  <2>1. TypeOK'
    BY <1>5 DEF ReaderNotifies, TypeOK, Stages
  <2>2. Readers' = Readers /\ Begun' = Begun
    BY <1>5 DEF ReaderNotifies, TypeOK, Readers, Begun, IsReader, Counted
  <2>. QED
    BY <1>5, <2>1, <2>2, SameCounts DEF ReaderNotifies
<1>6. ASSUME NEW c \in Conns, ReaderLeaves(c)
      PROVE  TypeOK' /\ ReadersCounted'
  <2>1. pc' \in [Conns -> Stages] /\ pc'[c] \notin Counted
        /\ \A d \in Conns : d # c => pc'[d] = pc[d]
    BY <1>6 DEF ReaderLeaves, TypeOK, Stages, Counted
  <2>2. c \in Readers /\ Readers' = Readers \ {c} /\ Begun' = Begun
    BY <1>6, <2>1 DEF ReaderLeaves, TypeOK, Readers, Begun, IsReader, Counted
  <2>3. /\ Cardinality(Readers) - 1 \in Nat
        /\ Cardinality(Readers') = Cardinality(Readers) - 1
    BY <2>2, CountDown, FiniteCounts
  <2>4. activeReaders = Cardinality(Readers)
    BY DEF ReadersCounted, Readers
  <2>5. TypeOK'
    BY <1>6, <2>1, <2>3, <2>4 DEF ReaderLeaves, TypeOK
  <2>. QED
    BY <1>6, <2>2, <2>3, <2>4, <2>5 DEF ReaderLeaves, ReadersCounted, Readers, Begun
<1>7. ASSUME NEW c \in Conns, ReaderChecks(c) \/ ReaderClosesSignals(c)
      PROVE  TypeOK' /\ ReadersCounted'
  <2>1. /\ pc' \in [Conns -> Stages]
        /\ pc[c] \notin Counted /\ pc'[c] \notin Counted
        /\ \A d \in Conns : d # c => pc'[d] = pc[d]
    BY <1>7 DEF ReaderChecks, ReaderClosesSignals, TypeOK, Stages, Counted
  <2>2. TypeOK'
    BY <1>7, <2>1 DEF ReaderChecks, ReaderClosesSignals, CloseSignals, TypeOK
  <2>3. Readers' = Readers /\ Begun' = Begun
    BY <1>7, <2>1 DEF ReaderChecks, ReaderClosesSignals, Readers, Begun, IsReader
  <2>. QED
    BY <1>7, <2>2, <2>3, SameCounts DEF ReaderChecks, ReaderClosesSignals
<1>8. CASE DrainReceive \/ DrainRemoves
  <2>0. DrainReceive => TypeOK'
    BY DEF DrainReceive, TypeOK
  <2>1. DrainRemoves => TypeOK'
    <3>1. drainIdx \in Nat
      BY DEF TypeOK
    <3>. QED
      BY <3>1, ClearSlotFacts DEF DrainRemoves, TypeOK
  <2>2. Readers' = Readers /\ Begun' = Begun
    BY <1>8 DEF DrainReceive, DrainRemoves, Readers, Begun, IsReader
  <2>. QED
    BY <1>8, <2>0, <2>1, <2>2, SameCounts DEF DrainReceive, DrainRemoves
<1>9. ASSUME NEW r \in Reconnectors, BeginReconnect(r)
      PROVE  TypeOK' /\ ReadersCounted'
  <2>1. TypeOK'
    BY <1>9 DEF BeginReconnect, TypeOK, RStages
  <2>2. r \notin Begun /\ Begun' = Begun \cup {r} /\ Readers' = Readers
    BY <1>9 DEF BeginReconnect, TypeOK, Readers, Begun, IsReader
  <2>3. Cardinality(Begun') = Cardinality(Begun) + 1
    BY <2>2, CountUp, FiniteCounts
  <2>. QED
    BY <1>9, <2>1, <2>2, <2>3 DEF BeginReconnect, ReadersCounted, Readers, Begun
<1>10. ASSUME NEW r \in Reconnectors, NEW c \in Conns, ReconnectAdds(r, c)
       PROVE  TypeOK' /\ ReadersCounted'
  <2>1. PICK k \in Nat \ {0} :
             /\ pc[c] = "fresh"
             /\ pc' = [pc EXCEPT ![c] = "placed"]
             /\ idx' = [idx EXCEPT ![c] = k]
             /\ conns' \in Seq(Conns \cup {NoConn})
    <3>1. Place(c)
      BY <1>10 DEF ReconnectAdds
    <3>. QED
      BY <3>1, PlaceFacts
  <2>2. TypeOK'
    BY <1>10, <2>1 DEF ReconnectAdds, TypeOK, Stages
  <2>3. Readers' = Readers /\ Begun' = Begun
    BY <1>10, <2>1 DEF ReconnectAdds, TypeOK, Readers, Begun, IsReader, Counted
  <2>. QED
    BY <1>10, <2>2, <2>3, SameCounts DEF ReconnectAdds
<1>11. ASSUME NEW r \in Reconnectors, EndReconnect(r)
       PROVE  TypeOK' /\ ReadersCounted'
  <2>1. rpc' \in [Reconnectors -> RStages] /\ rpc'[r] # "begun"
        /\ \A q \in Reconnectors : q # r => rpc'[q] = rpc[q]
    BY <1>11 DEF EndReconnect, TypeOK, RStages
  <2>2. r \in Begun /\ Begun' = Begun \ {r} /\ Readers' = Readers
    BY <1>11, <2>1 DEF EndReconnect, TypeOK, Readers, Begun, IsReader
  <2>3. /\ Cardinality(Begun) - 1 \in Nat
        /\ Cardinality(Begun') = Cardinality(Begun) - 1
    BY <2>2, CountDown, FiniteCounts
  <2>4. reconnecting = Cardinality(Begun)
    BY DEF ReadersCounted, Begun
  <2>5. TypeOK'
    BY <1>11, <2>1, <2>3, <2>4 DEF EndReconnect, TypeOK
  <2>. QED
    BY <1>11, <2>2, <2>3, <2>4, <2>5 DEF EndReconnect, ReadersCounted, Readers, Begun
<1>12. ASSUME NEW r \in Reconnectors, EndChecks(r) \/ EndClosesSignals(r)
       PROVE  TypeOK' /\ ReadersCounted'
  <2>1. /\ rpc' \in [Reconnectors -> RStages]
        /\ rpc[r] # "begun" /\ rpc'[r] # "begun"
        /\ \A q \in Reconnectors : q # r => rpc'[q] = rpc[q]
    BY <1>12 DEF EndChecks, EndClosesSignals, TypeOK, RStages
  <2>2. TypeOK'
    BY <1>12, <2>1 DEF EndChecks, EndClosesSignals, CloseSignals, TypeOK
  <2>3. Readers' = Readers /\ Begun' = Begun
    BY <1>12, <2>1 DEF EndChecks, EndClosesSignals, Readers, Begun, IsReader
  <2>. QED
    BY <1>12, <2>2, <2>3, SameCounts DEF EndChecks, EndClosesSignals
<1>13. InSlots \subseteq Conns
  BY DEF InSlots, TypeOK
<1>14. CASE \/ \E c \in Conns : ChooseOldest(c) \/ CloseConn(c)
            \/ CloseOldest \/ CloseBegins \/ CloseSnapshots \/ CloseReturns
  <2>1. TypeOK'
    BY <1>13, <1>14 DEF ChooseOldest, CloseConn, CloseOldest, CloseBegins,
                        CloseSnapshots, CloseReturns, TypeOK
  <2>2. UNCHANGED <<pc, rpc, activeReaders, reconnecting>>
    BY <1>14 DEF ChooseOldest, CloseConn, CloseOldest, CloseBegins,
                 CloseSnapshots, CloseReturns
  <2>3. Readers' = Readers /\ Begun' = Begun
    BY <2>2 DEF Readers, Begun, IsReader
  <2>. QED
    BY <2>1, <2>2, <2>3, SameCounts
<1>15. CASE UNCHANGED vars
  <2>1. TypeOK'
    BY <1>15 DEF vars, TypeOK
  <2>2. Readers' = Readers /\ Begun' = Begun
    BY <1>15 DEF vars, Readers, Begun, IsReader
  <2>. QED
    BY <1>15, <2>1, <2>2, SameCounts DEF vars
<1>. QED
  BY <1>1, <1>2, <1>3, <1>4, <1>5, <1>6, <1>7, <1>8, <1>9, <1>10, <1>11,
     <1>12, <1>14, <1>15
     DEF Next, ReaderStep, ReconnectorStep, CloserStep, PeerFails,
         ReadAfterClose, FrameRejected

\* ActiveConns() and the reconnecting counter always equal the number of
\* readLoop goroutines and open reconnect brackets they stand for; in
\* particular neither underflows (readLoop, AddConn, Begin/EndReconnect).
THEOREM CountersExact == Spec => [](TypeOK /\ ReadersCounted)
<1>1. Counting => TypeOK /\ ReadersCounted
  BY DEF Counting
<1>. QED
  BY <1>1, InitCounting, NextCounting, PTL DEF Spec

-----------------------------------------------------------------------------
\* The Dekker-like argument of readLoop's exit and EndReconnect: whoever makes
\* the second of the two counters zero is itself between its decrement and the
\* close, and it gives up only if it sees the other counter above zero.
LEMMA NextDeathNoticed == TypeOK /\ DeathNoticed /\ [Next]_vars => DeathNoticed'
<1>. SUFFICES ASSUME TypeOK, DeathNoticed, [Next]_vars
              PROVE  DeathNoticed'
  OBVIOUS
<1>. USE DEF connVars, readVars, ownerVars, DeathNoticed, DeathBeingChecked
<1>1. ASSUME NEW c \in Conns, Place(c),
             UNCHANGED <<readVars, reconnecting, rpc>>
      PROVE  DeathNoticed'
  <2>1. pc[c] = "fresh" /\ pc' = [pc EXCEPT ![c] = "placed"]
    BY <1>1 DEF Place
  <2>. QED
    BY <1>1, <2>1 DEF TypeOK
<1>2. ASSUME NEW c \in Conns, StartReader(c)
      PROVE  DeathNoticed'
  BY <1>2 DEF StartReader, TypeOK
<1>3. ASSUME NEW c \in Conns, LeaveLoop(c) \/ ReaderRemoves(c) \/ ReaderNotifies(c)
      PROVE  DeathNoticed'
  BY <1>3 DEF LeaveLoop, ReaderRemoves, ReaderNotifies, TypeOK
<1>4. ASSUME NEW c \in Conns, ReaderLeaves(c)
      PROVE  DeathNoticed'
  BY <1>4 DEF ReaderLeaves, TypeOK
<1>5. ASSUME NEW c \in Conns, ReaderChecks(c) \/ ReaderClosesSignals(c)
      PROVE  DeathNoticed'
  BY <1>5 DEF ReaderChecks, ReaderClosesSignals, CloseSignals, TypeOK
<1>6. ASSUME NEW r \in Reconnectors,
             BeginReconnect(r) \/ EndReconnect(r) \/ EndChecks(r) \/ EndClosesSignals(r)
      PROVE  DeathNoticed'
  BY <1>6 DEF BeginReconnect, EndReconnect, EndChecks, EndClosesSignals,
              CloseSignals, TypeOK
<1>7. CASE \/ DrainReceive \/ DrainRemoves
           \/ \E c \in Conns : ChooseOldest(c) \/ CloseConn(c)
           \/ CloseOldest \/ CloseBegins \/ CloseSnapshots \/ CloseReturns
           \/ UNCHANGED vars
  <2>1. /\ UNCHANGED <<pc, rpc, activeReaders, reconnecting, allDead>>
        /\ inFramesClosed => inFramesClosed'
    BY <1>7 DEF DrainReceive, DrainRemoves, ChooseOldest, CloseConn, CloseOldest,
                CloseBegins, CloseSnapshots, CloseReturns, vars
  <2>. QED
    BY <2>1
<1>. QED
  BY <1>1, <1>2, <1>3, <1>4, <1>5, <1>6, <1>7
     DEF Next, ReaderStep, ReconnectorStep, CloserStep, PeerFails, AddConn,
         ReconnectAdds, ReadAfterClose, FrameRejected

\* The owner waiting on Dead() is never left behind: when the last reader has
\* gone and no reconnect is pending, allDead and inFrames are closed or about
\* to be, whatever the interleaving of exits, AddConn and EndReconnect.
THEOREM DeathNeverMissed == Spec => []DeathNoticed
<1>1. Init => DeathNoticed
  BY DEF Init, DeathNoticed
<1>. QED
  BY <1>1, NextDeathNoticed, CountersExact, PTL DEF Spec

-----------------------------------------------------------------------------
\* A step that only clears slots, or leaves them, and moves no slotted
\* connection preserves NoStaleSlot.
LEMMA NextNoStaleSlot == TypeOK /\ NoStaleSlot /\ [Next]_vars => NoStaleSlot'
<1>. SUFFICES ASSUME TypeOK, NoStaleSlot, [Next]_vars
              PROVE  NoStaleSlot'
  OBVIOUS
<1>. USE DEF connVars, readVars, ownerVars, NoStaleSlot
<1>1. ASSUME NEW c \in Conns, Place(c)
      PROVE  NoStaleSlot'
  <2>1. PICK k \in Nat \ {0} :
             /\ pc[c] = "fresh"
             /\ pc' = [pc EXCEPT ![c] = "placed"]
             /\ idx' = [idx EXCEPT ![c] = k]
             /\ DOMAIN conns' = DOMAIN conns \cup {k}
             /\ conns'[k] = c
             /\ \A i \in DOMAIN conns : i # k => conns'[i] = conns[i]
    BY <1>1, PlaceFacts
  <2>2. \A i \in DOMAIN conns : conns[i] # c
    BY <2>1, ConstantsAssumption DEF Slotted
  <2>3. pc'[c] \in Slotted /\ idx'[c] = k
    BY <2>1 DEF TypeOK, Slotted
  <2>4. \A i \in DOMAIN conns : conns[i] \in Conns \cup {NoConn}
    BY DEF TypeOK
  <2>5. \A d \in Conns : d # c => pc'[d] = pc[d] /\ idx'[d] = idx[d]
    BY <2>1 DEF TypeOK
  <2>6. ASSUME NEW i \in DOMAIN conns', conns'[i] # NoConn
        PROVE  pc'[conns'[i]] \in Slotted /\ idx'[conns'[i]] = i
    <3>1. CASE i = k
      BY <3>1, <2>1, <2>3
    <3>2. CASE i # k
      <4>1. i \in DOMAIN conns /\ conns'[i] = conns[i]
        BY <3>2, <2>1
      <4>2. conns[i] \in Conns /\ conns[i] # c
        BY <4>1, <2>2, <2>4, <2>6
      <4>. QED
        BY <4>1, <4>2, <2>5, <2>6
    <3>. QED
      BY <3>1, <3>2
  <2>. QED
    BY <2>6
<1>2. ASSUME NEW c \in Conns, StartReader(c) \/ LeaveLoop(c)
      PROVE  NoStaleSlot'
  <2>1. PICK s \in Slotted : pc' = [pc EXCEPT ![c] = s]
    BY <1>2 DEF StartReader, LeaveLoop, Slotted
  <2>2. conns' = conns /\ idx' = idx
    BY <1>2 DEF StartReader, LeaveLoop
  <2>. QED
    BY <2>1, <2>2 DEF TypeOK
<1>3. ASSUME NEW c \in Conns, ReaderRemoves(c)
      PROVE  NoStaleSlot'
  <2>1. idx[c] \in Nat /\ ClearSlot(idx[c])
    BY <1>3 DEF ReaderRemoves, TypeOK
  <2>2. pc' = [pc EXCEPT ![c] = "removed"] /\ idx' = idx
    BY <1>3 DEF ReaderRemoves
  <2>3. ASSUME NEW i \in DOMAIN conns', conns'[i] # NoConn
        PROVE  pc'[conns'[i]] \in Slotted /\ idx'[conns'[i]] = i
    <3>1. i \in DOMAIN conns /\ i # idx[c] /\ conns'[i] = conns[i]
      BY <2>1, <2>3, ClearSlotFacts
    <3>2. conns[i] \in Conns /\ conns[i] # c
      BY <2>3, <3>1 DEF TypeOK
    <3>. QED
      BY <2>2, <2>3, <3>1, <3>2 DEF TypeOK
  <2>. QED
    BY <2>3
<1>4. ASSUME NEW c \in Conns, pc[c] \notin Slotted, UNCHANGED <<conns, idx>>,
             NEW s \in Stages, pc' = [pc EXCEPT ![c] = s]
      PROVE  NoStaleSlot'
  BY <1>4 DEF TypeOK
<1>5. ASSUME NEW c \in Conns, \/ ReaderNotifies(c) \/ ReaderLeaves(c)
                              \/ ReaderChecks(c) \/ ReaderClosesSignals(c)
      PROVE  NoStaleSlot'
  <2>1. PICK s \in Stages : pc' = [pc EXCEPT ![c] = s]
    BY <1>5 DEF ReaderNotifies, ReaderLeaves, ReaderChecks, ReaderClosesSignals, Stages
  <2>2. pc[c] \notin Slotted /\ UNCHANGED <<conns, idx>>
    BY <1>5 DEF ReaderNotifies, ReaderLeaves, ReaderChecks, ReaderClosesSignals, Slotted
  <2>. QED
    BY <2>1, <2>2, <1>4
<1>6. CASE DrainRemoves
  <2>1. drainIdx \in Nat /\ ClearSlot(drainIdx) /\ UNCHANGED <<pc, idx>>
    BY <1>6 DEF DrainRemoves, TypeOK
  <2>. QED
    BY <2>1, ClearSlotFacts
<1>7. CASE UNCHANGED <<conns, pc, idx>>
  BY <1>7
<1>8. \/ \E c \in Conns : \/ Place(c) \/ StartReader(c) \/ LeaveLoop(c)
                          \/ ReaderRemoves(c) \/ ReaderNotifies(c) \/ ReaderLeaves(c)
                          \/ ReaderChecks(c) \/ ReaderClosesSignals(c)
      \/ DrainRemoves
      \/ UNCHANGED <<conns, pc, idx>>
  BY DEF Next, ReaderStep, ReconnectorStep, CloserStep, PeerFails, AddConn,
         ReconnectAdds, ReadAfterClose, FrameRejected, DrainReceive, BeginReconnect,
         EndReconnect, EndChecks, EndClosesSignals, ChooseOldest, CloseOldest,
         CloseBegins, CloseSnapshots, CloseConn, CloseReturns, vars
<1>. QED
  BY <1>1, <1>2, <1>3, <1>5, <1>6, <1>7, <1>8

\* A connection whose reader has run RemoveConn is in no slot, and no
\* connection is in two, even though slots are reused and RemoveConn is called
\* twice for each death when the owner drains ConnDied.
THEOREM SlotsNeverStale == Spec => []NoStaleSlot
<1>1. Init => NoStaleSlot
  <2>1. ASSUME Init PROVE DOMAIN conns = {}
    BY <2>1 DEF Init
  <2>. QED
    BY <2>1 DEF NoStaleSlot
<1>. QED
  BY <1>1, NextNoStaleSlot, CountersExact, PTL DEF Spec

-----------------------------------------------------------------------------
\* Only a connection's own reader can take it out of its slot.
LEMMA NextOwnRemoval == TypeOK /\ LiveConnHasSlot /\ [Next]_vars => LiveConnHasSlot'
<1>. SUFFICES ASSUME TypeOK, LiveConnHasSlot, [Next]_vars, ~drained'
              PROVE  LiveConnHasSlot'
  BY DEF LiveConnHasSlot
<1>0. ~drained
  BY DEF TypeOK, Next, ReaderStep, ReconnectorStep, CloserStep, PeerFails, AddConn,
         ReconnectAdds, ReadAfterClose, FrameRejected, DrainReceive, DrainRemoves,
         BeginReconnect, EndReconnect, EndChecks, EndClosesSignals, ChooseOldest,
         CloseOldest, CloseBegins, CloseSnapshots, CloseConn, CloseReturns, vars,
         StartReader, LeaveLoop, ReaderRemoves, ReaderNotifies, ReaderLeaves,
         ReaderChecks, ReaderClosesSignals, connVars, readVars, ownerVars
<1>. USE DEF connVars, readVars, ownerVars
<1>1. ASSUME NEW c \in Conns, Place(c)
      PROVE  LiveConnHasSlot'
  <2>1. PICK k \in Nat \ {0} :
             /\ pc[c] = "fresh"
             /\ pc' = [pc EXCEPT ![c] = "placed"]
             /\ idx' = [idx EXCEPT ![c] = k]
             /\ DOMAIN conns' = DOMAIN conns \cup {k}
             /\ conns'[k] = c
             /\ k \in DOMAIN conns => conns[k] = NoConn
             /\ \A i \in DOMAIN conns : i # k => conns'[i] = conns[i]
    BY <1>1, PlaceFacts
  <2>2. ASSUME NEW d \in Conns, pc'[d] \in Slotted
        PROVE  idx'[d] \in DOMAIN conns' /\ conns'[idx'[d]] = d
    <3>1. CASE d = c
      BY <3>1, <2>1 DEF TypeOK
    <3>2. CASE d # c
      <4>1. pc[d] \in Slotted /\ idx'[d] = idx[d]
        BY <2>1, <2>2, <3>2 DEF TypeOK
      <4>2. idx[d] \in DOMAIN conns /\ conns[idx[d]] = d
        BY <4>1, <1>0 DEF LiveConnHasSlot
      <4>3. idx[d] # k
        BY <4>2, <2>1, ConstantsAssumption
      <4>. QED
        BY <4>1, <4>2, <4>3, <2>1
    <3>. QED
      BY <3>1, <3>2
  <2>. QED
    BY <2>2 DEF LiveConnHasSlot
<1>2. ASSUME NEW c \in Conns, ReaderRemoves(c)
      PROVE  LiveConnHasSlot'
  <2>1. idx[c] \in Nat /\ ClearSlot(idx[c])
    BY <1>2 DEF ReaderRemoves, TypeOK
  <2>2. pc[c] = "exiting" /\ pc' = [pc EXCEPT ![c] = "removed"] /\ idx' = idx
    BY <1>2 DEF ReaderRemoves
  <2>3. ASSUME NEW d \in Conns, pc'[d] \in Slotted
        PROVE  idx[d] \in DOMAIN conns' /\ conns'[idx[d]] = d
    <3>1. d # c /\ pc[d] \in Slotted
      BY <2>2, <2>3 DEF TypeOK, Slotted
    <3>2. idx[d] \in DOMAIN conns /\ conns[idx[d]] = d /\ conns[idx[c]] = c
      BY <3>1, <2>2, <1>0 DEF LiveConnHasSlot, Slotted
    <3>. QED
      BY <3>1, <3>2, <2>1, ClearSlotFacts
  <2>. QED
    BY <2>2, <2>3 DEF LiveConnHasSlot
<1>3. ASSUME NEW c \in Conns, UNCHANGED <<conns, idx>>, NEW s \in Stages,
             pc' = [pc EXCEPT ![c] = s], s \in Slotted => pc[c] \in Slotted
      PROVE  LiveConnHasSlot'
  BY <1>3, <1>0 DEF TypeOK, LiveConnHasSlot
<1>4. ASSUME NEW c \in Conns,
             \/ StartReader(c) \/ LeaveLoop(c) \/ ReaderNotifies(c)
             \/ ReaderLeaves(c) \/ ReaderChecks(c) \/ ReaderClosesSignals(c)
      PROVE  LiveConnHasSlot'
  <2>1. PICK s \in Stages : /\ pc' = [pc EXCEPT ![c] = s]
                            /\ s \in Slotted => pc[c] \in Slotted
    BY <1>4 DEF StartReader, LeaveLoop, ReaderNotifies, ReaderLeaves,
                ReaderChecks, ReaderClosesSignals, Stages, Slotted
  <2>2. UNCHANGED <<conns, idx>>
    BY <1>4 DEF StartReader, LeaveLoop, ReaderNotifies, ReaderLeaves,
                ReaderChecks, ReaderClosesSignals
  <2>. QED
    BY <2>1, <2>2, <1>3
<1>5. ASSUME UNCHANGED <<conns, pc, idx>>
      PROVE  LiveConnHasSlot'
  <2>1. conns' = conns /\ pc' = pc /\ idx' = idx
    BY <1>5
  <2>. QED
    BY <2>1, <1>0 DEF LiveConnHasSlot
<1>6. \/ \E c \in Conns : \/ Place(c) \/ StartReader(c) \/ LeaveLoop(c)
                          \/ ReaderRemoves(c) \/ ReaderNotifies(c) \/ ReaderLeaves(c)
                          \/ ReaderChecks(c) \/ ReaderClosesSignals(c)
      \/ UNCHANGED <<conns, pc, idx>>
  BY DEF Next, ReaderStep, ReconnectorStep, CloserStep, PeerFails, AddConn,
         ReconnectAdds, ReadAfterClose, FrameRejected, DrainReceive, DrainRemoves,
         BeginReconnect, EndReconnect, EndChecks, EndClosesSignals, ChooseOldest,
         CloseOldest, CloseBegins, CloseSnapshots, CloseConn, CloseReturns, vars,
         StartReader, LeaveLoop, ReaderRemoves, ReaderNotifies, ReaderLeaves,
         ReaderChecks, ReaderClosesSignals
<1>. QED
  BY <1>1, <1>2, <1>4, <1>5, <1>6

\* Until a drain goroutine on ConnDied calls RemoveConn, and so for ever where
\* there is none (direct mode, call pool), every connection from AddConn to its own
\* RemoveConn stays in the slot it was given: slot reuse never drops a live one.
THEOREM SlotsKept == Spec => []LiveConnHasSlot
<1>1. Init => LiveConnHasSlot
  BY DEF Init, LiveConnHasSlot, Slotted
<1>. QED
  BY <1>1, NextOwnRemoval, CountersExact, PTL DEF Spec
=============================================================================
