------------------------ MODULE TelemostPairingProofs ------------------------
(***************************************************************************)
(* Proofs about TelemostPairing, for any number of connections, of server  *)
(* sessions and client runs and of faults.                                 *)
(*                                                                         *)
(* Argument.  What a connection of the server reads comes from the client  *)
(* participant it pinned, and only if that one's session key is the same,  *)
(* so if it has pinned the server's participant.  That this still holds    *)
(* when the session ID is read and accepted, steps of other participants,  *)
(* of later runs and crashes later, is what Received says: the sender does *)
(* not pin anyone else, because a run pins only while it is being set up   *)
(* and writes afterwards, and no later run has its participant IDs.        *)
(***************************************************************************)
EXTENDS TelemostPairing, SequenceTheorems, TLAPS

Runs == 1..MaxStarts

Participants == [st : {"new", "joined", "named", "ghost", "gone"}, peer : Ids \cup {None}]

PartTypes ==
    /\ parts \in [Ids -> Participants]
    /\ faults \in 0..MaxFaults

\* The server's participants are those of its sessions.
SrvTypes ==
    /\ sessions \in 0..MaxStarts
    /\ spc \in {"off", "setup", "wait", "auth", "serve"}
    /\ spc # "off" => sessions # 0
    /\ sst \in [Idx -> {"none", "joined", "set", "pinned", "ready", "failed",
                        "added", "closed"}]
    /\ me \in [Idx -> Ids \cup {None}] /\ speer \in [Idx -> Ids \cup {None}]
    /\ \A i \in Idx : me[i] = None \/ \E n \in Runs : me[i] = SrvId(n, i)
    /\ \A i \in Idx : sst[i] = "joined" => me[i] # None
    /\ upserts \in [Idx -> Seq(Ids)] /\ rx \in [Idx -> -1..MaxStarts]
    /\ turn \in 1..(NumConns + 1) /\ firstSID \in 0..MaxStarts

\* The client's participants are those of its current run.
CliTypes ==
    /\ run \in 0..MaxStarts
    /\ cpc \in {"off", "setup", "find", "probe", "pinned", "send", "up"}
    /\ cpc # "off" => run # 0
    /\ ci \in Idx
    /\ cid \in [Idx -> Ids \cup {None}]
    /\ \A i \in Idx : cid[i] \in {None, CliId(run, i)}
    /\ cpc = "off" => \A i \in Idx : cid[i] = None
    /\ updates \in Seq(SUBSET Ids) /\ cupserts \in Seq(Ids)
    /\ cands \subseteq Ids

Types == PartTypes /\ SrvTypes /\ CliTypes

\* Nothing is read before WaitReady has returned, and what has been read as a
\* session ID came from the participant of that run with the same index, which
\* had pinned this one and will not pin another.
Received ==
    \A j \in Idx : rx[j] # None =>
        /\ sst[j] \in {"ready", "added", "closed"}
        /\ rx[j] # Junk =>
             /\ rx[j] \in 1..run
             /\ speer[j] = CliId(rx[j], j)
             /\ parts[speer[j]].peer = me[j]
             /\ rx[j] = run => cpc \in {"send", "up", "off"}

\* What the connections of the mux have sent is the session ID.
SameSID ==
    \A j \in Idx : Serving(j) => rx[j] \notin {None, Junk} /\ rx[j] = firstSID

IInv == Types /\ Received /\ SameSID

-----------------------------------------------------------------------------
\* A product grows with its factor.
LEMMA ProductMonotone ==
    ASSUME NEW k \in Nat, NEW a \in Int, NEW b \in Int, a <= b
    PROVE  k * a \in Int /\ k * b \in Int /\ k * a <= k * b
<1>1. k * (b - a) >= 0
  BY SMT
<1>. QED
  BY <1>1, SMT

\* Participant IDs are unique to their run, side and index.
LEMMA IdFacts ==
    ASSUME NEW n \in Runs, NEW i \in Idx
    PROVE  /\ SrvId(n, i) \in Ids /\ CliId(n, i) \in Ids
           /\ SrvId(n, i) # None /\ CliId(n, i) # None
           /\ \A k \in Runs, j \in Idx : CliId(n, i) = CliId(k, j) => k = n /\ j = i
           /\ \A k \in Runs, j \in Idx : SrvId(k, j) # CliId(n, i)
<1>. DEFINE M == 2 * NumConns
<1>0. NumConns \in Nat \ {0} /\ MaxStarts \in Nat \ {0} /\ M \in Nat \ {0}
      /\ M = NumConns + NumConns
  BY PairingAssumption
<1>1. n \in Nat \ {0} /\ n <= MaxStarts /\ i \in Nat \ {0} /\ i <= NumConns
  BY <1>0 DEF Runs, Idx
<1>2. /\ M * (n - 1) \in Int /\ 0 <= M * (n - 1)
      /\ M * (n - 1) + M = M * n /\ M * n <= M * MaxStarts
      /\ M * n \in Int /\ M * MaxStarts \in Int
  BY <1>0, <1>1, ProductMonotone
<1>3. /\ SrvId(n, i) = M * (n - 1) + i
      /\ CliId(n, i) = M * (n - 1) + NumConns + i
      /\ Ids = 1..(M * MaxStarts)
  BY DEF SrvId, CliId, Ids
<1>4. SrvId(n, i) \in Ids /\ CliId(n, i) \in Ids
      /\ SrvId(n, i) # None /\ CliId(n, i) # None
  <2>. HIDE DEF M
  <2>. QED
    BY <1>0, <1>1, <1>2, <1>3 DEF None
<1>5. ASSUME NEW k \in Runs, NEW j \in Idx
      PROVE  /\ CliId(n, i) = CliId(k, j) => k = n /\ j = i
             /\ SrvId(k, j) # CliId(n, i)
  <2>1. k \in Nat \ {0} /\ j \in Nat \ {0} /\ j <= NumConns
    BY <1>0 DEF Runs, Idx
  <2>2. /\ SrvId(k, j) = M * (k - 1) + j
        /\ CliId(k, j) = M * (k - 1) + NumConns + j
    BY DEF SrvId, CliId
  <2>3. CASE k = n
    BY <1>0, <1>1, <1>2, <1>3, <2>1, <2>2, <2>3 DEF M
  <2>4. CASE k < n
    <3>1. M * (k - 1) \in Int /\ M * (k - 1) + M <= M * (n - 1)
      <4>1. M * k <= M * (n - 1) /\ M * k = M * (k - 1) + M
        BY <1>0, <1>1, <2>1, <2>4, ProductMonotone
      <4>. QED
        BY <1>0, <2>1, <4>1, ProductMonotone
    <3>. QED
      BY <1>0, <1>1, <1>2, <1>3, <2>1, <2>2, <3>1
  <2>5. CASE n < k
    <3>1. M * (k - 1) \in Int /\ M * (n - 1) + M <= M * (k - 1)
      <4>1. M * n <= M * (k - 1)
        BY <1>0, <1>1, <2>1, <2>5, ProductMonotone
      <4>. QED
        BY <1>0, <1>2, <2>1, <4>1, ProductMonotone
    <3>. QED
      BY <1>0, <1>1, <1>2, <1>3, <2>1, <2>2, <3>1
  <2>. QED
    BY <1>1, <2>1, <2>3, <2>4, <2>5
<1>. QED
  BY <1>4, <1>5

\* The run of a client's participant.
LEMMA RunOfClient ==
    ASSUME NEW n \in Runs, NEW i \in Idx
    PROVE  RunOf(CliId(n, i)) = n
<1>. DEFINE M == 2 * NumConns
            r == NumConns + i - 1
<1>0. NumConns \in Nat \ {0} /\ MaxStarts \in Nat \ {0} /\ M \in Nat \ {0}
      /\ n \in Nat \ {0} /\ i \in 1..NumConns
  BY PairingAssumption DEF Runs, Idx
<1>1. r \in Nat /\ r < M
  BY <1>0
<1>2. CliId(n, i) - 1 = M * (n - 1) + r
  BY <1>0 DEF CliId
<1>3. RunOf(CliId(n, i)) = (CliId(n, i) - 1) \div M + 1
  BY DEF RunOf
<1>. HIDE DEF M, r
<1>4. \A a \in Nat : (M * a + r) \div M = a
  BY <1>0, <1>1
<1>5. n - 1 \in Nat
  BY <1>0
<1>6. (CliId(n, i) - 1) \div M = n - 1
  BY <1>2, <1>4, <1>5
<1>. QED
  BY <1>0, <1>3, <1>6

-----------------------------------------------------------------------------
\* No one's pin changes.
PinsKept == \A p \in Ids : parts'[p].peer = parts[p].peer

\* Joining, naming, leaving and being left behind change no pin.
LEMMA StateChanges ==
    ASSUME PartTypes,
           \/ \E p : Join(p)
           \/ \E p : parts' = [parts EXCEPT ![p].st = "named"]
           \/ \E p : parts' = [parts EXCEPT ![p].st = "gone"]
           \/ \E ids : parts' = Leave(ids) \/ parts' = Abandon(ids)
           \/ UNCHANGED parts
    PROVE  parts' \in [Ids -> Participants] /\ PinsKept
<1>1. ASSUME NEW p, NEW s \in {"joined", "named", "gone"},
             parts' = [parts EXCEPT ![p].st = s]
      PROVE  parts' \in [Ids -> Participants] /\ PinsKept
  <2>1. CASE p \in Ids
    BY <1>1, <2>1 DEF PartTypes, Participants, PinsKept
  <2>2. CASE p \notin Ids
    BY <1>1, <2>2 DEF PartTypes, PinsKept
  <2>. QED
    BY <2>1, <2>2
<1>2. ASSUME NEW ids, parts' = Leave(ids)
      PROVE  parts' \in [Ids -> Participants] /\ PinsKept
  <2>. DEFINE e(q) == IF q \in ids /\ parts[q].st \in {"joined", "named"}
                      THEN [parts[q] EXCEPT !.st = "gone"] ELSE parts[q]
  <2>1. \A q \in Ids : e(q) \in Participants /\ e(q).peer = parts[q].peer
    BY DEF PartTypes, Participants
  <2>2. parts' = [q \in Ids |-> e(q)]
    BY <1>2 DEF Leave, WithState
  <2>. HIDE DEF e
  <2>. QED
    BY <2>1, <2>2 DEF PinsKept
<1>3. ASSUME NEW ids, parts' = Abandon(ids)
      PROVE  parts' \in [Ids -> Participants] /\ PinsKept
  <2>. DEFINE e(q) == IF q \in ids /\ parts[q].st \in {"joined", "named"}
                      THEN [parts[q] EXCEPT !.st = IF @ = "named" THEN "ghost" ELSE "gone"]
                      ELSE parts[q]
  <2>1. \A q \in Ids : e(q) \in Participants /\ e(q).peer = parts[q].peer
    BY DEF PartTypes, Participants
  <2>2. parts' = [q \in Ids |-> e(q)]
    BY <1>3 DEF Abandon
  <2>. HIDE DEF e
  <2>. QED
    BY <2>1, <2>2 DEF PinsKept
<1>4. CASE UNCHANGED parts
  BY <1>4 DEF PartTypes, PinsKept
<1>. QED
  BY <1>1, <1>2, <1>3, <1>4 DEF Join

\* A pin names a participant, and no one else's pin changes.
LEMMA PinFacts ==
    ASSUME PartTypes, NEW p \in Ids, Pin(p)
    PROVE  /\ parts' \in [Ids -> Participants]
           /\ \A q \in Ids : q # cid[ci] => parts'[q].peer = parts[q].peer
<1>1. CASE cid[ci] \in Ids
  BY <1>1 DEF Pin, PartTypes, Participants
<1>2. CASE cid[ci] \notin Ids
  BY <1>2 DEF Pin, PartTypes
<1>. QED
  BY <1>1, <1>2

LEMMA InitTypes == Init => Types
<1>. SUFFICES ASSUME Init PROVE Types
  OBVIOUS
<1>0. NumConns \in Nat \ {0} /\ MaxStarts \in Nat \ {0} /\ MaxFaults \in Nat
  BY PairingAssumption
<1>1. PartTypes
  BY <1>0 DEF Init, PartTypes, Participants
<1>2. SrvTypes
  BY <1>0 DEF Init, SrvTypes, All, None, Idx
<1>3. CliTypes
  <2>1. updates \in Seq(SUBSET Ids) /\ cupserts \in Seq(Ids)
    BY DEF Init
  <2>. QED
    BY <1>0, <2>1 DEF Init, CliTypes, All, None, Idx
<1>. QED
  BY <1>1, <1>2, <1>3 DEF Types

SrvActions ==
    \/ SrvLoop \/ SrvCrash \/ GhostExpires
    \/ \E i \in Idx : SrvStep(i) \/ SrvConnFails(i) \/ ConnDies(i)

LEMMA EndTypes ==
    ASSUME SrvTypes, spc' = "off", sst' = All("none"), me' = All(None),
           speer' = All(None), upserts' = All(<<>>), rx' = All(None),
           turn' = 1, firstSID' = None, UNCHANGED sessions
    PROVE  SrvTypes'
<1>0. NumConns \in Nat \ {0} /\ MaxStarts \in Nat \ {0}
  BY PairingAssumption
<1>1. \A i \in Idx : rx'[i] = None /\ me'[i] = None /\ sst'[i] = "none"
                     /\ upserts'[i] = <<>> /\ speer'[i] = None
  BY DEF All
<1>. QED
  BY <1>0, <1>1 DEF SrvTypes, All, None, Idx

\* A step of the server keeps the types and changes no pin.
LEMMA SrvNextTypes ==
    ASSUME Types, SrvActions
    PROVE  Types' /\ PinsKept
<1>. USE DEF Types, cliVars, srvVars
<1>0. /\ NumConns \in Nat \ {0} /\ MaxStarts \in Nat \ {0} /\ MaxFaults \in Nat
      /\ Idx = 1..NumConns /\ Runs = 1..MaxStarts
  BY PairingAssumption DEF Idx, Runs
<1>a. UNCHANGED cliVars => CliTypes'
  BY DEF CliTypes
<1>b. Fault => faults' \in 0..MaxFaults
  BY <1>0 DEF Fault, PartTypes
<1>c. parts' \in [Ids -> Participants] /\ UNCHANGED faults => PartTypes'
  BY DEF PartTypes
<1>d. parts' \in [Ids -> Participants] /\ faults' \in 0..MaxFaults => PartTypes'
  BY DEF PartTypes
<1>1. CASE SrvStart
  <2>1. SrvTypes'
    BY <1>0, <1>1 DEF SrvStart, SrvTypes, CliTypes
  <2>. QED
    BY <1>1, <2>1, <1>a, <1>c, StateChanges DEF SrvStart
<1>2. ASSUME NEW i \in Idx, SrvJoin(i)
      PROVE  Types' /\ PinsKept
  <2>1. sessions \in Runs
    BY <1>0, <1>2 DEF SrvJoin, SrvTypes
  <2>2. SrvId(sessions, i) \in Ids /\ SrvId(sessions, i) # None
    BY <2>1, IdFacts
  <2>3. me' = [me EXCEPT ![i] = SrvId(sessions, i)]
    BY <1>2 DEF SrvJoin
  <2>4. SrvTypes'
    BY <1>2, <2>1, <2>2, <2>3 DEF SrvJoin, SrvTypes
  <2>. QED
    BY <1>2, <2>4, <1>a, <1>c, StateChanges DEF SrvJoin
<1>3. ASSUME NEW i \in Idx, SrvAnnounce(i)
      PROVE  Types' /\ PinsKept
  <2>1. SrvTypes'
    BY <1>3 DEF SrvAnnounce, SrvTypes
  <2>2. me[i] \in Ids
    BY <1>3 DEF SrvAnnounce, SrvTypes
  <2>3. updates' \in Seq(SUBSET Ids) /\ cupserts' \in Seq(Ids)
    <3>1. {me[i]} \in SUBSET Ids
      BY <2>2
    <3>2. updates \in Seq(SUBSET Ids) /\ cupserts \in Seq(Ids)
      BY DEF CliTypes
    <3>3. CASE UNCHANGED <<updates, cupserts>>
      BY <3>2, <3>3
    <3>4. CASE updates' = Append(updates, {me[i]}) /\ cupserts' = Append(cupserts, me[i])
      BY <2>2, <3>1, <3>2, <3>4, AppendProperties
    <3>. QED
      BY <1>3, <3>3, <3>4 DEF SrvAnnounce
  <2>4. CliTypes'
    BY <1>3, <2>3 DEF SrvAnnounce, CliTypes
  <2>. QED
    BY <1>3, <2>1, <2>4, <1>c, StateChanges DEF SrvAnnounce
<1>4. CASE SrvPhase2
  <2>1. SrvTypes'
    BY <1>4 DEF SrvPhase2, SrvTypes
  <2>. QED
    BY <1>4, <2>1, <1>a, <1>c, StateChanges DEF SrvPhase2
<1>5. ASSUME NEW i \in Idx, SrvFinds(i)
      PROVE  Types' /\ PinsKept
  <2>1. Head(upserts[i]) \in Ids /\ <<>> \in Seq(Ids)
    <3>1. upserts[i] \in Seq(Ids) /\ upserts[i] # <<>>
      BY <1>5 DEF SrvFinds, SrvTypes
    <3>. QED
      BY <3>1
  <2>2. SrvTypes'
    BY <1>5, <2>1 DEF SrvFinds, SrvTypes
  <2>. QED
    BY <1>5, <2>2, <1>a, <1>c, StateChanges DEF SrvFinds
<1>6. ASSUME NEW i \in Idx, SrvReady(i)
      PROVE  Types' /\ PinsKept
  <2>1. SrvTypes'
    BY <1>6 DEF SrvReady, SrvTypes
  <2>. QED
    BY <1>6, <2>1, <1>a, <1>c, StateChanges DEF SrvReady
<1>7. ASSUME NEW i \in Idx, SrvConnFails(i) \/ SrvTrackTimeout(i)
      PROVE  Types' /\ PinsKept
  <2>1. SrvTypes'
    BY <1>7 DEF SrvConnFails, SrvTrackTimeout, SrvGivesUp, SrvTypes
  <2>2. UNCHANGED faults \/ Fault
    BY <1>7 DEF SrvConnFails, SrvTrackTimeout
  <2>3. parts' = Leave({me[i]}) /\ UNCHANGED cliVars
    BY <1>7 DEF SrvConnFails, SrvTrackTimeout, SrvGivesUp
  <2>. QED
    BY <2>1, <2>2, <2>3, <1>a, <1>b, <1>c, <1>d, StateChanges
<1>8. ASSUME EndSession
      PROVE  SrvTypes' /\ CliTypes' /\ \E ids : parts' = Leave(ids)
  BY <1>8, <1>a, EndTypes DEF EndSession
<1>9. CASE SrvCollect
  <2>1. CASE UNCHANGED parts
    <3>1. CASE EndSession
      BY <1>9, <2>1, <3>1, <1>8, <1>c, StateChanges DEF SrvCollect
    <3>2. CASE ~EndSession
      <4>1. SrvTypes'
        BY <1>9, <3>2 DEF SrvCollect, SrvTypes
      <4>. QED
        BY <1>9, <3>2, <4>1, <1>a, <1>c, StateChanges DEF SrvCollect
    <3>. QED
      BY <3>1, <3>2
  <2>2. CASE EndSession
    BY <1>9, <2>2, <1>8, <1>c, StateChanges DEF SrvCollect
  <2>. QED
    BY <1>9, <2>1, <2>2 DEF SrvCollect
<1>10. CASE SrvHandshake
  <2>1. sst' \in [Idx -> {"none", "joined", "set", "pinned", "ready", "failed",
                        "added", "closed"}]
        /\ \A i \in Idx : sst'[i] = "joined" => sst[i] = "joined"
    BY <1>10 DEF SrvHandshake, SrvTypes
  <2>2. firstSID' \in 0..MaxStarts
    BY <1>0, <1>10 DEF SrvHandshake, SrvTypes, Accept, None, Junk
  <2>3. turn' \in 1..(NumConns + 1)
    BY <1>0, <1>10 DEF SrvHandshake, SrvTypes
  <2>4. SrvTypes'
    BY <1>10, <2>1, <2>2, <2>3 DEF SrvHandshake, SrvTypes
  <2>. QED
    BY <1>10, <2>4, <1>a, <1>c, StateChanges DEF SrvHandshake
<1>11. CASE SrvServes
  <2>1. CASE EndSession
    BY <1>11, <2>1, <1>8, <1>c, StateChanges DEF SrvServes
  <2>2. CASE spc' = "serve" /\ turn' = 1
             /\ UNCHANGED <<parts, sessions, sst, me, speer, upserts, rx, firstSID, cliVars>>
    <3>1. SrvTypes'
      BY <1>0, <1>11, <2>2 DEF SrvServes, SrvTypes
    <3>. QED
      BY <1>11, <2>2, <3>1, <1>a, <1>c, StateChanges DEF SrvServes
  <2>. QED
    BY <1>11, <2>1, <2>2 DEF SrvServes
<1>12. ASSUME NEW i \in Idx, ConnDies(i)
       PROVE  Types' /\ PinsKept
  <2>1. SrvTypes'
    BY <1>12 DEF ConnDies, SrvTypes
  <2>. QED
    BY <1>12, <2>1, <1>a, <1>b, <1>d, StateChanges DEF ConnDies
<1>13. CASE SrvDead
  BY <1>13, <1>8, <1>c, StateChanges DEF SrvDead
<1>14. CASE SrvCrash
  <2>1. SrvTypes'
    BY <1>14, EndTypes DEF SrvCrash
  <2>. QED
    BY <1>14, <2>1, <1>a, <1>b, <1>d, StateChanges DEF SrvCrash
<1>15. CASE GhostExpires
  <2>1. SrvTypes'
    BY <1>15 DEF GhostExpires, SrvTypes
  <2>. QED
    BY <1>15, <2>1, <1>a, <1>c, StateChanges DEF GhostExpires
<1>. QED
  BY <1>1, <1>2, <1>3, <1>4, <1>5, <1>6, <1>7, <1>9, <1>10, <1>11, <1>12, <1>13,
     <1>14, <1>15 DEF SrvActions, SrvLoop, SrvStep

CliActions ==
    \/ CliStep \/ CliStart \/ CliConnFails \/ CliExits \/ CliCrash
    \/ \E i \in Idx : CliPings(i)

\* The next index, or the end of the setup: only the client's stage moves.
LEMMA NextIndexFacts ==
    ASSUME CliTypes, cpc \in {"setup", "probe", "find", "pinned"},
           NEW conns, NextIndex(conns)
    PROVE  /\ ci' \in Idx
           /\ cpc' \in {"setup", "send", "off"}
           /\ cpc' = "off" => \A i \in Idx : conns[i] = None
<1>0. NumConns \in Nat \ {0} /\ Idx = 1..NumConns
  BY PairingAssumption DEF Idx
<1>. QED
  BY <1>0 DEF NextIndex, CliTypes

\* A skipped index has no participant.
LEMMA SkipFacts ==
    ASSUME PartTypes, SrvTypes, CliTypes,
           cpc \in {"setup", "probe", "find", "pinned"}, CliSkips, cands' \subseteq Ids
    PROVE  /\ CliTypes' /\ SrvTypes' /\ parts' \in [Ids -> Participants] /\ PinsKept
           /\ cpc' \in {"setup", "send", "off"}
<1>1. /\ ci' \in Idx /\ cpc' \in {"setup", "send", "off"}
      /\ cpc' = "off" => \A i \in Idx : cid'[i] = None
  BY NextIndexFacts DEF CliSkips
<1>2. parts' \in [Ids -> Participants] /\ PinsKept
  BY StateChanges DEF CliSkips
<1>3. updates' \in Seq(SUBSET Ids) /\ cupserts' \in Seq(Ids)
  BY DEF CliSkips, ForgetUpdates
<1>4. CliTypes'
  BY <1>1, <1>3 DEF CliSkips, CliTypes
<1>5. SrvTypes'
  BY DEF CliSkips, SrvTypes, srvVars
<1>. QED
  BY <1>1, <1>2, <1>4, <1>5

\* Where a client receives from: the frames it hears are typed.
LEMMA ReceiveTypes ==
    ASSUME SrvTypes, NEW i \in Idx, NEW what \in -1..MaxStarts, Receive(i, what),
           UNCHANGED <<sessions, spc, sst, me, speer, upserts, turn, firstSID>>
    PROVE  SrvTypes'
<1>1. rx' \in [Idx -> -1..MaxStarts]
  BY DEF Receive, SrvTypes
<1>. QED
  BY <1>1 DEF SrvTypes

\* Pins only change while a participant looks for its peer, and only its own.
OwnPin ==
    /\ cpc \in {"find", "probe"}
    /\ \A q \in Ids : q # cid[ci] => parts'[q].peer = parts[q].peer

\* A step of the client keeps the types; what it may do to the pins.
LEMMA CliNextTypes ==
    ASSUME Types, CliActions
    PROVE  Types' /\ (PinsKept \/ OwnPin)
<1>. USE DEF Types, cliVars, srvVars
<1>0. /\ NumConns \in Nat \ {0} /\ MaxStarts \in Nat \ {0} /\ MaxFaults \in Nat
      /\ Idx = 1..NumConns /\ Runs = 1..MaxStarts
  BY PairingAssumption DEF Idx, Runs
<1>a. UNCHANGED srvVars => SrvTypes'
  BY DEF SrvTypes
<1>b. Fault => faults' \in 0..MaxFaults
  BY <1>0 DEF Fault, PartTypes
<1>c. parts' \in [Ids -> Participants] /\ UNCHANGED faults => PartTypes'
  BY DEF PartTypes
<1>d. parts' \in [Ids -> Participants] /\ faults' \in 0..MaxFaults => PartTypes'
  BY DEF PartTypes
<1>e. <<>> \in Seq(SUBSET Ids) /\ <<>> \in Seq(Ids)
  OBVIOUS
<1>f. /\ updates # <<>> => Head(updates) \in SUBSET Ids /\ Tail(updates) \in Seq(SUBSET Ids)
      /\ cupserts # <<>> => Head(cupserts) \in Ids
  BY DEF CliTypes
<1>1. CASE CliStart
  <2>1. CliTypes'
    BY <1>0, <1>1 DEF CliStart, CliTypes, SrvTypes
  <2>. QED
    BY <1>1, <2>1, <1>a, <1>c, StateChanges DEF CliStart
<1>2. CASE CliJoin
  <2>1. run \in Runs /\ ci \in Idx
    BY <1>0, <1>2 DEF CliJoin, CliTypes
  <2>2. CliId(run, ci) \in Ids /\ cid' = [cid EXCEPT ![ci] = CliId(run, ci)]
    BY <1>2, <2>1, IdFacts DEF CliJoin
  <2>3. Named(ci) \in SUBSET Ids
    BY <1>0, <2>1, IdFacts DEF Named, Runs
  <2>4. updates' \in Seq(SUBSET Ids) /\ cupserts' \in Seq(Ids)
    BY <1>2, <2>3, <1>e DEF CliJoin
  <2>5. CliTypes'
    BY <1>2, <2>1, <2>2, <2>4 DEF CliJoin, CliTypes
  <2>. QED
    BY <1>2, <2>5, <1>a, <1>c, StateChanges DEF CliJoin
<1>3. CASE CliAnnounce
  <2>1. CliTypes'
    BY <1>3 DEF CliAnnounce, CliTypes
  <2>2. cid[ci] \in Ids /\ ci \in Idx
    BY <1>3 DEF CliAnnounce, CliTypes
  <2>3. upserts' \in [Idx -> Seq(Ids)]
    <3>1. Append(upserts[ci], cid[ci]) \in Seq(Ids)
      BY <2>2 DEF SrvTypes
    <3>. QED
      BY <1>3, <2>2, <3>1 DEF CliAnnounce, SrvTypes
  <2>4. SrvTypes'
    BY <1>3, <2>3 DEF CliAnnounce, SrvTypes
  <2>. QED
    BY <1>3, <2>1, <2>4, <1>c, StateChanges DEF CliAnnounce
<1>4. CASE CliFindsListed
  <2>1. CliTypes'
    BY <1>4, <1>e, <1>f DEF CliFindsListed, ForgetUpdates, CliTypes
  <2>2. CASE UNCHANGED parts
    BY <1>4, <2>1, <2>2, <1>a, <1>c, StateChanges DEF CliFindsListed
  <2>3. CASE \E p \in Head(updates) : Pin(p)
    <3>1. PICK p \in Ids : Pin(p)
      BY <1>4, <2>3, <1>f DEF CliFindsListed
    <3>2. parts' \in [Ids -> Participants] /\ OwnPin
      BY <1>4, <3>1, PinFacts DEF CliFindsListed, OwnPin
    <3>. QED
      BY <1>4, <2>1, <3>2, <1>a, <1>c DEF CliFindsListed
  <2>. QED
    BY <1>4, <2>2, <2>3 DEF CliFindsListed
<1>5. CASE CliFindsFresh
  <2>1. CliTypes'
    BY <1>5, <1>e DEF CliFindsFresh, ForgetUpdates, CliTypes
  <2>2. parts' \in [Ids -> Participants] /\ OwnPin
    BY <1>5, <1>f, PinFacts DEF CliFindsFresh, OwnPin
  <2>. QED
    BY <1>5, <2>1, <2>2, <1>a, <1>c DEF CliFindsFresh
<1>6. CASE CliReady
  <2>1. /\ ci' \in Idx /\ cpc' \in {"setup", "send", "off"}
        /\ cpc' = "off" => \A i \in Idx : cid[i] = None
    BY <1>6, NextIndexFacts DEF CliReady
  <2>2. CliTypes'
    BY <1>6, <2>1 DEF CliReady, CliTypes
  <2>. QED
    BY <1>6, <2>2, <1>a, <1>c, StateChanges DEF CliReady
<1>7. CASE CliProbe
  <2>1. PICK p \in cands :
          /\ cands' = cands \ {p}
          /\ IF cands = {p} THEN CliSkips
             ELSE Pin(p) /\ UNCHANGED <<srvVars, run, cpc, ci, cid, updates, cupserts>>
    BY <1>7 DEF CliProbe
  <2>2. p \in Ids /\ cands' \subseteq Ids
    BY <2>1 DEF CliTypes
  <2>3. CASE cands = {p}
    BY <1>7, <2>1, <2>2, <2>3, <1>c, SkipFacts DEF CliProbe
  <2>4. CASE cands # {p}
    <3>1. CliTypes'
      BY <2>1, <2>2, <2>4 DEF CliTypes
    <3>2. parts' \in [Ids -> Participants] /\ OwnPin
      BY <1>7, <2>1, <2>2, <2>4, PinFacts DEF CliProbe, OwnPin
    <3>. QED
      BY <1>7, <2>1, <2>4, <3>1, <3>2, <1>a, <1>c DEF CliProbe
  <2>. QED
    BY <2>3, <2>4
<1>8. CASE CliTrackTimeout
  <2>1. cands' \subseteq Ids
    BY <1>8 DEF CliTrackTimeout, CliTypes
  <2>. QED
    BY <1>8, <2>1, <1>c, SkipFacts DEF CliTrackTimeout
<1>9. CASE CliConnFails
  <2>1. cands' \subseteq Ids
    BY <1>9 DEF CliConnFails, CliTypes
  <2>. QED
    BY <1>9, <2>1, <1>b, <1>d, SkipFacts DEF CliConnFails
<1>10. CASE CliSend
  <2>1. ci \in Idx /\ run \in -1..MaxStarts
    BY <1>0 DEF CliTypes
  <2>2. SrvTypes'
    BY <1>10, <2>1, ReceiveTypes DEF CliSend
  <2>3. CliTypes'
    BY <1>0, <1>10, <2>1 DEF CliSend, CliTypes
  <2>. QED
    BY <1>10, <2>2, <2>3, <1>c, StateChanges DEF CliSend
<1>11. ASSUME NEW i \in Idx, CliPings(i)
       PROVE  Types' /\ (PinsKept \/ OwnPin)
  <2>1. Junk \in -1..MaxStarts
    BY <1>0 DEF Junk
  <2>2. SrvTypes'
    BY <1>11, <2>1, ReceiveTypes DEF CliPings
  <2>3. CliTypes'
    BY <1>11 DEF CliPings, CliTypes
  <2>. QED
    BY <1>11, <2>2, <2>3, <1>c, StateChanges DEF CliPings
<1>12. CASE CliExits \/ CliCrash
  <2>1. CliTypes'
    <3>1. CliStops
      BY <1>12 DEF CliExits, CliCrash
    <3>2. /\ cid' = [i \in Idx |-> None] /\ cpc' = "off" /\ ci' = 1 /\ run' = run
          /\ updates' = <<>> /\ cupserts' = <<>> /\ cands' = {}
      BY <3>1 DEF CliStops, ForgetUpdates, All
    <3>. QED
      BY <1>0, <1>e, <3>2 DEF CliTypes
  <2>2. \E ids : parts' = Leave(ids) \/ parts' = Abandon(ids)
    BY <1>12 DEF CliExits, CliCrash
  <2>3. UNCHANGED <<faults, srvVars>>
    BY <1>12 DEF CliExits, CliCrash, CliStops
  <2>. QED
    BY <2>1, <2>2, <2>3, <1>a, <1>c, StateChanges
<1>. QED
  BY <1>1, <1>2, <1>3, <1>4, <1>5, <1>6, <1>7, <1>8, <1>9, <1>10, <1>11, <1>12
     DEF CliActions, CliStep

-----------------------------------------------------------------------------
\* The sender of a session ID that has been read is a participant of its run.
LEMMA SenderFacts ==
    ASSUME Types, Received, NEW j \in Idx, rx[j] \notin {None, Junk}
    PROVE  rx[j] \in Runs /\ rx[j] \in 1..run /\ speer[j] = CliId(rx[j], j) /\ speer[j] \in Ids
<1>1. rx[j] \in 1..run /\ speer[j] = CliId(rx[j], j) /\ run \in 0..MaxStarts
  BY DEF Received, Types, CliTypes
<1>2. rx[j] \in Runs
  BY <1>1, PairingAssumption DEF Runs
<1>. QED
  BY <1>1, <1>2, IdFacts

\* A step that keeps the pins and disturbs no connection that has read
\* something keeps what is known of it.
LEMMA ReceivedStable ==
    ASSUME Types, Received, PinsKept, UNCHANGED <<run, rx>>,
           cpc \in {"send", "up", "off"} => cpc' \in {"send", "up", "off"},
           \A j \in Idx : rx[j] # None =>
              /\ sst'[j] \in {"ready", "added", "closed"}
              /\ me'[j] = me[j] /\ speer'[j] = speer[j]
    PROVE  Received'
<1>1. ASSUME NEW j \in Idx, rx[j] \notin {None, Junk}
      PROVE  parts'[speer'[j]].peer = me'[j]
  BY <1>1, SenderFacts DEF PinsKept, Received
<1>. QED
  BY <1>1 DEF Received, None, Junk

\* The server's steps: a connection is found and joined before it reads, and
\* the end of a session forgets what was read.
LEMMA SrvReceived ==
    ASSUME Types, Received, SrvActions
    PROVE  Received'
<1>. USE DEF cliVars, srvVars
<1>0. PinsKept
  BY SrvNextTypes
<1>1. ASSUME rx' = All(None)
      PROVE  Received'
  BY <1>1 DEF Received, All
<1>2. ASSUME EndSession \/ SrvCrash
      PROVE  Received'
  BY <1>1, <1>2 DEF EndSession, SrvCrash
<1>3. CASE /\ UNCHANGED <<run, cpc, rx>>
           /\ \A j \in Idx : rx[j] # None =>
                /\ sst'[j] \in {"ready", "added", "closed"}
                /\ me'[j] = me[j] /\ speer'[j] = speer[j]
  BY <1>0, <1>3, ReceivedStable
<1>4. ASSUME NEW i \in Idx,
             \/ SrvJoin(i) \/ SrvAnnounce(i) \/ SrvFinds(i) \/ SrvReady(i)
             \/ SrvTrackTimeout(i) \/ SrvConnFails(i)
      PROVE  Received'
  <2>1. /\ sst[i] \notin {"ready", "added", "closed"} /\ UNCHANGED <<run, cpc, rx>>
        /\ \A j \in Idx : j # i => sst'[j] = sst[j] /\ me'[j] = me[j] /\ speer'[j] = speer[j]
    BY <1>4 DEF SrvJoin, SrvAnnounce, SrvFinds, SrvReady, SrvTrackTimeout,
                SrvConnFails, SrvGivesUp, Types, SrvTypes
  <2>2. rx[i] = None
    BY <2>1 DEF Received
  <2>. QED
    BY <1>3, <2>1, <2>2 DEF Received
<1>5. ASSUME NEW i \in Idx, ConnDies(i)
      PROVE  Received'
  BY <1>3, <1>5 DEF ConnDies, Received, Types, SrvTypes
<1>6. CASE SrvHandshake
  <2>1. \A j \in Idx : sst[j] \in {"ready", "added", "closed"} =>
                       sst'[j] \in {"ready", "added", "closed"}
    BY <1>6 DEF SrvHandshake, Types, SrvTypes
  <2>. QED
    BY <1>3, <1>6, <2>1 DEF SrvHandshake, Received
<1>7. CASE UNCHANGED <<run, cpc, rx, sst, me, speer>>
  BY <1>3, <1>7 DEF Received
<1>. QED
  BY <1>2, <1>4, <1>5, <1>6, <1>7
     DEF SrvActions, SrvLoop, SrvStep, SrvStart, SrvPhase2, SrvCollect, SrvServes,
         SrvDead, GhostExpires

\* A server connection hears only the participant it pinned, which has pinned it
\* (the session key, sortedPairID).
LEMMA HearsMutual ==
    ASSUME Types, NEW i \in Idx, NEW j \in Idx, Hears(j, i)
    PROVE  /\ j = i /\ run \in Runs /\ cid[i] = CliId(run, i)
           /\ speer[j] = cid[i] /\ parts[cid[i]].peer = me[j]
<1>1. /\ cid[i] # None /\ speer[j] = cid[i] /\ j = i
      /\ {me[j], speer[j]} = {cid[i], parts[cid[i]].peer}
  BY DEF Hears, SessionKey
<1>2. cid[i] = CliId(run, i) /\ run \in Runs
  BY <1>1, PairingAssumption DEF Types, CliTypes, Runs
<1>3. me[j] # cid[i]
  <2>1. CASE me[j] = None
    BY <1>1, <2>1
  <2>2. CASE \E n \in Runs : me[j] = SrvId(n, j)
    BY <1>1, <1>2, <2>2, IdFacts
  <2>. QED
    BY <2>1, <2>2 DEF Types, SrvTypes
<1>. QED
  BY <1>1, <1>2, <1>3

\* The client's steps: a run writes when all its pins are made, and a later run
\* has other participants.
LEMMA CliReceived ==
    ASSUME Types, Received, CliActions
    PROVE  Received'
<1>. USE DEF cliVars, srvVars
<1>0. PinsKept \/ OwnPin
  BY CliNextTypes
<1>1. ASSUME NEW i \in Idx, NEW what \in {run, Junk}, Receive(i, what), PinsKept,
             UNCHANGED <<run, sst, me, speer>>, cpc \in {"send", "up"}, cpc' \in {"send", "up"}
      PROVE  Received'
  <2>1. ASSUME NEW j \in Idx, rx'[j] # rx[j]
        PROVE  Hears(j, i) /\ rx'[j] = what
    BY <1>1, <2>1 DEF Receive, Types, SrvTypes
  <2>2. ASSUME NEW j \in Idx, rx'[j] # None
        PROVE  /\ sst'[j] \in {"ready", "added", "closed"}
               /\ rx'[j] # Junk =>
                    /\ rx'[j] \in 1..run
                    /\ speer[j] = CliId(rx'[j], j)
                    /\ parts'[speer[j]].peer = me[j]
    <3>1. CASE rx'[j] = rx[j]
      BY <1>1, <2>2, <3>1, SenderFacts DEF Received, PinsKept
    <3>2. CASE rx'[j] # rx[j]
      <4>1. /\ j = i /\ run \in Runs /\ cid[i] = CliId(run, i)
            /\ speer[j] = cid[i] /\ parts[cid[i]].peer = me[j]
        BY <2>1, <3>2, HearsMutual
      <4>2. sst[j] = "ready" /\ rx'[j] = what
        BY <2>1, <3>2 DEF Hears
      <4>3. cid[i] \in Ids /\ run \in 1..run
        BY <4>1, IdFacts DEF Runs
      <4>. QED
        BY <1>1, <4>1, <4>2, <4>3 DEF PinsKept
    <3>. QED
      BY <3>1, <3>2
  <2>. QED
    BY <1>1, <2>2 DEF Received
<1>2. CASE CliSend
  <2>1. PinsKept /\ ci \in Idx
    BY <1>2 DEF CliSend, PinsKept, Types, CliTypes
  <2>. QED
    BY <1>1, <1>2, <2>1 DEF CliSend
<1>3. ASSUME NEW i \in Idx, CliPings(i)
      PROVE  Received'
  <2>1. PinsKept
    BY <1>3 DEF CliPings, PinsKept
  <2>. QED
    BY <1>1, <1>3, <2>1 DEF CliPings
<1>4. CASE CliStart
  <2>1. \A j \in Idx : rx[j] \notin {None, Junk} =>
           rx[j] \in 1..run /\ rx[j] \in 1..run' /\ rx[j] # run'
    BY <1>4 DEF CliStart, Received, Types, CliTypes
  <2>2. /\ UNCHANGED <<parts, rx, sst, me, speer>>
    BY <1>4 DEF CliStart
  <2>. QED
    BY <2>1, <2>2 DEF Received
<1>5. ASSUME UNCHANGED <<run, rx, sst, me, speer>>, OwnPin
      PROVE  Received'
  <2>1. ASSUME NEW j \in Idx, rx[j] \notin {None, Junk}
        PROVE  rx[j] # run /\ parts'[speer[j]].peer = parts[speer[j]].peer
    <3>1. rx[j] # run
      BY <1>5, <2>1 DEF Received, OwnPin
    <3>2. cid[ci] = None \/ (cid[ci] = CliId(run, ci) /\ run \in Runs /\ ci \in Idx)
      BY <1>5, PairingAssumption DEF OwnPin, Types, CliTypes, Runs
    <3>3. speer[j] # cid[ci]
      BY <2>1, <3>1, <3>2, SenderFacts, IdFacts
    <3>. QED
      BY <1>5, <2>1, <3>1, <3>3, SenderFacts DEF OwnPin
  <2>. QED
    BY <1>5, <2>1 DEF Received
<1>6. CASE /\ UNCHANGED <<run, rx, sst, me, speer>>
           /\ cpc \in {"send", "up", "off"} => cpc' \in {"send", "up", "off"}
  <2>1. CASE PinsKept
    BY <1>6, <2>1, ReceivedStable DEF Received
  <2>. QED
    BY <1>0, <1>5, <1>6, <2>1
<1>. QED
  BY <1>2, <1>3, <1>4, <1>6
     DEF CliActions, CliStep, CliJoin, CliAnnounce, CliFindsListed, CliFindsFresh,
         CliReady, CliProbe, CliTrackTimeout, CliConnFails, CliSkips, CliExits,
         CliCrash, CliStops

\* A connection is added with the session ID it has read, which is the first's.
LEMMA NextSameSID ==
    ASSUME Types, Received, SameSID, SrvActions \/ CliActions
    PROVE  SameSID'
<1>. USE DEF cliVars, srvVars, Serving
<1>1. CASE SrvHandshake
  <2>1. ASSUME NEW j \in Idx, sst'[j] = "added"
        PROVE  rx[j] \notin {None, Junk} /\ rx[j] = firstSID'
    <3>1. CASE sst[j] = "added"
      <4>1. rx[j] \notin {None, Junk} /\ rx[j] = firstSID
        BY <3>1 DEF SameSID
      <4>2. firstSID' = firstSID
        BY <1>1, <4>1 DEF SrvHandshake
      <4>. QED
        BY <4>1, <4>2
    <3>2. CASE sst[j] # "added"
      <4>1. j = turn /\ rx[turn] # None /\ Accept(rx[turn])
            /\ firstSID' = IF firstSID = None THEN rx[turn] ELSE firstSID
        BY <1>1, <2>1, <3>2 DEF SrvHandshake, Types, SrvTypes
      <4>. QED
        BY <4>1 DEF Accept
    <3>. QED
      BY <3>1, <3>2
  <2>. QED
    BY <1>1, <2>1 DEF SrvHandshake, SameSID
<1>2. ASSUME sst' = All("none")
      PROVE  SameSID'
  BY <1>2 DEF SameSID, All
<1>3. ASSUME EndSession \/ SrvCrash
      PROVE  SameSID'
  BY <1>2, <1>3 DEF EndSession, SrvCrash
<1>4. CASE /\ \A j \in Idx : sst'[j] = "added" => sst[j] = "added"
           /\ \A j \in Idx : rx[j] # None => rx'[j] = rx[j]
           /\ firstSID' = firstSID
  BY <1>4 DEF SameSID
<1>5. ASSUME NEW i \in Idx,
             \/ SrvJoin(i) \/ SrvAnnounce(i) \/ SrvFinds(i) \/ SrvReady(i)
             \/ SrvTrackTimeout(i) \/ SrvConnFails(i) \/ ConnDies(i)
      PROVE  SameSID'
  <2>1. /\ \A j \in Idx : sst'[j] = "added" => sst[j] = "added"
        /\ UNCHANGED <<rx, firstSID>>
    BY <1>5 DEF SrvJoin, SrvAnnounce, SrvFinds, SrvReady, SrvTrackTimeout,
                SrvConnFails, SrvGivesUp, ConnDies, Types, SrvTypes
  <2>. QED
    BY <1>4, <2>1
<1>6. ASSUME NEW i, NEW what, Receive(i, what), UNCHANGED <<sst, firstSID>>
      PROVE  SameSID'
  BY <1>4, <1>6 DEF Receive
<1>7. CASE UNCHANGED <<rx, sst, firstSID>>
  BY <1>4, <1>7
<1>. QED
  BY <1>1, <1>3, <1>5, <1>6, <1>7
     DEF SrvActions, SrvLoop, SrvStep, SrvStart, SrvPhase2, SrvCollect, SrvServes,
         SrvDead, GhostExpires,
         CliActions, CliStep, CliStart, CliJoin, CliAnnounce, CliFindsListed,
         CliFindsFresh, CliReady, CliProbe, CliTrackTimeout, CliConnFails, CliSkips,
         CliSend, CliPings, CliExits, CliCrash, CliStops

LEMMA Invariant == Spec => []IInv
<1>1. Init => IInv
  <2>1. Init => Types
    BY InitTypes
  <2>2. Init => Received /\ SameSID
    BY DEF Init, Received, SameSID, Serving, All
  <2>. QED
    BY <2>1, <2>2 DEF IInv
<1>2. IInv /\ [Next]_vars => IInv'
  <2>. SUFFICES ASSUME Types, Received, SameSID, [Next]_vars
                PROVE  Types' /\ Received' /\ SameSID'
    BY DEF IInv
  <2>1. CASE SrvActions
    BY <2>1, SrvNextTypes, SrvReceived, NextSameSID
  <2>2. CASE CliActions
    BY <2>2, CliNextTypes, CliReceived, NextSameSID
  <2>3. CASE UNCHANGED vars
    <3>1. Types'
      BY <2>3 DEF vars, srvVars, cliVars, Types, PartTypes, SrvTypes, CliTypes
    <3>2. Received' /\ SameSID'
      BY <2>3 DEF vars, srvVars, cliVars, Received, SameSID, Serving
    <3>. QED
      BY <3>1, <3>2
  <2>. QED
    BY <2>1, <2>2, <2>3 DEF Next, SrvActions, CliActions
<1>. QED
  BY <1>1, <1>2, PTL DEF Spec

-----------------------------------------------------------------------------
\* Every step keeps the types, and the server serves only connections whose two
\* participants have pinned each other: frames are decoded with a key derived
\* from both participant IDs, and a client that wrote to a connection pins no
\* one else on it, whatever ghosts, later runs and failures there are.
THEOREM PairsMutual == Spec => []AcceptedMutual
<1>1. IInv => TypeOK
  BY DEF IInv, Types, PartTypes, SrvTypes, CliTypes, Participants, TypeOK
<1>2. IInv => \A i \in Idx : Serving(i) => parts[speer[i]].peer = me[i]
  BY DEF IInv, SameSID, Received
<1>. QED
  BY <1>1, <1>2, Invariant, PTL DEF AcceptedMutual

\* The connections of a server session come from one run of the client: their
\* session IDs are compared, and a session ID is only ever heard from the run
\* whose it is.
THEOREM SessionsUnmixed == Spec => []OneClientPerSession
<1>1. IInv => OneClientPerSession
  <2>. SUFFICES ASSUME IInv, NEW i \in Idx, NEW j \in Idx, Serving(i), Serving(j)
                PROVE  RunOf(speer[i]) = RunOf(speer[j])
    BY DEF OneClientPerSession
  <2>1. \A k \in {i, j} : rx[k] \notin {None, Junk} /\ rx[k] = firstSID
    BY DEF IInv, SameSID
  <2>2. \A k \in {i, j} : rx[k] \in Runs /\ speer[k] = CliId(rx[k], k)
    BY <2>1, SenderFacts DEF IInv
  <2>. QED
    BY <2>1, <2>2, RunOfClient
<1>. QED
  BY <1>1, Invariant, PTL
=============================================================================
