--------------------------- MODULE CallPoolProofs ---------------------------
(***************************************************************************)
(* Proofs about CallPool, for any number of call slots, any set of slot    *)
(* objects and of reconnecting goroutines, either role, any capacity of    *)
(* reconnectCh and any failures.                                           *)
(*                                                                         *)
(* Argument.  Both properties relate the resources of slot objects to      *)
(* p.slots and the router, and a reconnectSlot that works on an object     *)
(* that another one has replaced would break them.  So what must be        *)
(* invariant is that LoadOrStore gives every slot to one goroutine         *)
(* (SlotsExclusive), and that a goroutine therefore always finds the       *)
(* object it made in its slot (WorksOnCurrent).                            *)
(***************************************************************************)
EXTENDS CallPool, FiniteSetTheorems, SequenceTheorems, TLAPS

\* The record of a reconnectSlot goroutine, by where it stands.
Jobs ==
    {idle} \cup [pc : {"wait", "swap", "release"}, slot : Slots]
           \cup [pc : {"connect", "wait mux"}, slot : Slots, obj : Objs]
           \cup [pc : {"alloc"}, slot : Slots, obj : Objs, m : BOOLEAN]

HoldsObj == {"connect", "wait mux", "alloc"}

Types ==
    /\ cur \in [Slots -> Objs]
    /\ sig \in [Objs -> {"none", "up", "down"}]
    /\ m \in BOOLEAN
    /\ start \in [ph : {"connect", "allocate", "failed", "run"}, i : Slots, skip : Int]
    /\ queue \in Seq(Slots)
    /\ job \in [Workers -> Jobs]
    /\ close \in [ph : {"no", "slots", "closed"}, todo : SUBSET Objs, m : BOOLEAN]

\* A slot has at most one reconnectSlot, and is marked as long as it has one.
SlotsExclusive ==
    /\ \A w \in Workers : job[w] # idle => job[w].slot \in reconnecting
    /\ \A w, v \in Workers :
         job[w] # idle /\ job[v] # idle /\ job[w].slot = job[v].slot => w = v

WorksOnCurrent ==
    \A w \in Workers : job[w].pc \in HoldsObj => cur[job[w].slot] = job[w].obj

Exclusive == Types /\ SlotsExclusive /\ WorksOnCurrent

IInv == Exclusive /\ NoStrandedSignaling /\ RouterTracksSlots
-----------------------------------------------------------------------------
LEMMA InitIInv == Init => IInv
<1>. SUFFICES ASSUME Init PROVE IInv
  OBVIOUS
<1>1. 1 \in Slots /\ Slots \subseteq Objs /\ N \in Nat
  BY PoolAssumption DEF Slots
<1>2. Types
  <2>1. queue \in Seq(Slots)
    BY DEF Init
  <2>2. m \in BOOLEAN
    BY DEF Init
  <2>3. cur \in [Slots -> Objs] /\ sig \in [Objs -> {"none", "up", "down"}]
        /\ job \in [Workers -> Jobs]
    BY <1>1 DEF Init, Jobs
  <2>4. start \in [ph : {"connect", "allocate", "failed", "run"}, i : Slots, skip : Int]
    BY <1>1 DEF Init
  <2>5. close \in [ph : {"no", "slots", "closed"}, todo : SUBSET Objs, m : BOOLEAN]
    BY DEF Init
  <2>. QED
    BY <2>1, <2>2, <2>3, <2>4, <2>5 DEF Types
<1>3. SlotsExclusive /\ WorksOnCurrent
  BY DEF Init, SlotsExclusive, WorksOnCurrent, HoldsObj, idle
<1>4. NoStrandedSignaling /\ RouterTracksSlots
  BY DEF Init, NoStrandedSignaling, RouterTracksSlots
<1>. QED
  BY <1>2, <1>3, <1>4 DEF IInv, Exclusive

\* What queueReconnect does to the channel.
LEMMA QueuedFacts ==
    ASSUME NEW q \in Seq(Slots), NEW s \in Slots
    PROVE  Queued(q, s) \in Seq(Slots)
BY DEF Queued

\* A goroutine that is not idle works on a slot; one that holds an object has it.
LEMMA JobFacts ==
    ASSUME Types, NEW w \in Workers
    PROVE  /\ job[w] \in Jobs
           /\ job[w] = idle \/ job[w].slot \in Slots
           /\ job[w] # idle <=> job[w].pc # "idle"
           /\ job[w].pc \in HoldsObj => job[w].obj \in Objs
<1>0. idle.pc = "idle"
  BY DEF idle
<1>1. job[w] \in Jobs
  BY DEF Types
<1>2. ASSUME NEW j \in Jobs
      PROVE  /\ j = idle \/ j.slot \in Slots
             /\ j # idle <=> j.pc # "idle"
             /\ j.pc \in HoldsObj => j.obj \in Objs
  <2>1. CASE j = idle
    BY <2>1 DEF HoldsObj, idle
  <2>2. CASE j \in [pc : {"wait", "swap", "release"}, slot : Slots]
    BY <1>0, <2>2 DEF HoldsObj
  <2>3. CASE j \in [pc : {"connect", "wait mux"}, slot : Slots, obj : Objs]
    BY <1>0, <2>3 DEF HoldsObj
  <2>4. CASE j \in [pc : {"alloc"}, slot : Slots, obj : Objs, m : BOOLEAN]
    BY <2>4 DEF HoldsObj, idle
  <2>. QED
    BY <2>1, <2>2, <2>3, <2>4 DEF Jobs
<1>. QED
  BY <1>1, <1>2

-----------------------------------------------------------------------------
\* The goroutines apart from reconnectSlot: what they leave in the channel and
\* in the slots has its type.
LEMMA PoolTypes ==
    ASSUME Types,
           \/ StartConnects \/ StartSkips
           \/ \E out \in FaultKinds \cup {"conns"} : StartAllocates(out)
           \/ LoopSkips \/ MonitorTick \/ CloseBegins \/ CloseMux
           \/ \E o \in Objs : CloseSlot(o) \/ ConnsDie(o) \/ SignalingDies(o)
    PROVE  Types' /\ UNCHANGED <<cur, job, reconnecting>>
<1>0. N \in Nat \ {0} /\ Slots = 1..N /\ ChanCap \in Nat
  BY PoolAssumption DEF Slots
<1>1. CASE StartConnects
  <2>1. cur[start.i] \in Objs /\ start.i \in 1..N
    BY <1>0 DEF Types
  <2>2. sig' \in [Objs -> {"none", "up", "down"}]
    BY <1>1, <2>1 DEF StartConnects, Types
  <2>3. start' \in [ph : {"connect", "allocate", "failed", "run"}, i : Slots, skip : Int]
    <3>0. /\ start \in [ph : {"connect", "allocate", "failed", "run"}, i : Slots, skip : Int]
          /\ 1 \in Slots
          /\ start.i < N => start.i + 1 \in Slots
      BY <1>0, <2>1 DEF Types
    <3>1. CASE start' = [start EXCEPT !.i = start.i + 1] /\ start.i < N
      BY <3>0, <3>1
    <3>2. CASE start' = [start EXCEPT !.ph = "failed"]
      BY <3>0, <3>2
    <3>3. CASE start' = [start EXCEPT !.ph = "allocate", !.i = 1]
      BY <3>0, <3>3
    <3>. QED
      BY <1>1, <3>1, <3>2, <3>3 DEF StartConnects
  <2>. QED
    BY <1>1, <2>2, <2>3 DEF StartConnects, Types
<1>2. CASE StartSkips
  BY <1>0, <1>2 DEF StartSkips, StartAdvances, Types
<1>3. ASSUME NEW out \in FaultKinds \cup {"conns"}, StartAllocates(out)
      PROVE  Types' /\ UNCHANGED <<cur, job, reconnecting>>
  <2>1. queue' \in Seq(Slots)
    BY <1>3, QueuedFacts DEF StartAllocates, Types
  <2>2. m' \in BOOLEAN
    BY <1>3, Zenon DEF StartAllocates, Types
  <2>3. start' \in [ph : {"connect", "allocate", "failed", "run"}, i : Slots, skip : Int]
    <3>1. start.i \in 1..N
      BY <1>0 DEF Types
    <3>2. CASE StartAdvances
      BY <1>0, <3>1, <3>2 DEF StartAdvances, Types
    <3>3. CASE start' = [start EXCEPT !.i = 1, !.skip = start.i]
      <4>1. 1 \in Slots /\ start.i \in Int
        BY <1>0, <3>1
      <4>. QED
        BY <3>3, <4>1 DEF Types
    <3>. QED
      BY <1>3, <3>2, <3>3 DEF StartAllocates
  <2>. QED
    BY <1>3, <2>1, <2>2, <2>3 DEF StartAllocates, Types
<1>4. CASE LoopSkips
  BY <1>4 DEF LoopSkips, Types
<1>5. CASE MonitorTick
  <2>. DEFINE needy == {s \in Slots : NeedsReconnect(s)}
  <2>1. PICK asked \in [1..Cardinality(needy) -> needy] :
             queue' = SubSeq(queue \o asked, 1,
                             IF Len(queue \o asked) < ChanCap THEN Len(queue \o asked)
                             ELSE ChanCap)
    BY <1>5 DEF MonitorTick
  <2>2. Cardinality(needy) \in Nat
    <3>1. IsFiniteSet(1..N) /\ needy \in SUBSET (1..N)
      BY <1>0, FS_Interval
    <3>2. IsFiniteSet(needy)
      BY <3>1, FS_Subset
    <3>. QED
      BY <3>2, FS_CardinalityType
  <2>3. asked \in Seq(Slots) /\ queue \in Seq(Slots)
    <3>1. needy \subseteq Slots
      OBVIOUS
    <3>2. asked \in [1..Cardinality(needy) -> Slots]
      BY <3>1
    <3>. HIDE DEF needy
    <3>. QED
      BY <2>2, <3>2 DEF Types
  <2>4. queue \o asked \in Seq(Slots)
    BY <2>3
  <2>5. queue' \in Seq(Slots)
    <3>. DEFINE all == queue \o asked
                k == IF Len(all) < ChanCap THEN Len(all) ELSE ChanCap
    <3>1. queue' = SubSeq(all, 1, k) /\ all \in Seq(Slots)
      BY <2>1, <2>4
    <3>. HIDE DEF all
    <3>2. k \in Int /\ \A i \in 1..k : all[i] \in Slots
      BY <1>0, <3>1
    <3>. HIDE DEF k
    <3>. QED
      BY <3>1, <3>2, SubSeqProperties
  <2>. QED
    BY <1>5, <2>5 DEF MonitorTick, Types
<1>6. CASE CloseBegins
  <2>1. {cur[s] : s \in Slots} \in SUBSET Objs
    BY DEF Types
  <2>. QED
    BY <1>6, <2>1 DEF CloseBegins, Types
<1>7. CASE CloseMux
  BY <1>7 DEF CloseMux, Types
<1>8. ASSUME NEW o \in Objs, CloseSlot(o) \/ ConnsDie(o) \/ SignalingDies(o)
      PROVE  Types' /\ UNCHANGED <<cur, job, reconnecting>>
  BY <1>8 DEF CloseSlot, ClosedSlot, ConnsDie, SignalingDies, Types
<1>. QED
  BY <1>1, <1>2, <1>3, <1>4, <1>5, <1>6, <1>7, <1>8

-----------------------------------------------------------------------------
\* A step in which goroutine w moves on, with its slot and its object.
LEMMA GoroutineMoves ==
    ASSUME Types, SlotsExclusive, WorksOnCurrent,
           NEW w \in Workers, NEW j \in Jobs,
           job' = [job EXCEPT ![w] = j],
           job[w] # idle, j.slot = job[w].slot,
           j.pc \in HoldsObj => job[w].pc \in HoldsObj /\ j.obj = job[w].obj,
           UNCHANGED <<cur, reconnecting>>
    PROVE  SlotsExclusive' /\ WorksOnCurrent'
<1>1. job'[w] = j /\ \A v \in Workers : v # w => job'[v] = job[v]
  BY DEF Types
<1>. QED
  BY <1>1 DEF SlotsExclusive, WorksOnCurrent

\* A step in which goroutine w returns; its deferred Delete clears the mark.
LEMMA GoroutineReturns ==
    ASSUME Types, SlotsExclusive, WorksOnCurrent,
           NEW w \in Workers,
           job' = [job EXCEPT ![w] = idle],
           job[w] # idle,
           reconnecting' = reconnecting \ {job[w].slot},
           UNCHANGED cur
    PROVE  SlotsExclusive' /\ WorksOnCurrent'
<1>1. job'[w] = idle /\ \A v \in Workers : v # w => job'[v] = job[v]
  BY DEF Types
<1>2. idle.pc \notin HoldsObj
  BY DEF idle, HoldsObj
<1>. QED
  BY <1>1, <1>2 DEF SlotsExclusive, WorksOnCurrent

\* Only reconnectLoop starts a goroutine for a slot, and it marks the slot in
\* the same LoadOrStore that finds it unmarked.
LEMMA LoopExclusive ==
    ASSUME Types, SlotsExclusive, WorksOnCurrent,
           NEW w \in Workers, LoopSpawns(w)
    PROVE  Types' /\ SlotsExclusive' /\ WorksOnCurrent'
<1>. DEFINE j == [pc |-> "wait", slot |-> Head(queue)]
<1>1. Head(queue) \in Slots /\ Tail(queue) \in Seq(Slots)
  BY DEF LoopSpawns, Types
<1>2. j \in Jobs /\ j.pc \notin HoldsObj /\ j.slot = Head(queue)
  BY <1>1 DEF Jobs, HoldsObj
<1>3. /\ job' = [job EXCEPT ![w] = j]
      /\ reconnecting' = reconnecting \cup {Head(queue)}
      /\ Head(queue) \notin reconnecting
      /\ job[w] = idle
      /\ UNCHANGED cur
  BY DEF LoopSpawns, NextWorker
<1>. HIDE DEF j
<1>4. job'[w] = j /\ \A v \in Workers : v # w => job'[v] = job[v]
  BY <1>3 DEF Types
<1>5. Types'
  BY <1>1, <1>2, <1>3 DEF LoopSpawns, Types
<1>6. SlotsExclusive'
  BY <1>2, <1>3, <1>4 DEF SlotsExclusive
<1>7. WorksOnCurrent'
  BY <1>2, <1>3, <1>4 DEF WorksOnCurrent
<1>. QED
  BY <1>5, <1>6, <1>7

\* reconnectSlot replaces the object of its own slot, which is no other's.
LEMMA SwapExclusive ==
    ASSUME Types, SlotsExclusive, WorksOnCurrent,
           NEW w \in Workers, Swap(w)
    PROVE  Types' /\ SlotsExclusive' /\ WorksOnCurrent'
<1>1. PICK n \in Free :
        /\ sig' = [sig EXCEPT ![cur[job[w].slot]] = "none"]
        /\ cur' = [cur EXCEPT ![job[w].slot] = n]
        /\ job' = [job EXCEPT ![w] = [pc |-> "connect", slot |-> job[w].slot, obj |-> n]]
  BY DEF Swap
<1>. DEFINE j == [pc |-> "connect", slot |-> job[w].slot, obj |-> n]
<1>2. n \in Objs /\ job[w] # idle /\ job[w].slot \in Slots
  BY JobFacts DEF Free, Swap
<1>3. j \in Jobs /\ j # idle /\ j.slot = job[w].slot /\ j.obj = n
  BY <1>2 DEF Jobs, idle
<1>4. job' = [job EXCEPT ![w] = j]
  BY <1>1
<1>. HIDE DEF j
<1>5. job'[w] = j /\ \A v \in Workers : v # w => job'[v] = job[v]
  BY <1>4 DEF Types
<1>6. Types'
  BY <1>1, <1>2, <1>3, <1>4 DEF Swap, Types
<1>7. SlotsExclusive'
  BY <1>2, <1>3, <1>5 DEF Swap, SlotsExclusive
<1>8. WorksOnCurrent'
  <2>1. ASSUME NEW v \in Workers, job'[v].pc \in HoldsObj
        PROVE  cur'[job'[v].slot] = job'[v].obj
    <3>1. CASE v = w
      BY <3>1, <1>1, <1>2, <1>3, <1>5 DEF Types
    <3>2. CASE v # w
      <4>1. job[v] # idle /\ job[v].slot \in Slots
        BY <2>1, <3>2, <1>5, JobFacts DEF HoldsObj
      <4>2. job[v].slot # job[w].slot
        BY <1>2, <3>2, <4>1 DEF SlotsExclusive
      <4>. QED
        BY <2>1, <3>2, <4>1, <4>2, <1>1, <1>5 DEF Types, WorksOnCurrent
    <3>. QED
      BY <3>1, <3>2
  <2>. QED
    BY <2>1 DEF WorksOnCurrent
<1>. QED
  BY <1>6, <1>7, <1>8

\* The other steps of reconnectSlot keep the slot and the object, or return.
LEMMA WorkerExclusive ==
    ASSUME Types, SlotsExclusive, WorksOnCurrent,
           NEW w \in Workers, Worker(w)
    PROVE  Types' /\ SlotsExclusive' /\ WorksOnCurrent'
<1>. USE JobFacts
<1>1. CASE WaitOver(w)
  <2>. DEFINE j == [job[w] EXCEPT !.pc = "swap"]
  <2>1. /\ j \in Jobs /\ job[w] # idle /\ j.slot = job[w].slot
        /\ j.pc \notin HoldsObj
    BY <1>1 DEF WaitOver, Types, Jobs, HoldsObj, idle
  <2>2. job' = [job EXCEPT ![w] = j]
    BY <1>1 DEF WaitOver
  <2>. HIDE DEF j
  <2>3. Types'
    BY <1>1, <2>1, <2>2 DEF WaitOver, Types
  <2>. QED
    BY <1>1, <2>1, <2>2, <2>3, GoroutineMoves DEF WaitOver
<1>2. CASE WaitAborted(w) \/ Release(w)
  <2>1. /\ job' = [job EXCEPT ![w] = idle] /\ job[w] # idle
        /\ reconnecting' = reconnecting \ {job[w].slot}
        /\ UNCHANGED <<cur, sig, m, start, queue, close>>
    BY <1>2 DEF WaitAborted, Release
  <2>2. Types'
    BY <2>1 DEF Types, Jobs
  <2>. QED
    BY <2>1, <2>2, GoroutineReturns
<1>3. CASE Swap(w)
  BY <1>3, SwapExclusive
<1>4. CASE Connected(w)
  <2>. DEFINE j == [job[w] EXCEPT !.pc = "wait mux"]
  <2>1. /\ j \in Jobs /\ job[w] # idle /\ j.slot = job[w].slot
        /\ job[w].pc \in HoldsObj /\ j.obj = job[w].obj
    BY <1>4 DEF Connected, Types, Jobs, HoldsObj, idle
  <2>2. job' = [job EXCEPT ![w] = j]
    BY <1>4 DEF Connected
  <2>. HIDE DEF j
  <2>3. Types'
    BY <1>4, <2>1, <2>2 DEF Connected, Types
  <2>. QED
    BY <1>4, <2>1, <2>2, <2>3, GoroutineMoves DEF Connected
<1>5. ASSUME Retry(w), job[w].pc \in HoldsObj,
             UNCHANGED <<cur, sig, m, start, reconnecting, close>>
      PROVE  Types' /\ SlotsExclusive' /\ WorksOnCurrent'
  <2>. DEFINE j == [pc |-> "release", slot |-> job[w].slot]
  <2>1. job[w] # idle /\ job[w].slot \in Slots
    BY <1>5 DEF HoldsObj
  <2>2. j \in Jobs /\ j.slot = job[w].slot /\ j.pc \notin HoldsObj
    BY <2>1 DEF Jobs, HoldsObj
  <2>3. job' = [job EXCEPT ![w] = j] /\ queue' \in Seq(Slots)
    BY <1>5, <2>1, QueuedFacts DEF Retry, Types
  <2>. HIDE DEF j
  <2>4. Types'
    BY <1>5, <2>2, <2>3 DEF Types
  <2>. QED
    BY <1>5, <2>1, <2>2, <2>3, <2>4, GoroutineMoves
<1>6. CASE ConnectFails(w)
  BY <1>5, <1>6 DEF ConnectFails, HoldsObj
<1>7. CASE AllocBegins(w)
  <2>. DEFINE j == [pc |-> "alloc", slot |-> job[w].slot, obj |-> job[w].obj, m |-> m]
  <2>1. job[w] # idle /\ job[w].pc \in HoldsObj
    BY <1>7 DEF AllocBegins, HoldsObj
  <2>2. m \in BOOLEAN
    BY DEF Types
  <2>3. j \in Jobs /\ j.slot = job[w].slot /\ j.obj = job[w].obj
    BY <2>1, <2>2 DEF Jobs
  <2>4. job' = [job EXCEPT ![w] = j]
    BY <1>7 DEF AllocBegins
  <2>. HIDE DEF j
  <2>5. Types'
    BY <1>7, <2>3, <2>4 DEF AllocBegins, Types
  <2>. QED
    BY <1>7, <2>1, <2>3, <2>4, <2>5, GoroutineMoves DEF AllocBegins
<1>8. ASSUME NEW out \in FaultKinds \cup {"conns"}, AllocEnds(w, out)
      PROVE  Types' /\ SlotsExclusive' /\ WorksOnCurrent'
  <2>1. job[w].pc \in HoldsObj /\ job[w] # idle
        /\ UNCHANGED <<cur, sig, m, start, close>>
    BY <1>8 DEF AllocEnds, HoldsObj
  <2>2. CASE Succeeds(out)
    <3>1. /\ job' = [job EXCEPT ![w] = idle] /\ UNCHANGED queue
          /\ reconnecting' = reconnecting \ {job[w].slot}
      BY <1>8, <2>2 DEF AllocEnds
    <3>2. Types'
      BY <2>1, <3>1 DEF Types, Jobs
    <3>. QED
      BY <2>1, <3>1, <3>2, GoroutineReturns
  <2>3. CASE ~Succeeds(out)
    BY <1>5, <1>8, <2>1, <2>3 DEF AllocEnds
  <2>. QED
    BY <2>2, <2>3
<1>. QED
  BY <1>1, <1>2, <1>3, <1>4, <1>6, <1>7, <1>8 DEF Worker

LEMMA NextExclusive == Exclusive /\ [Next]_vars => Exclusive'
<1>. SUFFICES ASSUME Types, SlotsExclusive, WorksOnCurrent, [Next]_vars
              PROVE  Types' /\ SlotsExclusive' /\ WorksOnCurrent'
  BY DEF Exclusive
<1>1. ASSUME NEW w \in Workers, LoopSpawns(w) \/ Worker(w)
      PROVE  Types' /\ SlotsExclusive' /\ WorksOnCurrent'
  BY <1>1, LoopExclusive, WorkerExclusive
<1>2. CASE \/ StartConnects \/ StartSkips
           \/ \E out \in FaultKinds \cup {"conns"} : StartAllocates(out)
           \/ LoopSkips \/ MonitorTick \/ CloseBegins \/ CloseMux
           \/ \E o \in Objs : CloseSlot(o) \/ ConnsDie(o) \/ SignalingDies(o)
  <2>1. Types' /\ UNCHANGED <<cur, job, reconnecting>>
    BY <1>2, PoolTypes
  <2>. QED
    BY <2>1 DEF SlotsExclusive, WorksOnCurrent
<1>3. CASE UNCHANGED vars
  BY <1>3 DEF vars, Types, SlotsExclusive, WorksOnCurrent
<1>. QED
  BY <1>1, <1>2, <1>3 DEF Next

-----------------------------------------------------------------------------
\* Close, once begun, is never undone.
LEMMA CloseStays == Types /\ [Next]_vars /\ ~done' => ~done
<1>. SUFFICES ASSUME Types, [Next]_vars, close.ph # "no" PROVE close'.ph # "no"
  BY DEF done
<1>1. CASE UNCHANGED close
  BY <1>1
<1>2. CASE CloseBegins \/ CloseMux \/ \E o \in Objs : CloseSlot(o)
  BY <1>2 DEF CloseBegins, CloseMux, CloseSlot, Types
<1>3. UNCHANGED close \/ CloseBegins \/ CloseMux \/ \E o \in Objs : CloseSlot(o)
  BY DEF Next, Worker, vars, StartConnects, StartSkips, StartAllocates, LoopSkips,
         LoopSpawns, MonitorTick, ConnsDie, SignalingDies, WaitOver, WaitAborted,
         Swap, Connected, ConnectFails, Release, AllocBegins, AllocEnds
<1>. QED
  BY <1>1, <1>2, <1>3

\* Signaling clients appear with their registration, in a slot, and go with it.
LEMMA NextResources ==
    IInv /\ [Next]_vars => NoStrandedSignaling' /\ RouterTracksSlots'
<1>. SUFFICES ASSUME Types, SlotsExclusive, WorksOnCurrent, [Next]_vars, ~done,
                     \A o \in Objs : sig[o] # "none" => \E s \in Slots : cur[s] = o,
                     reg = {o \in Objs : sig[o] # "none"},
                     ~done'
              PROVE  /\ \A o \in Objs : sig'[o] # "none" => \E s \in Slots : cur'[s] = o
                     /\ reg' = {o \in Objs : sig'[o] # "none"}
  BY CloseStays DEF IInv, Exclusive, NoStrandedSignaling, RouterTracksSlots
<1>. DEFINE Good == /\ \A o \in Objs : sig'[o] # "none" => \E s \in Slots : cur'[s] = o
                    /\ reg' = {o \in Objs : sig'[o] # "none"}
<1>1. CASE UNCHANGED <<cur, sig, reg>>
  BY <1>1
<1>2. ASSUME NEW s \in Slots, sig' = [sig EXCEPT ![cur[s]] = "up"],
             reg' = reg \cup {cur[s]}, UNCHANGED cur
      PROVE  Good
  BY <1>2 DEF Types
<1>3. CASE StartConnects
  <2>1. start.i \in Slots
    BY DEF Types
  <2>. QED
    BY <1>1, <1>2, <1>3, <2>1 DEF StartConnects
<1>4. ASSUME NEW w \in Workers, Connected(w)
      PROVE  Good
  <2>1. job[w].slot \in Slots /\ cur[job[w].slot] = job[w].obj
    BY <1>4, JobFacts DEF Connected, HoldsObj, WorksOnCurrent, idle
  <2>. QED
    BY <1>2, <1>4, <2>1 DEF Connected
<1>5. ASSUME NEW w \in Workers, Swap(w)
      PROVE  Good
  <2>. DEFINE s == job[w].slot
  <2>1. PICK n \in Free :
          /\ sig' = [sig EXCEPT ![cur[s]] = "none"]
          /\ reg' = Deregistered(cur[s])
          /\ cur' = [cur EXCEPT ![s] = n]
    BY <1>5 DEF Swap
  <2>2. s \in Slots /\ cur[s] \in Objs
    BY <1>5, JobFacts DEF Swap, Types
  <2>3. ASSUME NEW o \in Objs, sig'[o] # "none"
        PROVE  \E t \in Slots : cur'[t] = o
    <3>1. o # cur[s] /\ sig[o] # "none"
      BY <2>1, <2>2, <2>3 DEF Types
    <3>2. PICK t \in Slots : cur[t] = o
      BY <3>1
    <3>. QED
      BY <2>1, <3>1, <3>2 DEF Types
  <2>4. reg' = {o \in Objs : sig'[o] # "none"}
    BY <2>1, <2>2 DEF Deregistered, Types
  <2>. QED
    BY <2>3, <2>4
<1>6. ASSUME NEW o \in Objs, SignalingDies(o)
      PROVE  Good
  BY <1>6 DEF SignalingDies, Types
<1>7. \/ UNCHANGED <<cur, sig, reg>> \/ StartConnects
      \/ \E w \in Workers : Connected(w) \/ Swap(w)
      \/ \E o \in Objs : SignalingDies(o) \/ CloseSlot(o)
  BY DEF Next, Worker, vars, StartSkips, StartAllocates, LoopSkips, LoopSpawns,
         MonitorTick, CloseBegins, CloseMux, ConnsDie, WaitOver, WaitAborted,
         ConnectFails, Release, AllocBegins, AllocEnds
<1>8. ~ \E o \in Objs : CloseSlot(o)
  BY DEF CloseSlot, done
<1>. QED
  BY <1>1, <1>3, <1>4, <1>5, <1>6, <1>7, <1>8

LEMMA Invariant == Spec => []IInv
<1>1. IInv /\ [Next]_vars => IInv'
  BY NextExclusive, NextResources DEF IInv
<1>. QED
  BY <1>1, InitIInv, PTL DEF Spec

-----------------------------------------------------------------------------
\* A slot is reconnected by at most one goroutine, and that goroutine finds in
\* p.slots the object it has put there: queueReconnect may be called any number
\* of times for a slot, by the monitor, by failed attempts and by the start.
THEOREM ReconnectsExclusive == Spec => [](SlotsExclusive /\ WorksOnCurrent)
<1>1. IInv => SlotsExclusive /\ WorksOnCurrent
  BY DEF IInv, Exclusive
<1>. QED
  BY <1>1, Invariant, PTL

\* Until Close, every open signaling connection belongs to the current object of
\* a slot: an object is closed before it is replaced, and no second reconnect of
\* the slot replaces the one that is still connecting.
THEOREM SignalingNeverStranded == Spec => []NoStrandedSignaling
<1>1. IInv => NoStrandedSignaling
  BY DEF IInv
<1>. QED
  BY <1>1, Invariant, PTL

\* Until Close, the router forwards to exactly the clients that are connected,
\* through any sequence of failed and successful reconnects.
THEOREM RouterExact == Spec => []RouterTracksSlots
<1>1. IInv => RouterTracksSlots
  BY DEF IInv
<1>. QED
  BY <1>1, Invariant, PTL
=============================================================================
