------------------------------ MODULE CallPool ------------------------------
(***************************************************************************)
(* The multi-call pool (internal/tunnel/pool.go, slot.go, signaling.go):   *)
(* N call slots feed one shared MUX.  The state of a slot lives in a slot  *)
(* object which reconnectSlot replaces; objects are identified here so     *)
(* that one that is replaced, or closed, and still holds resources shows.  *)
(* The goroutines are StartClient/StartServer, reconnectLoop,              *)
(* monitorSlots, one reconnectSlot per slot being reconnected, and Close.  *)
(* The delays (backoff, 5 s ticker) are left out: a wait may end any time. *)
(***************************************************************************)
EXTENDS Integers, Sequences, FiniteSets

CONSTANTS
    N,         \* number of call links
    Objs,      \* identities of CallSlot objects
    Workers,   \* identities of reconnectSlot goroutines
    Role,      \* "client" or "server"
    ChanCap,   \* capacity of reconnectCh (max(2N, 8) in the code)
    Faults,    \* kinds of failures that happen
    MaxFaults  \* bound: number of failures, see Cost

Slots == 1..N

FaultKinds == {"signaling", "conns", "start", "connect", "alloc", "empty", "partial"}

ASSUME PoolAssumption ==
    /\ N \in Nat \ {0} /\ Slots \subseteq Objs /\ Objs \cup Workers \subseteq Nat
    /\ Role \in {"client", "server"} /\ ChanCap \in Nat /\ N <= ChanCap
    /\ Faults \subseteq FaultKinds /\ MaxFaults \in Nat

VARIABLES
    cur,           \* p.slots: the object of each slot
    st,            \* its state
    sig,           \* its sigClient: none (nil), up, down; mgr is nil exactly when it is
    live,          \* the mux that reads its connections: no, pool, orphan
    reg,           \* objects whose sigClient the router holds
    m,             \* p.m is set
    mux,           \* the pool's mux: none, alive, dead (inFrames closed)
    start,         \* progress of StartClient or StartServer
    queue,         \* reconnectCh
    reconnecting,  \* p.reconnecting
    job,           \* the reconnectSlot goroutines
    close,         \* progress of Close
    faults         \* failures so far

vars == <<cur, st, sig, live, reg, m, mux, start, queue, reconnecting, job, close, faults>>

idle == [pc |-> "idle"]

Init ==
    /\ cur = [s \in Slots |-> s]
    /\ st = [o \in Objs |-> "idle"]
    /\ sig = [o \in Objs |-> "none"]
    /\ live = [o \in Objs |-> "no"]
    /\ reg = {}
    /\ m = FALSE /\ mux = "none"
    /\ start = [ph |-> "connect", i |-> 1, skip |-> 0]
    /\ queue = <<>>
    /\ reconnecting = {}
    /\ job = [w \in Workers |-> idle]
    /\ close = [ph |-> "no", todo |-> {}, m |-> FALSE]
    /\ faults = 0

done == close.ph # "no"

Running == start.ph = "run"

\* A failure of kind k happens.  The death of connections, which may take the
\* mux with it, uses up the bound: it is the only failure of its behaviour.
Cost(k) == IF k = "conns" THEN MaxFaults ELSE 1

Fault(k) ==
    /\ k \in Faults
    /\ faults + Cost(k) <= MaxFaults
    /\ faults' = faults + Cost(k)

\* queueReconnect: a full channel drops the request.
Queued(q, s) == IF Len(q) < ChanCap THEN Append(q, s) ELSE q

-----------------------------------------------------------------------------
\* What AllocateAndConnect(Server) with a mux (r) or without one can do to object
\* o: connections join the mux ("conns"); none does, which is a success all the
\* same when there is a mux ("empty"); an error ("alloc"); on the server, an
\* error after some connections were added ("partial").
Outcomes(r) == {"conns", "alloc"} \cup (IF r THEN {"empty"} ELSE {})
                                  \cup (IF Role = "server" THEN {"partial"} ELSE {})

Succeeds(out) == out \in {"conns", "empty"}

\* Without a signaling client only the error is possible; otherwise every
\* outcome but "conns" is a failure of the environment.
Happens(o, out) ==
    IF sig[o] = "none" THEN out = "alloc" /\ UNCHANGED faults
    ELSE \/ out = "conns" /\ UNCHANGED faults
         \/ out # "conns" /\ Fault(out)

\* Its effect on the object; target is the mux its connections are added to.
Allocated(o, out, target) ==
    /\ st' = [st EXCEPT ![o] = IF Succeeds(out) THEN "active" ELSE "allocating"]
    /\ live' = [live EXCEPT ![o] = IF out \in {"conns", "partial"} THEN target ELSE @]

\* CallSlot.Close: signaling and TURN manager are released; the connections die
\* with them (ConnsDie).
ClosedSlot(o) ==
    /\ st' = [st EXCEPT ![o] = "dead"]
    /\ sig' = [sig EXCEPT ![o] = "none"]

-----------------------------------------------------------------------------
(* StartClient and StartServer *)

\* Phase 1: Connect and Register slot after slot; a slot that fails is left.
StartConnects ==
    LET o == cur[start.i] IN
    /\ start.ph = "connect"
    /\ st' = [st EXCEPT ![o] = "connecting"]
    /\ \/ sig' = [sig EXCEPT ![o] = "up"] /\ reg' = reg \cup {o} /\ UNCHANGED faults
       \/ Fault("start") /\ UNCHANGED <<sig, reg>>
    /\ start' = IF start.i < N THEN [start EXCEPT !.i = @ + 1]
                ELSE IF reg' = {} THEN [start EXCEPT !.ph = "failed"]
                ELSE [start EXCEPT !.ph = "allocate", !.i = 1]
    /\ UNCHANGED <<cur, live, m, mux, queue, reconnecting, job, close>>

\* The loop of phase 2 moves on; it ends with an error if there is no mux.
StartAdvances ==
    start' = IF start.i < N THEN [start EXCEPT !.i = @ + 1]
             ELSE [start EXCEPT !.ph = IF m' THEN "run" ELSE "failed"]

StartSkips ==
    /\ start.ph = "allocate"
    /\ sig[cur[start.i]] = "none" \/ start.i = start.skip
    /\ UNCHANGED <<cur, st, sig, live, reg, m, mux, queue, reconnecting, job, close, faults>>
    /\ StartAdvances

\* Mutation: the server, too, queues only once there is a mux.
QueuesWithMux(out) == ~Succeeds(out) /\ m

\* The server queues every slot that failed, the client only from
\* allocateRemaining.
QueuesFailure(out) == ~Succeeds(out) /\ (Role = "server" \/ m)

\* Phase 2.  The first success makes the mux; the client then starts over with
\* the other slots (allocateRemaining), the server goes on with the next one.
StartAllocates(out) ==
    LET o == cur[start.i]
        first == ~m /\ Succeeds(out) IN
    /\ start.ph = "allocate"
    /\ sig[o] # "none" /\ start.i # start.skip
    /\ out \in Outcomes(m)
    /\ Happens(o, out)
    /\ Allocated(o, out, IF m \/ first THEN "pool" ELSE "orphan")
    /\ m' = (m \/ first)
    /\ mux' = IF first THEN "alive" ELSE mux
    /\ queue' = IF QueuesFailure(out) THEN Queued(queue, start.i) ELSE queue
    /\ IF first /\ Role = "client"
       THEN start' = [start EXCEPT !.i = 1, !.skip = start.i]
       ELSE StartAdvances
    /\ UNCHANGED <<cur, sig, reg, reconnecting, job, close>>

-----------------------------------------------------------------------------
(* reconnectLoop and reconnectSlot *)

\* The goroutine a spawn starts; which of the idle ones makes no difference.
NextWorker(w) == job[w] = idle /\ \A v \in Workers : job[v] = idle => w <= v

\* The slot is already being reconnected: the request is dropped.
LoopSkips ==
    /\ Running /\ ~done /\ queue # <<>>
    /\ Head(queue) \in reconnecting
    /\ queue' = Tail(queue)
    /\ UNCHANGED <<cur, st, sig, live, reg, m, mux, start, reconnecting, job, close, faults>>

\* Mutation: no LoadOrStore, every request starts a goroutine.
LoopAlwaysSpawns(w) ==
    /\ Running /\ ~done /\ queue # <<>> /\ NextWorker(w)
    /\ queue' = Tail(queue)
    /\ reconnecting' = reconnecting \cup {Head(queue)}
    /\ job' = [job EXCEPT ![w] = [pc |-> "wait", slot |-> Head(queue)]]
    /\ UNCHANGED <<cur, st, sig, live, reg, m, mux, start, close, faults>>

LoopSpawns(w) ==
    /\ Running /\ ~done /\ queue # <<>> /\ NextWorker(w)
    /\ Head(queue) \notin reconnecting
    /\ queue' = Tail(queue)
    /\ reconnecting' = reconnecting \cup {Head(queue)}
    /\ job' = [job EXCEPT ![w] = [pc |-> "wait", slot |-> Head(queue)]]
    /\ UNCHANGED <<cur, st, sig, live, reg, m, mux, start, close, faults>>

\* The delay has passed, or the pool is closed: return.
WaitOver(w) ==
    /\ job[w].pc = "wait" /\ ~done
    /\ job' = [job EXCEPT ![w].pc = "swap"]
    /\ UNCHANGED <<cur, st, sig, live, reg, m, mux, start, queue, reconnecting, close, faults>>

WaitAborted(w) ==
    /\ job[w].pc = "wait" /\ done
    /\ job' = [job EXCEPT ![w] = idle]
    /\ reconnecting' = reconnecting \ {job[w].slot}
    /\ UNCHANGED <<cur, st, sig, live, reg, m, mux, start, queue, close, faults>>

\* Objects nothing refers to any more; their identities are used again.
Free == {o \in Objs :
            /\ sig[o] = "none" /\ live[o] = "no" /\ o \notin reg
            /\ \A s \in Slots : cur[s] # o
            /\ \A w \in Workers : job[w].pc \in {"connect", "alloc", "wait mux"} => job[w].obj # o
            /\ o \notin close.todo}

\* Mutation: the old signaling client stays registered.
StillRegistered(o) == reg

\* SignalingRouter.Remove, called when the object has a signaling client.
Deregistered(o) == IF sig[o] = "none" THEN reg ELSE reg \ {o}

\* The old object is taken off the router and closed; a new one takes its place
\* and begins to connect.
Swap(w) ==
    LET old == cur[job[w].slot] IN
    /\ job[w].pc = "swap"
    /\ \E n \in Free :
        /\ \A o \in Free : n <= o
        /\ st' = [st EXCEPT ![old] = "dead", ![n] = "connecting"]
        /\ sig' = [sig EXCEPT ![old] = "none"]
        /\ reg' = Deregistered(old)
        /\ cur' = [cur EXCEPT ![job[w].slot] = n]
        /\ job' = [job EXCEPT ![w] = [pc |-> "connect", slot |-> @.slot, obj |-> n]]
    /\ UNCHANGED <<live, m, mux, start, queue, reconnecting, close, faults>>

\* Connect succeeds, also on an object Close has closed meanwhile; Register.
Connected(w) ==
    /\ job[w].pc = "connect"
    /\ sig' = [sig EXCEPT ![job[w].obj] = "up"]
    /\ reg' = reg \cup {job[w].obj}
    /\ job' = [job EXCEPT ![w].pc = "wait mux"]
    /\ UNCHANGED <<cur, st, live, m, mux, start, queue, reconnecting, close, faults>>

\* An attempt failed: it is queued again while the slot is still marked as
\* reconnecting; Release is the deferred Delete.
Retry(w) ==
    /\ queue' = Queued(queue, job[w].slot)
    /\ job' = [job EXCEPT ![w] = [pc |-> "release", slot |-> @.slot]]

ConnectFails(w) ==
    /\ job[w].pc = "connect"
    /\ Fault("connect")
    /\ Retry(w)
    /\ UNCHANGED <<cur, st, sig, live, reg, m, mux, start, reconnecting, close>>

Release(w) ==
    /\ job[w].pc = "release"
    /\ reconnecting' = reconnecting \ {job[w].slot}
    /\ job' = [job EXCEPT ![w] = idle]
    /\ UNCHANGED <<cur, st, sig, live, reg, m, mux, start, queue, close, faults>>

\* p.m is read under the lock, then the slot allocates.
AllocBegins(w) ==
    /\ job[w].pc = "wait mux"
    /\ st' = [st EXCEPT ![job[w].obj] = "allocating"]
    /\ job' = [job EXCEPT ![w] = [pc |-> "alloc", slot |-> @.slot, obj |-> @.obj, m |-> m]]
    /\ UNCHANGED <<cur, sig, live, reg, m, mux, start, queue, reconnecting, close, faults>>

\* The result's mux is ignored: without p.m the new one belongs to nobody.
AllocEnds(w, out) ==
    /\ job[w].pc = "alloc"
    /\ out \in Outcomes(job[w].m)
    /\ Happens(job[w].obj, out)
    /\ Allocated(job[w].obj, out, IF job[w].m THEN "pool" ELSE "orphan")
    /\ IF Succeeds(out)
       THEN /\ job' = [job EXCEPT ![w] = idle]
            /\ reconnecting' = reconnecting \ {job[w].slot}
            /\ UNCHANGED queue
       ELSE Retry(w) /\ UNCHANGED reconnecting
    /\ UNCHANGED <<cur, sig, reg, m, mux, start, close>>

-----------------------------------------------------------------------------
(* monitorSlots, Close and the environment *)

\* Mutation: only the connections are looked at.
IgnoresSignaling(s) ==
    st[cur[s]] = "active" /\ m /\ \A o \in Objs : live[o] # "pool"

\* The monitor queues an active slot when its signaling has died, or when no
\* connection of the mux is left.
NeedsReconnect(s) ==
    /\ st[cur[s]] = "active"
    /\ sig[cur[s]] = "down" \/ (m /\ \A o \in Objs : live[o] # "pool")

\* It takes the slots in order; what does not fit into the channel is dropped.
MonitorTick ==
    LET needy == {s \in Slots : NeedsReconnect(s)} IN
    /\ Running /\ ~done /\ needy # {}
    /\ \E asked \in [1..Cardinality(needy) -> needy] :
        /\ \A i, j \in DOMAIN asked : i < j => asked[i] < asked[j]
        /\ LET all == queue \o asked
           IN  queue' = SubSeq(all, 1, IF Len(all) < ChanCap THEN Len(all) ELSE ChanCap)
    /\ UNCHANGED <<cur, st, sig, live, reg, m, mux, start, reconnecting, job, close, faults>>

CloseBegins ==
    /\ close.ph = "no" /\ start.ph \in {"run", "failed"}
    /\ close' = [ph |-> "slots", todo |-> {cur[s] : s \in Slots}, m |-> m]
    /\ m' = FALSE
    /\ UNCHANGED <<cur, st, sig, live, reg, mux, start, queue, reconnecting, job, faults>>

CloseSlot(o) ==
    /\ close.ph = "slots" /\ o \in close.todo
    /\ ClosedSlot(o)
    /\ close' = [close EXCEPT !.todo = @ \ {o}]
    /\ UNCHANGED <<cur, live, reg, m, mux, start, queue, reconnecting, job, faults>>

\* m.Close closes the connections the mux has at that moment.
CloseMux ==
    /\ close.ph = "slots" /\ close.todo = {}
    /\ close' = [close EXCEPT !.ph = "closed"]
    /\ mux' = IF close.m THEN "dead" ELSE mux
    /\ live' = [o \in Objs |-> IF close.m /\ live[o] = "pool" THEN "no" ELSE live[o]]
    /\ UNCHANGED <<cur, st, sig, reg, m, start, queue, reconnecting, job, faults>>

\* The connections of an object die: with its TURN manager, at the first frame
\* read for a dead mux, or by a failure of the network.  Nothing calls
\* BeginReconnect on the pool's mux: the last reader to exit kills it.
ConnsDie(o) ==
    /\ live[o] # "no"
    /\ \/ sig[o] = "none" /\ UNCHANGED faults
       \/ live[o] = "pool" /\ mux = "dead" /\ UNCHANGED faults
       \/ sig[o] # "none" /\ mux = "alive" /\ Fault("conns")
    /\ live' = [live EXCEPT ![o] = "no"]
    /\ mux' = IF mux = "alive" /\ live[o] = "pool" /\ \A p \in Objs \ {o} : live[p] # "pool"
              THEN "dead" ELSE mux
    /\ UNCHANGED <<cur, st, sig, reg, m, start, queue, reconnecting, job, close>>

SignalingDies(o) ==
    /\ sig[o] = "up" /\ Running /\ Fault("signaling")
    /\ sig' = [sig EXCEPT ![o] = "down"]
    /\ UNCHANGED <<cur, st, live, reg, m, mux, start, queue, reconnecting, job, close>>

Worker(w) ==
    \/ WaitOver(w) \/ WaitAborted(w) \/ Swap(w) \/ Connected(w) \/ ConnectFails(w)
    \/ Release(w) \/ AllocBegins(w) \/ \E out \in FaultKinds \cup {"conns"} : AllocEnds(w, out)

Next ==
    \/ StartConnects \/ StartSkips \/ \E out \in FaultKinds \cup {"conns"} : StartAllocates(out)
    \/ LoopSkips \/ \E w \in Workers : LoopSpawns(w) \/ Worker(w)
    \/ MonitorTick
    \/ CloseBegins \/ CloseMux \/ \E o \in Objs : CloseSlot(o)
    \/ \E o \in Objs : ConnsDie(o) \/ SignalingDies(o)

Spec == Init /\ [][Next]_vars

\* The callers close a pool that failed to start; the server's also closes one
\* whose mux has died, when runMultiRelaySession returns.
MustClose == start.ph = "failed" \/ (Role = "server" /\ mux = "dead")

\* The goroutines run, and the owner closes a pool it must close; connections
\* whose TURN manager or mux is gone die.
Fairness ==
    /\ WF_vars(StartConnects) /\ WF_vars(StartSkips)
    /\ WF_vars(\E out \in FaultKinds \cup {"conns"} : StartAllocates(out))
    /\ WF_vars(LoopSkips) /\ WF_vars(\E w \in Workers : LoopSpawns(w))
    /\ \A w \in Workers : WF_vars(Worker(w))
    /\ WF_vars(MonitorTick)
    /\ WF_vars(MustClose /\ CloseBegins)
    /\ WF_vars(CloseMux) /\ \A o \in Objs : WF_vars(CloseSlot(o))
    /\ \A o \in Objs : WF_vars((sig[o] = "none" \/ mux = "dead") /\ ConnsDie(o))

FairSpec == Spec /\ Fairness

-----------------------------------------------------------------------------
\* Until Close, every open signaling connection belongs to the current object of
\* a slot: reconnects of the same slot never overlap and strand one.
NoStrandedSignaling ==
    ~done => \A o \in Objs : sig[o] # "none" => \E s \in Slots : cur[s] = o

\* Until Close, the router holds exactly the signaling clients of the connected
\* slots: no reconnect, failed or not, leaves a client of a closed slot in it.
RouterTracksSlots == ~done => reg = {o \in Objs : sig[o] # "none"}

\* A slot whose signaling dies while it is active is reconnected, as long as no
\* attempt fails: the request is lost neither in the channel nor to the dedup map.
SignalingRepaired ==
    [](\A w \in Workers : job[w].pc # "release") => \A s \in Slots :
        (st[cur[s]] = "active" /\ sig[cur[s]] = "down")
            ~> (done \/ (st[cur[s]] = "active" /\ sig[cur[s]] = "up"))

\* Connections that AllocateAndConnectServer left in a mux it then reported as
\* an error of the start do not outlive the reconnect (or Close) of their slot.
OrphanMuxReaped == 
    \A o \in Objs : (live[o] = "orphan" /\ ~done) ~> live[o] # "orphan"
=============================================================================
