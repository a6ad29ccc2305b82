---------------------------- MODULE MobileTunnel ----------------------------
(***************************************************************************)
(* The tunnel of the mobile binding (mobile/bind/tunnel.go): Start, Stop,  *)
(* the reconnect loop, applyState, teardownMux, networkSettled, and the    *)
(* two goroutines of each relay session.                                   *)
(*                                                                         *)
(* A tunnelState (mux, TURN manager, signaling client, pool) is a number.  *)
(* teardownMux is cut in two: the swap under Tunnel.mu and the release     *)
(* outside it.  applyState is cut in three: the section under the lock,    *)
(* the goroutines and AddConn, and close(ready).                           *)
(* Start is called once: the applications make a Tunnel per session.       *)
(***************************************************************************)
EXTENDS Integers

CONSTANTS
    MaxStates,    \* bound: connection attempts that succeed
    MaxFailures,  \* maxConsecutiveFailures (10 in the code)
    Modes         \* subset of {"direct", "relay", "pool"}; Telemost is "direct"

ASSUME MobileAssumption ==
    /\ MaxStates \in Nat \ {0}
    /\ MaxFailures \in Nat \ {0}
    /\ Modes \subseteq {"direct", "relay", "pool"}

States == 1..MaxStates
NoState == 0

VARIABLES
    mode,      \* what Start was asked to connect
    running,   \* Tunnel.running
    rootDone,  \* rootCtx is cancelled
    cur,       \* the installed state: t.m, t.mgr, t.sigClient, t.pool, t.muxCancel
    ready,     \* identity of the channel t.muxReady
    closed,    \* the muxReady channels that have been closed
    force,     \* networkForce holds a signal
    fatal,     \* setFatalError has been called
    made,      \* number of states connected so far
    phase,     \* life of each state, see Phases
    sig,       \* its signaling client: none, alive, lost, closed
    mux,       \* its mux: built (no connection yet), live, dead (Dead() is closed)
    manager,   \* states whose ReconnectManager goroutine runs
    start,     \* where Start stands
    loop,      \* where reconnectLoop stands
    watched,   \* the mux reconnectLoop waits for
    failures,  \* consecutiveFailures
    stop,      \* where Stop stands
    settle,    \* where networkSettled stands
    rel,       \* the state loop, stop and settle are releasing, or settle has read
    rdy,       \* the channel applyState has read, or -1
    late       \* history: applyState has installed a state after Stop or a failure

flags     == <<mode, running, rootDone, fatal, late>>
current   == <<cur, ready, phase>>
resources == <<sig, mux, manager>>
loopVars  == <<loop, watched, failures>>
vars == <<flags, current, closed, force, made, resources, start, loopVars, stop,
          settle, rel, rdy>>

Phases == {"free", "held", "installed", "detached", "released"}

Init ==
    /\ mode \in Modes
    /\ running = FALSE /\ rootDone = FALSE /\ fatal = FALSE /\ late = FALSE
    /\ cur = NoState /\ ready = 0 /\ closed = {}
    /\ force = FALSE /\ made = 0
    /\ phase = [s \in States |-> "free"]
    /\ sig = [s \in States |-> "none"]
    /\ mux = [s \in States |-> "built"]
    /\ manager = {}
    /\ start = "idle" /\ loop = "none" /\ watched = NoState /\ failures = 0
    /\ stop = "idle" /\ settle = "idle"
    /\ rel = [a \in {"loop", "stop", "settle"} |-> NoState]
    /\ rdy = -1

-----------------------------------------------------------------------------
(***************************************************************************)
(* teardownMux.                                                            *)
(***************************************************************************)
\* Mutation: the channel is kept, also when there was a mux to tear down.
SwapKeepsReady ==
    /\ cur' = NoState
    /\ phase' = [s \in States |-> IF s = cur THEN "detached" ELSE phase[s]]
    /\ ready' = ready

\* Mutation: every call makes a new channel, also with nothing to tear down.
SwapAlwaysRenews ==
    /\ cur' = NoState
    /\ phase' = [s \in States |-> IF s = cur THEN "detached" ELSE phase[s]]
    /\ ready' = ready + 1

\* Under the lock: take the state out; a new muxReady only if there was one.
Swap ==
    /\ cur' = NoState
    /\ phase' = [s \in States |-> IF s = cur THEN "detached" ELSE phase[s]]
    /\ ready' = IF cur = NoState THEN ready ELSE ready + 1

\* In the goroutine that took s out: sig.Close(), muxCancel(), m.Close(), the
\* cleanups, mgr.CloseAll() and pool.Close().
Release(s) ==
    /\ phase[s] = "detached"
    /\ phase' = [phase EXCEPT ![s] = "released"]
    /\ sig' = [sig EXCEPT ![s] = IF @ = "none" THEN @ ELSE "closed"]
    /\ UNCHANGED <<flags, cur, ready, closed, force, made, mux, manager,
                   start, loopVars, stop, settle, rel, rdy>>

Released(a) == rel[a] # NoState => phase[rel[a]] = "released"

\* muxCtx of state s is cancelled: by teardownMux or with its parent rootCtx.
MuxCtxDone(s) == rootDone \/ phase[s] = "released"

-----------------------------------------------------------------------------
(***************************************************************************)
(* applyState, called by Start and then only by reconnectLoop.             *)
(***************************************************************************)
\* What connectDirectSingle returns: a mux no connection has been added to.
DirectState == [sig |-> "none", mux |-> "built"]

\* What connectRelay returns: the mux is built, the signaling client is open.
RelayState == [sig |-> "alive", mux |-> "built"]

\* What connectMultiRelay returns: the pool has its signaling and a running mux.
PoolState == [sig |-> "none", mux |-> "live"]

\* A connect succeeds (connectTelemost returns what connectDirectSingle does).
Connected(kind) ==
    /\ made < MaxStates
    /\ made' = made + 1
    /\ phase' = [phase EXCEPT ![made + 1] = "held"]
    /\ LET state == CASE kind = "relay" -> RelayState
                      [] kind = "pool"  -> PoolState
                      [] OTHER          -> DirectState
       IN  /\ sig' = [sig EXCEPT ![made + 1] = state.sig]
           /\ mux' = [mux EXCEPT ![made + 1] = state.mux]

\* The section under the lock.
Install ==
    /\ cur' = made
    /\ phase' = [phase EXCEPT ![made] = "installed"]
    /\ rdy' = ready
    /\ late' = (late \/ ~running)

\* DispatchLoop, AddConn of every connection, and in relay mode the two goroutines.
Launch(s) ==
    /\ mux' = [mux EXCEPT ![s] = IF @ = "built" THEN "live" ELSE @]
    /\ manager' = IF sig[s] = "none" THEN manager ELSE manager \cup {s}

\* close(ready).
SignalReady ==
    /\ closed' = closed \cup {rdy}
    /\ rdy' = -1

-----------------------------------------------------------------------------
(***************************************************************************)
(* Start.                                                                  *)
(***************************************************************************)
StartBegins ==
    /\ start = "idle"
    /\ start' = "connecting"
    /\ running' = TRUE
    /\ UNCHANGED <<mode, rootDone, fatal, late, current, closed, force, made, resources,
                   loopVars, stop, settle, rel, rdy>>

StartConnected ==
    /\ start = "connecting"
    /\ Connected(mode)
    /\ start' = "install"
    /\ UNCHANGED <<flags, cur, ready, closed, force, manager, loopVars, stop,
                   settle, rel, rdy>>

\* The connect fails: rootCancel(), running = false.
StartFails ==
    /\ start = "connecting"
    /\ start' = "returned"
    /\ rootDone' = TRUE
    /\ running' = FALSE
    /\ UNCHANGED <<mode, fatal, late, current, closed, force, made, resources, loopVars,
                   stop, settle, rel, rdy>>

StartInstalls ==
    /\ start = "install"
    /\ Install
    /\ start' = "launch"
    /\ UNCHANGED <<mode, running, rootDone, fatal, ready, closed, force, made, resources,
                   loopVars, stop, settle, rel>>

StartLaunches ==
    /\ start = "launch"
    /\ Launch(1)
    /\ start' = "ready"
    /\ UNCHANGED <<flags, current, closed, force, made, sig, loopVars, stop, settle,
                   rel, rdy>>

\* close(ready), then go t.reconnectLoop().
StartReturns ==
    /\ start = "ready"
    /\ start' = "returned"
    /\ SignalReady
    /\ loop' = "top"
    /\ UNCHANGED <<flags, current, force, made, resources, watched, failures, stop,
                   settle, rel>>

StartStep == StartInstalls \/ StartLaunches \/ StartReturns

-----------------------------------------------------------------------------
(***************************************************************************)
(* reconnectLoop.  A timed wait may end at any time.                       *)
(***************************************************************************)
LoopLooks ==
    /\ loop = "top"
    /\ watched' = cur
    /\ loop' = IF cur = NoState THEN "nilwait" ELSE "muxwait"
    /\ UNCHANGED <<flags, current, closed, force, made, resources, start, failures, stop,
                   settle, rel, rdy>>

LoopReturns ==
    /\ rootDone
    /\ loop \in {"nilwait", "muxwait", "backoff"}
    /\ loop' = "returned"
    /\ watched' = NoState
    /\ UNCHANGED <<flags, current, closed, force, made, resources, start, failures, stop,
                   settle, rel, rdy>>

\* Mutation: without a mux, the loop waits for a force signal only.
LoopWakesOnForce ==
    /\ loop = "nilwait"
    /\ force
    /\ force' = FALSE
    /\ loop' = "drain"
    /\ UNCHANGED <<flags, current, closed, made, resources, start, watched, failures, stop,
                   settle, rel, rdy>>

\* No mux: a force signal or the backoff ends the wait.
LoopWakes ==
    /\ loop = "nilwait"
    /\ loop' = "drain"
    /\ force' \in {force, FALSE}
    /\ UNCHANGED <<flags, current, closed, made, resources, start, watched, failures, stop,
                   settle, rel, rdy>>

LoopSeesDeath ==
    /\ loop = "muxwait"
    /\ mux[watched] = "dead"
    /\ loop' = "swap"
    /\ watched' = NoState
    /\ UNCHANGED <<flags, current, closed, force, made, resources, start, failures, stop,
                   settle, rel, rdy>>

LoopForced ==
    /\ loop = "muxwait"
    /\ force
    /\ force' = FALSE
    /\ loop' = "swap"
    /\ watched' = NoState
    /\ UNCHANGED <<flags, current, closed, made, resources, start, failures, stop, settle,
                   rel, rdy>>

\* Mutation: a mux that is dead is not torn down before the next attempt.
LoopSkipsSwap ==
    /\ loop \in {"swap", "fatalswap"}
    /\ loop' = IF loop = "swap" THEN "drain" ELSE "returned"
    /\ UNCHANGED <<flags, current, closed, force, made, resources, start, watched, failures,
                   stop, settle, rel, rdy>>

\* teardownMux, after a death or a force signal and after the last failure.
LoopSwaps ==
    /\ loop \in {"swap", "fatalswap"}
    /\ Swap
    /\ rel' = [rel EXCEPT !["loop"] = cur]
    /\ loop' = IF loop = "swap" THEN "release" ELSE "fatalrelease"
    /\ UNCHANGED <<flags, closed, force, made, resources, start, watched, failures, stop,
                   settle, rdy>>

LoopReleased ==
    /\ loop \in {"release", "fatalrelease"}
    /\ Released("loop")
    /\ rel' = [rel EXCEPT !["loop"] = NoState]
    /\ loop' = IF loop = "release" THEN "drain" ELSE "returned"
    /\ UNCHANGED <<flags, current, closed, force, made, resources, start, watched, failures,
                   stop, settle, rdy>>

LoopDrains ==
    /\ loop = "drain"
    /\ loop' = "attempt"
    /\ force' = FALSE
    /\ failures' = 0
    /\ UNCHANGED <<flags, current, closed, made, resources, start, watched, stop, settle,
                   rel, rdy>>

\* A pool is reconnected as a single relay session.
AttemptSucceeds ==
    /\ loop = "attempt"
    /\ Connected(IF mode = "pool" THEN "relay" ELSE mode)
    /\ loop' = "install"
    /\ UNCHANGED <<flags, cur, ready, closed, force, manager, start, watched,
                   failures, stop, settle, rel, rdy>>

AttemptFails ==
    /\ loop = "attempt"
    /\ failures + 1 < MaxFailures
    /\ loop' = "backoff"
    /\ failures' = IF force THEN 0 ELSE failures + 1
    /\ force' = FALSE
    /\ UNCHANGED <<flags, current, closed, made, resources, start, watched, stop, settle,
                   rel, rdy>>

LastAttemptFails ==
    /\ loop = "attempt"
    /\ failures + 1 >= MaxFailures
    /\ fatal' = TRUE
    /\ loop' = "fatalswap"
    /\ UNCHANGED <<mode, running, rootDone, late, current, closed, force, made, resources,
                   start, watched, failures, stop, settle, rel, rdy>>

BackedOff ==
    /\ loop = "backoff"
    /\ loop' = "attempt"
    /\ UNCHANGED <<flags, current, closed, force, made, resources, start, watched, failures,
                   stop, settle, rel, rdy>>

LoopInstalls ==
    /\ loop = "install"
    /\ Install
    /\ loop' = "launch"
    /\ UNCHANGED <<mode, running, rootDone, fatal, ready, closed, force, made, resources,
                   start, watched, failures, stop, settle, rel>>

LoopLaunches ==
    /\ loop = "launch"
    /\ Launch(made)
    /\ loop' = "ready"
    /\ UNCHANGED <<flags, current, closed, force, made, sig, start, watched, failures, stop,
                   settle, rel, rdy>>

LoopSignalsReady ==
    /\ loop = "ready"
    /\ SignalReady
    /\ loop' = "applied"
    /\ UNCHANGED <<flags, current, force, made, resources, start, watched, failures, stop,
                   settle, rel>>

LoopApplied ==
    /\ loop = "applied"
    /\ force' = FALSE
    /\ loop' = "top"
    /\ UNCHANGED <<flags, current, closed, made, resources, start, watched, failures, stop,
                   settle, rel, rdy>>

LoopStep ==
    \/ LoopLooks \/ LoopReturns \/ LoopWakes \/ LoopSeesDeath \/ LoopForced
    \/ LoopSwaps \/ LoopReleased \/ LoopDrains
    \/ AttemptSucceeds \/ AttemptFails \/ LastAttemptFails \/ BackedOff
    \/ LoopInstalls \/ LoopLaunches \/ LoopSignalsReady \/ LoopApplied

-----------------------------------------------------------------------------
(***************************************************************************)
(* Stop.                                                                   *)
(***************************************************************************)
\* running = false under the lock, then rootCancel(); only networkSettled looks
\* at running between the two.
StopBegins ==
    /\ stop = "idle"
    /\ running
    /\ running' = FALSE
    /\ rootDone' = TRUE
    /\ stop' = "swap"
    /\ UNCHANGED <<mode, fatal, late, current, closed, force, made, resources, start,
                   loopVars, settle, rel, rdy>>

\* Mutation: Stop relies on the reconnect loop to tear the mux down.
StopSkipsSwap ==
    /\ stop = "swap"
    /\ stop' = "returned"
    /\ UNCHANGED <<flags, current, closed, force, made, resources, start, loopVars,
                   settle, rel, rdy>>

StopSwaps ==
    /\ stop = "swap"
    /\ Swap
    /\ rel' = [rel EXCEPT !["stop"] = cur]
    /\ stop' = "release"
    /\ UNCHANGED <<flags, closed, force, made, resources, start, loopVars, settle, rdy>>

StopReturns ==
    /\ stop = "release"
    /\ Released("stop")
    /\ rel' = [rel EXCEPT !["stop"] = NoState]
    /\ stop' = "returned"
    /\ UNCHANGED <<flags, current, closed, force, made, resources, start, loopVars,
                   settle, rdy>>

StopStep == StopSwaps \/ StopReturns

-----------------------------------------------------------------------------
(***************************************************************************)
(* OnNetworkChanged and networkSettled.  The debounce timer is omitted: it *)
(* delays a call that looks at running again.  One call at a time.         *)
(***************************************************************************)
SettleLooks ==
    /\ settle = "idle"
    /\ running
    /\ cur # NoState
    /\ settle' = "decide"
    /\ rel' = [rel EXCEPT !["settle"] = cur]
    /\ UNCHANGED <<flags, current, closed, force, made, resources, start, loopVars, stop,
                   rdy>>

\* Level 0 (the mux is healthy) or level 1 (ProbeConnections): no teardown.
SettleSpares ==
    /\ settle = "decide"
    /\ settle' = "idle"
    /\ rel' = [rel EXCEPT !["settle"] = NoState]
    /\ UNCHANGED <<flags, current, closed, force, made, resources, start, loopVars, stop,
                   rdy>>

\* Level 2: the mux is unhealthy and its signaling is gone.
SettleSwaps ==
    /\ settle = "decide"
    /\ sig[rel["settle"]] # "alive"
    /\ Swap
    /\ rel' = [rel EXCEPT !["settle"] = cur]
    /\ settle' = "release"
    /\ UNCHANGED <<flags, closed, force, made, resources, start, loopVars, stop,
                   rdy>>

\* The non-blocking send on networkForce.
SettleForces ==
    /\ settle = "release"
    /\ Released("settle")
    /\ rel' = [rel EXCEPT !["settle"] = NoState]
    /\ force' = TRUE
    /\ settle' = "idle"
    /\ UNCHANGED <<flags, current, closed, made, resources, start, loopVars, stop,
                   rdy>>

SettleStep == SettleSpares \/ SettleSwaps \/ SettleForces

-----------------------------------------------------------------------------
(***************************************************************************)
(* The goroutines of a relay session, and the events they wait for.        *)
(***************************************************************************)
\* ReconnectManager.Run finds its signaling dead and calls teardownMux, which
\* takes out whatever state is installed by then.
ManagerTears(s) ==
    /\ s \in manager
    /\ sig[s] \in {"lost", "closed"}
    /\ manager' = manager \ {s}
    /\ Swap
    /\ UNCHANGED <<flags, closed, force, made, sig, mux, start, loopVars, stop,
                   settle, rel, rdy>>

ManagerReturns(s) ==
    /\ s \in manager
    /\ MuxCtxDone(s)
    /\ manager' = manager \ {s}
    /\ UNCHANGED <<flags, current, closed, force, made, sig, mux, start, loopVars,
                   stop, settle, rel, rdy>>

\* WaitForSessionEnd reports a hungup of the installed session: teardownMux.
\* (One that comes late meets another state, as in ManagerTears.)
MonitorTears(s) ==
    /\ cur = s
    /\ sig[s] # "none"
    /\ mux[s] # "built"
    /\ Swap
    /\ UNCHANGED <<flags, closed, force, made, resources, start, loopVars, stop, settle,
                   rel, rdy>>

GoroutineStep(s) ==
    Release(s) \/ ManagerTears(s) \/ ManagerReturns(s)

\* The WebSocket breaks.
SignalingLost(s) ==
    /\ sig[s] = "alive"
    /\ sig' = [sig EXCEPT ![s] = "lost"]
    /\ UNCHANGED <<flags, current, closed, force, made, mux, manager, start,
                   loopVars, stop, settle, rel, rdy>>

\* The last connection of the mux ends: the network, or m.Close().
MuxDies(s) ==
    /\ mux[s] = "live"
    /\ mux' = [mux EXCEPT ![s] = "dead"]
    /\ UNCHANGED <<flags, current, closed, force, made, sig, manager, start,
                   loopVars, stop, settle, rel, rdy>>

-----------------------------------------------------------------------------
Next ==
    \/ StartBegins \/ StartConnected \/ StartFails \/ StartStep
    \/ LoopStep
    \/ StopBegins \/ StopStep
    \/ SettleLooks \/ SettleStep
    \/ \E s \in States : \/ GoroutineStep(s) \/ MonitorTears(s)
                         \/ SignalingLost(s) \/ MuxDies(s)

Spec == Init /\ [][Next]_vars

(***************************************************************************)
(* A goroutine that can run is scheduled eventually, and an attempt of the *)
(* loop ends within attemptTimeout.  A mux that has been closed dies (the  *)
(* property CloseReapsReaders of MuxConns).  Start's connect has no        *)
(* timeout, and nothing makes a network or a caller act.                   *)
(***************************************************************************)
FairSpec ==
    /\ Spec
    /\ WF_vars(StartStep) /\ WF_vars(LoopStep) /\ WF_vars(StopStep) /\ WF_vars(SettleStep)
    /\ \A s \in States :
          /\ WF_vars(GoroutineStep(s))
          /\ WF_vars(phase[s] = "released" /\ MuxDies(s))

-----------------------------------------------------------------------------
(***************************************************************************)
(* Properties.                                                             *)
(***************************************************************************)
StartPcs == {"idle", "connecting", "install", "launch", "ready", "returned"}
LoopPcs == {"none", "top", "nilwait", "muxwait", "swap", "release", "fatalswap",
            "fatalrelease", "drain", "attempt", "backoff", "install", "launch", "ready",
            "applied", "returned"}

\* Every variable has its type; there are never more muxReady channels than
\* teardowns of a state, nor more consecutive failures than the limit.
TypeOK ==
    /\ mode \in Modes
    /\ {running, rootDone, force, fatal, late} \subseteq BOOLEAN
    /\ cur \in States \cup {NoState}
    /\ ready \in 0..MaxStates
    /\ closed \subseteq 0..MaxStates
    /\ made \in 0..MaxStates
    /\ phase \in [States -> Phases]
    /\ sig \in [States -> {"none", "alive", "lost", "closed"}]
    /\ mux \in [States -> {"built", "live", "dead"}]
    /\ manager \subseteq States
    /\ start \in StartPcs
    /\ loop \in LoopPcs
    /\ watched \in States \cup {NoState}
    /\ failures \in 0..(MaxFailures - 1)
    /\ stop \in {"idle", "swap", "release", "returned"}
    /\ settle \in {"idle", "decide", "release"}
    /\ rel \in [{"loop", "stop", "settle"} -> States \cup {NoState}]
    /\ rdy \in -1..MaxStates

\* applyState closes each muxReady channel once: closing a closed channel would
\* panic.  The channel it has read is still open however many teardowns, by
\* Stop, networkSettled or the session's goroutines, come before close(ready).
ReadyClosedOnce == rdy \notin closed

\* applyState never overwrites a state that has not been torn down, so that no
\* mux, signaling client or TURN manager loses its last reference while open.
InstalledIsCurrent == \A s \in States : phase[s] = "installed" <=> s = cur

\* While the loop runs, a tunnel without a working mux does not stay so: it is
\* reconnected, declared fatally failed, or stopped, whichever of the loop,
\* networkSettled or the session's goroutines tore the old mux down.
MuxRestored ==
    LET broken == /\ running
                  /\ loop \notin {"none", "returned"}
                  /\ cur = NoState \/ mux[cur] = "dead"
    IN  broken ~> ~broken

\* A getMux caller that read muxReady while there was no mux does not wait on a
\* channel nobody will close: a channel that has been replaced is closed, or
\* applyState is about to close it.
NoOrphanedReady == \A r \in 0..(ready - 1) : r \in closed \/ r = rdy

\* Stop releases everything and ends the loop, whatever it meets, unless a
\* connect that was under way succeeds and is installed after it.
StopReleasesAll ==
    stop = "returned" ~>
        \/ late
        \/ start = "connecting"
        \/ /\ \A s \in States : phase[s] \in {"free", "released"}
           /\ manager = {}
           /\ loop \in {"none", "returned"}

=============================================================================
