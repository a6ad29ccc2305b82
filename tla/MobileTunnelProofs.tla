------------------------- MODULE MobileTunnelProofs -------------------------
(***************************************************************************)
(* What applyState and teardownMux keep, for any number of tunnel states,  *)
(* any failure limit and every mode of the mobile tunnel; then the types   *)
(* and what Stop leaves behind; last, what the reconnect manager of a      *)
(* relay state keeps.                                                      *)
(***************************************************************************)
EXTENDS MobileTunnel, ReconnectManager, TLAPS

\* Types of the variables the argument is about.
Shape ==
    /\ ready \in Nat
    /\ closed \subseteq 0..ready
    /\ rdy \in Nat \cup {-1}
    /\ rdy <= ready
    /\ made \in 0..MaxStates
    /\ cur \in 0..MaxStates
    /\ phase \in [States -> Phases]

\* Only one goroutine is in applyState: Start, and after it the loop.
OneApplier ==
    /\ start # "returned" => loop = "none"
    /\ rdy # -1 <=> \/ start \in {"launch", "ready"}
                    \/ loop \in {"launch", "ready"}

\* From its look at t.m, or its teardown, to applyState the loop knows that no
\* state is installed, because nobody else installs one.
NoMuxWhileConnecting ==
    /\ start \in {"idle", "connecting", "install"} => cur = NoState
    /\ loop \in {"nilwait", "release", "fatalswap", "fatalrelease", "drain", "attempt",
                 "backoff", "install"} => cur = NoState
    /\ start = "install" \/ loop = "install" => made \in States /\ phase[made] = "held"

\* muxReady is open and unread by applyState exactly while there is no mux.
ReadyMatchesMux ==
    /\ cur = NoState => ready \notin closed /\ rdy # ready
    /\ cur # NoState => ready \in closed \/ rdy = ready

\* The inductive invariant.
IInv ==
    /\ Shape
    /\ OneApplier
    /\ NoMuxWhileConnecting
    /\ ReadyMatchesMux
    /\ ReadyClosedOnce
    /\ NoOrphanedReady
    /\ InstalledIsCurrent

-----------------------------------------------------------------------------
\* A new Tunnel has no state and one open channel.
LEMMA InitIInv == Init => IInv
BY MobileAssumption DEF Init, IInv, Shape, OneApplier, NoMuxWhileConnecting,
   ReadyMatchesMux, ReadyClosedOnce, NoOrphanedReady, InstalledIsCurrent, States,
   NoState, Phases

\* teardownMux by whichever goroutine: the channel it replaces has been closed,
\* or applyState has read it and will close it.
LEMMA SwapIInv ==
    ASSUME IInv, Swap, UNCHANGED <<closed, made, rdy, start>>,
           \/ loop' = loop
           \/ loop = "swap" /\ loop' = "release"
           \/ loop = "fatalswap" /\ loop' = "fatalrelease"
    PROVE  IInv'
<1>. USE MobileAssumption DEF IInv, States, NoState
<1>1. Shape'
  BY DEF Shape, Swap, Phases
<1>2. OneApplier'
  BY DEF OneApplier
<1>3. NoMuxWhileConnecting'
  BY DEF Swap, NoMuxWhileConnecting, Shape
<1>4. ReadyMatchesMux' /\ ReadyClosedOnce' /\ NoOrphanedReady'
  BY DEF Swap, ReadyMatchesMux, ReadyClosedOnce, NoOrphanedReady, Shape
<1>5. InstalledIsCurrent'
  BY DEF Swap, InstalledIsCurrent, Shape
<1>. QED
  BY <1>1, <1>2, <1>3, <1>4, <1>5

\* The section of applyState under the lock, in Start and in the loop.
LEMMA InstallIInv ==
    ASSUME IInv, Install, UNCHANGED <<ready, closed, made>>,
           \/ start = "install" /\ start' = "launch" /\ loop' = loop
           \/ loop = "install" /\ loop' = "launch" /\ start' = start
    PROVE  IInv'
<1>. USE MobileAssumption DEF IInv, States, NoState
<1>0. cur = NoState /\ made \in States
  BY DEF NoMuxWhileConnecting
<1>1. Shape'
  BY <1>0 DEF Shape, Install, Phases
<1>2. OneApplier' /\ NoMuxWhileConnecting'
  BY <1>0 DEF OneApplier, NoMuxWhileConnecting, Install, Shape
<1>3. ReadyMatchesMux' /\ ReadyClosedOnce' /\ NoOrphanedReady'
  BY <1>0 DEF OneApplier, Install, ReadyMatchesMux, ReadyClosedOnce, NoOrphanedReady, Shape
<1>4. InstalledIsCurrent'
  BY <1>0 DEF Install, InstalledIsCurrent, Shape
<1>. QED
  BY <1>1, <1>2, <1>3, <1>4

\* A connect that succeeds, in Start and in the loop.
LEMMA ConnectedIInv ==
    ASSUME IInv, NEW kind, Connected(kind), UNCHANGED <<cur, ready, closed, rdy>>,
           \/ start = "connecting" /\ start' = "install" /\ loop' = loop
           \/ loop = "attempt" /\ loop' = "install" /\ start' = start
    PROVE  IInv'
<1>. USE MobileAssumption DEF IInv, States, NoState
<1>1. cur = NoState /\ made + 1 \in States
  BY DEF NoMuxWhileConnecting, Connected, Shape
<1>2. Shape'
  BY <1>1 DEF Shape, Connected, Phases
<1>3. OneApplier' /\ NoMuxWhileConnecting'
  BY <1>1 DEF OneApplier, NoMuxWhileConnecting, Connected, Shape
<1>4. ReadyMatchesMux' /\ ReadyClosedOnce' /\ NoOrphanedReady'
  BY DEF ReadyMatchesMux, ReadyClosedOnce, NoOrphanedReady
<1>5. InstalledIsCurrent'
  BY <1>1 DEF Connected, InstalledIsCurrent, Shape
<1>. QED
  BY <1>2, <1>3, <1>4, <1>5

\* close(ready), in Start and in the loop.
LEMMA SignalReadyIInv ==
    ASSUME IInv, SignalReady, UNCHANGED <<cur, ready, phase, made>>,
           \/ start = "ready" /\ start' = "returned" /\ loop' = "top"
           \/ loop = "ready" /\ loop' = "applied" /\ start' = start
    PROVE  IInv'
<1>. USE DEF IInv
<1>0. rdy \in Nat
  BY DEF OneApplier, Shape
<1>1. Shape'
  BY <1>0 DEF Shape, SignalReady
<1>2. OneApplier' /\ NoMuxWhileConnecting'
  BY DEF OneApplier, NoMuxWhileConnecting, SignalReady
<1>3. ReadyMatchesMux' /\ ReadyClosedOnce' /\ NoOrphanedReady'
  BY <1>0, <1>1 DEF SignalReady, ReadyMatchesMux, ReadyClosedOnce, NoOrphanedReady, Shape
<1>4. InstalledIsCurrent'
  BY DEF InstalledIsCurrent
<1>. QED
  BY <1>1, <1>2, <1>3, <1>4

\* Steps that move the loop or Start and leave the installed state alone.
LEMMA MoveIInv ==
    ASSUME IInv, UNCHANGED <<current, closed, made, rdy>>,
           \/ start' = start /\ loop' = loop
           \/ start = "idle" /\ start' = "connecting" /\ loop' = loop
           \/ start = "connecting" /\ start' = "returned" /\ loop' = loop
           \/ start = "launch" /\ start' = "ready" /\ loop' = loop
           \/ loop = "launch" /\ loop' = "ready" /\ start' = start
           \/ loop = "top" /\ start' = start
              /\ loop' = IF cur = NoState THEN "nilwait" ELSE "muxwait"
           \/ loop = "muxwait" /\ start' = start /\ loop' \in {"returned", "swap"}
           \/ /\ loop \in {"nilwait", "release", "fatalrelease", "drain", "attempt",
                           "backoff"}
              /\ loop' \in {"returned", "drain", "attempt", "backoff", "fatalswap"}
              /\ start' = start
           \/ loop = "applied" /\ loop' = "top" /\ start' = start
    PROVE  IInv'
<1>. USE DEF IInv, current
<1>1. Shape' /\ ReadyMatchesMux' /\ ReadyClosedOnce' /\ NoOrphanedReady'
      /\ InstalledIsCurrent'
  BY DEF Shape, ReadyMatchesMux, ReadyClosedOnce, NoOrphanedReady, InstalledIsCurrent
<1>2. OneApplier'
  BY DEF OneApplier
<1>3. NoMuxWhileConnecting'
  BY DEF NoMuxWhileConnecting, OneApplier
<1>. QED
  BY <1>1, <1>2, <1>3

\* The release changes the phase of a state that is no longer installed.
LEMMA ReleaseIInv == ASSUME IInv, NEW s \in States, Release(s) PROVE IInv'
<1>. USE DEF IInv, Release, flags, loopVars
<1>1. phase[s] = "detached" /\ phase' = [phase EXCEPT ![s] = "released"]
      /\ UNCHANGED <<cur, ready, closed, made, start, loop, rdy>>
  OBVIOUS
<1>2. Shape'
  BY <1>1 DEF Shape, Phases
<1>3. OneApplier' /\ ReadyMatchesMux' /\ ReadyClosedOnce' /\ NoOrphanedReady'
  BY <1>1 DEF OneApplier, ReadyMatchesMux, ReadyClosedOnce, NoOrphanedReady
<1>4. NoMuxWhileConnecting' /\ InstalledIsCurrent'
  BY <1>1 DEF NoMuxWhileConnecting, InstalledIsCurrent, Shape
<1>. QED
  BY <1>2, <1>3, <1>4

-----------------------------------------------------------------------------
\* Every step of every goroutine is one of the six kinds above.
LEMMA NextIInv == IInv /\ [Next]_vars => IInv'
<1>. SUFFICES ASSUME IInv, [Next]_vars PROVE IInv'
  OBVIOUS
<1>. USE DEF flags, current, resources, loopVars
<1>1. CASE StartBegins \/ StartFails \/ StartLaunches
  BY <1>1, MoveIInv DEF StartBegins, StartFails, StartLaunches
<1>2. CASE StartConnected
  BY <1>2, ConnectedIInv DEF StartConnected
<1>3. CASE StartInstalls \/ LoopInstalls
  BY <1>3, InstallIInv DEF StartInstalls, LoopInstalls
<1>4. CASE StartReturns \/ LoopSignalsReady
  BY <1>4, SignalReadyIInv DEF StartReturns, LoopSignalsReady
<1>5. CASE \/ LoopLooks \/ LoopReturns \/ LoopWakes \/ LoopSeesDeath \/ LoopForced
           \/ LoopReleased \/ LoopDrains
  BY <1>5, MoveIInv DEF LoopLooks, LoopReturns, LoopWakes, LoopSeesDeath, LoopForced,
                        LoopReleased, LoopDrains
<1>6. CASE \/ AttemptFails \/ LastAttemptFails \/ BackedOff \/ LoopLaunches \/ LoopApplied
  BY <1>6, MoveIInv DEF AttemptFails, LastAttemptFails, BackedOff, LoopLaunches, LoopApplied
<1>7. CASE LoopSwaps
  BY <1>7, SwapIInv DEF LoopSwaps
<1>8. CASE AttemptSucceeds
  BY <1>8, ConnectedIInv DEF AttemptSucceeds
<1>9. CASE StopSwaps \/ SettleSwaps
  BY <1>9, SwapIInv DEF StopSwaps, SettleSwaps
<1>10. CASE StopBegins \/ StopReturns \/ SettleLooks \/ SettleSpares \/ SettleForces
  BY <1>10, MoveIInv DEF StopBegins, StopReturns, SettleLooks, SettleSpares, SettleForces
<1>11. ASSUME NEW s \in States, ManagerTears(s) \/ MonitorTears(s)
       PROVE  IInv'
  BY <1>11, SwapIInv DEF ManagerTears, MonitorTears
<1>12. ASSUME NEW s \in States, ManagerReturns(s) \/ SignalingLost(s) \/ MuxDies(s)
       PROVE  IInv'
  BY <1>12, MoveIInv DEF ManagerReturns, SignalingLost, MuxDies
<1>13. CASE UNCHANGED vars
  BY <1>13, MoveIInv DEF vars
<1>. QED
  BY <1>1, <1>2, <1>3, <1>4, <1>5, <1>6, <1>7, <1>8, <1>9, <1>10, <1>11, <1>12, <1>13,
     ReleaseIInv
     DEF Next, StartStep, LoopStep, StopStep, SettleStep, GoroutineStep

\* close(ready) in applyState never panics: no muxReady channel is closed twice.
THEOREM ReadyNeverClosedTwice == Spec => []ReadyClosedOnce
<1>1. IInv => ReadyClosedOnce
  BY DEF IInv
<1>. QED
  BY <1>1, InitIInv, NextIInv, PTL DEF Spec

\* No getMux caller is left on a channel that teardownMux has replaced: such a
\* channel is closed, or applyState is about to close it.
THEOREM WaitersReached == Spec => []NoOrphanedReady
<1>1. IInv => NoOrphanedReady
  BY DEF IInv
<1>. QED
  BY <1>1, InitIInv, NextIInv, PTL DEF Spec

\* applyState never overwrites a state that teardownMux has not taken out, so
\* every mux, signaling client and TURN manager that was installed is released
\* by the goroutine that took it out.
THEOREM NoStateOverwritten == Spec => []InstalledIsCurrent
<1>1. IInv => InstalledIsCurrent
  BY DEF IInv
<1>. QED
  BY <1>1, InitIInv, NextIInv, PTL DEF Spec

-----------------------------------------------------------------------------
(* The types, and what is installed after Stop.                            *)

\* A muxReady channel is replaced at most once for each state that was made and
\* is neither installed nor about to be; what is launched has been made.
Renewals ==
    /\ ready <= made
    /\ cur # NoState => ready < made
    /\ start = "install" \/ loop = "install" => ready < made
    /\ start = "launch" \/ loop = "launch" => made \in States

\* Stop ends running for good, because Start has been called before.
Stopping ==
    /\ running => start # "idle"
    /\ stop # "idle" => start # "idle" /\ ~running

\* Once Stop has torn down what it found, nothing is installed again, unless by
\* a connect that was under way and is recorded as late.
StoppedStaysEmpty == stop \in {"release", "returned"} /\ cur # NoState => late

TypesInv == IInv /\ TypeOK /\ Renewals /\ Stopping /\ StoppedStaysEmpty

LEMMA InitTypes == Init => TypesInv
<1>. SUFFICES ASSUME Init PROVE TypesInv
  OBVIOUS
<1>. USE MobileAssumption DEF Init
<1>1. TypeOK
  <2>1. {running, rootDone, force, fatal, late} \subseteq BOOLEAN
    BY Zenon
  <2>2. mux \in [States -> {"built", "live", "dead"}]
    OBVIOUS
  <2>. QED
    BY <2>1, <2>2 DEF TypeOK, NoState, Phases, StartPcs, LoopPcs
<1>2. Renewals /\ Stopping /\ StoppedStaysEmpty
  BY DEF Renewals, Stopping, StoppedStaysEmpty
<1>. QED
  BY <1>1, <1>2, InitIInv DEF TypesInv

\* Renewals, for the steps that tear down, connect and install, and the others.
LEMMA NextRenewals == IInv /\ Renewals /\ [Next]_vars => Renewals'
<1>. SUFFICES ASSUME IInv, Renewals, [Next]_vars PROVE Renewals'
  OBVIOUS
<1>. USE MobileAssumption
         DEF Renewals, IInv, Shape, NoMuxWhileConnecting, OneApplier, States, NoState,
             flags, current, resources, loopVars
<1>1. CASE StartBegins \/ StartConnected \/ StartFails
  BY <1>1 DEF StartBegins, StartConnected, StartFails, Connected
<1>2. CASE StartStep
  BY <1>2 DEF StartStep, StartInstalls, StartLaunches, StartReturns, Install, SignalReady
<1>3. CASE LoopStep
  <2>1. CASE LoopLooks \/ LoopReturns \/ LoopWakes \/ LoopSeesDeath \/ LoopForced
    BY <2>1 DEF LoopLooks, LoopReturns, LoopWakes, LoopSeesDeath, LoopForced
  <2>2. CASE LoopSwaps \/ LoopReleased \/ LoopDrains
    BY <2>2 DEF LoopSwaps, LoopReleased, LoopDrains, Swap
  <2>3. CASE AttemptSucceeds \/ AttemptFails \/ LastAttemptFails \/ BackedOff
    BY <2>3 DEF AttemptSucceeds, AttemptFails, LastAttemptFails, BackedOff, Connected
  <2>4. CASE LoopInstalls \/ LoopLaunches \/ LoopSignalsReady \/ LoopApplied
    BY <2>4 DEF LoopInstalls, LoopLaunches, LoopSignalsReady, LoopApplied, Install,
       SignalReady
  <2>. QED
    BY <1>3, <2>1, <2>2, <2>3, <2>4 DEF LoopStep
<1>4. CASE StopBegins \/ StopStep \/ SettleLooks \/ SettleStep
  BY <1>4 DEF StopBegins, StopStep, StopSwaps, StopReturns, SettleLooks, SettleStep,
     SettleSpares, SettleSwaps, SettleForces, Swap
<1>5. ASSUME NEW s \in States,
             GoroutineStep(s) \/ MonitorTears(s) \/ SignalingLost(s) \/ MuxDies(s)
      PROVE  Renewals'
  BY <1>5 DEF GoroutineStep, Release, ManagerTears, ManagerReturns, MonitorTears,
     SignalingLost, MuxDies, Swap
<1>6. CASE UNCHANGED vars
  BY <1>6 DEF vars
<1>. QED
  BY <1>1, <1>2, <1>3, <1>4, <1>5, <1>6 DEF Next

\* Stopping and StoppedStaysEmpty: only Start sets running, only applyState sets
\* cur, and it looks at running.
LEMMA NextStopping ==
    TypesInv /\ [Next]_vars => Stopping' /\ StoppedStaysEmpty'
<1>. SUFFICES ASSUME Stopping, StoppedStaysEmpty, [Next]_vars
              PROVE  Stopping' /\ StoppedStaysEmpty'
  BY DEF TypesInv
<1>. USE DEF Stopping, StoppedStaysEmpty, flags, current, resources, loopVars
<1>1. CASE /\ UNCHANGED <<running, stop, late>> /\ cur' \in {cur, NoState}
           /\ start' # start => start' # "idle"
  BY <1>1
<1>2. CASE /\ UNCHANGED <<running, stop>> /\ Install
           /\ start' # start => start' # "idle"
  <2>1. ~running => late'
    BY <1>2, Zenon DEF Install
  <2>. QED
    BY <1>2, <2>1
<1>3. CASE StartBegins \/ StartConnected \/ StartFails
  BY <1>3 DEF StartBegins, StartConnected, StartFails, Connected
<1>4. CASE StartStep
  BY <1>1, <1>2, <1>4 DEF StartStep, StartInstalls, StartLaunches, StartReturns
<1>5. CASE LoopStep
  <2>1. CASE \/ LoopLooks \/ LoopReturns \/ LoopWakes \/ LoopSeesDeath \/ LoopForced
             \/ LoopDrains \/ LoopReleased
    BY <1>1, <2>1 DEF LoopLooks, LoopReturns, LoopWakes, LoopSeesDeath, LoopForced,
       LoopDrains, LoopReleased
  <2>2. CASE LoopSwaps
    BY <1>1, <2>2 DEF LoopSwaps, Swap
  <2>3. CASE AttemptSucceeds \/ AttemptFails \/ LastAttemptFails \/ BackedOff
    BY <1>1, <2>3 DEF AttemptSucceeds, AttemptFails, LastAttemptFails, BackedOff
  <2>4. CASE LoopInstalls \/ LoopLaunches \/ LoopSignalsReady \/ LoopApplied
    BY <1>1, <1>2, <2>4 DEF LoopInstalls, LoopLaunches, LoopSignalsReady, LoopApplied
  <2>. QED
    BY <1>5, <2>1, <2>2, <2>3, <2>4 DEF LoopStep
<1>6. CASE StopBegins \/ StopStep \/ SettleLooks \/ SettleStep
  BY <1>6 DEF StopBegins, StopStep, StopSwaps, StopReturns, SettleLooks, SettleStep,
     SettleSpares, SettleSwaps, SettleForces, Swap
<1>7. ASSUME NEW s \in States,
             GoroutineStep(s) \/ MonitorTears(s) \/ SignalingLost(s) \/ MuxDies(s)
      PROVE  Stopping' /\ StoppedStaysEmpty'
  BY <1>7 DEF GoroutineStep, Release, ManagerTears, ManagerReturns, MonitorTears,
     SignalingLost, MuxDies, Swap
<1>8. CASE UNCHANGED vars
  BY <1>8 DEF vars
<1>. QED
  BY <1>3, <1>4, <1>5, <1>6, <1>7, <1>8 DEF Next

\* The types of the variables that the proofs above do not need.
Flags == {running, rootDone, force, fatal, late} \subseteq BOOLEAN /\ mode \in Modes

Resources ==
    /\ sig \in [States -> {"none", "alive", "lost", "closed"}]
    /\ mux \in [States -> {"built", "live", "dead"}]
    /\ manager \subseteq States

Positions ==
    /\ start \in StartPcs /\ loop \in LoopPcs
    /\ watched \in States \cup {NoState}
    /\ failures \in 0..(MaxFailures - 1)
    /\ stop \in {"idle", "swap", "release", "returned"}
    /\ settle \in {"idle", "decide", "release"}
    /\ rel \in [{"loop", "stop", "settle"} -> States \cup {NoState}]

LEMMA NextPositions == TypesInv /\ [Next]_vars => Flags' /\ Resources' /\ Positions'
<1>. SUFFICES ASSUME Renewals, TypeOK, [Next]_vars
              PROVE  Flags' /\ Resources' /\ Positions'
  BY DEF TypesInv
<1>. USE MobileAssumption
         DEF TypeOK, Flags, Resources, Positions, States, NoState, StartPcs, LoopPcs, flags,
             current, resources, loopVars
<1>1. CASE StartBegins \/ StartConnected \/ StartFails
  <2>1. Flags'
    BY <1>1, Zenon DEF StartBegins, StartConnected, StartFails, Connected,
       DirectState, RelayState, PoolState
  <2>2. Resources'
    BY <1>1 DEF StartBegins, StartConnected, StartFails, Connected, DirectState,
       RelayState, PoolState
  <2>3. Positions'
    BY <1>1 DEF StartBegins, StartConnected, StartFails, Connected, DirectState,
       RelayState, PoolState
  <2>. QED
    BY <2>1, <2>2, <2>3
<1>2. CASE StartStep
  <2>1. Flags'
    BY <1>2, Zenon DEF StartStep, StartInstalls, StartLaunches, StartReturns,
       Install, Launch, SignalReady
  <2>2. Resources'
    <3>1. CASE StartLaunches
      <4>. 1 \in States
        OBVIOUS
      <4>. QED
        BY <3>1 DEF StartLaunches, Launch
    <3>2. CASE StartInstalls \/ StartReturns
      BY <3>2 DEF StartInstalls, StartReturns
    <3>. QED
      BY <1>2, <3>1, <3>2 DEF StartStep
  <2>3. Positions'
    BY <1>2 DEF StartStep, StartInstalls, StartLaunches, StartReturns, Install,
       Launch, SignalReady
  <2>. QED
    BY <2>1, <2>2, <2>3
<1>3. CASE LoopLooks \/ LoopReturns \/ LoopWakes \/ LoopSeesDeath \/ LoopForced
  <2>1. Flags'
    BY <1>3, Zenon DEF LoopLooks, LoopReturns, LoopWakes, LoopSeesDeath, LoopForced
  <2>2. Resources'
    BY <1>3 DEF LoopLooks, LoopReturns, LoopWakes, LoopSeesDeath, LoopForced
  <2>3. Positions'
    BY <1>3 DEF LoopLooks, LoopReturns, LoopWakes, LoopSeesDeath, LoopForced
  <2>. QED
    BY <2>1, <2>2, <2>3
<1>4. CASE LoopSwaps \/ LoopReleased \/ LoopDrains
  <2>1. Flags'
    BY <1>4, Zenon DEF LoopSwaps, LoopReleased, LoopDrains, Swap
  <2>2. Resources'
    BY <1>4 DEF LoopSwaps, LoopReleased, LoopDrains, Swap
  <2>3. Positions'
    BY <1>4 DEF LoopSwaps, LoopReleased, LoopDrains, Swap
  <2>. QED
    BY <2>1, <2>2, <2>3
<1>5. CASE AttemptSucceeds \/ AttemptFails \/ LastAttemptFails \/ BackedOff
  <2>1. Flags'
    BY <1>5, Zenon DEF AttemptSucceeds, AttemptFails, LastAttemptFails, BackedOff,
       Connected, DirectState, RelayState, PoolState
  <2>2. Resources'
    BY <1>5 DEF AttemptSucceeds, AttemptFails, LastAttemptFails, BackedOff,
       Connected, DirectState, RelayState, PoolState
  <2>3. Positions'
    BY <1>5 DEF AttemptSucceeds, AttemptFails, LastAttemptFails, BackedOff,
       Connected, DirectState, RelayState, PoolState
  <2>. QED
    BY <2>1, <2>2, <2>3
<1>6. CASE LoopInstalls \/ LoopLaunches \/ LoopSignalsReady \/ LoopApplied
  <2>1. Flags'
    BY <1>6, Zenon DEF LoopInstalls, LoopLaunches, LoopSignalsReady, LoopApplied,
       Install, Launch, SignalReady
  <2>2. Resources'
    <3>1. CASE LoopLaunches
      BY <3>1 DEF LoopLaunches, Launch, Renewals
    <3>2. CASE LoopInstalls \/ LoopSignalsReady \/ LoopApplied
      BY <3>2 DEF LoopInstalls, LoopSignalsReady, LoopApplied
    <3>. QED
      BY <1>6, <3>1, <3>2
  <2>3. Positions'
    BY <1>6 DEF LoopInstalls, LoopLaunches, LoopSignalsReady, LoopApplied, Install,
       Launch, SignalReady
  <2>. QED
    BY <2>1, <2>2, <2>3
<1>7. CASE StopBegins \/ StopStep
  <2>1. Flags'
    BY <1>7, Zenon DEF StopBegins, StopStep, StopSwaps, StopReturns, Swap
  <2>2. Resources'
    BY <1>7 DEF StopBegins, StopStep, StopSwaps, StopReturns, Swap
  <2>3. Positions'
    BY <1>7 DEF StopBegins, StopStep, StopSwaps, StopReturns, Swap
  <2>. QED
    BY <2>1, <2>2, <2>3
<1>8. CASE SettleLooks \/ SettleStep
  <2>1. Flags'
    BY <1>8, Zenon DEF SettleLooks, SettleStep, SettleSpares, SettleSwaps,
       SettleForces, Swap
  <2>2. Resources'
    BY <1>8 DEF SettleLooks, SettleStep, SettleSpares, SettleSwaps, SettleForces,
       Swap
  <2>3. Positions'
    BY <1>8 DEF SettleLooks, SettleStep, SettleSpares, SettleSwaps, SettleForces,
       Swap
  <2>. QED
    BY <2>1, <2>2, <2>3
<1>9. ASSUME NEW s \in States,
             GoroutineStep(s) \/ MonitorTears(s) \/ SignalingLost(s) \/ MuxDies(s)
      PROVE  Flags' /\ Resources' /\ Positions'
  <2>1. Flags'
    BY <1>9, Zenon DEF GoroutineStep, Release, ManagerTears, ManagerReturns,
       MonitorTears, SignalingLost, MuxDies, Swap
  <2>2. Resources'
    BY <1>9 DEF GoroutineStep, Release, ManagerTears, ManagerReturns, MonitorTears,
       SignalingLost, MuxDies, Swap
  <2>3. Positions'
    BY <1>9 DEF GoroutineStep, Release, ManagerTears, ManagerReturns, MonitorTears,
       SignalingLost, MuxDies, Swap
  <2>. QED
    BY <2>1, <2>2, <2>3
<1>10. CASE UNCHANGED vars
  BY <1>10 DEF vars
<1>. QED
  BY <1>1, <1>2, <1>3, <1>4, <1>5, <1>6, <1>7, <1>8, <1>9, <1>10 DEF Next, LoopStep

\* The step of TypeOK, with ready bounded by made (Renewals).
LEMMA NextTypes == TypesInv /\ [Next]_vars => TypeOK'
<1>. SUFFICES ASSUME TypesInv, [Next]_vars PROVE TypeOK'
  OBVIOUS
<1>1. Flags' /\ Resources' /\ Positions'
  BY NextPositions
<1>2. Shape' /\ Renewals'
  BY NextIInv, NextRenewals DEF IInv, TypesInv
<1>3. ready' \in 0..MaxStates /\ closed' \subseteq 0..MaxStates /\ rdy' \in -1..MaxStates
  BY <1>2, MobileAssumption DEF Shape, Renewals
<1>. QED
  BY <1>1, <1>2, <1>3 DEF Flags, Resources, Positions, Shape, States, NoState, TypeOK

LEMMA TypesInvariant == Spec => []TypesInv
<1>1. TypesInv /\ [Next]_vars => TypesInv'
  BY NextIInv, NextRenewals, NextStopping, NextTypes DEF TypesInv
<1>. QED
  BY <1>1, InitTypes, PTL DEF Spec

\* Every variable keeps its type: applyState and the teardowns of five kinds of
\* goroutines make no more muxReady channels than states were connected, and the
\* loop gives up before its failures exceed the limit.
THEOREM TypesKept == Spec => []TypeOK
<1>1. TypesInv => TypeOK
  BY DEF TypesInv
<1>. QED
  BY <1>1, TypesInvariant, PTL

\* Once Stop has torn down what it found, whatever the loop, networkSettled and
\* the goroutines of the session are doing, no state is installed any more unless
\* applyState recorded it as late: a connect that was under way.
THEOREM StopTakesAll == Spec => []StoppedStaysEmpty
<1>1. TypesInv => StoppedStaysEmpty
  BY DEF TypesInv
<1>. QED
  BY <1>1, TypesInvariant, PTL

-----------------------------------------------------------------------------
(***************************************************************************)
(* The reconnect manager that applyState starts for a relay state          *)
(* (ReconnectManager), for any target number of connections, any attempt   *)
(* limit and any capacity of the conn-ok channel.                          *)
(*                                                                         *)
(* Argument.  NeverOverTarget is not inductive: needed is computed when    *)
(* the loop wakes and spent one Dial at a time, while readers come and go. *)
(* Room bounds what is still to be added by what the target leaves free.   *)
(* StoppedMuxCanDie rests on two facts about the mux that mean something   *)
(* at every place of Run: the bracket is open exactly between              *)
(* BeginReconnect and EndReconnect (Bracket), and outside of it a mux      *)
(* without readers has signalled its death (DeathSignalled).               *)
(***************************************************************************)
\* The places of Run between BeginReconnect and EndReconnect.
InBracket == {"attempt", "await", "dial", "failed", "backoff", "added"}

\* The places at which a connection is still to be added.
Adding == {"begin", "attempt", "await", "dial", "failed", "backoff"}

ManagerTypes ==
    /\ pc \in Places
    /\ active \in 0..TargetConns
    /\ needed \in Int /\ needed <= TargetConns
    /\ attempt \in 0..NormalMaxAttempts
    /\ reconnecting \in BOOLEAN /\ allDead \in BOOLEAN
    /\ acks \in Seq({"cur", "old"}) /\ Len(acks) <= AckCap

\* The connections still to be added fit under the target; the one just added
\* is counted in both terms.
Room ==
    /\ pc \in Adding => needed >= 1 /\ active + needed <= TargetConns
    /\ pc = "added" => needed >= 1 /\ active + needed <= TargetConns + 1

Bracket == reconnecting <=> pc \in InBracket

DeathSignalled == active = 0 /\ ~reconnecting => allDead

ManagerInv == ManagerTypes /\ Room /\ Bracket /\ DeathSignalled

-----------------------------------------------------------------------------
LEMMA ManagerInit == ReconnectInit => ManagerInv
<1>. SUFFICES ASSUME ReconnectInit PROVE ManagerInv
  OBVIOUS
<1>1. acks \in Seq({"cur", "old"}) /\ Len(acks) = 0
  BY DEF ReconnectInit
<1>2. ManagerTypes
  <2>1. active \in 0..TargetConns /\ attempt \in 0..NormalMaxAttempts
        /\ needed \in Int /\ needed <= TargetConns /\ pc \in Places
    BY ReconnectAssumption DEF ReconnectInit, Places
  <2>2. reconnecting \in BOOLEAN /\ allDead \in BOOLEAN
    BY DEF ReconnectInit
  <2>. QED
    BY <1>1, <2>1, <2>2, ReconnectAssumption DEF ManagerTypes
<1>3. Room /\ Bracket
  BY DEF ReconnectInit, Room, Bracket, Adding, InBracket
<1>4. DeathSignalled
  BY ReconnectAssumption DEF ReconnectInit, DeathSignalled
<1>. QED
  BY <1>2, <1>3, <1>4 DEF ManagerInv

\* The conn-ok channel stays within its capacity, whatever is sent or taken.
LEMMA AckFacts ==
    ASSUME ManagerTypes
    PROVE  /\ \A tag \in {"cur", "old"} :
                Deliver(tag) => acks' \in Seq({"cur", "old"}) /\ Len(acks') <= AckCap
           /\ acks # <<>> => /\ Tail(acks) \in Seq({"cur", "old"})
                             /\ Len(Tail(acks)) <= AckCap
           /\ LET aged == [i \in DOMAIN acks |-> "old"]
              IN  aged \in Seq({"cur", "old"}) /\ Len(aged) <= AckCap
<1>1. ASSUME NEW tag \in {"cur", "old"}, Deliver(tag)
      PROVE  acks' \in Seq({"cur", "old"}) /\ Len(acks') <= AckCap
  BY <1>1, ReconnectAssumption DEF ManagerTypes, Deliver
<1>2. ASSUME acks # <<>>
      PROVE  Tail(acks) \in Seq({"cur", "old"}) /\ Len(Tail(acks)) <= AckCap
  BY <1>2, ReconnectAssumption DEF ManagerTypes
<1>3. LET aged == [i \in DOMAIN acks |-> "old"]
      IN  aged \in Seq({"cur", "old"}) /\ Len(aged) <= AckCap
  BY ReconnectAssumption DEF ManagerTypes
<1>. QED
  BY <1>1, <1>2, <1>3

-----------------------------------------------------------------------------
\* Every step of the manager, of the mux, of the server and of signaling.
LEMMA ManagerNext == ManagerInv /\ [ReconnectNext]_reconnectVars => ManagerInv'
<1>. SUFFICES ASSUME ManagerTypes, Room, Bracket, DeathSignalled,
                     [ReconnectNext]_reconnectVars
              PROVE  ManagerInv'
  BY DEF ManagerInv
<1>. USE ReconnectAssumption
         DEF ManagerInv, ManagerTypes, Room, Bracket, DeathSignalled, Places, Adding,
             InBracket, mgrVars, muxVars, sigVars, envVars
<1>1. CASE ConnDies
  <2>1. ManagerTypes' /\ Room' /\ Bracket'
    BY <1>1 DEF ConnDies
  <2>2. active' = 0 => active = 1
    BY <1>1 DEF ConnDies
  <2>3. DeathSignalled'
    BY <1>1, <2>2, Zenon DEF ConnDies
  <2>. QED
    BY <2>1, <2>3
<1>2. CASE HealthLost \/ Pong
  BY <1>2 DEF HealthLost, Pong
<1>3. CASE Wake
  BY <1>3 DEF Wake
<1>4. CASE Probed
  BY <1>4 DEF Probed
<1>5. CASE BeginReconnect
  BY <1>5 DEF BeginReconnect
<1>6. CASE GiveUp
  BY <1>6 DEF GiveUp, EndReconnect
<1>7. CASE Ask
  BY <1>7, AckFacts DEF Ask
<1>8. CASE AskFails \/ AckTimeout \/ DialFails
  BY <1>8 DEF AskFails, AckTimeout, DialFails
<1>9. CASE TakeAck
  BY <1>9, AckFacts DEF TakeAck
<1>10. CASE Dial
  BY <1>10 DEF Dial
<1>11. CASE Added
  <2>0. reconnecting' \in BOOLEAN /\ allDead' \in BOOLEAN
    BY <1>11, Zenon DEF Added, EndReconnect
  <2>1. ManagerTypes'
    BY <1>11, <2>0 DEF Added, EndReconnect
  <2>2. Room'
    BY <1>11 DEF Added, EndReconnect
  <2>3. Bracket' /\ DeathSignalled'
    BY <1>11 DEF Added, EndReconnect
  <2>. QED
    BY <2>1, <2>2, <2>3
<1>12. CASE Failed
  BY <1>12 DEF Failed, EndReconnect
<1>13. CASE BackoffEnds
  BY <1>13 DEF BackoffEnds, Least
<1>14. CASE Stop
  <2>1. ManagerTypes' /\ Room'
    BY <1>14 DEF Stop, EndReconnect
  <2>2. Bracket' /\ DeathSignalled'
    BY <1>14 DEF Stop, EndReconnect
  <2>. QED
    BY <2>1, <2>2
<1>15. CASE ServerAnswers \/ LateServerAnswers
  BY <1>15, AckFacts DEF ServerAnswers, LateServerAnswers
<1>16. CASE ServerFails \/ AcceptTimeout \/ SignalingDies \/ Cancel
  BY <1>16 DEF ServerFails, AcceptTimeout, SignalingDies, Cancel
<1>17. CASE UNCHANGED reconnectVars
  BY <1>17 DEF reconnectVars
<1>. QED
  BY <1>1, <1>2, <1>3, <1>4, <1>5, <1>6, <1>7, <1>8, <1>9, <1>10, <1>11, <1>12,
     <1>13, <1>14, <1>15, <1>16, <1>17 DEF ReconnectNext, RunStep, TimerStep

LEMMA ManagerInvariant == ReconnectSpec => []ManagerInv
BY ManagerInit, ManagerNext, PTL DEF ReconnectSpec

-----------------------------------------------------------------------------
\* Run never brings the mux above TargetConns: needed, computed when the loop
\* woke, stays within what the target leaves free until the last Dial of the
\* cycle, although connections die, the probe is repeated and answers are late.
THEOREM TargetNeverExceeded == ReconnectSpec => []NeverOverTarget
<1>1. ManagerInv => NeverOverTarget
  BY DEF ManagerInv, ManagerTypes, NeverOverTarget
<1>. QED
  BY <1>1, ManagerInvariant, PTL

\* Every way out of Run closes its bracket (GiveUp, the last failure, ctx.Done
\* during the backoff), and the mux whose last reader left inside the bracket
\* signals its death there: once Run is over, no readers means allDead.
THEOREM DeathOutlivesRun == ReconnectSpec => []StoppedMuxCanDie
<1>1. ManagerInv => StoppedMuxCanDie
  BY DEF ManagerInv, Bracket, DeathSignalled, StoppedMuxCanDie, Over, InBracket
<1>. QED
  BY <1>1, ManagerInvariant, PTL
=============================================================================
