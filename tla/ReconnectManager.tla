-------------------------- MODULE ReconnectManager --------------------------
(***************************************************************************)
(* The client's ReconnectManager (internal/client/reconnect.go) together   *)
(* with the server's handleOneReconnect (internal/server/server.go), the   *)
(* signaling channel that carries conn-new and conn-ok between them, and   *)
(* an abstract mux (the number of readers, the reconnect bracket and       *)
(* allDead; MuxConns has their interleavings).                             *)
(*                                                                         *)
(* conn-new and conn-ok carry no correlation: an answer is "cur" when it   *)
(* answers the running attempt and becomes "old" when the next attempt     *)
(* starts.                                                                 *)
(*                                                                         *)
(* The specification is ReconnectSpec: no name clashes with MobileTunnel,  *)
(* whose proofs extend this module too.                                    *)
(***************************************************************************)
EXTENDS Integers, Sequences

CONSTANTS
    TargetConns,       \* ReconnectConfig.TargetConns
    NormalMaxAttempts, \* normalMaxAttempts
    AckCap,            \* buffer of the conn-ok subscription (8)
    MaxFaults,         \* bound: timeouts and failures not caused by a dead signaling
    MaxLosses          \* bound: connections lost while the mux lives

ASSUME ReconnectAssumption ==
    /\ TargetConns \in Nat \ {0}
    /\ NormalMaxAttempts \in Nat \ {0}
    /\ AckCap \in Nat \ {0}
    /\ MaxFaults \in Nat
    /\ MaxLosses \in Nat

VARIABLES
    pc,           \* where Run stands, see Places
    critical, needed, attempt,  \* the locals of Run
    answer,       \* the conn-ok that reconnectOne has taken
    active,       \* mux: activeReaders
    reconnecting, \* mux: a Begin/EndReconnect bracket is open
    allDead,      \* mux: allDead and inFrames are closed
    healthy,      \* mux: IsHealthy(healthTimeout)
    sigAlive,     \* the signaling connection is up
    cancelled,    \* ctx is done
    acks,         \* contents of ackCh
    server,       \* the server's handler of the running attempt
    lateServers,  \* handlers of earlier attempts that have not answered yet
    faults, losses

mgrVars == <<pc, critical, needed, attempt, answer>>
muxVars == <<active, reconnecting, allDead, healthy>>
sigVars == <<sigAlive, acks, server, lateServers>>
envVars == <<cancelled, faults, losses>>
reconnectVars ==
    <<pc, critical, needed, attempt, answer, active, reconnecting, allDead,
      healthy, sigAlive, acks, server, lateServers, cancelled, faults, losses>>

Places == {"wait", "probing", "begin", "attempt", "await", "dial", "failed",
           "backoff", "added", "full", "stopped"}

Over == {"full", "stopped"}

Least(a, b) == IF a < b THEN a ELSE b

\* minActive: half of the target, at least 2, at most the target.
MinActive == Least(TargetConns, IF TargetConns \div 2 < 2 THEN 2 ELSE TargetConns \div 2)

Critical == active < MinActive \/ ~healthy

ReconnectInit ==
    /\ pc = "wait"
    /\ critical = FALSE /\ needed = 0 /\ attempt = 0 /\ answer = "none"
    /\ active = TargetConns
    /\ reconnecting = FALSE
    /\ allDead = FALSE
    /\ healthy = TRUE
    /\ sigAlive = TRUE
    /\ cancelled = FALSE
    /\ acks = <<>>
    /\ server = "none"
    /\ lateServers = 0
    /\ faults = 0
    /\ losses = 0

-----------------------------------------------------------------------------
(***************************************************************************)
(* The mux, as the manager sees it.                                        *)
(***************************************************************************)
EndReconnect ==
    /\ reconnecting' = FALSE
    /\ allDead' = (allDead \/ active = 0)
    /\ UNCHANGED <<active, healthy>>

\* A reader exits.  In a dead mux every connection ends at its next frame.
ConnDies ==
    /\ active > 0
    /\ losses < MaxLosses \/ allDead
    /\ losses' = IF allDead THEN losses ELSE losses + 1
    /\ active' = active - 1
    /\ allDead' = (allDead \/ (active = 1 /\ ~reconnecting))
    /\ UNCHANGED <<mgrVars, reconnecting, healthy, sigVars, cancelled, faults>>

\* No pong for healthTimeout; a pong needs a connection and a running DispatchLoop.
HealthLost ==
    /\ healthy
    /\ healthy' = FALSE
    /\ UNCHANGED <<mgrVars, active, reconnecting, allDead, sigVars, envVars>>

Pong ==
    /\ ~healthy /\ active > 0 /\ ~allDead
    /\ healthy' = TRUE
    /\ UNCHANGED <<mgrVars, active, reconnecting, allDead, sigVars, envVars>>

-----------------------------------------------------------------------------
(***************************************************************************)
(* Run.                                                                    *)
(***************************************************************************)

\* Mutation: the loop only reacts when the situation is critical.
WakeOnlyCritical ==
    /\ pc = "wait" /\ ~cancelled
    /\ \/ ~sigAlive /\ pc' = "full" /\ UNCHANGED <<critical, needed>>
       \/ /\ sigAlive /\ Critical
          /\ critical' = TRUE
          /\ needed' = TargetConns - active
          /\ pc' = IF needed' <= 0 THEN "probing" ELSE "begin"
    /\ UNCHANGED <<attempt, answer, muxVars, sigVars, envVars>>

\* The ticker or the wakeup: check signaling, then the connections.
Wake ==
    /\ pc = "wait" /\ ~cancelled
    /\ \/ ~sigAlive /\ pc' = "full" /\ UNCHANGED <<critical, needed>>
       \/ /\ sigAlive
          /\ active < TargetConns \/ ~healthy
          /\ critical' = Critical
          /\ needed' = TargetConns - active
          /\ pc' = IF needed' <= 0 THEN "probing" ELSE "begin"
    /\ UNCHANGED <<attempt, answer, muxVars, sigVars, envVars>>

\* 4s after ProbeConnections the count is taken again.  The connection that the
\* comment at reconnect.go:137 would force is not: without a loss the cycle ends.
Probed ==
    /\ pc = "probing" /\ ~cancelled
    /\ needed' = TargetConns - active
    /\ pc' = IF needed' <= 0 THEN "wait" ELSE "begin"
    /\ UNCHANGED <<critical, attempt, answer, muxVars, sigVars, envVars>>

BeginReconnect ==
    /\ pc = "begin"
    /\ reconnecting' = TRUE
    /\ attempt' = 1
    /\ pc' = "attempt"
    /\ UNCHANGED <<critical, needed, answer, active, allDead, healthy, sigVars, envVars>>

\* Mutation: the bracket stays open when the manager gives up.
GiveUpInBracket ==
    /\ pc = "attempt" /\ ~sigAlive
    /\ pc' = "full"
    /\ UNCHANGED <<critical, needed, attempt, answer, muxVars, sigVars, envVars>>

\* Signaling died during a reconnect: EndReconnect, OnFullReconnect, return.
GiveUp ==
    /\ pc = "attempt" /\ ~sigAlive
    /\ EndReconnect
    /\ pc' = "full"
    /\ UNCHANGED <<critical, needed, attempt, answer, sigVars, envVars>>

Fault == faults < MaxFaults /\ faults' = faults + 1

\* reconnectOne: allocate, send conn-new.  The handler of the attempt before,
\* if it has not answered yet, is from now on a late one.
Ask ==
    /\ pc = "attempt" /\ sigAlive /\ ~cancelled
    /\ pc' = "await"
    /\ acks' = [i \in DOMAIN acks |-> "old"]
    /\ lateServers' = IF server = "asked" THEN lateServers + 1 ELSE lateServers
    /\ server' = "asked"
    /\ UNCHANGED <<critical, needed, attempt, answer, muxVars, sigAlive, envVars>>

\* Allocate or SendPayload fails.
AskFails ==
    /\ pc = "attempt" /\ sigAlive
    /\ Fault \/ (cancelled /\ UNCHANGED faults)
    /\ pc' = "failed"
    /\ UNCHANGED <<critical, needed, attempt, answer, muxVars, sigVars, cancelled, losses>>

\* The oldest conn-ok in the channel is taken for the answer.
TakeAck ==
    /\ pc = "await"
    /\ acks # <<>>
    /\ answer' = Head(acks)
    /\ acks' = Tail(acks)
    /\ pc' = "dial"
    /\ UNCHANGED <<critical, needed, attempt, muxVars, sigAlive, server, lateServers, envVars>>

\* 15s without an answer, or ctx is done.
AckTimeout ==
    /\ pc = "await"
    /\ \/ cancelled /\ UNCHANGED faults
       \/ acks = <<>> /\ (~sigAlive \/ server = "gone") /\ UNCHANGED faults
       \/ acks = <<>> /\ Fault
    /\ pc' = "failed"
    /\ UNCHANGED <<critical, needed, attempt, answer, muxVars, sigVars, cancelled, losses>>

\* DTLS succeeds only with the handler that expects this client address.
Dial ==
    /\ pc = "dial"
    /\ answer = "cur" /\ server = "accepting"
    /\ server' = "gone"
    /\ active' = active + 1
    /\ pc' = "added"
    /\ UNCHANGED <<critical, needed, attempt, answer, reconnecting, allDead,
                   healthy, sigAlive, acks, lateServers, envVars>>

DialFails ==
    /\ pc = "dial"
    /\ \/ (answer = "old" \/ server # "accepting" \/ cancelled) /\ UNCHANGED faults
       \/ Fault
    /\ pc' = "failed"
    /\ UNCHANGED <<critical, needed, attempt, answer, muxVars, sigVars, cancelled, losses>>

\* Mutation: the loop over the needed connections runs once too often.
AddedOnceMore ==
    /\ pc = "added"
    /\ EndReconnect
    /\ needed' = needed - 1
    /\ pc' = IF needed = 0 THEN "wait" ELSE "begin"
    /\ UNCHANGED <<critical, attempt, answer, sigVars, envVars>>

\* After AddConn: EndReconnect and the next of the needed connections.
Added ==
    /\ pc = "added"
    /\ EndReconnect
    /\ needed' = needed - 1
    /\ pc' = IF needed = 1 THEN "wait" ELSE "begin"
    /\ UNCHANGED <<critical, attempt, answer, sigVars, envVars>>

\* Without urgency the fifth failure ends the cycle.
Failed ==
    /\ pc = "failed"
    /\ \/ /\ ~critical /\ attempt >= NormalMaxAttempts
          /\ EndReconnect
          /\ pc' = "wait"
       \/ /\ critical \/ attempt < NormalMaxAttempts
          /\ pc' = "backoff"
          /\ UNCHANGED muxVars
    /\ UNCHANGED <<critical, needed, attempt, answer, sigVars, envVars>>

\* The backoff has passed.
BackoffEnds ==
    /\ pc = "backoff" /\ ~cancelled
    /\ critical' = Critical
    /\ attempt' = Least(attempt + 1, NormalMaxAttempts)
    /\ pc' = "attempt"
    /\ UNCHANGED <<needed, answer, muxVars, sigVars, envVars>>

\* ctx.Done is selected.
Stop ==
    /\ cancelled
    /\ \/ pc \in {"wait", "probing"} /\ UNCHANGED muxVars
       \/ pc = "backoff" /\ EndReconnect
    /\ pc' = "stopped"
    /\ UNCHANGED <<critical, needed, attempt, answer, sigVars, envVars>>

-----------------------------------------------------------------------------
(***************************************************************************)
(* handleOneReconnect on the server: allocate, send conn-ok, accept for 3s *)
(* from the client address of its own conn-new.                            *)
(***************************************************************************)
Deliver(tag) == acks' = IF Len(acks) < AckCap THEN Append(acks, tag) ELSE acks

ServerAnswers ==
    /\ sigAlive
    /\ server = "asked"
    /\ server' = "accepting"
    /\ Deliver("cur")
    /\ UNCHANGED <<mgrVars, muxVars, sigAlive, lateServers, envVars>>

LateServerAnswers ==
    /\ sigAlive
    /\ lateServers > 0
    /\ lateServers' = lateServers - 1
    /\ Deliver("old")
    /\ UNCHANGED <<mgrVars, muxVars, sigAlive, server, envVars>>

\* Allocate fails on the server: no answer at all.
ServerFails ==
    /\ server = "asked"
    /\ Fault
    /\ server' = "gone"
    /\ UNCHANGED <<mgrVars, muxVars, sigAlive, acks, lateServers, cancelled, losses>>

\* AcceptOverTURN times out.
AcceptTimeout ==
    /\ server = "accepting"
    /\ \/ ~(pc = "await" \/ (pc = "dial" /\ answer = "cur")) /\ UNCHANGED faults
       \/ Fault
    /\ server' = "gone"
    /\ UNCHANGED <<mgrVars, muxVars, sigAlive, acks, lateServers, cancelled, losses>>

SignalingDies ==
    /\ sigAlive
    /\ sigAlive' = FALSE
    /\ UNCHANGED <<mgrVars, muxVars, acks, server, lateServers, envVars>>

Cancel ==
    /\ ~cancelled
    /\ cancelled' = TRUE
    /\ UNCHANGED <<mgrVars, muxVars, sigVars, faults, losses>>

-----------------------------------------------------------------------------
RunStep ==
    \/ Wake \/ Probed \/ BeginReconnect \/ GiveUp \/ Ask \/ TakeAck
    \/ Dial \/ Added \/ Failed \/ BackoffEnds \/ Stop

TimerStep == AskFails \/ AckTimeout \/ DialFails

ReconnectNext ==
    \/ RunStep
    \/ TimerStep
    \/ ConnDies \/ HealthLost \/ Pong
    \/ ServerAnswers \/ LateServerAnswers \/ ServerFails \/ AcceptTimeout
    \/ SignalingDies \/ Cancel

(***************************************************************************)
(* The loop runs and its timers fire; a handler that has its allocation    *)
(* answers; a reader of a dead mux ends.                                   *)
(***************************************************************************)
Fairness ==
    /\ WF_reconnectVars(RunStep \/ TimerStep)
    /\ WF_reconnectVars(Pong)
    /\ WF_reconnectVars(ServerAnswers)
    /\ WF_reconnectVars(LateServerAnswers)
    /\ WF_reconnectVars(allDead /\ ConnDies)

ReconnectSpec == ReconnectInit /\ [][ReconnectNext]_reconnectVars

FairReconnectSpec == ReconnectSpec /\ Fairness

-----------------------------------------------------------------------------
(***************************************************************************)
(* Properties.                                                             *)
(***************************************************************************)
\* Every variable has its type, and the manager never brings the mux above
\* TargetConns, although needed is computed long before the connections are added.
NeverOverTarget ==
    /\ pc \in Places
    /\ active \in 0..TargetConns
    /\ needed <= TargetConns
    /\ attempt \in 0..NormalMaxAttempts
    /\ Len(acks) <= AckCap

\* However Run ends, it leaves no reconnect bracket open that would keep the
\* mux from signalling its death: a mux without readers is dead once Run is over.
StoppedMuxCanDie == pc \in Over /\ active = 0 => allDead

\* As long as signaling lives and no attempt fails or times out, lost connections
\* are replaced up to the target, in normal and in critical mode ("It handles
\* per-connection reconnects when signaling is alive", reconnect.go), unless the
\* whole mux has died.
PromptlyRestored ==
    [](faults = 0) =>
        (active < TargetConns
            ~> (active = TargetConns \/ ~sigAlive \/ allDead \/ cancelled))
=============================================================================
