---------------------------- MODULE ClientSession ---------------------------
(***************************************************************************)
(* Full session reconnects of the relay client (RunRelayToRelay in         *)
(* internal/client/client.go).  Every session has a signaling connection,  *)
(* a ReconnectManager goroutine and a goroutine waiting for the end of the *)
(* session; they outlive the session they were started for and share the   *)
(* one-place channel fullReconnect, which the full-reconnect loop reads.   *)
(***************************************************************************)
EXTENDS Integers

CONSTANT
    MaxSessions   \* bound: sessions established

ASSUME SessionAssumption == MaxSessions \in Nat \ {0}

Sessions == 1..MaxSessions

VARIABLES
    cur,      \* number of the current session
    sig,      \* signaling connection of each session: none, up, lost, closed
    manager,  \* its ReconnectManager goroutine runs
    monitor,  \* its WaitForSessionEnd goroutine runs
    hungup,   \* sessions whose call VK has terminated
    resets,   \* sessions whose monitor was ended by an av-reset
    token,    \* fullReconnect holds a signal
    loop      \* the full-reconnect loop: wait, retry

vars == <<cur, sig, manager, monitor, hungup, resets, token, loop>>

Init ==
    /\ cur = 1
    /\ sig = [s \in Sessions |-> IF s = 1 THEN "up" ELSE "none"]
    /\ manager = {1}
    /\ monitor = {1}
    /\ hungup = {}
    /\ resets = {}
    /\ token = FALSE
    /\ loop = "wait"

\* The WebSocket of the current session breaks, or VK ends the call.
SignalingLost ==
    /\ sig[cur] = "up"
    /\ sig' = [sig EXCEPT ![cur] = "lost"]
    /\ UNCHANGED <<cur, manager, monitor, hungup, token, loop, resets>>

Hangup ==
    /\ sig[cur] = "up"
    /\ hungup' = hungup \cup {cur}
    /\ UNCHANGED <<cur, sig, manager, monitor, token, loop, resets>>

\* Mutation: the manager returns without calling OnFullReconnect.
ManagerReturns(s) ==
    /\ s \in manager
    /\ sig[s] # "up"
    /\ manager' = manager \ {s}
    /\ UNCHANGED <<cur, sig, monitor, hungup, token, loop, resets>>

\* ReconnectManager.Run finds its signaling dead: OnFullReconnect, return.
ManagerTriggers(s) ==
    /\ s \in manager
    /\ sig[s] # "up"
    /\ manager' = manager \ {s}
    /\ token' = TRUE
    /\ UNCHANGED <<cur, sig, monitor, hungup, loop, resets>>

\* Mutation: a hangup is treated like any other end of the session.
MonitorIgnoresHangup(s) ==
    /\ s \in monitor
    /\ s \in hungup
    /\ monitor' = monitor \ {s}
    /\ UNCHANGED <<cur, sig, manager, hungup, token, loop, resets>>

\* WaitForSessionEnd returns SessionEndHungup.
MonitorTriggers(s) ==
    /\ s \in monitor
    /\ s \in hungup
    /\ monitor' = monitor \ {s}
    /\ token' = TRUE
    /\ UNCHANGED <<cur, sig, manager, hungup, loop, resets>>

\* It returns for another reason: the connection is gone, or the peer sent
\* av-reset; the goroutine ends silently.
MonitorEnds(s) ==
    /\ s \in monitor
    /\ \/ sig[s] # "up" /\ UNCHANGED resets
       \/ sig[s] = "up" /\ resets' = resets \cup {s}
    /\ monitor' = monitor \ {s}
    /\ UNCHANGED <<cur, sig, manager, hungup, token, loop>>

\* The loop takes the signal and closes signaling and TURN of the current session.
TearDown ==
    /\ loop = "wait"
    /\ token
    /\ token' = FALSE
    /\ loop' = "retry"
    /\ sig' = [sig EXCEPT ![cur] = IF @ = "up" THEN "closed" ELSE @]
    /\ UNCHANGED <<cur, manager, monitor, hungup, resets>>

\* connectRelaySession succeeds: the session is replaced, its goroutines start.
Reconnected ==
    /\ loop = "retry"
    /\ cur < MaxSessions
    /\ cur' = cur + 1
    /\ sig' = [sig EXCEPT ![cur + 1] = "up"]
    /\ manager' = manager \cup {cur + 1}
    /\ monitor' = monitor \cup {cur + 1}
    /\ loop' = "wait"
    /\ UNCHANGED <<hungup, token, resets>>

Next ==
    \/ SignalingLost
    \/ Hangup
    \/ \E s \in Sessions : ManagerTriggers(s) \/ MonitorTriggers(s) \/ MonitorEnds(s)
    \/ TearDown
    \/ Reconnected

\* The goroutines run, and some attempt to connect succeeds.
Fairness ==
    /\ \A s \in Sessions : WF_vars(ManagerTriggers(s)) /\ WF_vars(MonitorTriggers(s))
    /\ WF_vars(TearDown)
    /\ WF_vars(Reconnected)

Spec == Init /\ [][Next]_vars

FairSpec == Spec /\ Fairness

-----------------------------------------------------------------------------
\* A session whose signaling is lost is replaced by a new one: the signal is not
\* lost in the one-place channel, whatever stale goroutines put there.
LostSessionReplaced ==
    \A s \in Sessions \ {MaxSessions} : (cur = s /\ sig[s] = "lost") ~> cur > s

\* A hangup leads to a full reconnect ("Monitor signaling for session end --
\* trigger full reconnect on hungup.", internal/client/client.go), unless an
\* av-reset of the peer has ended the goroutine that watches for it.
HangupReconnects ==
    \A s \in Sessions \ {MaxSessions} :
        (cur = s /\ s \in hungup) ~> (cur > s \/ s \in resets)
=============================================================================
