------------------------------ MODULE MuxConns ------------------------------
(***************************************************************************)
(* Connection management of the multiplexer (internal/mux/mux.go): the     *)
(* slots of Mux.conns, the readLoop goroutine of every connection, the     *)
(* atomic counters activeReaders and reconnecting, and the one-shot        *)
(* signals allDead and inFrames.                                           *)
(*                                                                         *)
(* Every goroutine is interleaved at its shared accesses: a lock of        *)
(* Mux.mu, an atomic operation, a channel operation.  AddConn publishes    *)
(* the connection before it counts its reader; a dying reader decrements   *)
(* activeReaders, loads reconnecting and closes allDead in three steps.    *)
(***************************************************************************)
EXTENDS Integers, Sequences, FiniteSets

CONSTANTS
    Conns,        \* every connection ever handed to AddConn
    Reconnectors, \* goroutines that bracket AddConn with Begin/EndReconnect
    NoConn,       \* the nil slot
    ConnDiedCap,  \* capacity of the connDied channel (32 in the code)
    MinAlive      \* the minAlive argument of CloseOldestConn

ASSUME ConstantsAssumption ==
    /\ IsFiniteSet(Conns)
    /\ IsFiniteSet(Reconnectors)
    /\ NoConn \notin Conns
    /\ ConnDiedCap \in Nat
    /\ MinAlive \in Nat

VARIABLES
    conns,          \* Mux.conns, a sequence of connections and nil slots
    pc,             \* where the life of a connection stands, see Stages
    idx,            \* the slot number given by AddConn (muxConn.index)
    connClosed,     \* the set of connections whose Close has been called
    activeReaders,  \* Mux.activeReaders
    reconnecting,   \* Mux.reconnecting
    allDead,        \* the channel Mux.allDead is closed
    inFramesClosed, \* the channel Mux.inFrames is closed
    connDied,       \* contents of the channel Mux.connDied
    drainIdx,       \* index the drain goroutine has received, 0 when none
    drained,        \* history: the drain goroutine has called RemoveConn
    rpc,            \* where each reconnecting goroutine stands
    rconn,          \* the connection it is adding
    closer,         \* progress of Mux.Close
    toClose,        \* snapshot of the connections Mux.Close still closes
    victim          \* connection CloseOldestConn has chosen, or NoConn

connVars  == <<pc, idx, connClosed>>
readVars  == <<activeReaders, allDead, inFramesClosed>>
ownerVars == <<drainIdx, drained, rpc, rconn, closer, toClose, victim>>
vars == <<conns, pc, idx, connClosed, activeReaders, reconnecting, allDead,
          inFramesClosed, connDied, drainIdx, drained, rpc, rconn, closer, toClose,
          victim>>

(***************************************************************************)
(* The life of a connection.  "placed": stored in a slot by AddConn, its   *)
(* reader not yet counted.  "reading": readLoop runs.  The last six are    *)
(* the steps of readLoop's deferred function.                              *)
(***************************************************************************)
Stages == {"fresh", "placed", "reading", "exiting", "removed", "notified",
           "checking", "closing", "gone"}

\* Stages in which the reader is counted by activeReaders.
Counted == {"reading", "exiting", "removed", "notified"}

\* Stages in which the connection is one the mux should write to.
Slotted == {"placed", "reading", "exiting"}

IsReader(c) == pc[c] \in Counted

-----------------------------------------------------------------------------
Init ==
    /\ conns = <<>>
    /\ pc = [c \in Conns |-> "fresh"]
    /\ idx = [c \in Conns |-> 0]
    /\ connClosed = {}
    /\ activeReaders = 0
    /\ reconnecting = 0
    /\ allDead = FALSE
    /\ inFramesClosed = FALSE
    /\ connDied = <<>>
    /\ drainIdx = 0
    /\ drained = FALSE
    /\ rpc = [r \in Reconnectors |-> "idle"]
    /\ rconn = [r \in Reconnectors |-> NoConn]
    /\ closer = "open"
    /\ toClose = {}
    /\ victim = NoConn

-----------------------------------------------------------------------------
(***************************************************************************)
(* AddConn.                                                                *)
(***************************************************************************)
\* Mutation: a slot counts as free as soon as its connection has been closed.
NilOrClosedSlots == {i \in DOMAIN conns : conns[i] = NoConn \/ conns[i] \in connClosed}

NilSlots == {i \in DOMAIN conns : conns[i] = NoConn}

\* The critical section of AddConn: the first nil slot, or a new one.
Place(c) ==
    /\ pc[c] = "fresh"
    /\ pc' = [pc EXCEPT ![c] = "placed"]
    /\ \/ \E i \in NilSlots :
             /\ \A j \in NilSlots : i <= j
             /\ conns' = [conns EXCEPT ![i] = c]
             /\ idx' = [idx EXCEPT ![c] = i]
       \/ /\ NilSlots = {}
          /\ conns' = Append(conns, c)
          /\ idx' = [idx EXCEPT ![c] = Len(conns) + 1]

\* AddConn called outside a reconnect bracket (initial set-up, server side).
AddConn(c) ==
    /\ Place(c)
    /\ UNCHANGED <<connClosed, readVars, reconnecting, connDied, ownerVars>>

\* Mutation: AddConn starts the reader without counting it.
StartUncounted(c) ==
    /\ pc[c] = "placed"
    /\ pc' = [pc EXCEPT ![c] = "reading"]
    /\ UNCHANGED <<conns, idx, connClosed, readVars, reconnecting, connDied, ownerVars>>

\* AddConn after the lock: count the reader and start its goroutines.
StartReader(c) ==
    /\ pc[c] = "placed"
    /\ pc' = [pc EXCEPT ![c] = "reading"]
    /\ activeReaders' = activeReaders + 1
    /\ UNCHANGED <<conns, idx, connClosed, reconnecting, allDead,
                   inFramesClosed, connDied, ownerVars>>

-----------------------------------------------------------------------------
(***************************************************************************)
(* readLoop: ReadFrame fails, or trySendInFrame finds inFrames closed or   *)
(* the mux cancelled; then the deferred function runs step by step.        *)
(***************************************************************************)
LeaveLoop(c) ==
    /\ pc[c] = "reading"
    /\ pc' = [pc EXCEPT ![c] = "exiting"]
    /\ connClosed' = connClosed \cup {c}
    /\ UNCHANGED <<conns, idx, readVars, reconnecting, connDied, ownerVars>>

PeerFails(c) == c \notin connClosed /\ LeaveLoop(c)

ReadAfterClose(c) == c \in connClosed /\ LeaveLoop(c)

\* Mutation: the reader drops the frame it cannot deliver and reads on.
FrameDropped(c) == FALSE /\ LeaveLoop(c)

FrameRejected(c) == (inFramesClosed \/ closer # "open") /\ LeaveLoop(c)

\* RemoveConn(i): whatever connection the slot holds is taken out of it.
ClearSlot(i) ==
    conns' = IF i \in DOMAIN conns THEN [conns EXCEPT ![i] = NoConn] ELSE conns

\* Mutation: readLoop leaves RemoveConn to the drain goroutine.
ReaderSkipsRemove(c) ==
    /\ pc[c] = "exiting"
    /\ pc' = [pc EXCEPT ![c] = "removed"]
    /\ UNCHANGED <<conns, idx, connClosed, readVars, reconnecting, connDied, ownerVars>>

ReaderRemoves(c) ==
    /\ pc[c] = "exiting"
    /\ ClearSlot(idx[c])
    /\ pc' = [pc EXCEPT ![c] = "removed"]
    /\ UNCHANGED <<idx, connClosed, readVars, reconnecting, connDied, ownerVars>>

\* The non-blocking send on connDied.
ReaderNotifies(c) ==
    /\ pc[c] = "removed"
    /\ pc' = [pc EXCEPT ![c] = "notified"]
    /\ connDied' = IF Len(connDied) < ConnDiedCap
                   THEN Append(connDied, idx[c]) ELSE connDied
    /\ UNCHANGED <<conns, idx, connClosed, readVars, reconnecting, ownerVars>>

\* activeReaders.Add(-1), compared with 0.
ReaderLeaves(c) ==
    /\ pc[c] = "notified"
    /\ activeReaders' = activeReaders - 1
    /\ pc' = [pc EXCEPT ![c] = IF activeReaders - 1 = 0 THEN "checking" ELSE "gone"]
    /\ UNCHANGED <<conns, idx, connClosed, reconnecting, allDead,
                   inFramesClosed, connDied, ownerVars>>

\* reconnecting.Load() == 0, the second operand of the test.
ReaderChecks(c) ==
    /\ pc[c] = "checking"
    /\ pc' = [pc EXCEPT ![c] = IF reconnecting = 0 THEN "closing" ELSE "gone"]
    /\ UNCHANGED <<conns, idx, connClosed, readVars, reconnecting, connDied, ownerVars>>

\* allDeadOnce and closeInFrames.
CloseSignals ==
    /\ allDead' = TRUE
    /\ inFramesClosed' = TRUE

ReaderClosesSignals(c) ==
    /\ pc[c] = "closing"
    /\ pc' = [pc EXCEPT ![c] = "gone"]
    /\ CloseSignals
    /\ UNCHANGED <<conns, idx, connClosed, activeReaders, reconnecting,
                   connDied, ownerVars>>

-----------------------------------------------------------------------------
(***************************************************************************)
(* The goroutine that drains ConnDied and calls RemoveConn once more       *)
(* (ReconnectManager.Run on the client, the session owners on the server). *)
(***************************************************************************)
DrainReceive ==
    /\ drainIdx = 0
    /\ connDied # <<>>
    /\ drainIdx' = Head(connDied)
    /\ connDied' = Tail(connDied)
    /\ UNCHANGED <<conns, connVars, readVars, reconnecting, drained, rpc, rconn,
                   closer, toClose, victim>>

DrainRemoves ==
    /\ drainIdx # 0
    /\ ClearSlot(drainIdx)
    /\ drainIdx' = 0
    /\ drained' = TRUE
    /\ UNCHANGED <<connVars, readVars, reconnecting, connDied, rpc, rconn,
                   closer, toClose, victim>>

-----------------------------------------------------------------------------
(***************************************************************************)
(* BeginReconnect, the attempt, EndReconnect (ReconnectManager.Run).       *)
(***************************************************************************)
BeginReconnect(r) ==
    /\ rpc[r] = "idle"
    /\ rpc' = [rpc EXCEPT ![r] = "begun"]
    /\ reconnecting' = reconnecting + 1
    /\ UNCHANGED <<conns, connVars, readVars, connDied, drainIdx, drained, rconn,
                   closer, toClose, victim>>

\* reconnectOne succeeds and calls AddConn.
ReconnectAdds(r, c) ==
    /\ rpc[r] = "begun"
    /\ rconn[r] = NoConn
    /\ Place(c)
    /\ rconn' = [rconn EXCEPT ![r] = c]
    /\ UNCHANGED <<connClosed, readVars, reconnecting, connDied, drainIdx, drained,
                   rpc, closer, toClose, victim>>

\* Mutation: EndReconnect only decrements, it does not look for the last reader.
EndWithoutCheck(r) ==
    /\ rpc[r] = "begun"
    /\ rconn[r] \in Conns => pc[rconn[r]] # "placed"
    /\ reconnecting' = reconnecting - 1
    /\ rpc' = [rpc EXCEPT ![r] = "idle"]
    /\ rconn' = [rconn EXCEPT ![r] = NoConn]
    /\ UNCHANGED <<conns, connVars, readVars, connDied, drainIdx, drained,
                   closer, toClose, victim>>

\* EndReconnect: reconnecting.Add(-1), after AddConn returned or a failure.
EndReconnect(r) ==
    /\ rpc[r] = "begun"
    /\ rconn[r] \in Conns => pc[rconn[r]] # "placed"
    /\ reconnecting' = reconnecting - 1
    /\ rpc' = [rpc EXCEPT ![r] = IF reconnecting - 1 <= 0 THEN "endcheck" ELSE "idle"]
    /\ rconn' = [rconn EXCEPT ![r] = NoConn]
    /\ UNCHANGED <<conns, connVars, readVars, connDied, drainIdx, drained,
                   closer, toClose, victim>>

EndChecks(r) ==
    /\ rpc[r] = "endcheck"
    /\ rpc' = [rpc EXCEPT ![r] = IF activeReaders = 0 THEN "endclose" ELSE "idle"]
    /\ UNCHANGED <<conns, connVars, readVars, reconnecting, connDied, drainIdx, drained,
                   rconn, closer, toClose, victim>>

EndClosesSignals(r) ==
    /\ rpc[r] = "endclose"
    /\ rpc' = [rpc EXCEPT ![r] = "idle"]
    /\ CloseSignals
    /\ UNCHANGED <<conns, connVars, activeReaders, reconnecting, connDied,
                   drainIdx, drained, rconn, closer, toClose, victim>>

-----------------------------------------------------------------------------
(***************************************************************************)
(* CloseOldestConn: the choice under the lock, the Close after it.  The    *)
(* ages are abstracted: any slotted connection may be the oldest.          *)
(***************************************************************************)
InSlots == {conns[i] : i \in DOMAIN conns} \ {NoConn}

ChooseOldest(c) ==
    /\ victim = NoConn
    /\ c \in InSlots
    /\ Cardinality(InSlots) > MinAlive
    /\ victim' = c
    /\ UNCHANGED <<conns, connVars, readVars, reconnecting, connDied, drainIdx, drained,
                   rpc, rconn, closer, toClose>>

CloseOldest ==
    /\ victim # NoConn
    /\ connClosed' = connClosed \cup {victim}
    /\ victim' = NoConn
    /\ UNCHANGED <<conns, pc, idx, readVars, reconnecting, connDied, drainIdx, drained,
                   rpc, rconn, closer, toClose>>

-----------------------------------------------------------------------------
(***************************************************************************)
(* Mux.Close: cancel and close inFrames, snapshot the slots under the      *)
(* lock, close each connection of the snapshot.                            *)
(***************************************************************************)
CloseBegins ==
    /\ closer = "open"
    /\ closer' = "cancelled"
    /\ inFramesClosed' = TRUE
    /\ UNCHANGED <<conns, connVars, activeReaders, reconnecting, allDead,
                   connDied, drainIdx, drained, rpc, rconn, toClose, victim>>

CloseSnapshots ==
    /\ closer = "cancelled"
    /\ closer' = "snapshot"
    /\ toClose' = InSlots
    /\ UNCHANGED <<conns, connVars, readVars, reconnecting, connDied, drainIdx, drained,
                   rpc, rconn, victim>>

CloseConn(c) ==
    /\ closer = "snapshot"
    /\ c \in toClose
    /\ toClose' = toClose \ {c}
    /\ connClosed' = connClosed \cup {c}
    /\ UNCHANGED <<conns, pc, idx, readVars, reconnecting, connDied, drainIdx, drained,
                   rpc, rconn, closer, victim>>

CloseReturns ==
    /\ closer = "snapshot"
    /\ toClose = {}
    /\ closer' = "closed"
    /\ UNCHANGED <<conns, connVars, readVars, reconnecting, connDied, drainIdx, drained,
                   rpc, rconn, toClose, victim>>

-----------------------------------------------------------------------------
\* Steps of goroutines the mux itself has started: they never stop for good.
ReaderStep(c) ==
    \/ ReadAfterClose(c)
    \/ FrameRejected(c)
    \/ ReaderRemoves(c)
    \/ ReaderNotifies(c)
    \/ ReaderLeaves(c)
    \/ ReaderChecks(c)
    \/ ReaderClosesSignals(c)

ReconnectorStep(r) ==
    \/ BeginReconnect(r)
    \/ \E c \in Conns : ReconnectAdds(r, c)
    \/ EndReconnect(r)
    \/ EndChecks(r)
    \/ EndClosesSignals(r)

CloserStep ==
    \/ CloseSnapshots
    \/ \E c \in Conns : CloseConn(c)
    \/ CloseReturns

Next ==
    \/ \E c \in Conns : AddConn(c) \/ StartReader(c) \/ PeerFails(c)
    \/ \E c \in Conns : ReaderStep(c)
    \/ DrainReceive
    \/ DrainRemoves
    \/ \E r \in Reconnectors : ReconnectorStep(r)
    \/ \E c \in Conns : ChooseOldest(c)
    \/ CloseOldest
    \/ CloseBegins
    \/ CloserStep

(***************************************************************************)
(* A runnable goroutine is scheduled eventually.  FrameRejected is fair    *)
(* because the peer pings every 10s (StartPingLoop) and the idle timeout   *)
(* ends a silent connection.  Nothing makes an owner call AddConn,         *)
(* BeginReconnect or Close, and nothing makes a peer fail.                 *)
(***************************************************************************)
Fairness ==
    /\ \A c \in Conns : WF_vars(ReaderStep(c)) /\ WF_vars(StartReader(c))
    /\ \A r \in Reconnectors : WF_vars(EndReconnect(r) \/ EndChecks(r) \/ EndClosesSignals(r))
    /\ WF_vars(CloserStep)

Spec == Init /\ [][Next]_vars

FairSpec == Spec /\ Fairness

-----------------------------------------------------------------------------
(***************************************************************************)
(* Properties.                                                             *)
(***************************************************************************)
RStages == {"idle", "begun", "endcheck", "endclose"}

\* Every variable has its type; activeReaders never goes below zero.
TypeOK ==
    /\ conns \in Seq(Conns \cup {NoConn})
    /\ pc \in [Conns -> Stages]
    /\ idx \in [Conns -> Nat]
    /\ connClosed \subseteq Conns
    /\ activeReaders \in Nat
    /\ reconnecting \in Nat
    /\ allDead \in BOOLEAN
    /\ inFramesClosed \in BOOLEAN
    /\ connDied \in Seq(Nat)
    /\ drainIdx \in Nat
    /\ drained \in BOOLEAN
    /\ rpc \in [Reconnectors -> RStages]
    /\ rconn \in [Reconnectors -> Conns \cup {NoConn}]
    /\ closer \in {"open", "cancelled", "snapshot", "closed"}
    /\ toClose \subseteq Conns
    /\ victim \in Conns \cup {NoConn}

\* The counters agree with the goroutines: ActiveConns() is the number of
\* readLoop goroutines that have not yet decremented it, and reconnecting the
\* number of open Begin/EndReconnect brackets, at every interleaving of AddConn,
\* readLoop exits and reconnects.
ReadersCounted ==
    /\ activeReaders = Cardinality({c \in Conns : IsReader(c)})
    /\ reconnecting = Cardinality({r \in Reconnectors : rpc[r] = "begun"})

\* Someone has seen, or is about to look for, the death of the mux.
DeathBeingChecked ==
    \/ \E c \in Conns : pc[c] \in {"checking", "closing"}
    \/ \E r \in Reconnectors : rpc[r] \in {"endcheck", "endclose"}

\* The death of the mux is never missed: once every reader has left and no
\* reconnect is pending, allDead and inFrames are closed, or a goroutine is
\* between its decrement and the close (readLoop's exit and EndReconnect test
\* each other's counter after changing their own).
DeathNoticed ==
    (/\ activeReaders = 0
     /\ reconnecting = 0
     /\ \E c \in Conns : pc[c] = "gone")
    => (allDead /\ inFramesClosed) \/ DeathBeingChecked

\* No connection that has been through RemoveConn is left in a slot, and none
\* sits in two slots: selectConn, ping and Close only ever see connections
\* whose readLoop has not yet removed them.
NoStaleSlot ==
    \A i \in DOMAIN conns : conns[i] # NoConn =>
        /\ pc[conns[i]] \in Slotted
        /\ idx[conns[i]] = i

\* As long as only readLoop removes connections, a connection keeps its slot
\* until its own reader removes it: AddConn's reuse of nil slots never drops a
\* live connection, so Close, ping and selectConn reach it.
LiveConnHasSlot ==
    ~drained => \A c \in Conns : pc[c] \in Slotted =>
        /\ idx[c] \in DOMAIN conns
        /\ conns[idx[c]] = c

\* RemoveConn called by the drain goroutine takes no connection out of its slot
\* whose readLoop is running ("Drain dead connections so their MUX slots are
\* reused by AddConn", internal/server/server.go).
DrainSparesLive ==
    [][DrainRemoves => \A c \in Conns :
          pc[c] = "reading" /\ c \in InSlots => c \in InSlots']_vars

\* Close ends every reader, also those of connections added while it runs:
\* they are closed through the snapshot or leave at their next frame.  (One that
\* the drain goroutine has evicted is in no snapshot, and no frame may come.)
CloseReapsReaders ==
    closer = "closed" ~> (drained \/ \A c \in Conns : pc[c] \in {"fresh", "gone"})

=============================================================================
