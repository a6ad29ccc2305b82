----------------------------- MODULE RelaySetup -----------------------------
(***************************************************************************)
(* How a relay session is set up and torn down over VK signaling: the      *)
(* client's connectRelaySession, the server's runPersistentRelaySession    *)
(* and acceptOneClient, and the signaling calls both make (reset and ack,  *)
(* relay batches, WaitForSessionEnd, DrainAndRoute).  Clients come one     *)
(* after another, each with a nonce of its own; the server stays in the    *)
(* call and serves them in turn from one incoming channel that several of  *)
(* its goroutines read.                                                    *)
(*                                                                         *)
(* Relay addresses are counted, not named.  A message is a record; the     *)
(* nonce of client number k is k.                                          *)
(***************************************************************************)
EXTENDS Integers, Sequences, SequencesExt, FiniteSetsExt

CONSTANTS
    NumConns,           \* connections a client asks for (numConns)
    Tokens,             \* VK tokens of the client, at most NumConns
    BatchSize,          \* GradualOpts.BatchSize
    MaxNonRLRetries,    \* retries of one failing allocation
    DisconnectRetries,  \* disconnect-req messages a client sends
    MaxSessions         \* bound: clients that start

ASSUME RelayAssumption ==
    /\ NumConns \in Nat \ {0} /\ Tokens \in 0..NumConns
    /\ BatchSize \in Nat \ {0} /\ MaxNonRLRetries \in Nat
    /\ DisconnectRetries \in Nat \ {0} /\ MaxSessions \in Nat \ {0}

Clients == 1..MaxSessions
None == 0

VARIABLES
    \* client
    k,          \* the current client (its nonce), None before the first
    cpc,        \* where it is in connectRelaySession
    csig,       \* its signaling connection is alive
    tries,      \* disconnect-req messages sent
    acked,      \* its reset was acknowledged
    pending,    \* AllocateGradual: retries of each allocation still missing
    gradual,    \* its channel of batches (capacity 1)
    out,        \* the last batch sent
    pairs,      \* pairs of that batch being dialled
    up,         \* connections in the client's mux
    \* server
    spc,        \* join, first, follow, alloc, wait, serve
    snonce,     \* clientNonce of acceptOneClient
    cur,        \* the batch being allocated
    arriving,   \* handshakes started and not finished (pairCount less results)
    added,      \* some connection was added to the mux
    links,      \* connections alive in the server's mux
    remote,     \* remotePeer of the signaling client
    watch,      \* the WaitForSessionEnd goroutine: off, wait, drain
    busy,       \* it is handling a message it has taken from incoming
    stale,      \* those of ended sessions that were busy and have not returned
    \* network
    toS, toC,   \* incoming channel of the server and of the client
    hello,      \* connections over which the client sent token and session ID
    leaving,    \* clients that left and whose hungup VK has not announced
    \* history
    lost,       \* how the outstanding batch was lost, "" if it was not
    stolen      \* a message of client k was taken by a stale goroutine

clientVars == <<k, cpc, csig, tries, acked, pending, gradual, out, pairs, up>>
loopVars   == <<spc, snonce, cur, arriving, added, links, remote>>
watchVars  == <<watch, busy, stale>>
historyVars == <<lost, stolen>>
vars == <<clientVars, loopVars, watchVars, toS, toC, hello, leaving, historyVars>>

-----------------------------------------------------------------------------
(* Messages.  A relay batch carries n addresses; b is its number and final *)
(* its flag.  A reply is the server's batch that answers batch b.          *)

Reset(j)  == [t |-> "reset", k |-> j]
Ack(j)    == [t |-> "ack", k |-> j]
Punch(j)  == [t |-> "punch", k |-> j]
Hungup(j) == [t |-> "hungup", k |-> j]
Reply(j, b, n) == [t |-> "reply", k |-> j, b |-> b, n |-> n]

\* tok: sent by the token phase.
Batch(j, b, n, f, tok) ==
    [t |-> "batch", k |-> j, b |-> b, n |-> n, final |-> f, tok |-> tok]

NoBatch == Batch(None, 0, 0, FALSE, FALSE)

\* What the server hears: nothing while it is out of the call.
ToServer(m) == IF spc = "join" \/ ~csig THEN toS ELSE Append(toS, m)

\* What the client hears: nothing before it has joined or after its WebSocket
\* broke.
ToClient(m) == IF cpc = "down" \/ ~csig THEN toC ELSE Append(toC, m)

Outstanding(m) == cpc = "recv" /\ m = out

\* What becomes of the outstanding batch when m is dropped for reason why.
LoseIf(m, why) == lost' = IF Outstanding(m) THEN why ELSE lost

-----------------------------------------------------------------------------
Init ==
    /\ k = None /\ cpc = "down" /\ csig = FALSE /\ tries = 0 /\ acked = FALSE
    /\ pending = <<>> /\ gradual = <<>> /\ out = NoBatch /\ pairs = 0 /\ up = 0
    /\ spc = "join" /\ snonce = None /\ cur = NoBatch
    /\ arriving = 0 /\ added = FALSE /\ links = 0 /\ remote = None
    /\ watch = "off" /\ busy = FALSE /\ stale = {}
    /\ toS = <<>> /\ toC = <<>> /\ hello = 0 /\ leaving = {}
    /\ lost = "" /\ stolen = FALSE

-----------------------------------------------------------------------------
(* The client: connectRelaySession.                                        *)

\* It joins the conference, connects signaling and draws a nonce.
ClientStarts ==
    /\ cpc = "down" /\ k < MaxSessions
    /\ k' = k + 1 /\ cpc' = "ask" /\ csig' = TRUE /\ tries' = 0 /\ acked' = FALSE
    /\ pending' = <<>> /\ gradual' = <<>> /\ out' = NoBatch /\ pairs' = 0 /\ up' = 0
    /\ toC' = <<>> /\ hello' = 0
    /\ lost' = "" /\ stolen' = FALSE
    /\ UNCHANGED <<loopVars, watchVars, toS, leaving>>

SendDisconnectReq ==
    /\ cpc = "ask"
    /\ cpc' = "ack" /\ tries' = tries + 1
    /\ toS' = ToServer(Reset(k))
    /\ UNCHANGED <<k, csig, acked, pending, gradual, out, pairs, up, loopVars,
                   watchVars, toC, hello, leaving, historyVars>>

\* WaitDisconnectAck discards everything but the ack of this nonce.
WaitDisconnectAck ==
    /\ cpc = "ack" /\ toC # <<>>
    /\ toC' = Tail(toC)
    /\ acked' = (Head(toC) = Ack(k))
    /\ cpc' = IF acked' THEN "token" ELSE "ack"
    /\ UNCHANGED <<k, csig, tries, pending, gradual, out, pairs, up, loopVars,
                   watchVars, toS, hello, leaving, historyVars>>

\* Two seconds pass; after the last attempt the client goes on without an ack.
AckTimeout ==
    /\ cpc = "ack"
    /\ cpc' = IF tries < DisconnectRetries THEN "ask" ELSE "token"
    /\ UNCHANGED <<k, csig, tries, acked, pending, gradual, out, pairs, up, loopVars,
                   watchVars, toS, toC, hello, leaving, historyVars>>

\* SendRelayBatch; the client then waits for the answer, with no timeout.
SendRelayBatch(n, final, tok) ==
    LET m == Batch(k, out.b + 1, n, final, tok)
    IN  /\ out' = m
        /\ toS' = ToServer(m)
        /\ lost' = IF spc = "join" THEN "rejoin" ELSE ""
        /\ cpc' = "recv"

\* The token phase: s of the tokens give an allocation and are sent as one
\* batch, marked final when no anonymous connection was planned; the failed
\* ones are added to the anonymous connections only after that.
TokenPhase(s) ==
    /\ cpc = "token"
    /\ pending' = [i \in 1..(NumConns - s) |-> 0]
    /\ IF s > 0
       THEN SendRelayBatch(s, NumConns = Tokens, TRUE)
       ELSE cpc' = "gradual" /\ UNCHANGED <<out, toS, lost>>
    /\ UNCHANGED <<k, csig, tries, acked, gradual, pairs, up, loopVars, watchVars,
                   toC, hello, leaving, stolen>>

\* AllocateGradual tries the first BatchSize pending allocations.  A failed one
\* counts a retry, MaxNonRLRetries at most, a rate-limited one none.
Tried == Min({BatchSize, Len(pending)})
Retries(i, limited) == IF i \in limited THEN pending[i] ELSE pending[i] + 1
Retried(ok, limited) ==
    {i \in (1..Tried) \ ok : Retries(i, limited) <= MaxNonRLRetries}

\* Its goroutine: the allocations in ok succeed and make a batch, those in
\* limited are rate-limited; what is tried again goes behind the others, in the
\* order in which the results came.
GradualBatch(ok, limited) ==
    \E order \in [1..Cardinality(Retried(ok, limited)) -> Retried(ok, limited)] :
        /\ \A i, j \in DOMAIN order : order[i] = order[j] => i = j
        /\ pending' = SubSeq(pending, Tried + 1, Len(pending))
                        \o [j \in DOMAIN order |-> Retries(order[j], limited)]
        /\ gradual' = <<[n |-> Cardinality(ok), final |-> pending' = <<>>]>>

AllocateGradual ==
    /\ cpc \in {"gradual", "recv", "dial"} /\ ~(cpc # "gradual" /\ out.tok)
    /\ pending # <<>> /\ gradual = <<>>
    /\ \E ok, limited \in SUBSET (1..Tried) :
         ok \cap limited = {} /\ GradualBatch(ok, limited)
    /\ UNCHANGED <<k, cpc, csig, tries, acked, out, pairs, up, loopVars,
                   watchVars, toS, toC, hello, leaving, historyVars>>

\* The batch loop takes the next batch of allocations and sends it; an empty
\* one is skipped, and the server is not told even when it was the last.
NextBatch ==
    /\ cpc = "gradual" /\ gradual # <<>>
    /\ gradual' = <<>>
    /\ LET br == Head(gradual)
       IN  IF br.n > 0
           THEN SendRelayBatch(br.n, br.final, FALSE)
           ELSE /\ cpc' = IF br.final THEN "finish" ELSE "gradual"
                /\ UNCHANGED <<out, toS, lost>>
    /\ UNCHANGED <<k, csig, tries, acked, pending, pairs, up, loopVars, watchVars,
                   toC, hello, leaving, stolen>>

\* Mutation: replies are not filtered by nonce.
AcceptsAny(m) == m.t = "reply"

\* recvRelayData: the next batch of this nonce that the server sent.
Accepts(m) == m.t = "reply" /\ m.k = k

\* RecvRelayBatch; the pairs of the batch are then dialled, and a punch-ready
\* is sent for them.  A reply without addresses decodes to one empty address,
\* whose dial never succeeds.
RecvRelayBatch ==
    /\ cpc = "recv" /\ csig /\ toC # <<>>
    /\ toC' = Tail(toC)
    /\ LET m == Head(toC)
       IN  IF Accepts(m)
           THEN /\ cpc' = "dial"
                /\ pairs' = Min({out.n, m.n})
                /\ toS' = ToServer(Punch(k))
           ELSE UNCHANGED <<cpc, pairs, toS>>
    /\ UNCHANGED <<k, csig, tries, acked, pending, gradual, out, up, loopVars,
                   watchVars, hello, leaving, historyVars>>

\* The handshakes of a batch have ended: ok pairs have punched, shaken hands and
\* written the auth token and the session ID, and are in the mux.
Dialled(ok) ==
    /\ cpc = "dial"
    /\ up' = up + ok /\ hello' = hello + ok /\ pairs' = 0
    /\ UNCHANGED <<k, csig, tries, acked, pending, gradual, out, loopVars, watchVars,
                   toS, toC, leaving, historyVars>>

\* The token batch is over; what is missing is allocated anonymously.
TokenDialEnds(ok) ==
    /\ out.tok
    /\ Dialled(ok)
    /\ cpc' = IF pending = <<>> THEN "finish" ELSE "gradual"

\* An anonymous batch is over; after the final one the channel is closed.
BatchDialEnds(ok) ==
    /\ ~out.tok
    /\ Dialled(ok)
    /\ cpc' = IF out.final THEN "finish" ELSE "gradual"

\* Waiting for an answer, the client finds its WebSocket closed: the token
\* phase fails, the batch loop stops with what it has.
ClientSignalingLost ==
    /\ cpc = "recv" /\ csig
    /\ csig' = FALSE /\ toC' = <<>>
    /\ cpc' = IF out.tok THEN "down" ELSE "finish"
    /\ leaving' = leaving \cup {k}
    /\ UNCHANGED <<k, tries, acked, pending, gradual, out, pairs, up, loopVars,
                   watchVars, toS, hello, historyVars>>

Leaves ==
    /\ cpc' = "down" /\ csig' = FALSE /\ toC' = <<>>
    /\ leaving' = IF csig THEN leaving \cup {k} ELSE leaving
    /\ UNCHANGED <<k, tries, acked, pending, gradual, out, pairs, up, loopVars,
                   watchVars, toS, hello, historyVars>>

\* No connection was established: everything is closed, signaling included.
ConnectEnds ==
    /\ cpc = "finish"
    /\ IF up = 0
       THEN Leaves
       ELSE /\ cpc' = "up"
            /\ UNCHANGED <<k, csig, tries, acked, pending, gradual, out, pairs, up,
                           loopVars, watchVars, toS, toC, hello, leaving, historyVars>>

\* The client is closed, killed or loses its network.
ClientLeaves == cpc \notin {"down", "finish"} /\ Leaves

-----------------------------------------------------------------------------
(* The server.                                                             *)

\* VK tells the call that a client has left it.
AnnounceHungup(j) ==
    /\ j \in leaving
    /\ leaving' = leaving \ {j}
    /\ toS' = IF spc = "join" THEN toS ELSE Append(toS, Hungup(j))
    /\ UNCHANGED <<clientVars, loopVars, watchVars, toC, hello, historyVars>>

\* runPersistentRelaySession has joined the call.
JoinEnds ==
    /\ spc = "join"
    /\ spc' = "first"
    /\ UNCHANGED <<clientVars, snonce, cur, arriving, added, links, remote, watchVars,
                   toS, toC, hello, leaving, historyVars>>

\* acceptOneClient returns: mux, allocations and handshakes are closed.  Its
\* WaitForSessionEnd goroutine is told by sessCtx; it may be on its way from
\* one message to the next.
SessionReturns(next) ==
    /\ spc' = next
    /\ snonce' = None /\ cur' = NoBatch /\ arriving' = 0 /\ added' = FALSE /\ links' = 0
    /\ watch' = "off" /\ busy' = FALSE

Leftover == IF busy THEN stale \cup {<<snonce, watch>>} ELSE stale

\* The call is left and joined again: the credentials are about to expire, or
\* the WebSocket has died.
Rejoin ==
    /\ SessionReturns("join")
    /\ remote' = None /\ stale' = {} /\ toS' = <<>>
    /\ lost' = IF \/ \E i \in DOMAIN toS : Outstanding(toS[i])
                  \/ Outstanding(cur) /\ toC' = toC
               THEN "rejoin" ELSE lost

ServerRejoins ==
    /\ spc # "join"
    /\ toC' = toC
    /\ Rejoin
    /\ UNCHANGED <<clientVars, hello, leaving, stolen>>

\* RecvRelayBatch without a nonce: any client's reset is acknowledged, any
\* client's batch starts the session.
FirstRecv ==
    /\ spc = "first" /\ toS # <<>>
    /\ toS' = Tail(toS)
    /\ LET m == Head(toS)
       IN  /\ toC' = IF m.t = "reset" THEN ToClient(Ack(m.k)) ELSE toC
           /\ IF m.t = "batch"
              THEN spc' = "alloc" /\ cur' = m /\ snonce' = m.k /\ remote' = m.k
              ELSE UNCHANGED <<spc, cur, snonce, remote>>
    /\ UNCHANGED <<clientVars, arriving, added, links, watchVars, hello, leaving,
                   historyVars>>

\* Mutation: a reset during the batch exchange is acknowledged, and the wait
\* for the old client's batches goes on.
FollowResetKeeps(m) ==
    /\ toC' = ToClient(Ack(m.k))
    /\ UNCHANGED <<loopVars, watchVars, lost>>

\* A new client's reset aborts the batch exchange with the old one.
FollowReset(m) ==
    /\ toC' = ToClient(Ack(m.k))
    /\ SessionReturns("first")
    /\ UNCHANGED <<remote, stale, lost>>

FollowRecv ==
    /\ spc = "follow" /\ toS # <<>>
    /\ toS' = Tail(toS)
    /\ LET m == Head(toS)
       IN  \/ m.t = "reset" /\ FollowReset(m)
           \/ /\ m.t = "batch" /\ m.k = snonce
              /\ spc' = "alloc" /\ cur' = m /\ remote' = m.k
              /\ UNCHANGED <<snonce, arriving, added, links, watchVars, toC, lost>>
           \/ /\ m.t \notin {"reset", "batch"} \/ (m.t = "batch" /\ m.k # snonce)
              /\ LoseIf(m, "foreign")
              /\ UNCHANGED <<loopVars, watchVars, toC>>
    /\ UNCHANGED <<clientVars, hello, leaving, stolen>>

\* Mutation: the wait for a further batch has no timeout.
FollowNeverTimesOut == spc = "follow" /\ UNCHANGED vars

\* Thirty seconds without a further batch: go on with the pairs there are.
FollowTimeout ==
    /\ spc = "follow"
    /\ spc' = "wait"
    /\ UNCHANGED <<clientVars, snonce, cur, arriving, added, links, remote, watchVars,
                   toS, toC, hello, leaving, historyVars>>

\* What Manager.Allocate may return for n allocations, each made by a goroutine
\* of its own with the credentials of the join while they are valid, and fresh
\* ones later: those that succeeded, or, when none did, the first error.
AllocateOutcomes(n) ==
    [n : 0..n, expired : {FALSE}]
      \cup [n : {0}, expired : {TRUE}]

\* Mutation: when the allocation fails the server does not answer.
AllocateSilent(s) ==
    /\ spc = "alloc"
    /\ toC' = IF s = 0 THEN toC ELSE ToClient(Reply(cur.k, cur.b, s))
    /\ arriving' = arriving + s /\ cur' = NoBatch
    /\ spc' = IF cur.final THEN "wait" ELSE "follow"
    /\ UNCHANGED <<clientVars, snonce, added, links, remote, watchVars, toS, hello,
                   leaving, historyVars>>

\* s allocations succeed; they are sent back, none as an empty batch, and the
\* handshakes of the pairs start.
Allocate(s) ==
    /\ spc = "alloc"
    /\ toC' = ToClient(Reply(cur.k, cur.b, s))
    /\ arriving' = arriving + s /\ cur' = NoBatch
    /\ spc' = IF cur.final THEN "wait" ELSE "follow"
    /\ UNCHANGED <<clientVars, snonce, added, links, remote, watchVars, toS, hello,
                   leaving, historyVars>>

\* The credentials have expired: an empty answer, and the call is joined anew.
AllocateExpired ==
    /\ spc = "alloc"
    /\ toC' = ToClient(Reply(cur.k, cur.b, 0))
    /\ Rejoin
    /\ UNCHANGED <<clientVars, hello, leaving, stolen>>

ServerAllocates ==
    \E r \in AllocateOutcomes(cur.n) :
        \/ ~r.expired /\ Allocate(r.n)
        \/ r.expired /\ AllocateExpired

\* A handshake has ended; the auth token and the session ID of the client
\* were read and the connection is in the mux.
HandshakeOK ==
    /\ spc \in {"wait", "serve"} /\ arriving > 0 /\ hello > 0 /\ snonce = k
    /\ added => links > 0
    /\ arriving' = arriving - 1 /\ hello' = hello - 1
    /\ added' = TRUE /\ links' = links + 1
    /\ UNCHANGED <<clientVars, spc, snonce, cur, remote, watchVars, toS, toC, leaving,
                   historyVars>>

HandshakeFails ==
    /\ spc \in {"wait", "serve"} /\ arriving > 0
    /\ arriving' = arriving - 1
    /\ UNCHANGED <<clientVars, spc, snonce, cur, added, links, remote, watchVars, toS,
                   toC, hello, leaving, historyVars>>

\* Some connection is live: the session loop and its goroutines start.
ServeStarts ==
    /\ spc = "wait" /\ added
    /\ spc' = "serve" /\ watch' = "wait" /\ busy' = FALSE
    /\ UNCHANGED <<clientVars, snonce, cur, arriving, added, links, remote, stale, toS,
                   toC, hello, leaving, historyVars>>

\* Mutation: the wait for a first connection has no timeout.
WaitForever == spc = "wait" /\ arriving = 0 /\ ~added /\ UNCHANGED vars

\* Sixty seconds, every handshake over, and none succeeded.
WaitTimeout ==
    /\ spc = "wait" /\ arriving = 0 /\ ~added
    /\ SessionReturns("first")
    /\ UNCHANGED <<clientVars, remote, stale, toS, toC, hello, leaving, historyVars>>

\* A connection breaks or exceeds the idle timeout.
LinkDies ==
    /\ links > 0
    /\ links' = links - 1
    /\ UNCHANGED <<clientVars, spc, snonce, cur, arriving, added, remote, watchVars,
                   toS, toC, hello, leaving, historyVars>>

\* m.Dead(): the last connection is gone.
ServeEnds ==
    /\ spc = "serve" /\ links = 0
    /\ stale' = Leftover
    /\ SessionReturns("first")
    /\ UNCHANGED <<clientVars, remote, toS, toC, hello, leaving, historyVars>>

\* A reset ends the session: it is acknowledged and sessCancel called.
WatchReset(m) ==
    /\ toC' = ToClient(Ack(m.k))
    /\ SessionReturns("first")
    /\ UNCHANGED <<remote, stale, lost>>

\* WaitForSessionEnd, and DrainAndRoute after a hungup, read the same channel;
\* what they do not handle is dropped.  No one subscribes to punch-ready here.
WatchRecv ==
    /\ spc = "serve" /\ ~busy /\ toS # <<>>
    /\ toS' = Tail(toS)
    /\ LET m == Head(toS)
           reset == watch = "wait" /\ m.t = "reset"
           hung == watch = "wait" /\ m.t = "hungup" /\ m.k = remote
       IN  \/ reset /\ WatchReset(m)
           \/ /\ hung
              /\ watch' = "drain"
              /\ UNCHANGED <<loopVars, busy, stale, toC, lost>>
           \/ /\ ~reset /\ ~hung
              /\ busy' = TRUE
              /\ LoseIf(m, IF watch = "drain" THEN "drain"
                           ELSE IF m.k = snonce THEN "late" ELSE "session")
              /\ UNCHANGED <<loopVars, watch, stale, toC>>
    /\ UNCHANGED <<clientVars, hello, leaving, stolen>>

WatchNext ==
    /\ busy
    /\ busy' = FALSE
    /\ UNCHANGED <<clientVars, loopVars, watch, stale, toS, toC, hello, leaving,
                   historyVars>>

\* A goroutine of an ended session is back in its select with both the context
\* cancelled and a message waiting, and picks the message.
StaleRecv(w) ==
    /\ w \in stale /\ toS # <<>>
    /\ toS' = Tail(toS)
    /\ LET m == Head(toS)
           waiting == w[2] = "wait"
       IN  /\ toC' = IF waiting /\ m.t = "reset" THEN ToClient(Ack(m.k)) ELSE toC
           /\ stale' = CASE waiting /\ m.t = "reset" -> stale \ {w}
                         [] waiting /\ m.t = "hungup" /\ m.k = remote ->
                              (stale \ {w}) \cup {<<w[1], "drain">>}
                         [] OTHER -> stale
           /\ LoseIf(m, "stale")
           /\ stolen' = (stolen \/ m.k = k)
    /\ UNCHANGED <<clientVars, loopVars, watch, busy, hello, leaving>>

StaleReturns(w) ==
    /\ w \in stale
    /\ stale' = stale \ {w}
    /\ UNCHANGED <<clientVars, loopVars, watch, busy, toS, toC, hello, leaving,
                   historyVars>>

-----------------------------------------------------------------------------
ClientStep ==
    \/ ClientStarts \/ SendDisconnectReq \/ WaitDisconnectAck \/ AckTimeout
    \/ \E s \in 0..Tokens : TokenPhase(s)
    \/ AllocateGradual \/ NextBatch \/ RecvRelayBatch
    \/ \E ok \in 0..pairs : TokenDialEnds(ok) \/ BatchDialEnds(ok)
    \/ ClientSignalingLost \/ ConnectEnds \/ ClientLeaves

ServerStep ==
    \/ JoinEnds \/ ServerRejoins \/ FirstRecv \/ FollowRecv \/ FollowTimeout
    \/ ServerAllocates \/ HandshakeOK \/ HandshakeFails \/ ServeStarts
    \/ WaitTimeout \/ LinkDies \/ ServeEnds \/ WatchRecv \/ WatchNext
    \/ \E w \in stale : StaleRecv(w) \/ StaleReturns(w)

Next == ClientStep \/ ServerStep \/ \E j \in leaving : AnnounceHungup(j)

\* Fairness: the goroutines run, timers fire, allocations and handshakes end,
\* VK announces who has left, and the connections of a client that is gone
\* exceed the idle timeout.  Nothing is assumed of faults and of clients.
Fairness ==
    /\ WF_vars(RecvRelayBatch)
    /\ WF_vars(JoinEnds) /\ WF_vars(FirstRecv) /\ WF_vars(FollowRecv)
    /\ WF_vars(FollowTimeout)
    /\ WF_vars(ServerAllocates)
    /\ WF_vars(HandshakeOK \/ HandshakeFails)
    /\ WF_vars(ServeStarts) /\ WF_vars(WaitTimeout)
    /\ WF_vars((cpc = "down" \/ snonce # k) /\ LinkDies)
    /\ WF_vars(ServeEnds) /\ WF_vars(WatchRecv) /\ WF_vars(WatchNext)

Spec == Init /\ [][Next]_vars /\ Fairness

-----------------------------------------------------------------------------
(* Properties.                                                             *)

ClientMessages ==
    [t : {"reset", "punch", "hungup"}, k : Clients]
      \cup [t : {"batch"}, k : Clients, b : Nat, n : 1..NumConns, final : BOOLEAN,
            tok : BOOLEAN]

ServerMessages ==
    [t : {"ack"}, k : Clients]
      \cup [t : {"reply"}, k : Clients, b : Nat, n : 0..NumConns]

Batches == {NoBatch} \cup {m \in ClientMessages : m.t = "batch"}

\* The variables have the types of the code's fields, no more handshakes are
\* counted than connections asked for, and the watcher runs only in a session.
TypeOK ==
    /\ k \in 0..MaxSessions
    /\ cpc \in {"down", "ask", "ack", "token", "gradual", "recv", "dial", "finish", "up"}
    /\ csig \in BOOLEAN /\ tries \in 0..DisconnectRetries /\ acked \in BOOLEAN
    /\ \A i \in DOMAIN pending : pending[i] \in 0..MaxNonRLRetries
    /\ Len(pending) <= NumConns /\ Len(gradual) <= 1
    /\ out.b \in Nat /\ out.n \in 0..NumConns /\ pairs \in 0..NumConns
    /\ up \in 0..NumConns
    /\ spc \in {"join", "first", "follow", "alloc", "wait", "serve"}
    /\ snonce \in 0..MaxSessions /\ remote \in 0..MaxSessions
    /\ arriving + links <= NumConns /\ arriving >= 0 /\ links >= 0
    /\ added \in BOOLEAN /\ busy \in BOOLEAN
    /\ watch \in {"off", "wait", "drain"} /\ (watch # "off" <=> spc = "serve")
    /\ stale \subseteq Clients \X {"wait", "drain"}
    /\ \A i \in DOMAIN toS : toS[i].t \in {"reset", "punch", "hungup", "batch"}
    /\ \A i \in DOMAIN toC : toC[i].t \in {"ack", "reply"}
    /\ hello \in 0..NumConns /\ leaving \subseteq Clients
    /\ lost \in {"", "rejoin", "foreign", "drain", "late", "session", "stale"}

\* The answer a client takes is the answer to the batch it has just sent, and
\* promises no more pairs: however long an allocation for a dead client takes,
\* its answer never reaches the next client's dials.
RepliesMatch ==
    [][RecvRelayBatch /\ cpc' = "dial" =>
          Head(toC).k = out.k /\ Head(toC).b = out.b /\ Head(toC).n <= out.n]_vars

\* A client whose reset was acknowledged finds the server free or working for
\* it: no session of an older client outlives the ack, unless one of its reset
\* messages was read by the goroutine of a session that had already ended.
AckFreesServer == acked /\ cpc # "down" /\ ~stolen => snonce \in {None, k}

\* A batch the client waits for is in exactly one place: on its way to the
\* server, being allocated, answered, or lost in a way lost names.  It gets lost
\* in four ways only: the server was out of the call, a drain or a leftover
\* goroutine of an older session took it, or the server had stopped listening
\* for this client's batches.  The nonce filter and the watcher of another
\* client's session take one only if a leftover goroutine has taken the reset.
Count(q, P(_)) == Cardinality({i \in DOMAIN q : P(q[i])})
BatchNotForgotten ==
    /\ TypeOK
    /\ cpc = "recv" /\ lost = "" =>
          LET Answers(m) == m.t = "reply" /\ m.k = out.k /\ m.b = out.b
          IN  Count(toS, Outstanding) + Count(toC, Answers)
                + (IF Outstanding(cur) THEN 1 ELSE 0) = 1
    /\ lost \in {"foreign", "session"} => stolen

\* A client waiting for an answer gets it, or its batch was lost.
BatchAnswered == (cpc = "recv") ~> (cpc # "recv" \/ lost # "")

\* When the client is gone, the server comes back to waiting for a client,
\* wherever the client left it.
ServerRecovers == (cpc = "down") ~> (cpc # "down" \/ spc = "first")

=============================================================================
