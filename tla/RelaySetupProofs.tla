-------------------------- MODULE RelaySetupProofs --------------------------
(***************************************************************************)
(* Proofs about RelaySetup, for any number of connections, tokens, batch   *)
(* size, retries and clients.                                              *)
(*                                                                         *)
(* Argument.  A client has at most one batch in the system: it waits for   *)
(* the answer, and a batch is moved, never copied (Once).  The messages of *)
(* a client stay behind those of the clients before it, and its batches    *)
(* behind its reset (Ordered), so whoever reads the reset finds nothing of *)
(* an older client afterwards: that is why an acknowledged reset leaves    *)
(* the server free (Freed), and why a batch that the server drops as a     *)
(* foreign one means that the reset had been read by a goroutine of an     *)
(* ended session (Reached).  TypeOK needs that no more addresses are ever  *)
(* in the system than the client has connections (ClientShare,             *)
(* ServerShare).                                                           *)
(***************************************************************************)
EXTENDS RelaySetup, FiniteSetTheorems, SequenceTheorems, TLAPS

AnyBatch == [t : {"batch"}, k : 0..MaxSessions, b : Nat, n : 0..NumConns,
             final : BOOLEAN, tok : BOOLEAN]

ClientTypes ==
    /\ k \in 0..MaxSessions
    /\ cpc \in {"down", "ask", "ack", "token", "gradual", "recv", "dial", "finish", "up"}
    /\ csig \in BOOLEAN /\ acked \in BOOLEAN
    /\ tries \in 0..DisconnectRetries
    /\ pairs \in Nat /\ up \in Nat /\ hello \in Nat

PendingTypes ==
    /\ pending \in Seq(0..MaxNonRLRetries)
    /\ gradual \in Seq([n : 0..NumConns, final : BOOLEAN]) /\ Len(gradual) <= 1

AllocationTypes == PendingTypes /\ out \in AnyBatch

ServerTypes ==
    /\ spc \in {"join", "first", "follow", "alloc", "wait", "serve"}
    /\ snonce \in 0..MaxSessions /\ remote \in 0..MaxSessions
    /\ arriving \in Nat /\ links \in Nat /\ cur \in AnyBatch
    /\ added \in BOOLEAN /\ busy \in BOOLEAN
    /\ watch \in {"off", "wait", "drain"}
    /\ stale \subseteq Clients \X {"wait", "drain"}

NetworkTypes ==
    /\ toS \in Seq(ClientMessages) /\ toC \in Seq(ServerMessages)
    /\ leaving \subseteq Clients
    /\ lost \in {"", "rejoin", "foreign", "drain", "late", "session", "stale"}
    /\ stolen \in BOOLEAN

Types == ClientTypes /\ AllocationTypes /\ ServerTypes /\ NetworkTypes

\* What the places of the client and of the server say about their variables.
Stages ==
    /\ cpc # "down" => k # None
    /\ cpc \in {"ask", "ack", "token", "gradual", "recv", "dial"} => csig
    /\ cpc = "ask" => tries < DisconnectRetries
    /\ cpc \notin {"down", "ask"} => tries # 0
    /\ cpc \in {"ask", "ack", "token"} =>
         pending = <<>> /\ gradual = <<>> /\ up = 0 /\ pairs = 0
    /\ cpc = "recv" => out.k = k /\ out.n # 0
    /\ ~csig => toC = <<>>
    /\ spc = "join" => toS = <<>>
    /\ snonce # None <=> spc \in {"follow", "alloc", "wait", "serve"}
    /\ IF spc = "alloc" THEN cur.k = snonce ELSE cur = NoBatch
    /\ watch # "off" <=> spc = "serve"
    /\ spc \in {"join", "first"} => arriving = 0 /\ links = 0

IsBatch(m) == m.t = "batch"
Answer(m)  == m.t = "reply" /\ m.k = k

\* A client has at most one batch on its way to the server or being allocated;
\* the current one, as long as it has signaling, only the one it waits for, and
\* if the answer to that one is on its way, none.
OneOnItsWay ==
    \A i, j \in DOMAIN toS :
        IsBatch(toS[i]) /\ IsBatch(toS[j]) /\ toS[i].k = toS[j].k => i = j

NoneFrom(c) == \A i \in DOMAIN toS : IsBatch(toS[i]) => toS[i].k # c

OneAllocated == spc = "alloc" => NoneFrom(cur.k)

OnlyTheLast ==
    csig =>
      /\ \A i \in DOMAIN toS :
           IsBatch(toS[i]) /\ toS[i].k = k => cpc = "recv" /\ toS[i] = out
      /\ spc = "alloc" /\ cur.k = k => cpc = "recv" /\ cur = out

AnswerInstead ==
    \A i \in DOMAIN toC : Answer(toC[i]) =>
        /\ cpc = "recv" /\ toC[i].b = out.b /\ toC[i].n <= out.n
        /\ NoneFrom(k)
        /\ ~(spc = "alloc" /\ cur.k = k)
        /\ \A j \in DOMAIN toC : Answer(toC[j]) => i = j

Once == OneOnItsWay /\ OneAllocated /\ OnlyTheLast /\ AnswerInstead

\* Nothing is ahead of its client; what follows the current client's reset is
\* the current client's, and its batches do follow it.
NothingAhead ==
    /\ snonce <= k
    /\ \A i \in DOMAIN toS : toS[i].k <= k
    /\ \A j \in leaving : j <= k

ResetBetween ==
    \A i, j \in DOMAIN toS :
        /\ toS[i] = Reset(k) /\ IsBatch(toS[j]) /\ i < j => toS[j].k = k
        /\ toS[i] = Reset(k) /\ IsBatch(toS[j]) /\ toS[j].k = k => i < j

Ordered == NothingAhead /\ ResetBetween

NoOlder == \A i \in DOMAIN toS : IsBatch(toS[i]) => toS[i].k = k

\* An acknowledged reset, or one whose ack is on its way, left nothing of an
\* older client.
AckComes == \E i \in DOMAIN toC : toC[i] = Ack(k)
Freed == acked \/ AckComes => NoOlder /\ (~stolen => snonce \in {None, k})

\* A reset that was sent, acknowledged or not, is before the server, was read
\* by a stale goroutine or by the drain, or has freed the server.
Reached ==
    tries # 0 =>
        \/ stolen
        \/ \E i \in DOMAIN toS : toS[i] = Reset(k)
        \/ NoOlder /\ (snonce \in {None, k} \/ watch = "drain")

\* The batch the client waits for is somewhere, or lost says where it went.
Somewhere ==
    cpc = "recv" /\ lost = "" =>
        \/ \E i \in DOMAIN toS : toS[i] = out
        \/ \E i \in DOMAIN toC : Answer(toC[i])
        \/ spc = "alloc" /\ cur = out

LostWithReset == lost \in {"foreign", "session"} => stolen

\* Connections the client can still ask for.
Left == Len(pending) + (IF gradual = <<>> THEN 0 ELSE Head(gradual).n)

ClientShare ==
    /\ up + pairs + Left + (IF cpc = "recv" THEN out.n ELSE 0) <= NumConns
    /\ hello <= up
    /\ \A i \in DOMAIN toS :
         IsBatch(toS[i]) /\ toS[i].k = k => toS[i].n + Left <= NumConns

\* Handshakes and connections of the session, and the batch it allocates for.
Load == arriving + links + cur.n

\* What the session's client can still add to it.
ToCome == IF snonce = k THEN Left ELSE 0

ServerShare ==
    /\ cpc \in {"ask", "ack", "token"} => snonce # k
    /\ Load + ToCome <= NumConns
    /\ \A i \in DOMAIN toS :
         IsBatch(toS[i]) /\ toS[i].k = snonce => Load + toS[i].n + ToCome <= NumConns

IInv ==
    /\ Types /\ Stages /\ Once /\ Ordered /\ Freed /\ Reached /\ Somewhere
    /\ LostWithReset /\ ClientShare /\ ServerShare

-----------------------------------------------------------------------------
LEMMA Bounds ==
    /\ NumConns \in Nat \ {0} /\ Tokens \in 0..NumConns /\ BatchSize \in Nat \ {0}
    /\ MaxNonRLRetries \in Nat /\ DisconnectRetries \in Nat \ {0}
    /\ MaxSessions \in Nat \ {0} /\ Clients = 1..MaxSessions
BY RelayAssumption DEF Clients

\* Every message has its kind, and names a client.
LEMMA MessageFacts ==
    /\ \A m \in ClientMessages :
         /\ m.t \in {"reset", "punch", "hungup", "batch"} /\ m.k \in Clients
         /\ IsBatch(m) => m \in AnyBatch /\ m.n # 0
         /\ m.t = "reset" => m = Reset(m.k)
    /\ \A m \in ServerMessages : m.t \in {"ack", "reply"} /\ m.k \in Clients
    /\ NoBatch \in AnyBatch /\ NoBatch.n = 0 /\ NoBatch.k = None /\ IsBatch(NoBatch)
    /\ \A j \in Clients :
         /\ {Reset(j), Punch(j), Hungup(j)} \subseteq ClientMessages
         /\ Ack(j) \in ServerMessages
         /\ Reset(j).t = "reset" /\ Punch(j).t = "punch" /\ Hungup(j).t = "hungup"
         /\ Reset(j).k = j /\ Punch(j).k = j /\ Hungup(j).k = j
         /\ Ack(j).t = "ack" /\ Ack(j).k = j
         /\ \A b \in Nat, n \in 0..NumConns :
              /\ Reply(j, b, n) \in ServerMessages
              /\ Reply(j, b, n).t = "reply" /\ Reply(j, b, n).k = j
              /\ Reply(j, b, n).b = b /\ Reply(j, b, n).n = n
<1>1. ASSUME NEW m \in ClientMessages
      PROVE  /\ m.t \in {"reset", "punch", "hungup", "batch"} /\ m.k \in Clients
             /\ IsBatch(m) => m \in AnyBatch /\ m.n # 0
             /\ m.t = "reset" => m = Reset(m.k)
  <2>1. CASE m \in [t : {"reset", "punch", "hungup"}, k : Clients]
    BY <2>1 DEF IsBatch, Reset
  <2>2. CASE m \in [t : {"batch"}, k : Clients, b : Nat, n : 1..NumConns, final : BOOLEAN,
                    tok : BOOLEAN]
    BY <2>2, Bounds DEF IsBatch, AnyBatch
  <2>. QED
    BY <2>1, <2>2 DEF ClientMessages
<1>2. ASSUME NEW m \in ServerMessages
      PROVE  m.t \in {"ack", "reply"} /\ m.k \in Clients
  BY <1>2 DEF ServerMessages
<1>3. NoBatch \in AnyBatch /\ NoBatch.n = 0 /\ NoBatch.k = None /\ IsBatch(NoBatch)
  BY Bounds DEF NoBatch, Batch, AnyBatch, IsBatch, None
<1>4. ASSUME NEW j \in Clients
      PROVE  /\ {Reset(j), Punch(j), Hungup(j)} \subseteq ClientMessages
             /\ Ack(j) \in ServerMessages
             /\ Reset(j).t = "reset" /\ Punch(j).t = "punch" /\ Hungup(j).t = "hungup"
             /\ Reset(j).k = j /\ Punch(j).k = j /\ Hungup(j).k = j
             /\ Ack(j).t = "ack" /\ Ack(j).k = j
  BY DEF Reset, Punch, Hungup, Ack, ClientMessages, ServerMessages
<1>5. ASSUME NEW j \in Clients, NEW b \in Nat, NEW n \in 0..NumConns
      PROVE  /\ Reply(j, b, n) \in ServerMessages
             /\ Reply(j, b, n).t = "reply" /\ Reply(j, b, n).k = j
             /\ Reply(j, b, n).b = b /\ Reply(j, b, n).n = n
  BY DEF Reply, ServerMessages
<1>. QED
  BY <1>1, <1>2, <1>3, <1>4, <1>5

\* What taking the head of a queue does.
LEMMA PopFacts ==
    ASSUME NEW S, NEW q \in Seq(S), q # <<>>
    PROVE  /\ 1 \in DOMAIN q /\ Head(q) = q[1] /\ Head(q) \in S
           /\ Tail(q) \in Seq(S) /\ Len(Tail(q)) = Len(q) - 1
           /\ \A i \in DOMAIN Tail(q) : i \in Nat \ {0} /\ i + 1 \in DOMAIN q
                                        /\ Tail(q)[i] = q[i + 1]
           /\ \A i \in DOMAIN q : i \in Nat \ {0} /\
                (i # 1 => i - 1 \in DOMAIN Tail(q) /\ Tail(q)[i - 1] = q[i])
OBVIOUS

\* What appending a message does.
LEMMA PushFacts ==
    ASSUME NEW S, NEW q \in Seq(S), NEW m \in S
    PROVE  /\ Append(q, m) \in Seq(S) /\ Len(Append(q, m)) = Len(q) + 1
           /\ Len(q) + 1 \in DOMAIN Append(q, m) /\ Append(q, m)[Len(q) + 1] = m
           /\ \A i \in DOMAIN q : /\ i \in DOMAIN Append(q, m)
                                  /\ Append(q, m)[i] = q[i]
                                  /\ i \in Nat /\ i < Len(q) + 1
           /\ \A i \in DOMAIN Append(q, m) : i \in DOMAIN q \/ i = Len(q) + 1
OBVIOUS

\* The first message to the server is m, and it is taken.
Popped(m) ==
    /\ m \in ClientMessages /\ 1 \in DOMAIN toS /\ toS[1] = m
    /\ toS' \in Seq(ClientMessages)
    /\ \A i \in DOMAIN toS' : i \in Nat \ {0} /\ i + 1 \in DOMAIN toS
                              /\ toS'[i] = toS[i + 1]
    /\ \A i \in DOMAIN toS : i \in Nat \ {0} /\
         (i # 1 => i - 1 \in DOMAIN toS' /\ toS'[i - 1] = toS[i])

\* m is sent behind the messages to the server, or is not heard.
Pushed(m) ==
    /\ toS' \in Seq(ClientMessages)
    /\ \A i \in DOMAIN toS : i \in Nat \ {0} /\ i \in DOMAIN toS' /\ toS'[i] = toS[i]
    /\ \A i \in DOMAIN toS' : i \in Nat \ {0} /\
         (i \in DOMAIN toS \/
            /\ toS'[i] = m /\ i = Len(toS) + 1
            /\ \A j \in DOMAIN toS : j < i)
    /\ toS' = toS \/ \E i \in DOMAIN toS' : toS'[i] = m

\* m is sent behind the messages to the client, or is not heard.
Answered(m) ==
    /\ toC' \in Seq(ServerMessages)
    /\ \A i \in DOMAIN toC : i \in Nat \ {0} /\ i \in DOMAIN toC' /\ toC'[i] = toC[i]
    /\ \A i \in DOMAIN toC' : i \in Nat \ {0} /\
         (i \in DOMAIN toC \/ (toC'[i] = m /\ i = Len(toC) + 1))
    /\ toC' = toC \/ \E i \in DOMAIN toC' : toC'[i] = m

\* Taking, sending and answering, with the queues as sets of places.
LEMMA PopsServer ==
    ASSUME toS \in Seq(ClientMessages), toS # <<>>, toS' = Tail(toS)
    PROVE  Popped(Head(toS))
BY PopFacts DEF Popped

LEMMA PopsClient ==
    ASSUME toC \in Seq(ServerMessages), toC # <<>>, toC' = Tail(toC)
    PROVE  /\ Head(toC) \in ServerMessages /\ 1 \in DOMAIN toC /\ toC[1] = Head(toC)
           /\ toC' \in Seq(ServerMessages)
           /\ \A i \in DOMAIN toC' : i \in Nat \ {0} /\ i + 1 \in DOMAIN toC
                                     /\ toC'[i] = toC[i + 1]
           /\ \A i \in DOMAIN toC : i \in Nat \ {0} /\
                (i # 1 => i - 1 \in DOMAIN toC' /\ toC'[i - 1] = toC[i])
BY PopFacts

LEMMA PushesServer ==
    ASSUME toS \in Seq(ClientMessages), NEW m \in ClientMessages,
           toS' = toS \/ toS' = Append(toS, m)
    PROVE  Pushed(m)
<1>1. CASE toS' = toS
  BY <1>1 DEF Pushed
<1>2. CASE toS' = Append(toS, m)
  BY <1>2, PushFacts DEF Pushed
<1>. QED
  BY <1>1, <1>2

LEMMA AnswersClient ==
    ASSUME toC \in Seq(ServerMessages), NEW m \in ServerMessages,
           toC' = toC \/ toC' = Append(toC, m)
    PROVE  Answered(m)
<1>1. CASE toC' = toC
  BY <1>1 DEF Answered
<1>2. CASE toC' = Append(toC, m)
  BY <1>2, PushFacts DEF Answered
<1>. QED
  BY <1>1, <1>2

\* What is left when the server has taken m: what it would have found ahead of
\* m is gone, and m has no second copy.
LEMMA PopKeeps ==
    ASSUME NEW m, Popped(m), OneOnItsWay, Ordered, k' = k
    PROVE  /\ OneOnItsWay' /\ ResetBetween'
           /\ \A i \in DOMAIN toS' : toS'[i].k <= k
           /\ IsBatch(m) => NoneFrom(m.k)'
           /\ \A c : NoneFrom(c) => NoneFrom(c)'
           /\ NoOlder \/ m = Reset(k) => NoOlder'
           /\ \A i \in DOMAIN toS : toS[i] # m => \E j \in DOMAIN toS' : toS'[j] = toS[i]
<1>1. OneOnItsWay'
  BY DEF Popped, OneOnItsWay
<1>2. ResetBetween'
  BY DEF Popped, Ordered, ResetBetween
<1>3. \A i \in DOMAIN toS' : toS'[i].k <= k
  BY DEF Popped, Ordered, NothingAhead
<1>4. ASSUME IsBatch(m), NEW i \in DOMAIN toS', IsBatch(toS'[i])
      PROVE  toS'[i].k # m.k
  <2>1. /\ i + 1 \in DOMAIN toS /\ toS'[i] = toS[i + 1] /\ i + 1 # 1
        /\ 1 \in DOMAIN toS /\ toS[1] = m
    BY DEF Popped
  <2>. QED
    BY <1>4, <2>1 DEF OneOnItsWay
<1>5. ASSUME NEW c, NoneFrom(c)
      PROVE  NoneFrom(c)'
  BY <1>5 DEF Popped, NoneFrom
<1>6. NoOlder => NoOlder'
  BY DEF Popped, NoOlder
<1>7. m = Reset(k) => NoOlder'
  BY DEF Popped, Ordered, ResetBetween, NoOlder
<1>8. ASSUME NEW i \in DOMAIN toS, toS[i] # m
      PROVE  \E j \in DOMAIN toS' : toS'[j] = toS[i]
  BY <1>8 DEF Popped
<1>. QED
  BY <1>1, <1>2, <1>3, <1>4, <1>5, <1>6, <1>7, <1>8 DEF NoneFrom

\* What is left when m, no batch, is sent to the server.
LEMMA PushKeeps ==
    ASSUME NEW m, Pushed(m), ~IsBatch(m), m.k <= k,
           m = Reset(k) => NoneFrom(k), OneOnItsWay, Ordered, k' = k
    PROVE  /\ OneOnItsWay' /\ ResetBetween'
           /\ \A i \in DOMAIN toS' : toS'[i].k <= k
           /\ \A c : NoneFrom(c) => NoneFrom(c)'
           /\ NoOlder => NoOlder'
           /\ \A i \in DOMAIN toS : \E j \in DOMAIN toS' : toS'[j] = toS[i]
<1>1. OneOnItsWay'
  BY DEF Pushed, OneOnItsWay
<1>2. ResetBetween'
  <2>. SUFFICES ASSUME NEW i \in DOMAIN toS', NEW j \in DOMAIN toS',
                       toS'[i] = Reset(k), IsBatch(toS'[j])
                PROVE  (i < j => toS'[j].k = k) /\ (toS'[j].k = k => i < j)
    BY DEF ResetBetween
  <2>1. j \in DOMAIN toS /\ toS'[j] = toS[j]
    BY DEF Pushed
  <2>2. CASE i \in DOMAIN toS
    BY <2>1, <2>2 DEF Pushed, Ordered, ResetBetween
  <2>3. CASE i \notin DOMAIN toS
    <3>1. m = Reset(k) /\ j < i /\ i \in Nat /\ j \in Nat
      BY <2>1, <2>3 DEF Pushed
    <3>. QED
      BY <2>1, <3>1 DEF NoneFrom
  <2>. QED
    BY <2>2, <2>3
<1>3. \A i \in DOMAIN toS' : toS'[i].k <= k
  BY DEF Pushed, Ordered, NothingAhead
<1>4. ASSUME NEW c, NoneFrom(c)
      PROVE  NoneFrom(c)'
  BY <1>4 DEF Pushed, NoneFrom
<1>5. NoOlder => NoOlder'
  BY DEF Pushed, NoOlder
<1>6. ASSUME NEW i \in DOMAIN toS
      PROVE  \E j \in DOMAIN toS' : toS'[j] = toS[i]
  BY DEF Pushed
<1>. QED
  BY <1>1, <1>2, <1>3, <1>4, <1>5, <1>6

\* What is left when the current client, which has none on its way, sends a
\* batch m.
LEMMA BatchKeeps ==
    ASSUME NEW m, Pushed(m), IsBatch(m), m.k = k, k \in Nat,
           NoneFrom(k), OneOnItsWay, Ordered, k' = k
    PROVE  /\ OneOnItsWay' /\ ResetBetween'
           /\ \A i \in DOMAIN toS' : toS'[i].k <= k
           /\ \A c : c # k /\ NoneFrom(c) => NoneFrom(c)'
           /\ NoOlder => NoOlder'
           /\ \A i \in DOMAIN toS' : IsBatch(toS'[i]) /\ toS'[i].k = k => toS'[i] = m
           /\ \A i \in DOMAIN toS : \E j \in DOMAIN toS' : toS'[j] = toS[i]
<1>1. OneOnItsWay'
  <2>. SUFFICES ASSUME NEW i \in DOMAIN toS', NEW j \in DOMAIN toS',
                       IsBatch(toS'[i]), IsBatch(toS'[j]), toS'[i].k = toS'[j].k
                PROVE  i = j
    BY DEF OneOnItsWay
  <2>1. CASE i \in DOMAIN toS /\ j \in DOMAIN toS
    BY <2>1 DEF Pushed, OneOnItsWay
  <2>2. CASE i \notin DOMAIN toS /\ j \notin DOMAIN toS
    BY <2>2 DEF Pushed
  <2>3. CASE i \in DOMAIN toS /\ j \notin DOMAIN toS
    BY <2>3 DEF Pushed, NoneFrom
  <2>4. CASE i \notin DOMAIN toS /\ j \in DOMAIN toS
    BY <2>4 DEF Pushed, NoneFrom
  <2>. QED
    BY <2>1, <2>2, <2>3, <2>4
<1>2. ResetBetween'
  <2>. SUFFICES ASSUME NEW i \in DOMAIN toS', NEW j \in DOMAIN toS',
                       toS'[i] = Reset(k), IsBatch(toS'[j])
                PROVE  (i < j => toS'[j].k = k) /\ (toS'[j].k = k => i < j)
    BY DEF ResetBetween
  <2>1. i \in DOMAIN toS /\ toS'[i] = toS[i]
    BY DEF Pushed, IsBatch, Reset
  <2>2. CASE j \in DOMAIN toS
    BY <2>1, <2>2 DEF Pushed, Ordered, ResetBetween
  <2>3. CASE j \notin DOMAIN toS
    BY <2>1, <2>3 DEF Pushed
  <2>. QED
    BY <2>2, <2>3
<1>3. \A i \in DOMAIN toS' : toS'[i].k <= k
  BY DEF Pushed, Ordered, NothingAhead
<1>4. ASSUME NEW c, c # k, NoneFrom(c)
      PROVE  NoneFrom(c)'
  BY <1>4 DEF Pushed, NoneFrom
<1>5. NoOlder => NoOlder'
  BY DEF Pushed, NoOlder
<1>6. ASSUME NEW i \in DOMAIN toS', IsBatch(toS'[i]), toS'[i].k = k
      PROVE  toS'[i] = m
  BY <1>6 DEF Pushed, NoneFrom
<1>7. ASSUME NEW i \in DOMAIN toS
      PROVE  \E j \in DOMAIN toS' : toS'[j] = toS[i]
  BY DEF Pushed
<1>. QED
  BY <1>1, <1>2, <1>3, <1>4, <1>5, <1>6, <1>7

\* Two disjoint sets of numbers up to n have at most n elements together.
LEMMA DisjointCount ==
    ASSUME NEW n \in Nat, NEW P \in SUBSET (1..n), NEW Q \in SUBSET (1..n), P \cap Q = {}
    PROVE  /\ Cardinality(P) \in Nat /\ Cardinality(Q) \in Nat
           /\ Cardinality(P) + Cardinality(Q) <= n
<1>1. IsFiniteSet(1..n) /\ Cardinality(1..n) = n
  BY FS_Interval
<1>2. /\ IsFiniteSet(P) /\ IsFiniteSet(Q) /\ IsFiniteSet(P \cup Q)
      /\ Cardinality(P \cup Q) <= n
  <2>1. P \cup Q \in SUBSET (1..n)
    OBVIOUS
  <2>. QED
    BY <1>1, <2>1, FS_Subset
<1>3. Cardinality(P \cup Q) = Cardinality(P) + Cardinality(Q) - Cardinality(P \cap Q)
  BY <1>2, FS_Union
<1>4. Cardinality(P \cap Q) = 0
  BY FS_EmptySet
<1>5. Cardinality(P) \in Nat /\ Cardinality(Q) \in Nat
  BY <1>2, FS_CardinalityType
<1>. QED
  BY <1>2, <1>3, <1>4, <1>5

\* The smaller of two numbers.
LEMMA MinFacts ==
    ASSUME NEW a \in Int, NEW b \in Int
    PROVE  Min({a, b}) \in {a, b} /\ Min({a, b}) <= a /\ Min({a, b}) <= b
<1>1. \E x \in {a, b} : \A y \in {a, b} : x =< y
  OBVIOUS
<1>. QED
  BY <1>1, Zenon DEF Min

LEMMA LeftNat ==
    ASSUME Types
    PROVE  Left \in Nat
<1>1. Len(pending) \in Nat
  BY DEF Types, AllocationTypes, PendingTypes
<1>2. gradual # <<>> => Head(gradual).n \in Nat
  <2>. DEFINE S == [n : 0..NumConns, final : BOOLEAN]
  <2>1. gradual \in Seq(S)
    BY DEF Types, AllocationTypes, PendingTypes
  <2>2. \A e \in S : e.n \in Nat
    BY Bounds
  <2>. HIDE DEF S
  <2>. QED
    BY <2>1, <2>2, PopFacts
<1>. QED
  BY <1>1, <1>2 DEF Left

\* A batch is made from allocations that were missing: the connections the
\* client can still ask for do not become more.
LEMMA GradualFacts ==
    ASSUME Types, Left <= NumConns, AllocateGradual
    PROVE  /\ pending' \in Seq(0..MaxNonRLRetries)
           /\ gradual' \in Seq([n : 0..NumConns, final : BOOLEAN]) /\ Len(gradual') = 1
           /\ Left \in Nat /\ Left' \in Nat /\ Left' <= Left
<1>1. PICK ok \in SUBSET (1..Tried), limited \in SUBSET (1..Tried) :
        GradualBatch(ok, limited)
  BY DEF AllocateGradual
<1>. DEFINE retried == Retried(ok, limited)
<1>2. PICK order \in [1..Cardinality(retried) -> retried] :
        /\ pending' = SubSeq(pending, Tried + 1, Len(pending))
                        \o [j \in DOMAIN order |-> Retries(order[j], limited)]
        /\ gradual' = <<[n |-> Cardinality(ok), final |-> pending' = <<>>]>>
  BY <1>1 DEF GradualBatch
<1>3. /\ pending \in Seq(0..MaxNonRLRetries) /\ Len(pending) \in Nat
      /\ gradual = <<>>
  <2>1. pending \in Seq(0..MaxNonRLRetries)
    BY DEF Types, AllocationTypes, PendingTypes
  <2>2. gradual = <<>>
    BY DEF AllocateGradual
  <2>. QED
    BY <2>1, <2>2
<1>4. Tried \in Nat /\ Tried <= Len(pending)
  <2>1. BatchSize \in Int /\ Len(pending) \in Int
    BY <1>3, Bounds
  <2>2. Tried \in {BatchSize, Len(pending)} /\ Tried <= Len(pending)
    BY <2>1, MinFacts DEF Tried
  <2>. QED
    BY <1>3, <2>2, Bounds
<1>5. /\ Cardinality(ok) \in Nat /\ Cardinality(retried) \in Nat
      /\ Cardinality(ok) + Cardinality(retried) <= Tried
  <2>1. retried \in SUBSET (1..Tried) /\ ok \cap retried = {}
    BY DEF Retried
  <2>. QED
    BY <1>4, <2>1, DisjointCount
<1>6. \A i \in retried : Retries(i, limited) \in 0..MaxNonRLRetries
  BY <1>3, <1>4, Bounds DEF Retried, Retries
<1>. DEFINE back == [j \in DOMAIN order |-> Retries(order[j], limited)]
            rest == SubSeq(pending, Tried + 1, Len(pending))
<1>7. back \in Seq(0..MaxNonRLRetries) /\ Len(back) = Cardinality(retried)
  <2>1. \A j \in DOMAIN order : order[j] \in retried
    OBVIOUS
  <2>2. \A j \in DOMAIN order : Retries(order[j], limited) \in 0..MaxNonRLRetries
    BY <1>6, <2>1
  <2>3. DOMAIN order = 1..Cardinality(retried)
    OBVIOUS
  <2>4. back \in [1..Cardinality(retried) -> 0..MaxNonRLRetries]
    BY <2>2, <2>3
  <2>. DEFINE T == 0..MaxNonRLRetries
              c == Cardinality(retried)
  <2>5. back \in [1..c -> T] /\ c \in Nat
    BY <1>5, <2>4
  <2>. HIDE DEF retried, back, T, c
  <2>6. back \in Seq(T) /\ Len(back) = c
    BY <2>5
  <2>. QED
    BY <2>6 DEF T, c
<1>8. rest \in Seq(0..MaxNonRLRetries) /\ Len(rest) = Len(pending) - Tried
  <2>1. \A i \in (Tried + 1)..Len(pending) : pending[i] \in 0..MaxNonRLRetries
    <3>. SUFFICES ASSUME NEW i \in (Tried + 1)..Len(pending)
                  PROVE  pending[i] \in 0..MaxNonRLRetries
      OBVIOUS
    <3>1. i \in 1..Len(pending)
      BY <1>3, <1>4
    <3>. QED
      BY <1>3, <3>1, ElementOfSeq
  <2>. QED
    BY <1>3, <1>4, <2>1
<1>9. pending' = rest \o back
  BY <1>2
<1>. HIDE DEF back, rest, retried
<1>10. pending' \in Seq(0..MaxNonRLRetries) /\ Len(pending') = Len(rest) + Len(back)
  <2>. DEFINE T == 0..MaxNonRLRetries
  <2>1. back \in Seq(T) /\ rest \in Seq(T)
    BY <1>7, <1>8
  <2>. HIDE DEF T
  <2>2. pending' \in Seq(T) /\ Len(pending') = Len(rest) + Len(back)
    BY <1>9, <2>1
  <2>. QED
    BY <2>2 DEF T
<1>11. /\ gradual' \in Seq([n : 0..NumConns, final : BOOLEAN]) /\ Len(gradual') = 1
       /\ Head(gradual').n = Cardinality(ok)
  <2>1. Cardinality(ok) \in 0..NumConns
    BY <1>4, <1>5, <1>3, Bounds DEF Left
  <2>. QED
    BY <1>2, <2>1
<1>12. Left = Len(pending) /\ Left' = Len(pending') + Cardinality(ok)
  BY <1>3, <1>11 DEF Left
<1>13. Left \in Nat /\ Left' \in Nat /\ Left' <= Left
  <2>. DEFINE a == Len(pending)  b == Len(pending')  c == Cardinality(ok)
              d == Cardinality(retried)
  <2>1. a \in Nat /\ c \in Nat /\ d \in Nat /\ Tried \in Nat /\ Tried <= a
        /\ b = (a - Tried) + d /\ c + d <= Tried /\ Left = a /\ Left' = b + c
    BY <1>3, <1>4, <1>5, <1>7, <1>8, <1>10, <1>12
  <2>. HIDE DEF a, b, c, d
  <2>. QED
    BY <2>1
<1>. QED
  BY <1>10, <1>11, <1>13
-----------------------------------------------------------------------------
\* The answers to the current client's batch that are on their way stay the
\* same, and the acks but for those of j.
SameAnswers(j) ==
    /\ toC' \in Seq(ServerMessages)
    /\ \A i \in DOMAIN toC : i \in DOMAIN toC' /\ toC'[i] = toC[i]
    /\ \A i \in DOMAIN toC' : i \notin DOMAIN toC =>
         toC'[i] = Ack(j) /\ toC'[i].t # "reply"

LEMMA AckKeeps ==
    ASSUME toC \in Seq(ServerMessages), NEW j \in Clients,
           toC' = toC \/ toC' = ToClient(Ack(j))
    PROVE  SameAnswers(j)
<1>1. Ack(j) \in ServerMessages /\ Ack(j).t = "ack"
  BY MessageFacts
<1>2. Answered(Ack(j))
  BY <1>1, AnswersClient DEF ToClient
<1>. QED
  BY <1>1, <1>2 DEF Answered, SameAnswers

\* The server has taken m: what the goroutines that read its channel have in
\* common.
Taken(m) ==
    /\ Popped(m) /\ m = Head(toS) /\ m.k \in Clients
    /\ m.t = "reset" => m = Reset(m.k)
    /\ IsBatch(m) => m \in AnyBatch /\ m.n # 0
    /\ SameAnswers(m.k) /\ (m.t # "reset" => toC' = toC) /\ (~csig => toC' = toC)
    /\ UNCHANGED <<clientVars, hello, leaving>>
    /\ OneOnItsWay' /\ ResetBetween'
    /\ \A i \in DOMAIN toS' : toS'[i].k <= k
    /\ IsBatch(m) => NoneFrom(m.k)'
    /\ \A c : NoneFrom(c) => NoneFrom(c)'
    /\ NoOlder \/ m = Reset(k) => NoOlder'
    /\ \A i \in DOMAIN toS : toS[i] # m => \E j \in DOMAIN toS' : toS'[j] = toS[i]

LEMMA ServerTakes ==
    ASSUME IInv, FirstRecv \/ FollowRecv \/ WatchRecv \/ \E w \in stale : StaleRecv(w)
    PROVE  \E m \in ClientMessages : Taken(m)
<1>1. PICK m \in ClientMessages : m = Head(toS) /\ Popped(m)
  <2>1. toS \in Seq(ClientMessages) /\ toS # <<>> /\ toS' = Tail(toS)
    BY DEF IInv, Types, NetworkTypes, FirstRecv, FollowRecv, WatchRecv, StaleRecv
  <2>. QED
    BY <2>1, PopsServer, PopFacts
<1>2. /\ m.k \in Clients
      /\ m.t = "reset" => m = Reset(m.k)
      /\ IsBatch(m) => m \in AnyBatch /\ m.n # 0
  BY <1>1, MessageFacts
<1>3. UNCHANGED <<clientVars, hello, leaving>>
  BY DEF FirstRecv, FollowRecv, WatchRecv, StaleRecv
<1>4. toC' = toC \/ (m.t = "reset" /\ toC' = ToClient(Ack(m.k)))
  <2>1. CASE FirstRecv
    BY <1>1, <2>1 DEF FirstRecv
  <2>2. CASE FollowRecv
    BY <1>1, <2>2 DEF FollowRecv, FollowReset
  <2>3. CASE WatchRecv
    BY <1>1, <2>3 DEF WatchRecv, WatchReset
  <2>4. CASE \E w \in stale : StaleRecv(w)
    BY <1>1, <2>4 DEF StaleRecv
  <2>. QED
    BY <2>1, <2>2, <2>3, <2>4
<1>5. SameAnswers(m.k) /\ (~csig => toC' = toC)
  <2>1. toC \in Seq(ServerMessages)
    BY DEF IInv, Types, NetworkTypes
  <2>. QED
    BY <1>2, <1>4, <2>1, AckKeeps DEF ToClient
<1>6. /\ OneOnItsWay' /\ ResetBetween'
      /\ \A i \in DOMAIN toS' : toS'[i].k <= k
      /\ IsBatch(m) => NoneFrom(m.k)'
      /\ \A c : NoneFrom(c) => NoneFrom(c)'
      /\ NoOlder \/ m = Reset(k) => NoOlder'
      /\ \A i \in DOMAIN toS : toS[i] # m => \E j \in DOMAIN toS' : toS'[j] = toS[i]
  BY <1>1, <1>3, PopKeeps DEF IInv, Once, clientVars
<1>. QED
  BY <1>1, <1>2, <1>3, <1>4, <1>5, <1>6 DEF Taken

\* Of the invariant, what does not depend on what becomes of m, provided that
\* the server works for m's client, for the client it worked for, or for none.
LEMMA TakenKeeps ==
    ASSUME IInv, NEW m, Taken(m), snonce' \in {None, snonce, m.k},
           spc' = "alloc" => \/ IsBatch(m) /\ cur' = m
                             \/ spc = "alloc" /\ cur' = cur
    PROVE  /\ ClientTypes' /\ AllocationTypes' /\ Once' /\ Ordered' /\ ClientShare'
           /\ toS' \in Seq(ClientMessages) /\ toC' \in Seq(ServerMessages)
           /\ leaving' \subseteq Clients
           /\ AckComes' => AckComes \/ m = Reset(k)
           /\ m.k <= k
           /\ ~csig' => toC' = <<>>
           /\ (\E i \in DOMAIN toC : Answer(toC[i]))
                => (\E i \in DOMAIN toC : Answer(toC[i]))'
           /\ out' = out /\ IsBatch(out) /\ Left' = Left /\ Left \in Nat
<1>1. UNCHANGED <<k, cpc, csig, tries, acked, pending, gradual, out, pairs, up,
                  hello, leaving>>
  BY DEF Taken, clientVars
<1>2. ClientTypes' /\ AllocationTypes'
  BY <1>1 DEF IInv, Types, ClientTypes, AllocationTypes, PendingTypes
<1>3. Once'
  <2>1. OneAllocated'
    BY DEF IInv, Once, OneAllocated, Taken
  <2>2. OnlyTheLast'
    BY <1>1 DEF IInv, Once, OnlyTheLast, Taken, Popped
  <2>3. AnswerInstead'
    <3>1. \A i \in DOMAIN toC' :
            toC'[i].t = "reply" => i \in DOMAIN toC /\ toC'[i] = toC[i]
      BY DEF Taken, SameAnswers
    <3>2. SUFFICES ASSUME NEW i \in DOMAIN toC, toC[i].t = "reply", toC[i].k = k
                   PROVE  /\ cpc = "recv" /\ toC[i].b = out.b /\ toC[i].n <= out.n
                          /\ NoneFrom(k)'
                          /\ ~(spc' = "alloc" /\ cur'.k = k)
                          /\ \A j \in DOMAIN toC : Answer(toC[j]) => i = j
      BY <1>1, <3>1 DEF AnswerInstead, Answer
    <3>3. /\ cpc = "recv" /\ toC[i].b = out.b /\ toC[i].n <= out.n
          /\ NoneFrom(k) /\ ~(spc = "alloc" /\ cur.k = k)
          /\ \A j \in DOMAIN toC : Answer(toC[j]) => i = j
      BY <3>2 DEF IInv, Once, AnswerInstead, Answer
    <3>4. IsBatch(m) => m.k # k
      BY <3>3 DEF NoneFrom, Taken, Popped
    <3>5. NoneFrom(k)'
      BY <1>1, <3>3 DEF NoneFrom, Taken, Popped
    <3>6. ~(spc' = "alloc" /\ cur'.k = k)
      BY <3>3, <3>4
    <3>. QED
      BY <3>3, <3>5, <3>6
  <2>. QED
    BY <2>1, <2>2, <2>3 DEF Once, Taken
<1>4. Ordered' /\ m.k <= k
  BY <1>1, Bounds DEF IInv, Types, ClientTypes, Ordered, NothingAhead, Taken, Popped, None
<1>5. ClientShare'
  BY <1>1 DEF IInv, ClientShare, Left, Taken, Popped
<1>6. AckComes' => AckComes \/ m = Reset(k)
  <2>1. CASE m.t = "reset"
    BY <1>1, <2>1 DEF AckComes, Taken, SameAnswers, Ack
  <2>2. CASE m.t # "reset"
    BY <1>1, <2>2 DEF AckComes, Taken
  <2>. QED
    BY <2>1, <2>2
<1>7. ~csig' => toC' = <<>>
  BY <1>1 DEF IInv, Stages, Taken
<1>8. (\E i \in DOMAIN toC : Answer(toC[i])) => (\E i \in DOMAIN toC : Answer(toC[i]))'
  BY <1>1 DEF Taken, SameAnswers, Answer
<1>9. IsBatch(out) /\ Left' = Left /\ Left \in Nat
  BY <1>1, LeftNat DEF IInv, Types, AllocationTypes, PendingTypes, AnyBatch, IsBatch, Left
<1>10. leaving' \subseteq Clients /\ toS' \in Seq(ClientMessages) /\ toC' \in Seq(ServerMessages)
  BY <1>1 DEF IInv, Types, NetworkTypes, Taken, SameAnswers, Popped
<1>. QED
  BY <1>1, <1>2, <1>3, <1>4, <1>5, <1>6, <1>7, <1>8, <1>9, <1>10

LEMMA FirstRecvInv ==
    ASSUME IInv, FirstRecv
    PROVE  IInv'
<1>1. PICK m \in ClientMessages : Taken(m)
  BY ServerTakes
<1>2. /\ spc = "first"
      /\ IsBatch(m) => spc' = "alloc" /\ cur' = m /\ snonce' = m.k /\ remote' = m.k
      /\ ~IsBatch(m) => UNCHANGED <<spc, cur, snonce, remote>>
      /\ UNCHANGED <<clientVars, arriving, added, links, watchVars, hello, leaving,
                     historyVars>>
  BY <1>1 DEF FirstRecv, IsBatch, Taken
<1>3. snonce' \in {None, snonce, m.k}
      /\ (spc' = "alloc" => \/ IsBatch(m) /\ cur' = m
                            \/ spc = "alloc" /\ cur' = cur)
  BY <1>2
<1>4. /\ ClientTypes' /\ AllocationTypes' /\ Once' /\ Ordered' /\ ClientShare'
      /\ toS' \in Seq(ClientMessages) /\ toC' \in Seq(ServerMessages)
      /\ leaving' \subseteq Clients
      /\ AckComes' => AckComes \/ m = Reset(k)
      /\ ~csig' => toC' = <<>>
      /\ (\E i \in DOMAIN toC : Answer(toC[i]))
           => (\E i \in DOMAIN toC : Answer(toC[i]))'
      /\ out' = out /\ IsBatch(out) /\ Left' = Left /\ Left \in Nat
  BY <1>1, <1>3, TakenKeeps
<1>. USE DEF clientVars, watchVars, historyVars
<1>5. Types'
  <2>1. snonce' \in 0..MaxSessions /\ remote' \in 0..MaxSessions /\ cur' \in AnyBatch
    BY <1>1, <1>2, Bounds DEF IInv, Types, ServerTypes, Taken
  <2>2. ServerTypes'
    BY <1>2, <2>1 DEF IInv, Types, ServerTypes
  <2>. QED
    BY <1>2, <1>4, <2>2 DEF IInv, Types, NetworkTypes
<1>6. Stages'
  <2>1. CASE IsBatch(m)
    BY <1>1, <1>2, <1>4, <2>1, Bounds DEF IInv, Stages, None, Taken
  <2>2. CASE ~IsBatch(m)
    BY <1>2, <1>4, <2>2 DEF IInv, Stages
  <2>. QED
    BY <2>1, <2>2
<1>7. Freed'
  <2>1. m = Reset(k) => snonce' = None
    BY <1>2 DEF IInv, Stages, Reset, IsBatch
  <2>2. NoOlder => snonce' \in {None, k}
    BY <1>1, <1>2 DEF IInv, Stages, NoOlder, Taken, Popped
  <2>. QED
    BY <1>1, <1>2, <1>4, <2>1, <2>2 DEF IInv, Freed, Taken
<1>8. Reached'
  <2>1. CASE m = Reset(k)
    BY <1>1, <1>2, <2>1 DEF IInv, Reached, Stages, None, Reset, IsBatch, Taken
  <2>2. CASE m # Reset(k)
    BY <1>1, <1>2, <2>2 DEF IInv, Reached, Stages, NoOlder, Taken, Popped
  <2>. QED
    BY <2>1, <2>2
<1>9. Somewhere'
  <2>1. spc # "alloc" /\ (m = out => ~IsBatch(m) \/ (spc' = "alloc" /\ cur' = out))
    BY <1>2
  <2>. QED
    BY <1>1, <1>2, <1>4, <2>1 DEF IInv, Somewhere, Taken
<1>10. LostWithReset'
  BY <1>2 DEF IInv, LostWithReset
<1>11. ServerShare'
  <2>1. CASE IsBatch(m)
    <3>1. m.k = k => cpc \notin {"ask", "ack", "token"} /\ m.n + Left <= NumConns
      BY <1>1, <2>1 DEF IInv, Stages, Once, OnlyTheLast, ClientShare, Taken, Popped
    <3>2. Load' = m.n /\ snonce' = m.k /\ m.n \in 0..NumConns
      BY <1>1, <1>2, <2>1, Bounds DEF IInv, Stages, Load, Taken, AnyBatch
    <3>3. Load' + ToCome' <= NumConns
      BY <1>2, <1>4, <3>1, <3>2, Bounds DEF ToCome
    <3>. QED
      BY <1>1, <1>2, <2>1, <3>1, <3>2, <3>3 DEF ServerShare, NoneFrom, Taken
  <2>2. CASE ~IsBatch(m)
    BY <1>1, <1>2, <2>2 DEF IInv, ServerShare, Load, ToCome, Left, Taken, Popped
  <2>. QED
    BY <2>1, <2>2
<1>. QED
  BY <1>4, <1>5, <1>6, <1>7, <1>8, <1>9, <1>10, <1>11 DEF IInv

\* The server gives a session up.
LEMMA SessionGivenUp ==
    ASSUME IInv, NEW next \in {"join", "first"}, SessionReturns(next),
           UNCHANGED <<clientVars, leaving>>, toS' \in Seq(ClientMessages),
           remote' \in 0..MaxSessions, stale' \subseteq Clients \X {"wait", "drain"},
           ~csig => toC' = <<>>, next = "join" => toS' = <<>>
    PROVE  ServerTypes' /\ Stages' /\ ServerShare'
<1>. USE DEF SessionReturns, clientVars
<1>1. ServerTypes'
  <2>1. NoBatch \in AnyBatch /\ None \in 0..MaxSessions
    BY MessageFacts, Bounds DEF None
  <2>. QED
    BY <2>1 DEF ServerTypes
<1>2. Stages'
  BY DEF IInv, Stages
<1>3. ServerShare'
  <2>1. cpc' \in {"ask", "ack", "token"} => snonce' # k'
    BY DEF IInv, Stages
  <2>2. Left' = Left /\ Left \in Nat
    BY LeftNat DEF IInv, Left
  <2>3. Load' = 0
    BY MessageFacts DEF Load
  <2>4. Left <= NumConns
    BY <2>2, Bounds DEF IInv, ClientShare, Types, ClientTypes, AllocationTypes, PendingTypes, AnyBatch
  <2>5. \A i \in DOMAIN toS' : toS'[i].k # None
    <3>1. \A i \in DOMAIN toS' : toS'[i] \in ClientMessages
      BY ElementOfSeq
    <3>. QED
      BY <3>1, MessageFacts, Bounds DEF None
  <2>. QED
    BY <2>1, <2>2, <2>3, <2>4, <2>5, Bounds DEF ServerShare, ToCome
<1>. QED
  BY <1>1, <1>2, <1>3

LEMMA FollowRecvInv ==
    ASSUME IInv, FollowRecv
    PROVE  IInv'
<1>1. PICK m \in ClientMessages : Taken(m)
  BY ServerTakes
<1>2. /\ spc = "follow" /\ stolen' = stolen
      /\ \/ /\ m.t = "reset" /\ SessionReturns("first")
            /\ UNCHANGED <<remote, stale, lost>>
         \/ /\ IsBatch(m) /\ m.k = snonce
            /\ spc' = "alloc" /\ cur' = m /\ remote' = m.k
            /\ UNCHANGED <<snonce, arriving, added, links, watchVars, lost>>
         \/ /\ m.t # "reset" /\ (IsBatch(m) => m.k # snonce)
            /\ lost' = IF cpc = "recv" /\ m = out THEN "foreign" ELSE lost
            /\ UNCHANGED <<loopVars, watchVars>>
  BY <1>1 DEF FollowRecv, FollowReset, LoseIf, Outstanding, IsBatch, Taken
<1>3. /\ snonce' \in {None, snonce, m.k}
      /\ spc' = "alloc" => \/ IsBatch(m) /\ cur' = m
                           \/ spc = "alloc" /\ cur' = cur
  BY <1>2 DEF SessionReturns, loopVars
<1>4. /\ ClientTypes' /\ AllocationTypes' /\ Once' /\ Ordered' /\ ClientShare'
      /\ toS' \in Seq(ClientMessages) /\ toC' \in Seq(ServerMessages)
      /\ leaving' \subseteq Clients
      /\ AckComes' => AckComes \/ m = Reset(k)
      /\ ~csig' => toC' = <<>>
      /\ (\E i \in DOMAIN toC : Answer(toC[i]))
           => (\E i \in DOMAIN toC : Answer(toC[i]))'
      /\ out' = out /\ IsBatch(out) /\ Left' = Left /\ Left \in Nat
  BY <1>1, <1>3, TakenKeeps
<1>5. UNCHANGED <<clientVars, leaving, hello>>
  BY <1>1 DEF Taken
<1>. USE DEF clientVars, loopVars, watchVars
<1>6. NetworkTypes'
  BY <1>2, <1>4 DEF IInv, Types, NetworkTypes
<1>7. Freed' /\ Reached'
  <2>1. snonce' \in {None, snonce}
    BY <1>2 DEF SessionReturns
  <2>2. m = Reset(k) => snonce' = None
    BY <1>2 DEF SessionReturns, Reset, IsBatch
  <2>3. Freed'
    BY <1>1, <1>2, <1>4, <1>5, <2>1, <2>2 DEF IInv, Freed, Taken
  <2>4. watch' = "drain" \/ snonce' = None \/ (watch' = watch /\ snonce' = snonce)
    BY <1>2 DEF SessionReturns
  <2>. QED
    BY <1>1, <1>2, <1>5, <2>1, <2>2, <2>3, <2>4 DEF IInv, Reached, Taken
<1>8. Somewhere'
  <2>1. spc # "alloc" /\ (cpc = "recv" /\ m = out => lost' # "" \/ (spc' = "alloc" /\ cur' = out))
    BY <1>2, <1>4 DEF IsBatch
  <2>. QED
    BY <1>1, <1>2, <1>4, <1>5, <2>1 DEF IInv, Somewhere, Taken
<1>9. LostWithReset'
  <2>1. CASE IsBatch(m) /\ m.k # snonce /\ cpc = "recv" /\ m = out
    <3>1. m.k = k /\ tries # 0 /\ snonce # None /\ watch = "off"
      BY <1>2, <2>1 DEF IInv, Stages, Types, ServerTypes
    <3>2. ~\E i \in DOMAIN toS : toS[i] = Reset(k)
      BY <1>1, <2>1, <3>1 DEF IInv, Ordered, ResetBetween, Taken, Popped, Reset, IsBatch
    <3>3. stolen
      BY <2>1, <3>1, <3>2 DEF IInv, Reached
    <3>. QED
      BY <1>2, <3>3 DEF LostWithReset
  <2>2. CASE lost' = lost
    BY <1>2, <2>2 DEF IInv, LostWithReset
  <2>. QED
    BY <1>2, <1>4, <2>1, <2>2 DEF IsBatch
<1>10. ServerTypes' /\ Stages' /\ ServerShare'
  <2>1. CASE m.t = "reset" /\ SessionReturns("first") /\ UNCHANGED <<remote, stale>>
    BY <1>4, <1>5, <2>1, SessionGivenUp DEF IInv, Types, ServerTypes
  <2>2. CASE /\ IsBatch(m) /\ m.k = snonce
             /\ spc' = "alloc" /\ cur' = m /\ remote' = m.k
             /\ UNCHANGED <<snonce, arriving, added, links, watchVars>>
    <3>1. ServerTypes'
      <4>1. m.k \in 0..MaxSessions /\ m \in AnyBatch
        BY <1>1, <2>2, Bounds DEF Taken
      <4>. QED
        BY <2>2, <4>1 DEF IInv, Types, ServerTypes
    <3>2. Stages'
      BY <1>2, <1>4, <1>5, <2>2 DEF IInv, Stages
    <3>3. ServerShare'
      <4>1. NoneFrom(snonce)'
        BY <1>1, <2>2 DEF Taken, NoneFrom
      <4>2. cur.n = 0
        BY <1>2, MessageFacts DEF IInv, Stages
      <4>3. Load' = Load + m.n /\ ToCome' = ToCome
        BY <1>4, <1>5, <2>2, <4>2 DEF Load, ToCome, IInv, Types, ServerTypes
      <4>4. Load + m.n + ToCome <= NumConns
        BY <1>1, <2>2 DEF IInv, ServerShare, Taken, Popped
      <4>. QED
        BY <1>5, <2>2, <4>1, <4>3, <4>4 DEF IInv, ServerShare, NoneFrom
    <3>. QED
      BY <3>1, <3>2, <3>3
  <2>3. CASE UNCHANGED <<loopVars, watchVars>>
    BY <1>1, <1>4, <1>5, <2>3
       DEF IInv, Types, ServerTypes, Stages, ServerShare, Load, ToCome, Taken, Popped
  <2>. QED
    BY <1>2, <2>1, <2>2, <2>3
<1>. QED
  BY <1>4, <1>6, <1>7, <1>8, <1>9, <1>10 DEF IInv, Types

LEMMA WatchRecvInv ==
    ASSUME IInv, WatchRecv
    PROVE  IInv'
<1>1. PICK m \in ClientMessages : Taken(m)
  BY ServerTakes
<1>2. /\ spc = "serve" /\ stolen' = stolen /\ watch \in {"wait", "drain"}
      /\ \/ /\ m.t = "reset" /\ SessionReturns("first")
            /\ UNCHANGED <<remote, stale, lost>>
         \/ /\ m.t = "hungup" /\ watch' = "drain" /\ toC' = toC
            /\ UNCHANGED <<loopVars, busy, stale, lost>>
         \/ /\ m.t = "reset" => watch = "drain"
            /\ busy' = TRUE /\ toC' = toC
            /\ lost' = IF cpc = "recv" /\ m = out
                       THEN IF watch = "drain" THEN "drain"
                            ELSE IF m.k = snonce THEN "late" ELSE "session"
                       ELSE lost
            /\ UNCHANGED <<loopVars, watch, stale>>
  <2>1. spc = "serve" /\ watch \in {"wait", "drain"}
    BY DEF IInv, Types, ServerTypes, Stages, WatchRecv
  <2>2. \/ m.t = "reset" /\ WatchReset(m)
        \/ /\ m.t = "hungup" /\ watch' = "drain"
           /\ UNCHANGED <<loopVars, busy, stale, toC, lost>>
        \/ /\ ~(watch = "wait" /\ m.t = "reset") /\ busy' = TRUE
           /\ LoseIf(m, IF watch = "drain" THEN "drain"
                        ELSE IF m.k = snonce THEN "late" ELSE "session")
           /\ UNCHANGED <<loopVars, watch, stale, toC>>
    BY <1>1 DEF WatchRecv, Taken
  <2>3. stolen' = stolen
    BY DEF WatchRecv
  <2>. QED
    BY <2>1, <2>2, <2>3 DEF WatchReset, LoseIf, Outstanding
<1>3. /\ snonce' \in {None, snonce, m.k}
      /\ spc' = "alloc" => \/ IsBatch(m) /\ cur' = m
                           \/ spc = "alloc" /\ cur' = cur
  BY <1>2 DEF SessionReturns, loopVars
<1>4. /\ ClientTypes' /\ AllocationTypes' /\ Once' /\ Ordered' /\ ClientShare'
      /\ toS' \in Seq(ClientMessages) /\ toC' \in Seq(ServerMessages)
      /\ leaving' \subseteq Clients
      /\ AckComes' => AckComes \/ m = Reset(k)
      /\ ~csig' => toC' = <<>>
      /\ (\E i \in DOMAIN toC : Answer(toC[i]))
           => (\E i \in DOMAIN toC : Answer(toC[i]))'
      /\ out' = out /\ IsBatch(out) /\ Left' = Left /\ Left \in Nat
  BY <1>1, <1>3, TakenKeeps
<1>5. UNCHANGED <<clientVars, leaving, hello>>
  BY <1>1 DEF Taken
<1>. USE DEF clientVars, loopVars, watchVars
<1>6. NetworkTypes'
  BY <1>2, <1>4 DEF IInv, Types, NetworkTypes
<1>7. Freed'
  <2>1. CASE SessionReturns("first")
    BY <1>1, <1>2, <1>4, <1>5, <2>1 DEF IInv, Freed, Taken, SessionReturns
  <2>2. CASE toC' = toC /\ snonce' = snonce
    BY <1>1, <1>2, <1>5, <2>2 DEF IInv, Freed, AckComes, Taken
  <2>. QED
    BY <1>2, <2>1, <2>2
<1>8. Reached'
  <2>1. m = Reset(k) => snonce' = None \/ watch' = "drain"
    BY <1>2 DEF SessionReturns, Reset
  <2>2. snonce' = None \/ (snonce' = snonce /\ (watch = "drain" => watch' = "drain"))
    BY <1>2 DEF SessionReturns
  <2>. QED
    BY <1>1, <1>2, <1>5, <2>1, <2>2 DEF IInv, Reached, Taken
<1>9. Somewhere'
  <2>1. spc # "alloc" /\ (cpc = "recv" /\ m = out => lost' # "")
    BY <1>2, <1>4 DEF IsBatch
  <2>. QED
    BY <1>1, <1>2, <1>4, <1>5, <2>1 DEF IInv, Somewhere, Taken
<1>10. LostWithReset'
  <2>1. CASE cpc = "recv" /\ m = out /\ watch # "drain" /\ m.k # snonce
    <3>1. m.k = k /\ tries # 0 /\ snonce # None
      BY <1>2, <2>1 DEF IInv, Stages
    <3>2. ~\E i \in DOMAIN toS : toS[i] = Reset(k)
      BY <1>1, <1>4, <2>1, <3>1 DEF IInv, Ordered, ResetBetween, Taken, Popped, Reset, IsBatch
    <3>3. stolen
      BY <2>1, <3>1, <3>2 DEF IInv, Reached
    <3>. QED
      BY <1>2, <3>3 DEF LostWithReset
  <2>2. CASE lost' \notin {"foreign", "session"} \/ lost' = lost
    BY <1>2, <2>2 DEF IInv, LostWithReset
  <2>. QED
    BY <1>2, <2>1, <2>2
<1>11. ServerTypes' /\ Stages' /\ ServerShare'
  <2>1. CASE SessionReturns("first") /\ UNCHANGED <<remote, stale>>
    BY <1>4, <1>5, <2>1, SessionGivenUp DEF IInv, Types, ServerTypes
  <2>2. CASE watch' \in {"wait", "drain"} /\ busy' \in BOOLEAN /\ UNCHANGED <<loopVars, stale>>
    BY <1>1, <1>2, <1>4, <1>5, <2>2
       DEF IInv, Types, ServerTypes, Stages, ServerShare, Load, ToCome, Taken, Popped
  <2>. QED
    BY <1>2, <2>1, <2>2 DEF IInv, Types, ServerTypes
<1>. QED
  BY <1>4, <1>6, <1>7, <1>8, <1>9, <1>10, <1>11 DEF IInv, Types

LEMMA StaleRecvInv ==
    ASSUME IInv, NEW w \in stale, StaleRecv(w)
    PROVE  IInv'
<1>1. PICK m \in ClientMessages : Taken(m)
  BY ServerTakes
<1>2. /\ UNCHANGED <<loopVars, watch, busy>>
      /\ stale' = stale \ {w} \/ stale' = (stale \ {w}) \cup {<<w[1], "drain">>}
           \/ stale' = stale
      /\ lost' = IF cpc = "recv" /\ m = out THEN "stale" ELSE lost
      /\ stolen' = (stolen \/ m.k = k)
  BY <1>1 DEF StaleRecv, LoseIf, Outstanding, Taken
<1>3. /\ snonce' \in {None, snonce, m.k}
      /\ spc' = "alloc" => \/ IsBatch(m) /\ cur' = m
                           \/ spc = "alloc" /\ cur' = cur
  BY <1>2 DEF loopVars
<1>4. /\ ClientTypes' /\ AllocationTypes' /\ Once' /\ Ordered' /\ ClientShare'
      /\ toS' \in Seq(ClientMessages) /\ toC' \in Seq(ServerMessages)
      /\ leaving' \subseteq Clients
      /\ AckComes' => AckComes \/ m = Reset(k)
      /\ ~csig' => toC' = <<>>
      /\ (\E i \in DOMAIN toC : Answer(toC[i]))
           => (\E i \in DOMAIN toC : Answer(toC[i]))'
      /\ out' = out /\ IsBatch(out) /\ Left' = Left /\ Left \in Nat
  BY <1>1, <1>3, TakenKeeps
<1>5. UNCHANGED <<clientVars, leaving, hello>>
  BY <1>1 DEF Taken
<1>. USE DEF clientVars, loopVars, watchVars
<1>6. Types'
  <2>1. stale' \subseteq Clients \X {"wait", "drain"}
    BY <1>2 DEF IInv, Types, ServerTypes
  <2>2. stolen' \in BOOLEAN
    BY <1>2, Zenon
  <2>3. ServerTypes'
    BY <1>2, <2>1 DEF IInv, Types, ServerTypes
  <2>. QED
    BY <1>2, <1>4, <2>2, <2>3 DEF IInv, Types, NetworkTypes
<1>7. (stolen => stolen') /\ (m = Reset(k) => stolen')
  <2>1. (stolen => stolen') /\ (m.k = k => stolen')
    BY <1>2, Zenon
  <2>2. m = Reset(k) => m.k = k
    BY DEF Reset
  <2>. QED
    BY <2>1, <2>2
<1>8. Stages'
  BY <1>1, <1>2, <1>4, <1>5 DEF IInv, Stages, Taken, Popped
<1>9. Freed' /\ Reached'
  <2>1. /\ NoOlder \/ m = Reset(k) => NoOlder'
        /\ \A i \in DOMAIN toS : toS[i] # m => \E j \in DOMAIN toS' : toS'[j] = toS[i]
    BY <1>1 DEF Taken
  <2>2. snonce' = snonce /\ watch' = watch /\ k' = k /\ acked' = acked /\ tries' = tries
    BY <1>2, <1>5
  <2>3. Freed'
    BY <1>4, <1>7, <2>1, <2>2 DEF IInv, Freed
  <2>4. Reached'
    BY <1>7, <2>1, <2>2 DEF IInv, Reached
  <2>. QED
    BY <2>3, <2>4
<1>10. Somewhere' /\ LostWithReset'
  BY <1>1, <1>2, <1>4, <1>5 DEF IInv, Somewhere, LostWithReset, Taken
<1>11. ServerShare'
  BY <1>1, <1>2, <1>4, <1>5 DEF IInv, ServerShare, Load, ToCome, Taken, Popped
<1>. QED
  BY <1>4, <1>6, <1>8, <1>9, <1>10, <1>11 DEF IInv

\* The current client, or VK in its name, sends m, no batch.
Sent(m) ==
    /\ OneOnItsWay' /\ ResetBetween'
    /\ toS' \in Seq(ClientMessages)
    /\ \A i \in DOMAIN toS' : toS'[i].k <= k
    /\ \A i \in DOMAIN toS' : IsBatch(toS'[i]) => i \in DOMAIN toS /\ toS'[i] = toS[i]
    /\ \A c : NoneFrom(c) => NoneFrom(c)'
    /\ NoOlder => NoOlder'
    /\ \A i \in DOMAIN toS : \E j \in DOMAIN toS' : toS'[j] = toS[i]
    /\ toS' = toS \/ \E i \in DOMAIN toS' : toS'[i] = m
    /\ spc = "join" => toS' = <<>>

LEMMA SendKeeps ==
    ASSUME IInv, NEW m \in ClientMessages, ~IsBatch(m), m.k <= k,
           m = Reset(k) => NoneFrom(k), k' = k,
           toS' = toS \/ (spc # "join" /\ toS' = Append(toS, m))
    PROVE  Sent(m)
<1>1. Pushed(m)
  BY PushesServer DEF IInv, Types, NetworkTypes
<1>2. spc = "join" => toS' = <<>>
  BY DEF IInv, Stages
<1>3. \A i \in DOMAIN toS' : IsBatch(toS'[i]) => i \in DOMAIN toS /\ toS'[i] = toS[i]
  BY <1>1 DEF Pushed
<1>. QED
  BY <1>1, <1>2, <1>3, PushKeeps DEF IInv, Once, Sent, Pushed

LEMMA SendDisconnectReqInv ==
    ASSUME IInv, SendDisconnectReq
    PROVE  IInv'
<1>1. /\ cpc = "ask" /\ cpc' = "ack" /\ tries' = tries + 1
      /\ UNCHANGED <<k, csig, acked, pending, gradual, out, pairs, up, loopVars,
                     watchVars, toC, hello, leaving, historyVars>>
  BY DEF SendDisconnectReq
<1>2. csig /\ k \in Clients /\ tries < DisconnectRetries
  BY <1>1, Bounds DEF IInv, Stages, Types, ClientTypes, None
<1>3. IF spc = "join" THEN toS' = toS ELSE toS' = Append(toS, Reset(k))
  BY <1>2 DEF SendDisconnectReq, ToServer
<1>4. NoneFrom(k)
  BY <1>1, <1>2 DEF IInv, Once, OnlyTheLast, NoneFrom
<1>5. PICK m \in ClientMessages : m = Reset(k) /\ m.k = k /\ ~IsBatch(m)
  BY <1>2, MessageFacts DEF IsBatch
<1>6. Sent(m)
  BY <1>1, <1>2, <1>3, <1>4, <1>5, SendKeeps, Bounds
<1>7. spc # "join" => \E i \in DOMAIN toS' : toS'[i] = Reset(k)
  <2>1. toS \in Seq(ClientMessages)
    BY DEF IInv, Types, NetworkTypes
  <2>. QED
    BY <1>3, <1>5, <2>1, PushFacts
<1>. USE DEF loopVars, watchVars, historyVars
<1>8. Types'
  <2>1. ClientTypes'
    BY <1>1, <1>2, Bounds DEF IInv, Types, ClientTypes
  <2>2. AllocationTypes' /\ ServerTypes' /\ NetworkTypes'
    BY <1>1, <1>6 DEF IInv, Types, AllocationTypes, PendingTypes, ServerTypes, NetworkTypes, Sent
  <2>. QED
    BY <2>1, <2>2 DEF Types
<1>9. Stages'
  BY <1>1, <1>2, <1>6, Bounds DEF IInv, Stages, Types, ClientTypes, Sent
<1>10. Once'
  <2>1. OneAllocated'
    BY <1>1, <1>6 DEF IInv, Once, OneAllocated, Sent, NoneFrom
  <2>2. OnlyTheLast'
    BY <1>1, <1>6 DEF IInv, Once, OnlyTheLast, Sent
  <2>3. AnswerInstead'
    BY <1>1 DEF IInv, Once, AnswerInstead, Answer
  <2>. QED
    BY <1>6, <2>1, <2>2, <2>3 DEF Once, Sent
<1>11. Ordered'
  BY <1>1, <1>6 DEF IInv, Ordered, NothingAhead, Sent
<1>12. Freed'
  BY <1>1, <1>6 DEF IInv, Freed, AckComes, Sent
<1>13. Reached'
  <2>1. spc = "join" => NoOlder' /\ snonce' = None
    BY <1>1, <1>6 DEF IInv, Stages, NoOlder, Sent
  <2>. QED
    BY <1>1, <1>7, <2>1 DEF Reached
<1>14. Somewhere' /\ LostWithReset'
  BY <1>1 DEF IInv, Somewhere, LostWithReset
<1>15. ClientShare' /\ ServerShare'
  BY <1>1, <1>6 DEF IInv, ClientShare, ServerShare, Left, Load, ToCome, Sent
<1>. QED
  BY <1>8, <1>9, <1>10, <1>11, <1>12, <1>13, <1>14, <1>15 DEF IInv

LEMMA AnnounceHungupInv ==
    ASSUME IInv, NEW j \in leaving, AnnounceHungup(j)
    PROVE  IInv'
<1>1. /\ leaving' = leaving \ {j}
      /\ UNCHANGED <<clientVars, loopVars, watchVars, toC, hello, historyVars>>
  BY DEF AnnounceHungup
<1>2. j \in Clients /\ j <= k
  BY DEF IInv, Types, NetworkTypes, Ordered, NothingAhead
<1>3. PICK m \in ClientMessages : m = Hungup(j) /\ m.k = j /\ ~IsBatch(m) /\ m # Reset(k)
  <2>1. Hungup(j).t # Reset(k).t
    BY DEF Hungup, Reset
  <2>. QED
    BY <1>2, <2>1, MessageFacts DEF IsBatch
<1>4. Sent(m)
  <2>1. toS' = toS \/ (spc # "join" /\ toS' = Append(toS, m))
    BY <1>3 DEF AnnounceHungup
  <2>. QED
    BY <1>1, <1>2, <1>3, <2>1, SendKeeps DEF clientVars
<1>. USE DEF clientVars, loopVars, watchVars, historyVars
<1>5. Types'
  <2>1. ClientTypes' /\ AllocationTypes'
    BY <1>1 DEF IInv, Types, ClientTypes, AllocationTypes, PendingTypes
  <2>2. ServerTypes'
    BY <1>1 DEF IInv, Types, ServerTypes
  <2>3. NetworkTypes'
    BY <1>1, <1>4 DEF IInv, Types, NetworkTypes, Sent
  <2>. QED
    BY <2>1, <2>2, <2>3 DEF Types
<1>6. Stages'
  BY <1>1, <1>4 DEF IInv, Stages, Sent
<1>7. Once'
  <2>1. OneAllocated'
    BY <1>1, <1>4 DEF IInv, Once, OneAllocated, Sent, NoneFrom
  <2>2. OnlyTheLast'
    BY <1>1, <1>4 DEF IInv, Once, OnlyTheLast, Sent
  <2>3. AnswerInstead'
    BY <1>1, <1>4 DEF IInv, Once, AnswerInstead, Answer, Sent, NoneFrom
  <2>. QED
    BY <1>4, <2>1, <2>2, <2>3 DEF Once, Sent
<1>8. Ordered'
  BY <1>1, <1>4 DEF IInv, Ordered, NothingAhead, Sent
<1>9. Freed' /\ Reached'
  <2>1. Freed'
    BY <1>1, <1>4 DEF IInv, Freed, AckComes, Sent
  <2>2. Reached'
    BY <1>1, <1>4 DEF IInv, Reached, Sent
  <2>. QED
    BY <2>1, <2>2
<1>10. Somewhere' /\ LostWithReset'
  BY <1>1, <1>4 DEF IInv, Somewhere, LostWithReset, Answer, Sent
<1>11. ClientShare' /\ ServerShare'
  BY <1>1, <1>4 DEF IInv, ClientShare, ServerShare, Left, Load, ToCome, Sent
<1>. QED
  BY <1>5, <1>6, <1>7, <1>8, <1>9, <1>10, <1>11 DEF IInv

LEMMA WaitDisconnectAckInv ==
    ASSUME IInv, WaitDisconnectAck
    PROVE  IInv'
<1>1. /\ cpc = "ack" /\ cpc' \in {"ack", "token"} /\ acked' = (toC[1] = Ack(k))
      /\ 1 \in DOMAIN toC /\ toC' \in Seq(ServerMessages)
      /\ \A i \in DOMAIN toC' : i + 1 \in DOMAIN toC /\ toC'[i] = toC[i + 1]
      /\ UNCHANGED <<k, csig, tries, pending, gradual, out, pairs, up, loopVars,
                     watchVars, toS, hello, leaving, historyVars>>
  BY PopsClient DEF WaitDisconnectAck, IInv, Types, NetworkTypes
<1>2. csig
  BY <1>1 DEF IInv, Stages
<1>3. AckComes' \/ acked' => AckComes
  BY <1>1 DEF AckComes
<1>. USE DEF loopVars, watchVars, historyVars
<1>4. Types'
  <2>1. acked' \in BOOLEAN
    BY <1>1, Zenon
  <2>2. ClientTypes' /\ AllocationTypes'
    BY <1>1, <2>1 DEF IInv, Types, ClientTypes, AllocationTypes, PendingTypes
  <2>3. ServerTypes'
    BY <1>1 DEF IInv, Types, ServerTypes
  <2>4. NetworkTypes'
    BY <1>1 DEF IInv, Types, NetworkTypes
  <2>. QED
    BY <2>2, <2>3, <2>4 DEF Types
<1>5. Stages'
  BY <1>1, <1>2 DEF IInv, Stages
<1>6. Once'
  BY <1>1 DEF IInv, Once, OneOnItsWay, OneAllocated, OnlyTheLast, AnswerInstead, Answer,
     NoneFrom
<1>7. Ordered' /\ Reached' /\ LostWithReset'
  BY <1>1 DEF IInv, Ordered, NothingAhead, ResetBetween, Reached, NoOlder, LostWithReset
<1>8. Freed'
  BY <1>1, <1>3 DEF IInv, Freed, NoOlder
<1>9. Somewhere' /\ ClientShare' /\ ServerShare'
  BY <1>1 DEF IInv, Somewhere, ClientShare, ServerShare, Left, Load, ToCome
<1>. QED
  BY <1>4, <1>5, <1>6, <1>7, <1>8, <1>9 DEF IInv

LEMMA RecvRelayBatchInv ==
    ASSUME IInv, RecvRelayBatch
    PROVE  IInv'
<1>1. PICK m \in ServerMessages : m = Head(toC) /\ m = toC[1]
  BY PopsClient DEF RecvRelayBatch, IInv, Types, NetworkTypes
<1>2. /\ 1 \in DOMAIN toC /\ toC' \in Seq(ServerMessages)
      /\ \A i \in DOMAIN toC' : i \in Nat \ {0} /\ i + 1 \in DOMAIN toC
                                /\ toC'[i] = toC[i + 1]
      /\ \A i \in DOMAIN toC : i \in Nat \ {0} /\
           (i # 1 => i - 1 \in DOMAIN toC' /\ toC'[i - 1] = toC[i])
  BY PopsClient DEF RecvRelayBatch, IInv, Types, NetworkTypes
<1>3. /\ cpc = "recv" /\ csig
      /\ UNCHANGED <<k, csig, tries, acked, pending, gradual, out, up, loopVars,
                     watchVars, hello, leaving, historyVars>>
      /\ Answer(m) => /\ cpc' = "dial" /\ pairs' = Min({out.n, m.n})
                      /\ toS' = ToServer(Punch(k))
      /\ ~Answer(m) => UNCHANGED <<cpc, pairs, toS>>
  BY <1>1 DEF RecvRelayBatch, Accepts, Answer
<1>4. k \in Clients /\ tries # 0 /\ out.n \in Nat /\ pairs \in Nat /\ Left \in Nat
  BY <1>3, Bounds, LeftNat
     DEF IInv, Stages, Types, ClientTypes, AllocationTypes, PendingTypes, AnyBatch, None
<1>5. PICK p \in ClientMessages : p = Punch(k) /\ p.k = k /\ ~IsBatch(p) /\ p # Reset(k)
  <2>1. Punch(k).t # Reset(k).t
    BY DEF Punch, Reset
  <2>. QED
    BY <1>4, <2>1, MessageFacts DEF IsBatch
<1>6. Sent(p)
  <2>1. toS' = toS \/ (spc # "join" /\ toS' = Append(toS, p))
    BY <1>3, <1>5 DEF ToServer
  <2>. QED
    BY <1>3, <1>4, <1>5, <2>1, SendKeeps, Bounds
<1>7. Answer(m) =>
        /\ m.n <= out.n /\ NoneFrom(k) /\ ~(spc = "alloc" /\ cur.k = k)
        /\ \A j \in DOMAIN toC : Answer(toC[j]) => j = 1
  BY <1>1, <1>2 DEF IInv, Once, AnswerInstead
<1>8. Answer(m) => pairs' \in Nat /\ pairs' <= out.n
  <2>1. Answer(m) => m.n \in Nat
    BY <1>1, Bounds DEF Answer, ServerMessages
  <2>2. CASE Answer(m)
    <3>1. out.n \in Int /\ m.n \in Int
      BY <1>4, <2>1, <2>2
    <3>2. pairs' \in {out.n, m.n} /\ pairs' <= out.n
      BY <1>3, <2>2, <3>1, MinFacts
    <3>. QED
      BY <1>4, <2>1, <2>2, <3>2
  <2>. QED
    BY <2>2
<1>. USE DEF loopVars, watchVars, historyVars
<1>9. Types'
  <2>1. ClientTypes' /\ AllocationTypes'
    BY <1>3, <1>8 DEF IInv, Types, ClientTypes, AllocationTypes, PendingTypes
  <2>2. ServerTypes'
    BY <1>3 DEF IInv, Types, ServerTypes
  <2>3. NetworkTypes'
    BY <1>2, <1>3, <1>6 DEF IInv, Types, NetworkTypes, Sent
  <2>. QED
    BY <2>1, <2>2, <2>3 DEF Types
<1>10. Stages'
  BY <1>3, <1>6 DEF IInv, Stages, Sent
<1>11. Once'
  <2>1. OneAllocated'
    BY <1>3, <1>6 DEF IInv, Once, OneAllocated, Sent, NoneFrom
  <2>2. OnlyTheLast'
    BY <1>3, <1>6, <1>7 DEF IInv, Once, OnlyTheLast, Sent, NoneFrom
  <2>3. CASE Answer(m)
    <3>1. \A i \in DOMAIN toC' : ~Answer(toC'[i])
      BY <1>2, <1>7, <2>3
    <3>. QED
      BY <1>3, <1>6, <2>1, <2>2, <3>1 DEF Once, AnswerInstead, Answer, Sent
  <2>4. CASE ~Answer(m)
    <3>1. AnswerInstead'
      BY <1>2, <1>3, <2>4 DEF IInv, Once, AnswerInstead, Answer, NoneFrom
    <3>. QED
      BY <1>6, <2>1, <2>2, <3>1 DEF Once, Sent
  <2>. QED
    BY <2>3, <2>4
<1>12. Ordered'
  BY <1>3, <1>6 DEF IInv, Ordered, NothingAhead, Sent
<1>13. Freed'
  BY <1>2, <1>3, <1>6 DEF IInv, Freed, AckComes, Sent
<1>14. Reached'
  BY <1>3, <1>6 DEF IInv, Reached, Sent
<1>15. Somewhere' /\ LostWithReset'
  <2>1. CASE Answer(m)
    BY <1>3, <2>1 DEF IInv, Somewhere, LostWithReset
  <2>2. CASE ~Answer(m)
    <3>1. (\E i \in DOMAIN toC : Answer(toC[i])) => (\E i \in DOMAIN toC : Answer(toC[i]))'
      BY <1>1, <1>2, <1>3, <2>2 DEF Answer
    <3>. QED
      BY <1>3, <2>2, <3>1 DEF IInv, Somewhere, LostWithReset
  <2>. QED
    BY <2>1, <2>2
<1>16. ClientShare'
  <2>1. Left' = Left
    BY <1>3 DEF Left
  <2>2. up' + pairs' + Left' + (IF cpc' = "recv" THEN out'.n ELSE 0) <= NumConns
    <3>1. up \in Nat /\ up + pairs + Left + out.n <= NumConns
      BY <1>3 DEF IInv, ClientShare, Types, ClientTypes
    <3>. QED
      BY <1>3, <1>4, <1>8, <2>1, <3>1, Bounds
  <2>. QED
    BY <1>3, <1>6, <2>1, <2>2 DEF IInv, ClientShare, Sent
<1>17. ServerShare'
  BY <1>3, <1>6 DEF IInv, ServerShare, Left, Load, ToCome, Sent
<1>. QED
  BY <1>9, <1>10, <1>11, <1>12, <1>13, <1>14, <1>15, <1>16, <1>17 DEF IInv

\* The client has n allocations for a batch, which it could still ask for.
Spent(n) ==
    /\ cpc \in {"token", "gradual"}
    /\ PendingTypes' /\ Left' \in Nat
    /\ up + pairs + n + Left' <= NumConns
    /\ snonce = k => n + Left' <= Left
    /\ UNCHANGED <<k, csig, tries, acked, pairs, up, loopVars, watchVars, toC, hello,
                   leaving, stolen>>

LEMMA SendRelayBatchInv ==
    ASSUME IInv, NEW n \in 1..NumConns, NEW f \in BOOLEAN, NEW tok \in BOOLEAN,
           SendRelayBatch(n, f, tok), Spent(n)
    PROVE  IInv'
<1>1. /\ cpc \in {"token", "gradual"}
      /\ UNCHANGED <<k, csig, tries, acked, pairs, up, loopVars, watchVars, toC, hello,
                     leaving, stolen>>
  BY DEF Spent
<1>2. csig /\ k \in Clients /\ k \in Nat /\ tries # 0
  BY <1>1, Bounds DEF IInv, Stages, Types, ClientTypes, None
<1>3. NoneFrom(k) /\ ~(spc = "alloc" /\ cur.k = k) /\ \A i \in DOMAIN toC : ~Answer(toC[i])
  BY <1>1, <1>2 DEF IInv, Once, OnlyTheLast, AnswerInstead, NoneFrom
<1>4. PICK m : m = Batch(k, out.b + 1, n, f, tok)
  OBVIOUS
<1>5. out' = m /\ m \in ClientMessages /\ m \in AnyBatch /\ IsBatch(m) /\ m.k = k /\ m.n = n
  <2>1. out.b + 1 \in Nat
    BY DEF IInv, Types, AllocationTypes, AnyBatch
  <2>2. n \in 0..NumConns /\ k \in 0..MaxSessions
    BY <1>2, Bounds
  <2>3. out' = m
    BY <1>4 DEF SendRelayBatch
  <2>4. m.k = k /\ m.n = n /\ IsBatch(m)
    BY <1>4 DEF Batch, IsBatch
  <2>5. m \in ClientMessages
    BY <1>2, <1>4, <2>1 DEF Batch, ClientMessages
  <2>6. m \in AnyBatch
    BY <1>4, <2>1, <2>2 DEF Batch, AnyBatch
  <2>. QED
    BY <2>3, <2>4, <2>5, <2>6
<1>6. cpc' = "recv" /\ lost' = IF spc = "join" THEN "rejoin" ELSE ""
  BY DEF SendRelayBatch
<1>7. IF spc = "join" THEN toS' = toS ELSE toS' = Append(toS, m)
  BY <1>2, <1>4 DEF SendRelayBatch, ToServer
<1>8. toS \in Seq(ClientMessages)
  BY DEF IInv, Types, NetworkTypes
<1>9. Pushed(m)
  BY <1>5, <1>7, <1>8, PushesServer
<1>10. spc # "join" => \E i \in DOMAIN toS' : toS'[i] = m
  BY <1>5, <1>7, <1>8, PushFacts
<1>11. /\ OneOnItsWay' /\ ResetBetween'
       /\ \A i \in DOMAIN toS' : toS'[i].k <= k
       /\ \A c : c # k /\ NoneFrom(c) => NoneFrom(c)'
       /\ NoOlder => NoOlder'
       /\ \A i \in DOMAIN toS' : IsBatch(toS'[i]) /\ toS'[i].k = k => toS'[i] = m
       /\ \A i \in DOMAIN toS : \E j \in DOMAIN toS' : toS'[j] = toS[i]
  BY <1>1, <1>2, <1>3, <1>5, <1>9, BatchKeeps DEF IInv, Once
<1>. USE DEF loopVars, watchVars
<1>12. Types'
  <2>1. ClientTypes'
    BY <1>1, <1>6 DEF IInv, Types, ClientTypes
  <2>2. AllocationTypes'
    BY <1>5 DEF AllocationTypes, Spent
  <2>3. ServerTypes'
    BY <1>1 DEF IInv, Types, ServerTypes
  <2>4. NetworkTypes'
    BY <1>1, <1>6, <1>9 DEF IInv, Types, NetworkTypes, Pushed
  <2>. QED
    BY <2>1, <2>2, <2>3, <2>4 DEF Types
<1>13. Stages'
  <2>1. spc = "join" => toS' = <<>>
    BY <1>7 DEF IInv, Stages
  <2>2. out'.k = k /\ out'.n # 0
    BY <1>5
  <2>. QED
    BY <1>1, <1>2, <1>6, <2>1, <2>2 DEF IInv, Stages
<1>14. Once'
  <2>1. OneAllocated'
    <3>1. spc = "alloc" => NoneFrom(cur.k) /\ cur.k # k
      BY <1>3 DEF IInv, Once, OneAllocated
    <3>. QED
      BY <1>1, <1>5, <1>9, <3>1 DEF OneAllocated, NoneFrom, Pushed
  <2>2. OnlyTheLast'
    BY <1>1, <1>3, <1>5, <1>6, <1>11 DEF OnlyTheLast
  <2>3. AnswerInstead'
    BY <1>1, <1>3 DEF AnswerInstead, Answer
  <2>. QED
    BY <1>11, <2>1, <2>2, <2>3 DEF Once
<1>15. Ordered'
  BY <1>1, <1>11 DEF IInv, Ordered, NothingAhead
<1>16. Freed' /\ Reached'
  <2>1. Freed'
    BY <1>1, <1>11 DEF IInv, Freed, AckComes
  <2>2. Reached'
    BY <1>1, <1>11 DEF IInv, Reached
  <2>. QED
    BY <2>1, <2>2
<1>17. Somewhere' /\ LostWithReset'
  BY <1>1, <1>5, <1>6, <1>10 DEF Somewhere, LostWithReset
<1>18. n \in Nat /\ up \in Nat /\ pairs \in Nat /\ NumConns \in Nat
  BY Bounds DEF IInv, Types, ClientTypes
<1>19. PICK left : left = Left'
  OBVIOUS
<1>20. /\ left \in Nat /\ up + pairs + n + left <= NumConns
       /\ snonce = k => n + left <= Left
  BY <1>19, Zenon DEF Spent
<1>21. left \in Nat /\ n + left <= NumConns /\ up + pairs + left + n <= NumConns
  BY <1>18, <1>20
<1>22. ClientShare'
  <2>1. up' + pairs' + Left' + (IF cpc' = "recv" THEN out'.n ELSE 0) <= NumConns
    BY <1>1, <1>5, <1>6, <1>19, <1>21
  <2>2. \A i \in DOMAIN toS' :
          IsBatch(toS'[i]) /\ toS'[i].k = k' => toS'[i].n + Left' <= NumConns
    BY <1>1, <1>5, <1>11, <1>19, <1>21
  <2>. QED
    BY <1>1, <2>1, <2>2 DEF IInv, ClientShare
<1>23. ServerShare'
  <2>1. Load' = Load /\ Load \in Nat
    <3>1. cur.n \in Nat
      BY Bounds DEF IInv, Types, ServerTypes, AnyBatch
    <3>. QED
      BY <1>1, <3>1 DEF Load, IInv, Types, ServerTypes
  <2>2. Load + ToCome <= NumConns /\ Left \in Nat
    BY LeftNat DEF IInv, ServerShare
  <2>3. CASE snonce = k
    <3>1. Load + n + left <= NumConns
      BY <1>18, <1>20, <1>21, <2>1, <2>2, <2>3 DEF ToCome
    <3>2. Load + left <= NumConns
      BY <1>18, <1>21, <2>1, <3>1
    <3>3. ToCome' = left /\ snonce' = k
      BY <1>1, <1>19, <2>3 DEF ToCome
    <3>. QED
      BY <1>5, <1>6, <1>11, <2>1, <3>1, <3>2, <3>3 DEF ServerShare
  <2>4. CASE snonce # k
    <3>1. \A i \in DOMAIN toS' :
            IsBatch(toS'[i]) /\ toS'[i].k # k => i \in DOMAIN toS /\ toS'[i] = toS[i]
      BY <1>5, <1>9 DEF Pushed
    <3>. QED
      BY <1>1, <1>6, <2>1, <2>4, <3>1 DEF IInv, ServerShare, ToCome
  <2>. QED
    BY <2>3, <2>4
<1>. QED
  BY <1>12, <1>13, <1>14, <1>15, <1>16, <1>17, <1>22, <1>23 DEF IInv

LEMMA BatchSizes ==
    ASSUME Types
    PROVE  \A i \in DOMAIN toS : IsBatch(toS[i]) => toS[i].n \in Nat
<1>1. toS \in Seq(ClientMessages)
  BY DEF Types, NetworkTypes
<1>2. \A i \in DOMAIN toS : toS[i] \in ClientMessages
  BY <1>1, ElementOfSeq
<1>. QED
  BY <1>2, MessageFacts, Bounds DEF AnyBatch

LEMMA AllocateGradualInv ==
    ASSUME IInv, AllocateGradual
    PROVE  IInv'
<1>1. /\ cpc \in {"gradual", "recv", "dial"}
      /\ UNCHANGED <<k, cpc, csig, tries, acked, out, pairs, up, loopVars, watchVars,
                     toS, toC, hello, leaving, historyVars>>
  BY DEF AllocateGradual
<1>2. PICK left, new : left = Left /\ new = Left'
  OBVIOUS
<1>3. up \in Nat /\ pairs \in Nat /\ out.n \in Nat /\ NumConns \in Nat
  BY Bounds DEF IInv, Types, ClientTypes, AllocationTypes, AnyBatch
<1>4. left \in Nat /\ up + pairs + left + (IF cpc = "recv" THEN out.n ELSE 0) <= NumConns
  BY <1>2, LeftNat DEF IInv, ClientShare
<1>5. left <= NumConns
  BY <1>3, <1>4
<1>6. PendingTypes' /\ new \in Nat /\ new <= left
  <2>1. Left <= NumConns
    BY <1>2, <1>5
  <2>2. /\ pending' \in Seq(0..MaxNonRLRetries)
        /\ gradual' \in Seq([n : 0..NumConns, final : BOOLEAN]) /\ Len(gradual') = 1
        /\ Left' \in Nat /\ Left' <= Left
    BY <2>1, GradualFacts DEF IInv
  <2>3. PendingTypes'
    BY <2>2 DEF PendingTypes
  <2>. QED
    BY <1>2, <2>2, <2>3
<1>. USE DEF loopVars, watchVars, historyVars
<1>7. Types'
  <2>1. ClientTypes' /\ AllocationTypes'
    BY <1>1, <1>6 DEF IInv, Types, ClientTypes, AllocationTypes
  <2>2. ServerTypes'
    BY <1>1 DEF IInv, Types, ServerTypes
  <2>3. NetworkTypes'
    BY <1>1 DEF IInv, Types, NetworkTypes
  <2>. QED
    BY <2>1, <2>2, <2>3 DEF Types
<1>8. Stages'
  BY <1>1 DEF IInv, Stages
<1>9. Once'
  BY <1>1 DEF IInv, Once, OneOnItsWay, OneAllocated, OnlyTheLast, AnswerInstead, Answer,
     NoneFrom
<1>10. Ordered'
  BY <1>1 DEF IInv, Ordered, NothingAhead, ResetBetween
<1>11. Freed' /\ Reached'
  BY <1>1 DEF IInv, Freed, Reached, AckComes, NoOlder
<1>12. Somewhere' /\ LostWithReset'
  BY <1>1 DEF IInv, Somewhere, LostWithReset, Answer
<1>13. ClientShare'
  <2>1. up + pairs + new + (IF cpc = "recv" THEN out.n ELSE 0) <= NumConns
    BY <1>3, <1>4, <1>6
  <2>2. \A i \in DOMAIN toS : IsBatch(toS[i]) /\ toS[i].k = k => toS[i].n + new <= NumConns
    <3>. SUFFICES ASSUME NEW i \in DOMAIN toS, IsBatch(toS[i]), toS[i].k = k
                  PROVE  toS[i].n + new <= NumConns
      OBVIOUS
    <3>1. toS[i].n + left <= NumConns
      BY <1>2 DEF IInv, ClientShare
    <3>2. toS[i].n \in Nat
      BY BatchSizes DEF IInv
    <3>. QED
      BY <1>3, <1>4, <1>6, <3>1, <3>2
  <2>. QED
    BY <1>1, <1>2, <2>1, <2>2 DEF IInv, ClientShare
<1>14. ServerShare'
  <2>1. CASE snonce # k
    BY <1>1, <2>1 DEF IInv, ServerShare, Load, ToCome
  <2>2. CASE snonce = k
    <3>1. PICK load : load = Load
      OBVIOUS
    <3>2. load \in Nat
      BY <3>1, Bounds DEF IInv, Types, ServerTypes, AnyBatch, Load
    <3>3. load + left <= NumConns
      BY <1>2, <2>2, <3>1 DEF IInv, ServerShare, ToCome
    <3>4. load + new <= NumConns
      BY <1>3, <1>4, <1>6, <3>2, <3>3
    <3>5. ASSUME NEW i \in DOMAIN toS, IsBatch(toS[i]), toS[i].k = k
          PROVE  load + toS[i].n + new <= NumConns
      <4>1. load + toS[i].n + left <= NumConns
        BY <1>2, <2>2, <3>1, <3>5 DEF IInv, ServerShare, ToCome
      <4>2. toS[i].n \in Nat
        BY <3>5, BatchSizes DEF IInv
      <4>. QED
        BY <1>3, <1>4, <1>6, <3>2, <4>1, <4>2
    <3>6. Load' = load /\ ToCome' = new
      BY <1>1, <1>2, <2>2, <3>1 DEF Load, ToCome
    <3>. QED
      BY <1>1, <2>2, <3>4, <3>5, <3>6 DEF IInv, ServerShare
  <2>. QED
    BY <2>1, <2>2
<1>. QED
  BY <1>7, <1>8, <1>9, <1>10, <1>11, <1>12, <1>13, <1>14 DEF IInv

\* A batch of allocations is taken, or skipped, and nothing is sent.
LEMMA NothingSent ==
    ASSUME IInv, cpc \in {"token", "gradual"}, cpc' \in {"gradual", "finish"},
           PendingTypes', Left' \in Nat, snonce = k => Left' = Left,
           up + pairs + Left' <= NumConns,
           UNCHANGED <<k, csig, tries, acked, pairs, up, loopVars, watchVars, toC, toS,
                       out, lost, hello, leaving, stolen>>
    PROVE  IInv'
<1>. USE DEF loopVars, watchVars
<1>1. Types'
  <2>1. ClientTypes' /\ AllocationTypes'
    BY DEF IInv, Types, ClientTypes, AllocationTypes
  <2>2. ServerTypes'
    BY DEF IInv, Types, ServerTypes
  <2>3. NetworkTypes'
    BY DEF IInv, Types, NetworkTypes
  <2>. QED
    BY <2>1, <2>2, <2>3 DEF Types
<1>2. Stages'
  BY DEF IInv, Stages
<1>3. csig /\ \A i \in DOMAIN toS : ~(IsBatch(toS[i]) /\ toS[i].k = k)
  BY DEF IInv, Stages, Once, OnlyTheLast
<1>4. Once'
  BY <1>3 DEF IInv, Once, OneOnItsWay, OneAllocated, OnlyTheLast, AnswerInstead, Answer,
     NoneFrom
<1>5. Ordered'
  BY DEF IInv, Ordered, NothingAhead, ResetBetween
<1>6. Freed' /\ Reached'
  BY DEF IInv, Freed, Reached, AckComes, NoOlder
<1>7. Somewhere' /\ LostWithReset'
  BY DEF IInv, Somewhere, LostWithReset
<1>8. ClientShare'
  <2>1. PICK left : left = Left'
    OBVIOUS
  <2>2. up' + pairs' + Left' + (IF cpc' = "recv" THEN out'.n ELSE 0) <= NumConns
    <3>1. up + pairs + left <= NumConns
      BY <2>1
    <3>2. up \in Nat /\ pairs \in Nat /\ left \in Nat
      BY <2>1 DEF IInv, Types, ClientTypes
    <3>3. up + pairs + left + 0 <= NumConns
      BY <3>1, <3>2
    <3>. QED
      BY <2>1, <3>3
  <2>. QED
    BY <1>3, <2>1, <2>2 DEF IInv, ClientShare
<1>9. ServerShare'
  BY <1>3 DEF IInv, ServerShare, Load, ToCome
<1>. QED
  BY <1>1, <1>2, <1>4, <1>5, <1>6, <1>7, <1>8, <1>9 DEF IInv

LEMMA TokenPhaseInv ==
    ASSUME IInv, NEW s \in 0..Tokens, TokenPhase(s)
    PROVE  IInv'
<1>1. /\ cpc = "token"
      /\ pending' = [i \in 1..(NumConns - s) |-> 0]
      /\ UNCHANGED <<k, csig, tries, acked, gradual, pairs, up, loopVars, watchVars,
                     toC, hello, leaving, stolen>>
  BY DEF TokenPhase
<1>2. pairs = 0 /\ up = 0 /\ gradual = <<>> /\ snonce # k
  BY <1>1 DEF IInv, Stages, ServerShare
<1>3. s \in Nat /\ NumConns - s \in Nat
  BY Bounds
<1>4. pending' \in Seq(0..MaxNonRLRetries) /\ Len(pending') = NumConns - s
  <2>1. PICK c \in Nat : c = NumConns - s
    BY <1>3
  <2>2. \A i \in 1..c : 0 \in 0..MaxNonRLRetries
    BY Bounds
  <2>. DEFINE S == 0..MaxNonRLRetries
  <2>3. 0 \in S
    BY Bounds
  <2>. HIDE DEF S
  <2>4. pending' = [i \in 1..c |-> 0]
    BY <1>1, <2>1
  <2>5. pending' \in Seq(S) /\ Len(pending') = c
    BY <2>3, <2>4
  <2>. QED
    BY <2>1, <2>5 DEF S
<1>5. PendingTypes' /\ Left' = NumConns - s
  <2>1. Len(pending') + 0 = NumConns - s
    BY <1>3, <1>4
  <2>2. Left' = NumConns - s
    BY <1>1, <1>2, <2>1 DEF Left
  <2>3. PendingTypes
    BY DEF IInv, Types, AllocationTypes
  <2>. QED
    BY <1>1, <1>4, <2>2, <2>3 DEF PendingTypes
<1>6. CASE s > 0
  <2>1. SendRelayBatch(s, NumConns = Tokens, TRUE)
    BY <1>6 DEF TokenPhase
  <2>2. up + pairs + s + Left' <= NumConns /\ Left' \in Nat
    <3>1. PICK left : left = NumConns - s
      OBVIOUS
    <3>2. 0 + 0 + s + left <= NumConns /\ left \in Nat
      BY <1>3, <3>1, Bounds
    <3>. QED
      BY <1>2, <1>5, <3>1, <3>2
  <2>3. Spent(s)
    BY <1>1, <1>2, <1>5, <2>2 DEF Spent
  <2>4. s \in 1..NumConns
    BY <1>6, Bounds
  <2>5. PICK f \in BOOLEAN : f = (NumConns = Tokens)
    OBVIOUS
  <2>. QED
    BY <2>1, <2>3, <2>4, <2>5, SendRelayBatchInv
<1>7. CASE ~(s > 0)
  <2>1. cpc' = "gradual" /\ UNCHANGED <<out, toS, lost>>
    BY <1>7 DEF TokenPhase
  <2>2. up + pairs + Left' <= NumConns /\ Left' \in Nat
    <3>1. PICK left : left = NumConns - s
      OBVIOUS
    <3>2. 0 + 0 + left <= NumConns /\ left \in Nat
      BY <1>3, <3>1, Bounds
    <3>. QED
      BY <1>2, <1>5, <3>1, <3>2
  <2>. QED
    BY <1>1, <1>2, <1>5, <2>1, <2>2, NothingSent
<1>. QED
  BY <1>6, <1>7

LEMMA NextBatchInv ==
    ASSUME IInv, NextBatch
    PROVE  IInv'
<1>1. /\ cpc = "gradual" /\ gradual # <<>> /\ gradual' = <<>>
      /\ UNCHANGED <<k, csig, tries, acked, pending, pairs, up, loopVars, watchVars,
                     toC, hello, leaving, stolen>>
  BY DEF NextBatch
<1>2. PendingTypes
  BY DEF IInv, Types, AllocationTypes
<1>3. PICK br \in [n : 0..NumConns, final : BOOLEAN] : br = Head(gradual)
  BY <1>1, <1>2, PopFacts DEF PendingTypes
<1>4. PICK n, len : n = br.n /\ len = Len(pending)
  OBVIOUS
<1>5. n \in 0..NumConns /\ n \in Nat /\ len \in Nat /\ br.final \in BOOLEAN
  BY <1>2, <1>3, <1>4, Bounds DEF PendingTypes
<1>6. PendingTypes'
  BY <1>1, <1>2 DEF PendingTypes
<1>7. Left = len + n /\ Left' = len
  <2>1. Left' = len + 0
    BY <1>1, <1>4 DEF Left
  <2>. QED
    BY <1>1, <1>3, <1>4, <1>5, <2>1 DEF Left
<1>8. up \in Nat /\ pairs \in Nat /\ up + pairs + (len + n) + 0 <= NumConns
  BY <1>1, <1>7 DEF IInv, ClientShare, Types, ClientTypes
<1>9. CASE n > 0
  <2>1. SendRelayBatch(n, br.final, FALSE)
    BY <1>3, <1>4, <1>9 DEF NextBatch
  <2>2. up + pairs + n + len <= NumConns /\ n + len <= len + n
    BY <1>5, <1>8, Bounds
  <2>3. Spent(n)
    BY <1>1, <1>5, <1>6, <1>7, <2>2 DEF Spent
  <2>4. n \in 1..NumConns
    BY <1>5, <1>9
  <2>. QED
    BY <1>5, <2>1, <2>3, <2>4, SendRelayBatchInv
<1>10. CASE ~(n > 0)
  <2>1. cpc' \in {"gradual", "finish"} /\ UNCHANGED <<out, toS, lost>>
    BY <1>3, <1>4, <1>10 DEF NextBatch
  <2>2. up + pairs + len <= NumConns /\ len = len + n
    BY <1>5, <1>8, <1>10, Bounds
  <2>. QED
    BY <1>1, <1>5, <1>6, <1>7, <2>1, <2>2, NothingSent
<1>. QED
  BY <1>9, <1>10

LEMMA ClientStartsInv ==
    ASSUME IInv, ClientStarts
    PROVE  IInv'
<1>1. /\ cpc = "down" /\ k < MaxSessions
      /\ k' = k + 1
  BY DEF ClientStarts
<1>2. /\ cpc' = "ask" /\ csig' = TRUE /\ tries' = 0 /\ acked' = FALSE
      /\ out' = NoBatch /\ pairs' = 0 /\ up' = 0
      /\ hello' = 0 /\ lost' = "" /\ stolen' = FALSE
  BY DEF ClientStarts
<1>3. UNCHANGED <<loopVars, watchVars, toS, leaving>>
  BY DEF ClientStarts
<1>4. k \in Nat /\ k' \in 0..MaxSessions /\ k' # None
  <2>1. k \in Nat /\ MaxSessions \in Nat
    BY Bounds DEF IInv, Types, ClientTypes
  <2>. QED
    BY <1>1, <2>1 DEF None
<1>5. pending' = <<>> /\ gradual' = <<>> /\ toC' = <<>> /\ \A i \in DOMAIN toC' : FALSE
  <2>1. \A i \in DOMAIN <<>> : FALSE
    OBVIOUS
  <2>. QED
    BY <2>1 DEF ClientStarts
<1>6. /\ \A i \in DOMAIN toS : toS[i].k # k'
      /\ snonce # k' /\ (spc = "alloc" => cur.k # k')
  <2>1. ASSUME NEW i \in DOMAIN toS
        PROVE  toS[i].k # k'
    <3>1. toS[i].k \in Clients
      <4>1. toS[i] \in ClientMessages
        <5>1. toS \in Seq(ClientMessages)
          BY DEF IInv, Types, NetworkTypes
        <5>. QED
          BY <5>1, ElementOfSeq
      <4>. QED
        BY <4>1, MessageFacts
    <3>2. toS[i].k <= k
      BY DEF IInv, Ordered, NothingAhead
    <3>. QED
      BY <1>1, <1>4, <3>1, <3>2, Bounds
  <2>2. snonce # k'
    BY <1>1, <1>4 DEF IInv, Ordered, NothingAhead, Types, ServerTypes
  <2>. QED
    BY <2>1, <2>2 DEF IInv, Stages
<1>. USE DEF loopVars, watchVars
<1>7. Types'
  <2>1. ClientTypes'
    <3>1. 0 \in 0..DisconnectRetries /\ 0 \in Nat
      BY Bounds
    <3>. QED
      BY <1>2, <1>4, <3>1, Zenon DEF ClientTypes
  <2>2. AllocationTypes'
    <3>1. /\ <<>> \in Seq(0..MaxNonRLRetries)
          /\ <<>> \in Seq([n : 0..NumConns, final : BOOLEAN]) /\ Len(<<>>) <= 1
      OBVIOUS
    <3>. QED
      BY <1>2, <1>5, <3>1, MessageFacts, Zenon DEF AllocationTypes, PendingTypes
  <2>3. ServerTypes'
    BY <1>2, <1>3 DEF IInv, Types, ServerTypes
  <2>4. NetworkTypes'
    <3>1. <<>> \in Seq(ServerMessages)
      OBVIOUS
    <3>. QED
      BY <1>2, <1>3, <1>5, <3>1 DEF IInv, Types, NetworkTypes
  <2>. QED
    BY <2>1, <2>2, <2>3, <2>4 DEF Types
<1>8. Stages'
  <2>1. 0 < DisconnectRetries
    BY Bounds
  <2>2. /\ spc = "join" => toS = <<>>
        /\ snonce # None <=> spc \in {"follow", "alloc", "wait", "serve"}
        /\ IF spc = "alloc" THEN cur.k = snonce ELSE cur = NoBatch
        /\ watch # "off" <=> spc = "serve"
        /\ spc \in {"join", "first"} => arriving = 0 /\ links = 0
    BY DEF IInv, Stages
  <2>. QED
    BY <1>2, <1>3, <1>4, <1>5, <2>1, <2>2 DEF Stages
<1>9. Once'
  <2>1. OneOnItsWay' /\ OneAllocated'
    BY <1>2, <1>3 DEF IInv, Once, OneOnItsWay, OneAllocated, NoneFrom
  <2>2. OnlyTheLast'
    BY <1>1, <1>2, <1>3, <1>6 DEF OnlyTheLast
  <2>3. AnswerInstead'
    BY <1>5 DEF AnswerInstead
  <2>. QED
    BY <2>1, <2>2, <2>3 DEF Once
<1>10. Ordered'
  <2>1. NothingAhead'
    <3>1. \A i \in DOMAIN toS : toS[i].k \in Int
      <4>1. toS \in Seq(ClientMessages)
        BY DEF IInv, Types, NetworkTypes
      <4>2. \A i \in DOMAIN toS : toS[i] \in ClientMessages
        BY <4>1, ElementOfSeq
      <4>. QED
        BY <4>2, MessageFacts, Bounds
    <3>2. snonce \in Int /\ \A j \in leaving : j \in Int
      <4>1. snonce \in Int
        BY DEF IInv, Types, ServerTypes
      <4>2. leaving \subseteq Clients
        BY DEF IInv, Types, NetworkTypes
      <4>. QED
        BY <4>1, <4>2, Bounds
    <3>3. /\ snonce <= k
          /\ \A i \in DOMAIN toS : toS[i].k <= k
          /\ \A j \in leaving : j <= k
      BY DEF IInv, Ordered, NothingAhead
    <3>4. \A x \in Int : x <= k => x <= k'
      BY <1>1, <1>4
    <3>. QED
      BY <1>3, <3>1, <3>2, <3>3, <3>4 DEF NothingAhead
  <2>2. ResetBetween'
    <3>1. \A i \in DOMAIN toS : toS[i] # Reset(k')
      BY <1>6 DEF Reset
    <3>. QED
      BY <1>1, <1>2, <1>3, <3>1 DEF ResetBetween, Reset
  <2>. QED
    BY <2>1, <2>2 DEF Ordered
<1>11. Freed' /\ Reached' /\ Somewhere' /\ LostWithReset'
  <2>1. Freed'
    BY <1>2, <1>5 DEF Freed, AckComes
  <2>2. Reached' /\ Somewhere' /\ LostWithReset'
    BY <1>2 DEF Reached, Somewhere, LostWithReset
  <2>. QED
    BY <2>1, <2>2
<1>12. Left' = 0
  <2>1. Len(<<>>) + 0 = 0
    OBVIOUS
  <2>. QED
    BY <1>5, <2>1 DEF Left
<1>13. ClientShare'
  <2>1. 0 + 0 + 0 + 0 <= NumConns /\ 0 <= 0
    BY Bounds
  <2>2. up' + pairs' + Left' + (IF cpc' = "recv" THEN out'.n ELSE 0) <= NumConns
    BY <1>2, <1>12, <2>1
  <2>. QED
    BY <1>2, <1>3, <1>6, <2>1, <2>2 DEF ClientShare
<1>14. ServerShare'
  <2>1. PICK load, come : load = Load /\ come = ToCome
    OBVIOUS
  <2>2. load \in Nat /\ come \in Nat
    BY <2>1, LeftNat, Bounds DEF IInv, Types, ServerTypes, AnyBatch, Load, ToCome
  <2>3. load + come <= NumConns
    BY <2>1 DEF IInv, ServerShare
  <2>4. load + 0 <= NumConns
    BY <2>2, <2>3, Bounds
  <2>5. Load' = load /\ ToCome' = 0
    BY <1>1, <1>2, <1>3, <1>6, <2>1 DEF Load, ToCome
  <2>6. ASSUME NEW i \in DOMAIN toS, IsBatch(toS[i]), toS[i].k = snonce
        PROVE  load + toS[i].n + 0 <= NumConns
    <3>1. load + toS[i].n + come <= NumConns
      BY <2>1, <2>6 DEF IInv, ServerShare
    <3>2. toS[i].n \in Nat
      BY <2>6, BatchSizes DEF IInv
    <3>. QED
      BY <2>2, <3>1, <3>2, Bounds
  <2>. QED
    BY <1>1, <1>2, <1>3, <1>6, <2>4, <2>5, <2>6 DEF ServerShare
<1>. QED
  BY <1>7, <1>8, <1>9, <1>10, <1>11, <1>13, <1>14 DEF IInv

\* The batch being allocated is answered.
LEMMA AnswerSent ==
    ASSUME IInv, spc = "alloc", NEW s \in 0..cur.n,
           toC' = ToClient(Reply(cur.k, cur.b, s)), spc' # "alloc",
           UNCHANGED clientVars, \A c : NoneFrom(c) => NoneFrom(c)'
    PROVE  /\ toC' \in Seq(ServerMessages) /\ AnswerInstead'
           /\ AckComes' => AckComes
           /\ (\E i \in DOMAIN toC : Answer(toC[i]))
                => (\E i \in DOMAIN toC : Answer(toC[i]))'
           /\ cpc = "recv" /\ cur = out => (\E i \in DOMAIN toC : Answer(toC[i]))'
           /\ ~csig => toC' = toC
<1>1. cur.k \in Clients /\ cur.b \in Nat /\ s \in 0..NumConns /\ cur.n \in Nat
  <2>1. cur \in AnyBatch /\ cur.k = snonce /\ snonce # None /\ snonce \in 0..MaxSessions
    BY DEF IInv, Types, ServerTypes, Stages
  <2>. QED
    BY <2>1, Bounds DEF AnyBatch, None
<1>2. PICK r \in ServerMessages :
        /\ r = Reply(cur.k, cur.b, s) /\ r.t = "reply" /\ r.k = cur.k
        /\ r.b = cur.b /\ r.n = s
  BY <1>1, MessageFacts
<1>3. toC \in Seq(ServerMessages)
  BY DEF IInv, Types, NetworkTypes
<1>4. (toC' = toC \/ (csig /\ toC' = Append(toC, r))) /\ (~csig => toC' = toC)
  BY <1>2 DEF ToClient
<1>5. Answered(r)
  BY <1>3, <1>4, AnswersClient
<1>6. k' = k /\ cpc' = cpc /\ out' = out
  BY DEF clientVars
<1>7. csig /\ cur.k = k =>
        /\ cpc = "recv" /\ cur = out /\ NoneFrom(k)
        /\ \A i \in DOMAIN toC : ~Answer(toC[i])
  BY DEF IInv, Once, OneAllocated, OnlyTheLast, AnswerInstead
<1>8. AnswerInstead'
  <2>1. SUFFICES ASSUME NEW i \in DOMAIN toC', toC'[i].t = "reply", toC'[i].k = k
                 PROVE  /\ cpc = "recv" /\ toC'[i].b = out.b /\ toC'[i].n <= out.n
                        /\ NoneFrom(k)
                        /\ \A j \in DOMAIN toC' :
                             toC'[j].t = "reply" /\ toC'[j].k = k => i = j
    <3>1. NoneFrom(k) => NoneFrom(k)'
      BY <1>6
    <3>. QED
      BY <1>6, <3>1 DEF AnswerInstead, Answer
  <2>2. CASE i \in DOMAIN toC
    <3>1. /\ Answer(toC[i]) /\ toC'[i] = toC[i]
      BY <1>5, <2>1, <2>2 DEF Answered, Answer
    <3>2. /\ cpc = "recv" /\ toC[i].b = out.b /\ toC[i].n <= out.n
          /\ NoneFrom(k) /\ cur.k # k
          /\ \A j \in DOMAIN toC : Answer(toC[j]) => i = j
      BY <2>2, <3>1 DEF IInv, Once, AnswerInstead
    <3>. QED
      BY <1>2, <1>5, <3>1, <3>2 DEF Answered, Answer
  <2>3. CASE i \notin DOMAIN toC
    <3>1. toC'[i] = r /\ i = Len(toC) + 1 /\ toC' # toC
      BY <1>5, <2>3 DEF Answered
    <3>2. csig /\ cur.k = k
      BY <1>2, <1>4, <2>1, <3>1
    <3>3. toC'[i].b = out.b /\ toC'[i].n <= out.n
      BY <1>1, <1>2, <1>7, <3>1, <3>2
    <3>4. ASSUME NEW j \in DOMAIN toC', toC'[j].t = "reply", toC'[j].k = k
          PROVE  i = j
      BY <1>5, <1>7, <3>1, <3>2, <3>4 DEF Answered, Answer
    <3>. QED
      BY <1>7, <3>2, <3>3, <3>4
  <2>. QED
    BY <2>2, <2>3
<1>9. AckComes' => AckComes
  <2>1. r # Ack(k)
    BY <1>2 DEF Ack
  <2>. QED
    BY <1>5, <1>6, <2>1 DEF AckComes, Answered
<1>10. (\E i \in DOMAIN toC : Answer(toC[i])) => (\E i \in DOMAIN toC : Answer(toC[i]))'
  BY <1>5, <1>6 DEF Answered, Answer
<1>11. cpc = "recv" /\ cur = out => (\E i \in DOMAIN toC : Answer(toC[i]))'
  <2>. SUFFICES ASSUME cpc = "recv", cur = out
                PROVE  (\E i \in DOMAIN toC : Answer(toC[i]))'
    OBVIOUS
  <2>1. csig /\ cur.k = k
    BY DEF IInv, Stages
  <2>2. toC' = Append(toC, r)
    BY <1>2, <2>1 DEF ToClient
  <2>3. \E i \in DOMAIN toC' : toC'[i] = r
    BY <1>3, <2>2, PushFacts
  <2>. QED
    BY <1>2, <1>6, <2>1, <2>3 DEF Answer
<1>. QED
  BY <1>4, <1>5, <1>8, <1>9, <1>10, <1>11 DEF Answered

LEMMA AllocateInv ==
    ASSUME IInv, NEW s \in 0..cur.n, Allocate(s)
    PROVE  IInv'
<1>1. /\ spc = "alloc" /\ spc' \in {"wait", "follow"}
      /\ toC' = ToClient(Reply(cur.k, cur.b, s))
      /\ arriving' = arriving + s /\ cur' = NoBatch
      /\ UNCHANGED <<clientVars, snonce, added, links, remote, watchVars, toS, hello,
                     leaving, historyVars>>
  BY DEF Allocate
<1>2. /\ toC' \in Seq(ServerMessages) /\ AnswerInstead'
      /\ AckComes' => AckComes
      /\ (\E i \in DOMAIN toC : Answer(toC[i]))
           => (\E i \in DOMAIN toC : Answer(toC[i]))'
      /\ cpc = "recv" /\ cur = out => (\E i \in DOMAIN toC : Answer(toC[i]))'
      /\ ~csig => toC' = toC
  <2>1. \A c : NoneFrom(c) => NoneFrom(c)'
    BY <1>1 DEF NoneFrom
  <2>. QED
    BY <1>1, <2>1, AnswerSent
<1>3. cur.n \in Nat /\ s \in Nat /\ s <= cur.n /\ arriving \in Nat /\ links \in Nat
  <2>1. cur.n \in Nat /\ arriving \in Nat /\ links \in Nat
    BY Bounds DEF IInv, Types, ServerTypes, AnyBatch
  <2>. QED
    BY <2>1
<1>. USE DEF clientVars, watchVars, historyVars
<1>4. Types'
  <2>1. ClientTypes' /\ AllocationTypes'
    BY <1>1 DEF IInv, Types, ClientTypes, AllocationTypes, PendingTypes
  <2>2. ServerTypes'
    BY <1>1, <1>3, MessageFacts DEF IInv, Types, ServerTypes
  <2>3. NetworkTypes'
    BY <1>1, <1>2 DEF IInv, Types, NetworkTypes
  <2>. QED
    BY <2>1, <2>2, <2>3 DEF Types
<1>5. Stages'
  BY <1>1, <1>2 DEF IInv, Stages
<1>6. Once'
  <2>1. OneOnItsWay' /\ OneAllocated'
    BY <1>1 DEF IInv, Once, OneOnItsWay, OneAllocated
  <2>2. OnlyTheLast'
    BY <1>1 DEF IInv, Once, OnlyTheLast
  <2>. QED
    BY <1>2, <2>1, <2>2 DEF Once
<1>7. Ordered'
  BY <1>1 DEF IInv, Ordered, NothingAhead, ResetBetween
<1>8. Freed' /\ Reached'
  BY <1>1, <1>2 DEF IInv, Freed, Reached, NoOlder
<1>9. Somewhere' /\ LostWithReset'
  BY <1>1, <1>2 DEF IInv, Somewhere, LostWithReset
<1>10. ClientShare'
  BY <1>1 DEF IInv, ClientShare, Left
<1>11. ServerShare'
  <2>1. PICK load, new : load = Load /\ new = Load'
    OBVIOUS
  <2>2. load \in Nat /\ new \in Nat /\ new <= load
    <3>1. load = arriving + links + cur.n /\ new = (arriving + s) + links + 0
      BY <1>1, <2>1, MessageFacts DEF Load
    <3>. QED
      BY <1>3, <3>1
  <2>3. PICK come : come = ToCome
    OBVIOUS
  <2>4. come = ToCome'
    BY <1>1, <2>3 DEF ToCome, Left
  <2>5. come \in Nat
    BY <2>3, LeftNat DEF ToCome, IInv
  <2>6. new + come <= NumConns
    <3>1. load + come <= NumConns
      BY <2>1, <2>3 DEF IInv, ServerShare
    <3>. QED
      BY <2>2, <2>5, <3>1, Bounds
  <2>7. ASSUME NEW i \in DOMAIN toS, IsBatch(toS[i]), toS[i].k = snonce
        PROVE  new + toS[i].n + come <= NumConns
    <3>1. PICK n : n = toS[i].n
      OBVIOUS
    <3>2. load + n + come <= NumConns
      BY <2>1, <2>3, <2>7, <3>1 DEF IInv, ServerShare
    <3>3. n \in Nat
      BY <2>7, <3>1, BatchSizes DEF IInv
    <3>4. new + n + come <= NumConns
      BY <2>2, <2>5, <3>2, <3>3, Bounds
    <3>. QED
      BY <3>1, <3>4
  <2>. QED
    BY <1>1, <2>1, <2>4, <2>6, <2>7 DEF IInv, ServerShare
<1>. QED
  BY <1>4, <1>5, <1>6, <1>7, <1>8, <1>9, <1>10, <1>11 DEF IInv

\* The server leaves the call; answer: the batch that it was allocating, if it
\* is the one the client waits for, has been answered.
LEMMA RejoinInv ==
    ASSUME IInv, Rejoin, UNCHANGED <<clientVars, hello, leaving, stolen>>,
           toC' \in Seq(ServerMessages), AnswerInstead', AckComes' => AckComes,
           (\E i \in DOMAIN toC : Answer(toC[i]))
             => (\E i \in DOMAIN toC : Answer(toC[i]))',
           cpc = "recv" /\ spc = "alloc" /\ cur = out =>
             toC' = toC \/ (\E i \in DOMAIN toC : Answer(toC[i]))',
           ~csig => toC' = toC
    PROVE  IInv'
<1>1. /\ SessionReturns("join") /\ remote' = None /\ stale' = {} /\ toS' = <<>>
      /\ lost' = IF \/ \E i \in DOMAIN toS : Outstanding(toS[i])
                    \/ Outstanding(cur) /\ toC' = toC
                 THEN "rejoin" ELSE lost
  BY DEF Rejoin
<1>2. toS' \in Seq(ClientMessages) /\ \A i \in DOMAIN toS' : FALSE
  <2>1. <<>> \in Seq(ClientMessages) /\ \A i \in DOMAIN <<>> : FALSE
    OBVIOUS
  <2>. QED
    BY <1>1, <2>1
<1>3. ServerTypes' /\ Stages' /\ ServerShare'
  <2>1. remote' \in 0..MaxSessions /\ stale' \subseteq Clients \X {"wait", "drain"}
    BY <1>1, Bounds DEF None
  <2>2. ~csig => toC' = <<>>
    BY DEF IInv, Stages
  <2>. QED
    BY <1>1, <1>2, <2>1, <2>2, SessionGivenUp
<1>. USE DEF clientVars
<1>4. Types'
  <2>1. ClientTypes' /\ AllocationTypes'
    BY DEF IInv, Types, ClientTypes, AllocationTypes, PendingTypes
  <2>2. NetworkTypes'
    BY <1>1, <1>2 DEF IInv, Types, NetworkTypes
  <2>. QED
    BY <1>3, <2>1, <2>2 DEF Types
<1>5. spc' = "join" /\ snonce' = None
  BY <1>1 DEF SessionReturns
<1>6. Once'
  BY <1>2, <1>5 DEF Once, OneOnItsWay, OneAllocated, OnlyTheLast
<1>7. Ordered'
  <2>1. None <= k
    BY Bounds DEF IInv, Types, ClientTypes, None
  <2>. QED
    BY <1>2, <1>5, <2>1 DEF IInv, Ordered, NothingAhead, ResetBetween
<1>8. Freed' /\ Reached'
  BY <1>2, <1>5 DEF Freed, Reached, NoOlder
<1>9. Somewhere'
  <2>1. SUFFICES ASSUME cpc = "recv", lost' = ""
                 PROVE  (\E i \in DOMAIN toC : Answer(toC[i]))'
    BY DEF Somewhere
  <2>2. lost = "" /\ ~(\E i \in DOMAIN toS : toS[i] = out) /\ ~(cur = out /\ toC' = toC)
    BY <1>1, <2>1 DEF Outstanding
  <2>. QED
    BY <2>1, <2>2 DEF IInv, Somewhere
<1>10. LostWithReset' /\ ClientShare'
  BY <1>1, <1>2 DEF IInv, LostWithReset, ClientShare, Left
<1>. QED
  BY <1>3, <1>4, <1>6, <1>7, <1>8, <1>9, <1>10 DEF IInv

LEMMA ServerRejoinsInv ==
    ASSUME IInv, ServerRejoins
    PROVE  IInv'
<1>1. spc # "join" /\ toC' = toC /\ Rejoin /\ UNCHANGED <<clientVars, hello, leaving, stolen>>
  BY DEF ServerRejoins
<1>2. k' = k /\ cpc' = cpc /\ out' = out /\ spc' = "join" /\ toS' = <<>>
  BY <1>1 DEF clientVars, Rejoin, SessionReturns
<1>3. toC' \in Seq(ServerMessages)
  BY <1>1 DEF IInv, Types, NetworkTypes
<1>4. AnswerInstead'
  <2>1. NoneFrom(k)'
    <3>1. \A i \in DOMAIN <<>> : FALSE
      OBVIOUS
    <3>. QED
      BY <1>2, <3>1 DEF NoneFrom
  <2>. QED
    BY <1>1, <1>2, <2>1 DEF IInv, Once, AnswerInstead, Answer
<1>5. AckComes' => AckComes
  BY <1>1, <1>2 DEF AckComes
<1>6. (\E i \in DOMAIN toC : Answer(toC[i])) => (\E i \in DOMAIN toC : Answer(toC[i]))'
  BY <1>1, <1>2 DEF Answer
<1>. QED
  BY <1>1, <1>3, <1>4, <1>5, <1>6, RejoinInv

LEMMA AllocateExpiredInv ==
    ASSUME IInv, AllocateExpired
    PROVE  IInv'
<1>1. /\ spc = "alloc" /\ toC' = ToClient(Reply(cur.k, cur.b, 0)) /\ Rejoin
      /\ UNCHANGED <<clientVars, hello, leaving, stolen>>
  BY DEF AllocateExpired
<1>2. 0 \in 0..cur.n
  BY Bounds DEF IInv, Types, ServerTypes, AnyBatch
<1>3. spc' # "alloc" /\ \A c : NoneFrom(c) => NoneFrom(c)'
  <2>1. \A i \in DOMAIN <<>> : FALSE
    OBVIOUS
  <2>. QED
    BY <1>1, <2>1 DEF Rejoin, SessionReturns, NoneFrom
<1>4. /\ toC' \in Seq(ServerMessages) /\ AnswerInstead'
      /\ AckComes' => AckComes
      /\ (\E i \in DOMAIN toC : Answer(toC[i]))
           => (\E i \in DOMAIN toC : Answer(toC[i]))'
      /\ cpc = "recv" /\ cur = out => (\E i \in DOMAIN toC : Answer(toC[i]))'
      /\ ~csig => toC' = toC
  BY <1>1, <1>2, <1>3, AnswerSent
<1>. QED
  BY <1>1, <1>4, RejoinInv

-----------------------------------------------------------------------------
\* A server step that takes no message: what it owes.
LEMMA ServerQuiet ==
    ASSUME IInv, UNCHANGED <<clientVars, toS, toC, leaving, historyVars>>,
           hello' \in Nat, hello' <= hello, snonce' \in {None, snonce},
           spc = "alloc" \/ spc' = "alloc" => spc' = spc /\ cur' = cur,
           watch = "drain" => watch' = "drain" \/ snonce' = None,
           ServerTypes', Stages', ServerShare'
    PROVE  IInv'
<1>. USE DEF clientVars, historyVars
<1>1. Types'
  <2>1. ClientTypes' /\ AllocationTypes'
    BY DEF IInv, Types, ClientTypes, AllocationTypes, PendingTypes
  <2>2. NetworkTypes'
    BY DEF IInv, Types, NetworkTypes
  <2>. QED
    BY <2>1, <2>2 DEF Types
<1>2. Once'
  <2>1. OneOnItsWay' /\ OneAllocated' /\ OnlyTheLast'
    BY DEF IInv, Once, OneOnItsWay, OneAllocated, OnlyTheLast, NoneFrom
  <2>2. AnswerInstead'
    BY DEF IInv, Once, AnswerInstead, Answer, NoneFrom
  <2>. QED
    BY <2>1, <2>2 DEF Once
<1>3. Ordered'
  <2>1. None <= k
    BY Bounds DEF IInv, Types, ClientTypes, None
  <2>. QED
    BY <2>1 DEF IInv, Ordered, NothingAhead, ResetBetween
<1>4. Freed' /\ Reached'
  BY DEF IInv, Freed, AckComes, Reached, NoOlder
<1>5. Somewhere' /\ LostWithReset'
  BY DEF IInv, Somewhere, Answer, LostWithReset
<1>6. ClientShare'
  <2>1. hello' <= up'
    BY DEF IInv, ClientShare, Types, ClientTypes
  <2>. QED
    BY <2>1 DEF IInv, ClientShare, Left
<1>. QED
  BY <1>1, <1>2, <1>3, <1>4, <1>5, <1>6 DEF IInv

\* Whoever adds nothing to the session takes nobody's share.
LEMMA ShareKept ==
    ASSUME IInv, UNCHANGED <<clientVars, toS, snonce>>, Load' \in Nat, Load' <= Load
    PROVE  ServerShare'
<1>. USE DEF clientVars
<1>1. PICK load, new, come : load = Load /\ new = Load' /\ come = ToCome
  OBVIOUS
<1>2. load \in Nat /\ new \in Nat /\ come \in Nat /\ new <= load
  BY <1>1, LeftNat, Bounds DEF IInv, Types, ServerTypes, AnyBatch, Load, ToCome
<1>3. come = ToCome'
  BY <1>1 DEF ToCome, Left
<1>4. new + come <= NumConns
  <2>1. load + come <= NumConns
    BY <1>1 DEF IInv, ServerShare
  <2>. QED
    BY <1>2, <2>1, Bounds
<1>5. ASSUME NEW i \in DOMAIN toS, IsBatch(toS[i]), toS[i].k = snonce
      PROVE  new + toS[i].n + come <= NumConns
  <2>1. PICK n : n = toS[i].n
    OBVIOUS
  <2>2. load + n + come <= NumConns /\ n \in Nat
    BY <1>1, <1>5, <2>1, BatchSizes DEF IInv, ServerShare
  <2>3. new + n + come <= NumConns
    BY <1>2, <2>2, Bounds
  <2>. QED
    BY <2>1, <2>3
<1>. QED
  BY <1>1, <1>3, <1>4, <1>5 DEF IInv, ServerShare

\* JoinEnds, FollowTimeout, ServeStarts, WatchNext and StaleReturns only change
\* the place of the server or of a watcher.
LEMMA PlacesInv ==
    ASSUME IInv,
           \/ JoinEnds \/ FollowTimeout \/ ServeStarts \/ WatchNext
           \/ \E w \in stale : StaleReturns(w)
    PROVE  IInv'
<1>1. /\ UNCHANGED <<clientVars, snonce, cur, arriving, added, links, remote, toS, toC,
                     hello, leaving, historyVars>>
      /\ stale' \subseteq stale /\ busy' \in {busy, FALSE}
      /\ \/ spc = "join" /\ spc' = "first" /\ watch' = watch
         \/ spc = "follow" /\ spc' = "wait" /\ watch' = watch
         \/ spc = "wait" /\ spc' = "serve" /\ watch' = "wait"
         \/ UNCHANGED <<spc, watch>>
  BY DEF JoinEnds, FollowTimeout, ServeStarts, WatchNext, StaleReturns, watchVars, loopVars
<1>2. ServerTypes'
  BY <1>1 DEF IInv, Types, ServerTypes
<1>3. Stages'
  BY <1>1 DEF IInv, Stages, clientVars
<1>4. Load' = Load /\ Load \in Nat
  BY <1>1, Bounds DEF Load, IInv, Types, ServerTypes, AnyBatch
<1>5. ServerShare'
  <2>1. Load' \in Nat /\ Load' <= Load
    BY <1>4
  <2>. QED
    BY <1>1, <2>1, ShareKept
<1>6. hello' \in Nat /\ hello' <= hello
  BY <1>1 DEF IInv, Types, ClientTypes
<1>7. watch = "drain" => watch' = "drain"
  BY <1>1 DEF IInv, Stages
<1>. QED
  BY <1>1, <1>2, <1>3, <1>5, <1>6, <1>7, ServerQuiet

\* A handshake or a connection ends.
LEMMA LinksInv ==
    ASSUME IInv, HandshakeOK \/ HandshakeFails \/ LinkDies
    PROVE  IInv'
<1>1. /\ UNCHANGED <<clientVars, spc, snonce, cur, remote, watchVars, toS, toC, leaving,
                     historyVars>>
      /\ added' \in {added, TRUE} /\ spc \notin {"join", "first"}
      /\ \/ arriving > 0 /\ arriving' = arriving - 1 /\ links' \in {links, links + 1}
         \/ links > 0 /\ links' = links - 1 /\ arriving' = arriving
      /\ hello' = hello \/ (hello > 0 /\ hello' = hello - 1)
  <2>1. spc \notin {"join", "first"}
    BY DEF HandshakeOK, HandshakeFails, LinkDies, IInv, Stages
  <2>2. CASE HandshakeOK
    BY <2>1, <2>2 DEF HandshakeOK
  <2>3. CASE HandshakeFails
    BY <2>1, <2>3 DEF HandshakeFails
  <2>4. CASE LinkDies
    BY <2>1, <2>4 DEF LinkDies
  <2>. QED
    BY <2>2, <2>3, <2>4
<1>2. arriving \in Nat /\ links \in Nat /\ cur.n \in Nat /\ hello \in Nat
  BY Bounds DEF IInv, Types, ServerTypes, ClientTypes, AnyBatch
<1>3. arriving' \in Nat /\ links' \in Nat /\ hello' \in Nat /\ hello' <= hello
  BY <1>1, <1>2
<1>4. ServerTypes'
  BY <1>1, <1>3 DEF IInv, Types, ServerTypes, watchVars
<1>5. Stages'
  BY <1>1 DEF IInv, Stages, clientVars, watchVars
<1>6. Load' \in Nat /\ Load' <= Load
  <2>1. Load' = arriving' + links' + cur.n
    BY <1>1 DEF Load
  <2>. QED
    BY <1>1, <1>2, <1>3, <2>1 DEF Load
<1>7. ServerShare'
  BY <1>1, <1>6, ShareKept
<1>. QED
  BY <1>1, <1>3, <1>4, <1>5, <1>7, ServerQuiet DEF watchVars

\* acceptOneClient returns without having taken a message.
LEMMA SessionEndsInv ==
    ASSUME IInv, WaitTimeout \/ ServeEnds
    PROVE  IInv'
<1>1. /\ SessionReturns("first") /\ spc \in {"wait", "serve"}
      /\ UNCHANGED <<clientVars, remote, toS, toC, hello, leaving, historyVars>>
      /\ stale' = stale \/ stale' = Leftover
  BY DEF WaitTimeout, ServeEnds
<1>2. stale' \subseteq Clients \X {"wait", "drain"}
  <2>1. stale \subseteq Clients \X {"wait", "drain"}
    BY DEF IInv, Types, ServerTypes
  <2>2. spc = "serve" => <<snonce, watch>> \in Clients \X {"wait", "drain"}
    BY Bounds DEF IInv, Stages, Types, ServerTypes, None
  <2>3. stale' = stale \/ (spc = "serve" /\ stale' = Leftover)
    BY DEF WaitTimeout, ServeEnds
  <2>. QED
    BY <2>1, <2>2, <2>3 DEF Leftover
<1>3. ServerTypes' /\ Stages' /\ ServerShare'
  <2>1. remote' \in 0..MaxSessions /\ toS' \in Seq(ClientMessages)
    BY <1>1 DEF IInv, Types, ServerTypes, NetworkTypes
  <2>2. ~csig => toC' = <<>>
    BY <1>1 DEF IInv, Stages
  <2>. QED
    BY <1>1, <1>2, <2>1, <2>2, SessionGivenUp
<1>4. hello' \in Nat /\ hello' <= hello
  BY <1>1 DEF IInv, Types, ClientTypes
<1>5. spc' = "first" /\ snonce' = None
  BY <1>1 DEF SessionReturns
<1>. QED
  BY <1>1, <1>3, <1>4, <1>5, ServerQuiet

-----------------------------------------------------------------------------
\* A client step that sends and takes nothing: what it owes.
LEMMA ClientQuiet ==
    ASSUME IInv,
           UNCHANGED <<k, tries, acked, pending, gradual, out, loopVars, watchVars, toS,
                       historyVars>>,
           csig' \in {csig, FALSE}, toC' = toC \/ (toC' = <<>> /\ csig' = FALSE),
           leaving' \subseteq leaving \cup {k}, leaving' \subseteq Clients,
           cpc' # "recv", cpc = "recv" => csig' = FALSE /\ toC' = <<>>,
           cpc' \in {"ask", "ack", "token"} => cpc \in {"ask", "ack", "token"},
           ClientTypes', ClientShare',
           cpc' # "down" => k # None,
           cpc' \in {"ask", "ack", "token", "gradual", "dial"} => csig',
           cpc' = "ask" => tries < DisconnectRetries,
           cpc' \notin {"down", "ask"} => tries # 0,
           cpc' \in {"ask", "ack", "token"} =>
             pending = <<>> /\ gradual = <<>> /\ up' = 0 /\ pairs' = 0,
           ~csig' => toC' = <<>>
    PROVE  IInv'
<1>. USE DEF loopVars, watchVars, historyVars
<1>1. toC' \in Seq(ServerMessages) /\ \A i \in DOMAIN toC' : toC' = toC
  <2>1. <<>> \in Seq(ServerMessages) /\ \A i \in DOMAIN <<>> : FALSE
    OBVIOUS
  <2>. QED
    BY <2>1 DEF IInv, Types, NetworkTypes
<1>2. Types'
  <2>1. AllocationTypes' /\ ServerTypes'
    BY DEF IInv, Types, AllocationTypes, PendingTypes, ServerTypes
  <2>2. NetworkTypes'
    BY <1>1 DEF IInv, Types, NetworkTypes
  <2>. QED
    BY <2>1, <2>2 DEF Types
<1>3. Stages'
  <2>1. /\ spc = "join" => toS = <<>>
        /\ snonce # None <=> spc \in {"follow", "alloc", "wait", "serve"}
        /\ IF spc = "alloc" THEN cur.k = snonce ELSE cur = NoBatch
        /\ watch # "off" <=> spc = "serve"
        /\ spc \in {"join", "first"} => arriving = 0 /\ links = 0
    BY DEF IInv, Stages
  <2>. QED
    BY <2>1 DEF Stages
<1>4. Once'
  <2>1. OneOnItsWay' /\ OneAllocated'
    BY DEF IInv, Once, OneOnItsWay, OneAllocated, NoneFrom
  <2>2. OnlyTheLast'
    BY DEF IInv, Once, OnlyTheLast
  <2>3. AnswerInstead'
    BY <1>1 DEF IInv, Once, AnswerInstead, Answer
  <2>. QED
    BY <2>1, <2>2, <2>3 DEF Once
<1>5. Ordered'
  <2>1. k <= k
    BY DEF IInv, Types, ClientTypes
  <2>. QED
    BY <2>1 DEF IInv, Ordered, NothingAhead, ResetBetween
<1>6. Freed' /\ Reached'
  <2>1. AckComes' => AckComes
    BY <1>1 DEF AckComes
  <2>. QED
    BY <2>1 DEF IInv, Freed, Reached, NoOlder
<1>7. Somewhere' /\ LostWithReset'
  BY DEF IInv, Somewhere, LostWithReset
<1>8. ServerShare'
  BY DEF IInv, ServerShare, Load, ToCome, Left
<1>. QED
  BY <1>2, <1>3, <1>4, <1>5, <1>6, <1>7, <1>8 DEF IInv

LEMMA AckTimeoutInv ==
    ASSUME IInv, AckTimeout
    PROVE  IInv'
<1>1. /\ cpc = "ack"
      /\ \/ tries < DisconnectRetries /\ cpc' = "ask"
         \/ cpc' = "token"
      /\ UNCHANGED <<k, csig, tries, acked, pending, gradual, out, pairs, up, loopVars,
                     watchVars, toS, toC, hello, leaving, historyVars>>
  BY DEF AckTimeout
<1>2. k # None /\ csig /\ tries # 0 /\ pending = <<>> /\ gradual = <<>> /\ up = 0 /\ pairs = 0
  BY <1>1 DEF IInv, Stages
<1>3. ClientTypes' /\ leaving' \subseteq Clients
  BY <1>1 DEF IInv, Types, ClientTypes, NetworkTypes
<1>4. ClientShare'
  BY <1>1 DEF IInv, ClientShare, Left
<1>. QED
  BY <1>1, <1>2, <1>3, <1>4, ClientQuiet

\* The handshakes of a batch have ended.
LEMMA DialEndsInv ==
    ASSUME IInv, NEW ok \in 0..pairs, TokenDialEnds(ok) \/ BatchDialEnds(ok)
    PROVE  IInv'
<1>1. /\ cpc = "dial" /\ cpc' \in {"finish", "gradual"}
      /\ up' = up + ok /\ hello' = hello + ok /\ pairs' = 0
      /\ UNCHANGED <<k, csig, tries, acked, pending, gradual, out, loopVars, watchVars, toS,
                     toC, leaving, historyVars>>
  BY DEF TokenDialEnds, BatchDialEnds, Dialled
<1>2. k # None /\ csig /\ tries # 0
  BY <1>1 DEF IInv, Stages
<1>3. up \in Nat /\ pairs \in Nat /\ hello \in Nat /\ ok \in Nat /\ ok <= pairs
  BY DEF IInv, Types, ClientTypes
<1>4. up' \in Nat /\ pairs' \in Nat /\ hello' \in Nat
  BY <1>1, <1>3
<1>5. ClientTypes' /\ leaving' \subseteq Clients
  BY <1>1, <1>4 DEF IInv, Types, ClientTypes, NetworkTypes
<1>6. ClientShare'
  <2>1. PICK left : left = Left
    OBVIOUS
  <2>2. left \in Nat
    BY <2>1, LeftNat DEF IInv
  <2>3. up + pairs + left + 0 <= NumConns /\ hello <= up
    BY <1>1, <2>1 DEF IInv, ClientShare
  <2>4. (up + ok) + 0 + left + 0 <= NumConns /\ hello + ok <= up + ok
    BY <1>3, <2>2, <2>3, Bounds
  <2>5. Left' = left
    BY <1>1, <2>1 DEF Left
  <2>6. \A i \in DOMAIN toS : IsBatch(toS[i]) /\ toS[i].k = k => toS[i].n + left <= NumConns
    BY <2>1 DEF IInv, ClientShare
  <2>7. up' + pairs' + left + (IF cpc' = "recv" THEN out'.n ELSE 0) <= NumConns
    BY <1>1, <2>4
  <2>. QED
    BY <1>1, <2>4, <2>5, <2>6, <2>7 DEF ClientShare
<1>7. leaving' \subseteq leaving \cup {k}
  BY <1>1
<1>. QED
  BY <1>1, <1>2, <1>5, <1>6, <1>7, ClientQuiet

\* The client leaves, or loses its signaling.
LEMMA LeavesInv ==
    ASSUME IInv, ClientSignalingLost \/ (Leaves /\ cpc # "down")
    PROVE  IInv'
<1>1. /\ cpc # "down" /\ cpc' \in {"down", "finish"}
      /\ csig' = FALSE /\ toC' = <<>> /\ leaving' \subseteq leaving \cup {k}
      /\ UNCHANGED <<k, tries, acked, pending, gradual, out, pairs, up, loopVars, watchVars,
                     toS, hello, historyVars>>
      /\ cpc' = "finish" => cpc = "recv"
  BY DEF ClientSignalingLost, Leaves
<1>2. k # None /\ (cpc = "recv" => tries # 0)
  BY <1>1 DEF IInv, Stages
<1>3. leaving' \subseteq Clients
  <2>1. k \in Clients
    BY <1>2, Bounds DEF IInv, Types, ClientTypes, None
  <2>2. leaving \subseteq Clients
    BY DEF IInv, Types, NetworkTypes
  <2>. QED
    BY <1>1, <2>1, <2>2
<1>4. ClientTypes'
  BY <1>1 DEF IInv, Types, ClientTypes
<1>5. ClientShare'
  <2>1. PICK left : left = Left
    OBVIOUS
  <2>2. Left' = left
    BY <1>1, <2>1 DEF Left
  <2>3. PICK n : n = IF cpc = "recv" THEN out.n ELSE 0
    OBVIOUS
  <2>4. left \in Nat /\ n \in Nat /\ up \in Nat /\ pairs \in Nat
    BY <2>1, <2>3, LeftNat, Bounds DEF IInv, Types, ClientTypes, AllocationTypes, AnyBatch
  <2>5. up + pairs + left + n <= NumConns
    BY <2>1, <2>3 DEF IInv, ClientShare
  <2>6. up + pairs + left + 0 <= NumConns
    BY <2>4, <2>5, Bounds
  <2>7. /\ hello <= up
        /\ \A i \in DOMAIN toS : IsBatch(toS[i]) /\ toS[i].k = k => toS[i].n + left <= NumConns
    BY <2>1 DEF IInv, ClientShare
  <2>. QED
    BY <1>1, <2>2, <2>6, <2>7 DEF ClientShare
<1>. QED
  BY <1>1, <1>2, <1>3, <1>4, <1>5, ClientQuiet

\* The connections of the client are in its mux, and it has ended the batches.
LEMMA ConnectEndsInv ==
    ASSUME IInv, ConnectEnds
    PROVE  IInv'
<1>1. cpc = "finish"
  BY DEF ConnectEnds
<1>2. CASE Leaves
  BY <1>1, <1>2, LeavesInv
<1>3. CASE /\ cpc' = "up"
           /\ UNCHANGED <<k, csig, tries, acked, pending, gradual, out, pairs, up,
                          loopVars, watchVars, toS, toC, hello, leaving, historyVars>>
  <2>1. k # None /\ tries # 0 /\ (~csig => toC = <<>>)
    BY <1>1 DEF IInv, Stages
  <2>2. ClientTypes' /\ leaving' \subseteq Clients
    BY <1>3 DEF IInv, Types, ClientTypes, NetworkTypes
  <2>3. ClientShare'
    BY <1>1, <1>3 DEF IInv, ClientShare, Left
  <2>. QED
    BY <1>1, <1>3, <2>1, <2>2, <2>3, ClientQuiet
<1>. QED
  BY <1>2, <1>3 DEF ConnectEnds

-----------------------------------------------------------------------------
LEMMA InitIInv == Init => IInv
<1>. SUFFICES ASSUME Init PROVE IInv
  OBVIOUS
<1>1. /\ toS \in Seq(ClientMessages) /\ toC \in Seq(ServerMessages)
      /\ pending \in Seq(0..MaxNonRLRetries)
      /\ gradual \in Seq([n : 0..NumConns, final : BOOLEAN]) /\ Len(gradual) <= 1
  <2>1. \A S : <<>> \in Seq(S)
    OBVIOUS
  <2>2. Len(<<>>) <= 1
    OBVIOUS
  <2>. QED
    BY <2>1, <2>2 DEF Init
<1>2. (\A i \in DOMAIN toS : FALSE) /\ (\A i \in DOMAIN toC : FALSE)
  <2>1. \A i \in DOMAIN <<>> : FALSE
    OBVIOUS
  <2>. QED
    BY <2>1 DEF Init
<1>3. Left = 0 /\ Load = 0 /\ ToCome = 0
  <2>1. Len(<<>>) + 0 = 0
    OBVIOUS
  <2>2. Left = 0
    BY <2>1 DEF Init, Left
  <2>3. Load = 0
    <3>1. NoBatch.n = 0
      BY MessageFacts
    <3>2. 0 + 0 + 0 = 0
      OBVIOUS
    <3>. QED
      BY <3>1, <3>2 DEF Init, Load
  <2>. QED
    BY <2>2, <2>3 DEF ToCome
<1>4. /\ k = None /\ cpc = "down" /\ csig = FALSE /\ tries = 0 /\ acked = FALSE
      /\ out = NoBatch /\ pairs = 0 /\ up = 0
      /\ spc = "join" /\ snonce = None /\ cur = NoBatch
      /\ arriving = 0 /\ added = FALSE /\ links = 0 /\ remote = None
      /\ watch = "off" /\ busy = FALSE /\ stale = {}
      /\ toS = <<>> /\ toC = <<>> /\ hello = 0 /\ leaving = {}
      /\ lost = "" /\ stolen = FALSE
  BY DEF Init
<1>5. Types
  <2>1. 0 \in 0..DisconnectRetries /\ 0 \in 0..MaxSessions /\ 0 \in Nat
    BY Bounds
  <2>2. ClientTypes /\ ServerTypes
    BY <1>4, <2>1, MessageFacts DEF ClientTypes, ServerTypes, None
  <2>3. AllocationTypes /\ NetworkTypes
    BY <1>1, <1>4, MessageFacts DEF AllocationTypes, PendingTypes, NetworkTypes
  <2>. QED
    BY <2>2, <2>3 DEF Types
<1>6. Stages
  BY <1>4 DEF Stages
<1>7. Once
  BY <1>2, <1>4 DEF Once, OneOnItsWay, OneAllocated, OnlyTheLast, AnswerInstead
<1>8. Ordered
  <2>1. snonce <= k /\ leaving = {}
    <3>1. snonce = None /\ k = None /\ leaving = {}
      BY <1>4, Zenon
    <3>2. None <= None
      BY DEF None
    <3>. QED
      BY <3>1, <3>2
  <2>. QED
    BY <1>2, <2>1 DEF Ordered, NothingAhead, ResetBetween
<1>9. Freed /\ Reached /\ Somewhere /\ LostWithReset
  BY <1>2, <1>4 DEF Freed, AckComes, Reached, Somewhere, LostWithReset
<1>10. ClientShare /\ ServerShare
  <2>1. 0 + 0 + 0 + 0 <= NumConns /\ 0 + 0 <= NumConns /\ 0 <= 0
    BY Bounds
  <2>2. ClientShare
    BY <1>2, <1>3, <1>4, <2>1 DEF ClientShare
  <2>3. ServerShare
    BY <1>2, <1>3, <1>4, <2>1 DEF ServerShare
  <2>. QED
    BY <2>2, <2>3
<1>. QED
  BY <1>5, <1>6, <1>7, <1>8, <1>9, <1>10 DEF IInv

LEMMA NextIInv == IInv /\ [Next]_vars => IInv'
<1>. SUFFICES ASSUME IInv, [Next]_vars
              PROVE  IInv'
  OBVIOUS
<1>1. CASE ClientStep
  <2>1. CASE ClientStarts \/ SendDisconnectReq \/ WaitDisconnectAck \/ AckTimeout
    BY <2>1, ClientStartsInv, SendDisconnectReqInv, WaitDisconnectAckInv, AckTimeoutInv
  <2>2. ASSUME NEW s \in 0..Tokens, TokenPhase(s)
        PROVE  IInv'
    BY <2>2, TokenPhaseInv
  <2>3. CASE AllocateGradual \/ NextBatch \/ RecvRelayBatch
    BY <2>3, AllocateGradualInv, NextBatchInv, RecvRelayBatchInv
  <2>4. ASSUME NEW ok \in 0..pairs, TokenDialEnds(ok) \/ BatchDialEnds(ok)
        PROVE  IInv'
    BY <2>4, DialEndsInv
  <2>5. CASE ClientSignalingLost \/ ConnectEnds
    BY <2>5, LeavesInv, ConnectEndsInv
  <2>6. CASE ClientLeaves
    BY <2>6, LeavesInv DEF ClientLeaves
  <2>. QED
    BY <1>1, <2>1, <2>2, <2>3, <2>4, <2>5, <2>6 DEF ClientStep
<1>2. CASE ServerStep
  <2>1. CASE JoinEnds \/ FollowTimeout \/ ServeStarts \/ WatchNext
    BY <2>1, PlacesInv
  <2>2. CASE FirstRecv \/ FollowRecv \/ WatchRecv
    BY <2>2, FirstRecvInv, FollowRecvInv, WatchRecvInv
  <2>3. CASE ServerRejoins \/ WaitTimeout \/ ServeEnds
    BY <2>3, ServerRejoinsInv, SessionEndsInv
  <2>4. CASE ServerAllocates
    <3>1. PICK r \in AllocateOutcomes(cur.n) :
             (~r.expired /\ Allocate(r.n)) \/ (r.expired /\ AllocateExpired)
      BY <2>4 DEF ServerAllocates
    <3>2. ~r.expired => r.n \in 0..cur.n
      BY <3>1 DEF AllocateOutcomes
    <3>. QED
      BY <3>1, <3>2, AllocateInv, AllocateExpiredInv
  <2>5. CASE HandshakeOK \/ HandshakeFails \/ LinkDies
    BY <2>5, LinksInv
  <2>6. ASSUME NEW w \in stale, StaleRecv(w) \/ StaleReturns(w)
        PROVE  IInv'
    BY <2>6, StaleRecvInv, PlacesInv
  <2>. QED
    BY <1>2, <2>1, <2>2, <2>3, <2>4, <2>5, <2>6 DEF ServerStep
<1>3. ASSUME NEW j \in leaving, AnnounceHungup(j)
      PROVE  IInv'
  BY <1>3, AnnounceHungupInv
<1>4. CASE UNCHANGED vars
  <2>. USE <1>4 DEF vars, clientVars, loopVars, watchVars, historyVars
  <2>1. UNCHANGED <<clientVars, toS, toC, leaving, historyVars>> /\ UNCHANGED loopVars
        /\ UNCHANGED watchVars /\ hello' = hello
    OBVIOUS
  <2>2. ServerTypes' /\ Stages'
    BY DEF IInv, Types, ServerTypes, Stages
  <2>3. ServerShare'
    BY DEF IInv, ServerShare, Load, ToCome, Left
  <2>4. hello' \in Nat /\ hello' <= hello
    BY DEF IInv, Types, ClientTypes
  <2>. QED
    BY <2>1, <2>2, <2>3, <2>4, ServerQuiet
<1>. QED
  BY <1>1, <1>2, <1>3, <1>4 DEF Next

LEMMA SpecIInv == Spec => []IInv
BY InitIInv, NextIInv, PTL DEF Spec

-----------------------------------------------------------------------------
\* A client whose reset was acknowledged finds the server free or working for
\* it, unless a goroutine of an ended session read one of its messages
\* (WaitForSessionEnd and acceptOneClient acknowledge and drop their session).
THEOREM AckedClientIsServed == Spec => []AckFreesServer
<1>1. IInv => AckFreesServer
  BY DEF IInv, Freed, AckFreesServer
<1>. QED
  BY <1>1, SpecIInv, PTL

\* The answer that RecvRelayBatch takes is the answer to the batch sent last,
\* and has no more addresses than that batch.
THEOREM AnswersMatch == Spec => RepliesMatch
<1>1. IInv /\ RecvRelayBatch /\ cpc' = "dial" =>
        Head(toC).k = out.k /\ Head(toC).b = out.b /\ Head(toC).n <= out.n
  <2>. SUFFICES ASSUME IInv, RecvRelayBatch, cpc' = "dial"
                PROVE  Head(toC).k = out.k /\ Head(toC).b = out.b /\ Head(toC).n <= out.n
    OBVIOUS
  <2>1. 1 \in DOMAIN toC /\ toC[1] = Head(toC)
    BY PopsClient DEF RecvRelayBatch, IInv, Types, NetworkTypes
  <2>2. cpc = "recv" /\ Answer(Head(toC))
    BY DEF RecvRelayBatch, Accepts, Answer
  <2>3. Head(toC).b = out.b /\ Head(toC).n <= out.n
    BY <2>1, <2>2 DEF IInv, Once, AnswerInstead
  <2>. QED
    BY <2>2, <2>3 DEF IInv, Stages, Answer
<1>2. IInv /\ [Next]_vars =>
        [RecvRelayBatch /\ cpc' = "dial" =>
           Head(toC).k = out.k /\ Head(toC).b = out.b /\ Head(toC).n <= out.n]_vars
  BY <1>1
<1>. QED
  BY <1>2, SpecIInv, PTL DEF Spec, RepliesMatch

\* The types of the state, and the bounds the code relies on: no more handshakes
\* and connections than the client asked for.
LEMMA TypesBounded == IInv => TypeOK
<1>. SUFFICES ASSUME IInv PROVE TypeOK
  OBVIOUS
<1>1. PICK left, n : left = Left /\ n = IF cpc = "recv" THEN out.n ELSE 0
  OBVIOUS
<1>2. /\ left \in Nat /\ n \in Nat /\ up \in Nat /\ pairs \in Nat /\ hello \in Nat
      /\ up + pairs + left + n <= NumConns /\ hello <= up
  BY <1>1, LeftNat, Bounds
     DEF IInv, Types, ClientTypes, AllocationTypes, AnyBatch, ClientShare
<1>3. up \in 0..NumConns /\ pairs \in 0..NumConns /\ hello \in 0..NumConns /\ left <= NumConns
  BY <1>2, Bounds
<1>4. (\A i \in DOMAIN pending : pending[i] \in 0..MaxNonRLRetries) /\ Len(gradual) <= 1
  <2>1. pending \in Seq(0..MaxNonRLRetries) /\ Len(gradual) <= 1
    BY DEF IInv, Types, AllocationTypes, PendingTypes
  <2>2. \A R : pending \in Seq(R) => \A i \in DOMAIN pending : pending[i] \in R
    BY ElementOfSeq
  <2>. QED
    BY <2>1, <2>2
<1>5. Len(pending) <= NumConns
  <2>1. PICK len, more : len = Len(pending)
                         /\ more = IF gradual = <<>> THEN 0 ELSE Head(gradual).n
    OBVIOUS
  <2>2. len \in Nat
    BY <2>1 DEF IInv, Types, AllocationTypes, PendingTypes
  <2>3. more \in Nat
    <3>1. gradual # <<>> => Head(gradual) \in [n : 0..NumConns, final : BOOLEAN]
      BY PopFacts DEF IInv, Types, AllocationTypes, PendingTypes
    <3>. QED
      BY <2>1, <3>1, Bounds
  <2>4. left = len + more
    BY <1>1, <2>1 DEF Left
  <2>. QED
    BY <1>3, <2>1, <2>2, <2>3, <2>4, Bounds
<1>6. arriving + links <= NumConns /\ arriving >= 0 /\ links >= 0
  <2>1. PICK c, come : c = cur.n /\ come = ToCome
    OBVIOUS
  <2>2. arriving \in Nat /\ links \in Nat /\ c \in Nat /\ come \in Nat
    BY <1>1, <1>2, <2>1, Bounds DEF IInv, Types, ServerTypes, AnyBatch, ToCome
  <2>3. (arriving + links + c) + come <= NumConns
    BY <2>1 DEF IInv, ServerShare, Load
  <2>. QED
    BY <2>2, <2>3, Bounds
<1>7. /\ \A i \in DOMAIN toS : toS[i].t \in {"reset", "punch", "hungup", "batch"}
      /\ \A i \in DOMAIN toC : toC[i].t \in {"ack", "reply"}
  <2>1. toS \in Seq(ClientMessages) /\ toC \in Seq(ServerMessages)
    BY DEF IInv, Types, NetworkTypes
  <2>2. /\ \A i \in DOMAIN toS : toS[i] \in ClientMessages
        /\ \A i \in DOMAIN toC : toC[i] \in ServerMessages
    BY <2>1, ElementOfSeq
  <2>. QED
    BY <2>2, MessageFacts
<1>8. /\ k \in 0..MaxSessions
      /\ cpc \in {"down", "ask", "ack", "token", "gradual", "recv", "dial", "finish", "up"}
      /\ csig \in BOOLEAN /\ tries \in 0..DisconnectRetries /\ acked \in BOOLEAN
      /\ out.b \in Nat /\ out.n \in 0..NumConns
  BY DEF IInv, Types, ClientTypes, AllocationTypes, AnyBatch
<1>9. /\ spc \in {"join", "first", "follow", "alloc", "wait", "serve"}
      /\ snonce \in 0..MaxSessions /\ remote \in 0..MaxSessions
      /\ added \in BOOLEAN /\ busy \in BOOLEAN
      /\ watch \in {"off", "wait", "drain"} /\ (watch # "off" <=> spc = "serve")
      /\ stale \subseteq Clients \X {"wait", "drain"}
  BY DEF IInv, Types, ServerTypes, Stages
<1>10. /\ leaving \subseteq Clients
       /\ lost \in {"", "rejoin", "foreign", "drain", "late", "session", "stale"}
  BY DEF IInv, Types, NetworkTypes
<1>. QED
  BY <1>3, <1>4, <1>5, <1>6, <1>7, <1>8, <1>9, <1>10 DEF TypeOK

\* If it is somewhere, the batch the client waits for is in exactly one place.
LEMMA OnePlace ==
    ASSUME IInv, cpc = "recv",
           \/ \E i \in DOMAIN toS : toS[i] = out
           \/ \E i \in DOMAIN toC : Answer(toC[i])
           \/ spc = "alloc" /\ cur = out
    PROVE  LET S == {i \in DOMAIN toS : Outstanding(toS[i])}
               C == {i \in DOMAIN toC : toC[i].t = "reply" /\ toC[i].k = out.k
                                        /\ toC[i].b = out.b}
           IN  Cardinality(S) + Cardinality(C) + (IF Outstanding(cur) THEN 1 ELSE 0) = 1
<1>. DEFINE S == {i \in DOMAIN toS : Outstanding(toS[i])}
            C == {i \in DOMAIN toC : toC[i].t = "reply" /\ toC[i].k = out.k
                                     /\ toC[i].b = out.b}
            A == IF Outstanding(cur) THEN 1 ELSE 0
<1>1. out.k = k /\ k # None /\ csig /\ IsBatch(out)
  BY DEF IInv, Stages, Types, AllocationTypes, AnyBatch, IsBatch
<1>2. S = {i \in DOMAIN toS : toS[i] = out}
  BY DEF Outstanding
<1>3. C = {i \in DOMAIN toC : Answer(toC[i])}
  BY <1>1 DEF IInv, Once, AnswerInstead, Answer
<1>4. Outstanding(cur) <=> spc = "alloc" /\ cur = out
  <2>1. spc # "alloc" => cur.k = None
    BY MessageFacts DEF IInv, Stages
  <2>. QED
    BY <1>1, <2>1 DEF Outstanding
<1>5. Cardinality({}) = 0 /\ \A i : Cardinality({i}) = 1
  BY FS_EmptySet, FS_Singleton
<1>. SUFFICES Cardinality(S) + Cardinality(C) + A = 1
  OBVIOUS
<1>. HIDE DEF S, C, A
<1>6. CASE \E i \in DOMAIN toS : toS[i] = out
  <2>1. PICK i \in DOMAIN toS : toS[i] = out
    BY <1>6
  <2>2. S = {i}
    BY <1>1, <1>2, <2>1 DEF IInv, Once, OneOnItsWay
  <2>3. C = {} /\ ~Outstanding(cur)
    BY <1>1, <1>3, <1>4, <2>1 DEF IInv, Once, OneAllocated, AnswerInstead, NoneFrom
  <2>4. Cardinality(S) = 1 /\ Cardinality(C) = 0 /\ A = 0
    BY <1>5, <2>2, <2>3, Zenon DEF A
  <2>. QED
    BY <2>4
<1>7. CASE \E i \in DOMAIN toC : Answer(toC[i])
  <2>1. PICK i \in DOMAIN toC : Answer(toC[i])
    BY <1>7
  <2>2. C = {i} /\ NoneFrom(k) /\ ~(spc = "alloc" /\ cur.k = k)
    BY <1>3, <2>1 DEF IInv, Once, AnswerInstead
  <2>3. S = {} /\ ~Outstanding(cur)
    BY <1>1, <1>2, <1>4, <2>2 DEF NoneFrom
  <2>4. Cardinality(S) = 0 /\ Cardinality(C) = 1 /\ A = 0
    BY <1>5, <2>2, <2>3, Zenon DEF A
  <2>. QED
    BY <2>4
<1>8. CASE spc = "alloc" /\ cur = out
  <2>1. S = {} /\ C = {}
    BY <1>1, <1>2, <1>3, <1>8 DEF IInv, Once, OneAllocated, AnswerInstead, NoneFrom
  <2>2. Cardinality(S) = 0 /\ Cardinality(C) = 0 /\ A = 1
    BY <1>4, <1>5, <1>8, <2>1, Zenon DEF A
  <2>. QED
    BY <2>2
<1>. QED
  BY <1>6, <1>7, <1>8

\* A batch the client waits for is on its way, being allocated, answered, or
\* lost as lost says, and once only; as a foreign one, or to another client's
\* watcher, it is lost only after a goroutine of an ended session took the reset.
THEOREM BatchInOnePlace == Spec => []BatchNotForgotten
<1>1. IInv => BatchNotForgotten
  <2>. SUFFICES ASSUME IInv PROVE BatchNotForgotten
    OBVIOUS
  <2>1. TypeOK
    BY TypesBounded
  <2>2. lost \in {"foreign", "session"} => stolen
    BY DEF IInv, LostWithReset
  <2>. QED
    BY <2>1, <2>2, OnePlace, Zenon DEF IInv, Somewhere, BatchNotForgotten, Count
<1>. QED
  BY <1>1, SpecIInv, PTL
=============================================================================
