-------------------------- MODULE TelemostPairing ---------------------------
(***************************************************************************)
(* How the participants of a Telemost conference find each other: the      *)
(* server's runTelemostMode and runTelemostSession, the client's           *)
(* RunTelemost and ConnectPaired, and the conference they see through      *)
(* GoloomClient.  Participant i of the server and participant i of the     *)
(* client have names derived from the auth token; each pins the other and  *)
(* derives a session key from both participant IDs.  A process that        *)
(* crashes leaves ghosts: participants still listed with their names.      *)
(*                                                                         *)
(* Participant IDs are numbered by session or run, side and index.  A      *)
(* participant is only told of those with the name it looks for; the       *)
(* others it skips.                                                        *)
(* The frames of a connection are reliable here (see RTPConn).             *)
(***************************************************************************)
EXTENDS Integers, Sequences, FiniteSets

CONSTANTS
    NumConns,     \* connections, the same on both sides
    MaxStarts,    \* bound: server sessions and client runs together
    MaxFaults     \* bound: failed steps and crashes of the server

ASSUME PairingAssumption ==
    {NumConns, MaxStarts} \subseteq Nat \ {0} /\ MaxFaults \in Nat

Idx == 1..NumConns
None == 0
Ids == 1..(2 * NumConns * MaxStarts)

\* The participants of the n-th session and of the n-th run.
SrvId(n, i) == 2 * NumConns * (n - 1) + i
CliId(n, i) == 2 * NumConns * (n - 1) + NumConns + i
RunOf(p) == (p - 1) \div (2 * NumConns) + 1
Junk == -1   \* frames that are not the auth token and the session ID

VARIABLES
    parts,     \* every participant: its state and its pin
    faults,    \* faults that may still happen
    \* server
    sessions,  \* sessions started
    spc,       \* off, setup, wait, auth, serve
    sst,       \* i -> none, joined, set, pinned, ready, failed, added, closed
    me,        \* i -> participant ID of the server's connection i
    speer,     \* i -> the participant it pinned
    upserts,   \* i -> its upsertUpdates
    rx,        \* i -> what it can read: None, Junk or a session ID
    turn,      \* connection whose token and session ID are read next
    firstSID,  \* firstSessionID
    \* client
    run,       \* the current run, and its session ID
    cpc,       \* off, setup, find, probe, pinned, send, up
    ci,        \* index it is connecting or writing to
    cid,       \* i -> participant ID of the client's connection i
    updates,   \* peerUpdates of the participant being connected
    cupserts,  \* upsertUpdates of that participant
    cands      \* candidates still to be probed

srvVars == <<sessions, spc, sst, me, speer, upserts, rx, turn, firstSID>>
cliVars == <<run, cpc, ci, cid, updates, cupserts, cands>>
vars == <<parts, faults, srvVars, cliVars>>

-----------------------------------------------------------------------------
(* The conference.                                                         *)

All(v) == [i \in Idx |-> v]

Init ==
    /\ parts = [p \in Ids |-> [st |-> "new", peer |-> None]]
    /\ faults = MaxFaults
    /\ sessions = 0 /\ spc = "off" /\ sst = All("none") /\ me = All(None)
    /\ speer = All(None) /\ upserts = All(<<>>) /\ rx = All(None)
    /\ turn = 1 /\ firstSID = None
    /\ run = 0 /\ cpc = "off" /\ ci = 1 /\ cid = All(None)
    /\ updates = <<>> /\ cupserts = <<>> /\ cands = {}

\* A ghost still sends video as far as its description says.
IsLive(p) == parts[p].st \in {"named", "ghost"}

\* The listed participants with the name of the server's index i, as an
\* updateDescription tells them.
Named(i) == {p \in {SrvId(n, i) : n \in 1..MaxStarts} : IsLive(p)}

Live(p) == parts[p].st = "named"

\* hello: the participant is in the conference under a random name.
Join(p) == parts' = [parts EXCEPT ![p].st = "joined"]

WithState(ids, st) ==
    [p \in Ids |->
        IF p \in ids /\ parts[p].st \in {"joined", "named"}
        THEN [parts[p] EXCEPT !.st = st] ELSE parts[p]]

\* GoloomClient.Close sends leave.
Leave(ids) == WithState(ids, "gone")

\* The process ends without a leave: its participants stay listed.
Abandon(ids) ==
    [p \in Ids |->
        IF p \in ids /\ parts[p].st \in {"joined", "named"}
        THEN [parts[p] EXCEPT !.st = IF @ = "named" THEN "ghost" ELSE "gone"]
        ELSE parts[p]]

\* The media server drops a ghost.
GhostExpires ==
    /\ \E p \in Ids : /\ parts[p].st = "ghost"
                               /\ parts' = [parts EXCEPT ![p].st = "gone"]
    /\ UNCHANGED <<faults, srvVars, cliVars>>

\* Mutation: the key of the connection index alone, as before session keys.
IndexKey(i, a, b) == <<i, {}>>
\* Mutation: the two IDs are not sorted.
UnsortedKey(i, a, b) == <<i, a, b>>
SessionKey(i, a, b) == <<i, {a, b}>>

\* The track of some participant reached the subscriber; before the pin any
\* of them does, and ResetForPin does not reset subReady.
SubReady(p) == \E q \in Ids \ {p} : Live(q)

Fault == faults > 0 /\ faults' = faults - 1

-----------------------------------------------------------------------------
(* The server.                                                             *)

SrvStart ==
    /\ spc = "off" /\ sessions + run < MaxStarts
    /\ sessions' = sessions + 1 /\ spc' = "setup"
    /\ UNCHANGED <<parts, faults, sst, me, speer, upserts, rx, turn, firstSID,
                   cliVars>>

\* SetupNamedIndexed up to the hello; WaitForNewPeerByName does not look at
\* the participants that updateDescription lists.
SrvJoin(i) ==
    /\ spc = "setup" /\ sst[i] = "none"
    /\ me' = [me EXCEPT ![i] = SrvId(sessions, i)]
    /\ Join(me'[i])
    /\ sst' = [sst EXCEPT ![i] = "joined"]
    /\ UNCHANGED <<faults, sessions, spc, speer, upserts, rx, turn, firstSID, cliVars>>

\* SendUpdateMe gives it its name; the client's participant that looks for
\* the name gets an upsertDescription, which goes to both of its channels.
SrvAnnounce(i) ==
    /\ spc = "setup" /\ sst[i] = "joined"
    /\ parts' = [parts EXCEPT ![me[i]].st = "named"]
    /\ sst' = [sst EXCEPT ![i] = "set"]
    /\ IF ci = i /\ cid[i] # None /\ cpc \in {"setup", "find"}
       THEN /\ updates' = Append(updates, {me[i]})
            /\ cupserts' = Append(cupserts, me[i])
       ELSE UNCHANGED <<updates, cupserts>>
    /\ UNCHANGED <<faults, sessions, spc, me, speer, upserts, rx, turn, firstSID,
                   run, cpc, ci, cid, cands>>

\* Phase 2 begins once every setup has returned.
SrvPhase2 ==
    /\ spc = "setup" /\ \A i \in Idx : sst[i] \in {"set", "failed"}
    /\ spc' = "wait"
    /\ UNCHANGED <<parts, faults, sessions, sst, me, speer, upserts, rx, turn,
                   firstSID, cliVars>>

\* WaitPinReady: WaitForNewPeerByName returns the next upsert with the name,
\* then PinToPeer and ResetForPin.  Nothing reads the channel after that.
SrvFinds(i) ==
    /\ spc = "wait" /\ sst[i] = "set" /\ upserts[i] # <<>>
    /\ speer' = [speer EXCEPT ![i] = Head(upserts[i])]
    /\ upserts' = [upserts EXCEPT ![i] = <<>>]
    /\ sst' = [sst EXCEPT ![i] = "pinned"]
    /\ UNCHANGED <<parts, faults, sessions, spc, me, rx, turn, firstSID, cliVars>>

\* WaitReady returned; from here on the session key is set.
SrvReady(i) ==
    /\ spc = "wait" /\ sst[i] = "pinned" /\ SubReady(me[i])
    /\ sst' = [sst EXCEPT ![i] = "ready"]
    /\ UNCHANGED <<parts, faults, sessions, spc, me, speer, upserts, rx, turn,
                   firstSID, cliVars>>

SrvGivesUp(i) ==
    /\ sst' = [sst EXCEPT ![i] = "failed"]
    /\ parts' = Leave({me[i]})
    /\ UNCHANGED <<sessions, spc, me, speer, upserts, rx, turn, firstSID, cliVars>>

\* Any error of SetupNamedIndexed or WaitPinReady: the participant leaves.
SrvConnFails(i) ==
    /\ spc \in {"setup", "wait"} /\ sst[i] \in {"none", "joined", "set", "pinned"}
    /\ Fault /\ SrvGivesUp(i)

\* dcOpenTimeout: no track at all.
SrvTrackTimeout(i) ==
    /\ spc = "wait" /\ sst[i] = "pinned" /\ ~SubReady(me[i])
    /\ SrvGivesUp(i) /\ UNCHANGED faults

\* The deferred cleanups, and the return to the loop of runTelemostMode.
EndSession ==
    /\ parts' = Leave({me[i] : i \in Idx})
    /\ spc' = "off" /\ sst' = All("none") /\ me' = All(None)
    /\ speer' = All(None) /\ upserts' = All(<<>>) /\ rx' = All(None)
    /\ turn' = 1 /\ firstSID' = None
    /\ UNCHANGED <<sessions, cliVars>>

\* wg.Wait of phase 2: every connection is ready or has failed.
SrvCollect ==
    /\ spc = "wait" /\ \A i \in Idx : sst[i] \in {"ready", "failed"}
    /\ IF \E i \in Idx : sst[i] = "ready"
       THEN /\ spc' = "auth"
            /\ UNCHANGED <<parts, sessions, sst, me, speer, upserts, rx, turn,
                           firstSID, cliVars>>
       ELSE EndSession
    /\ UNCHANGED faults

\* Mutation: the session ID of later connections is not compared.
AcceptAny(sid) == sid # Junk
\* ValidateAuthToken and ReadSessionID succeed, and the session is the first's.
Accept(sid) == sid # Junk /\ firstSID \in {None, sid}

\* One round of the loop over conns.  It blocks until the connection has
\* something to read.
SrvHandshake ==
    /\ spc = "auth" /\ turn \in Idx
    /\ \/ sst[turn] = "failed" /\ UNCHANGED <<sst, firstSID>>
       \/ /\ sst[turn] = "ready" /\ rx[turn] # None
          /\ IF Accept(rx[turn])
             THEN /\ sst' = [sst EXCEPT ![turn] = "added"]
                  /\ firstSID' = IF firstSID = None THEN rx[turn] ELSE firstSID
             ELSE sst' = [sst EXCEPT ![turn] = "closed"] /\ UNCHANGED firstSID
    /\ turn' = turn + 1
    /\ UNCHANGED <<parts, faults, sessions, spc, me, speer, upserts, rx, cliVars>>

Serving(i) == sst[i] = "added"

SrvServes ==
    /\ spc = "auth" /\ turn > NumConns
    /\ IF \E i \in Idx : Serving(i)
       THEN /\ spc' = "serve" /\ turn' = 1
            /\ UNCHANGED <<parts, sessions, sst, me, speer, upserts, rx, firstSID,
                           cliVars>>
       ELSE EndSession
    /\ UNCHANGED faults

\* A connection of the mux dies: a write to the publisher's track fails or a
\* hole in the stream lasts.  That the other side is gone does neither, and
\* RTPConn has no SetReadDeadline for the mux's idle timeout.
ConnDies(i) ==
    /\ spc = "serve" /\ Serving(i) /\ Fault
    /\ sst' = [sst EXCEPT ![i] = "closed"]
    /\ UNCHANGED <<parts, sessions, spc, me, speer, upserts, rx, turn, firstSID,
                   cliVars>>

\* sess.m.Dead()
SrvDead ==
    /\ spc = "serve" /\ ~\E i \in Idx : Serving(i)
    /\ EndSession /\ UNCHANGED faults

SrvCrash ==
    /\ spc # "off" /\ Fault
    /\ parts' = Abandon({me[i] : i \in Idx})
    /\ spc' = "off" /\ sst' = All("none") /\ me' = All(None)
    /\ speer' = All(None) /\ upserts' = All(<<>>) /\ rx' = All(None)
    /\ turn' = 1 /\ firstSID' = None
    /\ UNCHANGED <<sessions, cliVars>>

-----------------------------------------------------------------------------
(* The client.                                                             *)

CliStart ==
    /\ cpc = "off" /\ sessions + run < MaxStarts
    /\ run' = run + 1 /\ cpc' = "setup" /\ ci' = 1
    /\ UNCHANGED <<parts, faults, srvVars, cid, updates, cupserts, cands>>

\* The hello of ConnectPaired's participant; its updateDescription is the
\* first entry of peerUpdates.
CliJoin ==
    /\ cpc = "setup" /\ cid[ci] = None
    /\ cid' = [cid EXCEPT ![ci] = CliId(run, ci)]
    /\ Join(cid'[ci])
    /\ updates' = <<Named(ci)>> /\ cupserts' = <<>>
    /\ UNCHANGED <<faults, srvVars, run, cpc, ci, cands>>

\* SendUpdateMe: the server's participant with this index gets the upsert.
CliAnnounce ==
    /\ cpc = "setup" /\ cid[ci] # None
    /\ parts' = [parts EXCEPT ![cid[ci]].st = "named"]
    /\ upserts' = IF sst[ci] \in {"joined", "set"}
                  THEN [upserts EXCEPT ![ci] = Append(@, cid[ci])] ELSE upserts
    /\ cpc' = "find"
    /\ UNCHANGED <<faults, sessions, spc, sst, me, speer, rx, turn, firstSID,
                   run, ci, cid, updates, cupserts, cands>>

NextIndex(conns) ==
    IF ci < NumConns
    THEN cpc' = "setup" /\ ci' = ci + 1
    ELSE /\ cpc' = IF \E i \in Idx : conns[i] # None THEN "send" ELSE "off"
         /\ ci' = 1

\* PinToPeer and ResetForPin; the session key is set from both IDs.
Pin(p) == parts' = [parts EXCEPT ![cid[ci]].peer = p]

\* Nothing reads the two channels after FindAllPeersByName.
ForgetUpdates == updates' = <<>> /\ cupserts' = <<>>

\* FindAllPeersByName takes a list of peerUpdates: one match is pinned,
\* several are probed.
CliFindsListed ==
    /\ cpc = "find" /\ updates # <<>>
    /\ LET matches == Head(updates)
       IN  \/ /\ matches = {} /\ updates' = Tail(updates)
              /\ UNCHANGED <<parts, cpc, cupserts, cands>>
           \/ /\ Cardinality(matches) = 1 /\ \E p \in matches : Pin(p)
              /\ cpc' = "pinned" /\ ForgetUpdates /\ UNCHANGED cands
           \/ /\ Cardinality(matches) > 1 /\ cands' = matches
              /\ cpc' = "probe" /\ ForgetUpdates /\ UNCHANGED parts
    /\ UNCHANGED <<faults, srvVars, run, ci, cid>>

\* ... or a fresh joiner of upsertUpdates, which is the only candidate.
CliFindsFresh ==
    /\ cpc = "find" /\ cupserts # <<>>
    /\ Pin(Head(cupserts)) /\ cpc' = "pinned"
    /\ ForgetUpdates
    /\ UNCHANGED <<faults, srvVars, run, ci, cid, cands>>

\* The connection is returned to RunTelemost.
CliReady ==
    /\ cpc = "pinned" /\ SubReady(cid[ci])
    /\ NextIndex(cid)
    /\ UNCHANGED <<parts, faults, srvVars, run, cid, updates, cupserts, cands>>

\* ConnectPaired failed: the participant leaves and the index is skipped.
CliSkips ==
    /\ cid' = [cid EXCEPT ![ci] = None]
    /\ NextIndex(cid')
    /\ parts' = Leave({cid[ci]})
    /\ ForgetUpdates
    /\ UNCHANGED <<srvVars, run>>

\* The server's participant writes to this one only once its mux has it.
HasValidData(p) ==
    \E i \in Idx : me[i] = p /\ Serving(i) /\ speer[i] = cid[ci]

\* A candidate is pinned and sends no valid data for probeTimeout.
CliProbe ==
    /\ cpc = "probe"
    /\ \E p \in cands :
          /\ ~HasValidData(p)
          /\ cands' = cands \ {p}
          /\ IF cands = {p} THEN CliSkips
             ELSE Pin(p) /\ UNCHANGED <<srvVars, run, cpc, ci, cid, updates, cupserts>>
    /\ UNCHANGED faults

CliTrackTimeout ==
    /\ cpc = "pinned" /\ ~SubReady(cid[ci])
    /\ CliSkips /\ UNCHANGED <<faults, cands>>

CliConnFails ==
    /\ cpc \in {"setup", "find", "pinned"} /\ cid[ci] # None
    /\ Fault /\ CliSkips /\ UNCHANGED cands

\* Server connection j hears what client connection i sends.
Hears(j, i) ==
    /\ cid[i] # None /\ sst[j] = "ready" /\ speer[j] = cid[i]
    /\ SessionKey(j, me[j], speer[j]) = SessionKey(i, cid[i], parts[cid[i]].peer)

Receive(i, what) ==
    rx' = [j \in Idx |-> IF Hears(j, i) /\ rx[j] = None THEN what ELSE rx[j]]

\* WriteAuthToken and WriteSessionID on connection ci.
CliSend ==
    /\ cpc = "send"
    /\ Receive(ci, run)
    /\ IF ci < NumConns THEN ci' = ci + 1 /\ UNCHANGED cpc
       ELSE ci' = 1 /\ cpc' = "up"
    /\ UNCHANGED <<parts, faults, sessions, spc, sst, me, speer, upserts, turn,
                   firstSID, run, cid, updates, cupserts, cands>>

\* Pings of the client's mux.
CliPings(i) ==
    /\ cpc = "up" /\ Receive(i, Junk) /\ rx' # rx
    /\ UNCHANGED <<parts, faults, sessions, spc, sst, me, speer, upserts, turn,
                   firstSID, cliVars>>

CliStops ==
    /\ cpc # "off" /\ cpc' = "off" /\ ci' = 1 /\ cid' = All(None)
    /\ ForgetUpdates /\ cands' = {}
    /\ UNCHANGED <<faults, srvVars, run>>

\* The context is cancelled and the cleanups leave the conference.
CliExits == CliStops /\ parts' = Leave({cid[i] : i \in Idx})

CliCrash == CliStops /\ parts' = Abandon({cid[i] : i \in Idx})

-----------------------------------------------------------------------------
SrvStep(i) ==
    \/ SrvJoin(i) \/ SrvAnnounce(i) \/ SrvFinds(i) \/ SrvReady(i)
    \/ SrvTrackTimeout(i)

SrvLoop ==
    SrvStart \/ SrvPhase2 \/ SrvCollect \/ SrvHandshake \/ SrvServes \/ SrvDead

CliStep ==
    \/ CliJoin \/ CliAnnounce \/ CliFindsListed \/ CliFindsFresh \/ CliReady
    \/ CliProbe \/ CliTrackTimeout \/ CliSend

Next ==
    \/ SrvLoop \/ \E i \in Idx : SrvStep(i)
    \/ CliStep \/ CliStart \/ \E i \in Idx : CliPings(i)
    \/ GhostExpires
    \/ \E i \in Idx : SrvConnFails(i) \/ ConnDies(i)
    \/ SrvCrash \/ CliConnFails \/ CliExits \/ CliCrash

\* Every goroutine that can take a step takes it, the mux pings, and the
\* media server drops ghosts.  Nothing makes a fault happen or a client start.
Fairness ==
    /\ WF_vars(SrvLoop) /\ WF_vars(CliStep) /\ WF_vars(GhostExpires)
    /\ \A i \in Idx : WF_vars(SrvStep(i)) /\ WF_vars(CliPings(i))

Spec == Init /\ [][Next]_vars /\ Fairness

-----------------------------------------------------------------------------
(* Properties.                                                             *)

\* Types; the client works on one of its indexes.
TypeOK ==
    /\ parts \in [Ids -> [st : {"new", "joined", "named", "ghost", "gone"},
                           peer : Ids \cup {None}]]
    /\ faults \in 0..MaxFaults /\ sessions \in 0..MaxStarts /\ run \in 0..MaxStarts
    /\ spc \in {"off", "setup", "wait", "auth", "serve"}
    /\ sst \in [Idx -> {"none", "joined", "set", "pinned", "ready", "failed",
                        "added", "closed"}]
    /\ me \in [Idx -> Ids \cup {None}] /\ speer \in [Idx -> Ids \cup {None}]
    /\ upserts \in [Idx -> Seq(Ids)] /\ rx \in [Idx -> -1..MaxStarts]
    /\ turn \in 1..(NumConns + 1) /\ firstSID \in 0..MaxStarts
    /\ cpc \in {"off", "setup", "find", "probe", "pinned", "send", "up"}
    /\ ci \in Idx /\ cid \in [Idx -> Ids \cup {None}]
    /\ updates \in Seq(SUBSET Ids) /\ cupserts \in Seq(Ids)
    /\ cands \subseteq Ids

\* A connection joins a session only when its two participants pinned each
\* other: a client that pinned a ghost of the server's participant is never
\* served by the live one, although both have the index and the name in
\* common (DeriveSessionObfuscationKey, sortedPairID).
AcceptedMutual ==
    /\ TypeOK
    /\ \A i \in Idx : Serving(i) => parts[speer[i]].peer = me[i]

\* The connections of one session all belong to one run of the client, though
\* its participants may have paired with clients that came one after another
\* (the session ID comparison of runTelemostSession).
OneClientPerSession ==
    \A i, j \in Idx :
        Serving(i) /\ Serving(j) => RunOf(speer[i]) = RunOf(speer[j])

\* A client that starts when every participant of the server waits for it, no
\* ghost has a server's name and nothing fails, is served, unless it leaves or
\* the server's key came too late for what the client wrote first.
FreshStart ==
    /\ faults = 0 /\ cpc = "setup" /\ ci = 1 /\ cid = All(None)
    /\ spc = "wait"
    /\ \A i \in Idx : sst[i] = "set" /\ upserts[i] = <<>> /\ Named(i) = {me[i]}
ServesFreshClient ==
    FreshStart ~> (spc = "serve" \/ cpc = "off" \/ \E i \in Idx : rx[i] = Junk)

=============================================================================
