---------------------------- MODULE Replication ----------------------------
(***************************************************************************)
(* The write path of one replica group (backend/kvstore/kvstore.cc): a      *)
(* server that is not the primary relays a write of a frontend to the       *)
(* primary, and the primary forwards it to the servers it takes for live    *)
(* secondaries and logs it for those it takes for dead, one after the       *)
(* other, before it applies it itself. Roles and views are those of         *)
(* Membership and change while a request is being served.                   *)
(*                                                                         *)
(* Writes are unconditional (PUT, DELETE). A server's table, disk file and  *)
(* log appear as the sequence of writes it has applied: see Storage.        *)
(***************************************************************************)
EXTENDS Membership, SequencesExt

CONSTANTS Client,     \* frontends, each with one write
          MaxDepth    \* bound: nested handlers of a request that start a loop

ASSUME ReplicationAssumption == MaxDepth \in Nat \ {0}

VARIABLES
    applied,    \* writes applied by each server
    deadLog,    \* the "-deadServerLog" file of each server
    handlers,   \* threadFunc calls serving a client, the innermost last
    response,   \* the reply of the handler that has just returned
    outcome,    \* what the client was told
    committed,  \* writes carried out by a primary that was told of the deaths
    before,     \* clients answered when a client sent its write
    unrelayed,  \* writes for which a secondary could not reach a primary
    uninformed  \* servers that ran and were not told when a primary died

groupVars == <<vars, uninformed>>
requestVars == <<handlers, response, outcome, committed, before, unrelayed>>
allVars == <<groupVars, applied, deadLog, requestVars>>

\* "loop": forwardToAllSecondaryServers and the write to the own table;
\* "relay": forwardToPrimary; "apply": a write the primary has forwarded;
\* "mute": no branch of handleCommand applies; "gone": the process has died.
Handler == [at : Server,
            does : {"loop", "relay", "apply", "mute", "gone"},
            next : 0 .. NumServers]

Response == {"none", "ok", "err"}

ReplicationTypeOK ==
    /\ TypeOK
    /\ applied \in [Server -> Seq(Client)]
    /\ deadLog \in [Server -> Seq(Client)]
    /\ handlers \in [Client -> Seq(Handler)]
    /\ response \in [Client -> Response]
    /\ outcome \in [Client -> Response \union {"unsent"}]
    /\ committed \subseteq Client
    /\ before \in [Client -> SUBSET Client]
    /\ unrelayed \subseteq Client
    /\ uninformed \subseteq Server

ReplicationInit ==
    /\ Init
    /\ applied = [s \in Server |-> <<>>]
    /\ deadLog = [s \in Server |-> <<>>]
    /\ handlers = [c \in Client |-> <<>>]
    /\ response = [c \in Client |-> "none"]
    /\ outcome = [c \in Client |-> "unsent"]
    /\ committed = {}
    /\ before = [c \in Client |-> {}]
    /\ unrelayed = {}
    /\ uninformed = {}

-----------------------------------------------------------------------------
(* Calls of handlers and their returns.                                    *)

\* What handleCommand does at s with a command that comes from a frontend, a
\* secondary or the primary.
HandlerAt(s, from) ==
    [at |-> s,
     does |-> IF me[s] THEN "loop"
              ELSE IF from = "FRONTEND" THEN "relay"
              ELSE IF from = "PRIMARY" THEN "apply"
              ELSE "mute",
     next |-> 0]

\* The command reaches s, which runs. A disabled server answers -ERR.
Call(c, s, from) ==
    IF enabled[s]
    THEN /\ Len(handlers[c]) < MaxDepth \/ ~me[s]
         /\ handlers' = [handlers EXCEPT ![c] = Append(@, HandlerAt(s, from))]
         /\ response' = [response EXCEPT ![c] = "none"]
    ELSE /\ response' = [response EXCEPT ![c] = "err"]
         /\ UNCHANGED handlers

Return(c, r) ==
    /\ handlers' = [handlers EXCEPT ![c] = Front(@)]
    /\ response' = [response EXCEPT ![c] = r]

\* The innermost handler of c does d, and the call it waits for has given r.
Runs(c, d, r) ==
    /\ handlers[c] # <<>>
    /\ Last(handlers[c]).does = d
    /\ response[c] = r

Here(c) == Last(handlers[c]).at

\* The server of the list the loop of c has come to.
Visited(c) == Last(handlers[c]).next

AtServer(c) == Visited(c) < NumServers

\* Faulty variant: the iterator of the outermost handler is moved on.
AdvanceOutermost(c) ==
    /\ handlers' = [handlers EXCEPT ![c][1].next = @ + 1]
    /\ response' = [response EXCEPT ![c] = "none"]

Advance(c) ==
    /\ handlers' = [handlers EXCEPT ![c][Len(handlers[c])].next = @ + 1]
    /\ response' = [response EXCEPT ![c] = "none"]

ApplyAt(s, c) == applied' = [applied EXCEPT ![s] = Append(@, c)]

-----------------------------------------------------------------------------
(* forwardToAllSecondaryServers.                                           *)

Entry(c) == view[Here(c)][Visited(c)]

\* The entry of a primary, the own one as a rule, is passed over.
LoopSkipPrimary(c) ==
    /\ Runs(c, "loop", "none") /\ AtServer(c)
    /\ Entry(c).prim
    /\ Advance(c)
    /\ UNCHANGED <<groupVars, applied, deadLog, outcome, committed, before, unrelayed>>

\* Faulty variant: a server that is taken for dead is passed over.
LoopSkipDead(c) ==
    /\ Runs(c, "loop", "none") /\ AtServer(c)
    /\ ~Entry(c).prim /\ Entry(c).dead
    /\ Advance(c)
    /\ UNCHANGED <<groupVars, applied, deadLog, outcome, committed, before, unrelayed>>

\* The write is logged for a server that is taken for dead.
LoopLogForDead(c) ==
    /\ Runs(c, "loop", "none") /\ AtServer(c)
    /\ ~Entry(c).prim /\ Entry(c).dead
    /\ deadLog' = [deadLog EXCEPT ![Visited(c)] = Append(@, c)]
    /\ Advance(c)
    /\ UNCHANGED <<groupVars, applied, outcome, committed, before, unrelayed>>

\* The write is forwarded to a server that is taken for alive; if the
\* connection fails, so does the request.
LoopForward(c) ==
    /\ Runs(c, "loop", "none") /\ AtServer(c)
    /\ ~Entry(c).prim /\ ~Entry(c).dead
    /\ IF up[Visited(c)] THEN Call(c, Visited(c), "PRIMARY")
                         ELSE Return(c, "err")
    /\ UNCHANGED <<groupVars, applied, deadLog, outcome, committed, before, unrelayed>>

\* Faulty variant: an answer other than +OK is not taken for an answer.
LoopForwardedOnlyOK(c) ==
    /\ Runs(c, "loop", "ok")
    /\ Advance(c)
    /\ UNCHANGED <<groupVars, applied, deadLog, outcome, committed, before, unrelayed>>

LoopForwarded(c) ==
    /\ Runs(c, "loop", "ok") \/ Runs(c, "loop", "err")
    /\ IF response[c] = "ok" THEN Advance(c) ELSE Return(c, "err")
    /\ UNCHANGED <<groupVars, applied, deadLog, outcome, committed, before, unrelayed>>

\* s has been told of every death that matters to it: the master neither took
\* it for dead, nor replaced a primary without telling it.
Informed(s) == ~missed[s] /\ s \notin uninformed

\* Everyone has answered: the primary applies the write itself.
LoopDone(c) ==
    /\ Runs(c, "loop", "none") /\ ~AtServer(c)
    /\ ApplyAt(Here(c), c)
    /\ Return(c, "ok")
    /\ committed' = IF Informed(Here(c)) THEN committed \union {c} ELSE committed
    /\ UNCHANGED <<groupVars, deadLog, outcome, before, unrelayed>>

-----------------------------------------------------------------------------
(* The other handlers.                                                     *)

ApplyForwarded(c) ==
    /\ Runs(c, "apply", "none")
    /\ ApplyAt(Here(c), c)
    /\ Return(c, "ok")
    /\ UNCHANGED <<groupVars, deadLog, outcome, committed, before, unrelayed>>

\* forwardToPrimary: no connection is reported as 1, that is, as true. Before
\* the first status datagram primaryInfo has no address.
Relay(c) ==
    /\ Runs(c, "relay", "none")
    /\ LET p == primaryInfo[Here(c)]
       IN  IF p \in Server /\ up[p]
           THEN Call(c, p, "SECONDARY") /\ UNCHANGED unrelayed
           ELSE Return(c, "ok") /\ unrelayed' = unrelayed \union {c}
    /\ UNCHANGED <<groupVars, applied, deadLog, outcome, committed, before>>

\* Faulty variant: the reply of the primary is not looked at.
RelayedBlindly(c) ==
    /\ Runs(c, "relay", "ok") \/ Runs(c, "relay", "err")
    /\ Return(c, "ok")
    /\ UNCHANGED <<groupVars, applied, deadLog, outcome, committed, before, unrelayed>>

Relayed(c) ==
    /\ Runs(c, "relay", "ok") \/ Runs(c, "relay", "err")
    /\ Return(c, response[c])
    /\ UNCHANGED <<groupVars, applied, deadLog, outcome, committed, before, unrelayed>>

-----------------------------------------------------------------------------
(* Frontends.                                                              *)

Answered == {c \in Client : outcome[c] \in {"ok", "err"}}

\* A frontend sends its write to a server it is connected to.
Request(c, s) ==
    /\ outcome[c] = "unsent"
    /\ up[s]
    /\ Call(c, s, "FRONTEND")
    /\ outcome' = [outcome EXCEPT ![c] = "none"]
    /\ before' = [before EXCEPT ![c] = Answered]
    /\ UNCHANGED <<groupVars, applied, deadLog, committed, unrelayed>>

Reply(c) ==
    /\ outcome[c] = "none"
    /\ handlers[c] = <<>>
    /\ outcome' = [outcome EXCEPT ![c] = response[c]]
    /\ UNCHANGED <<groupVars, applied, deadLog, handlers, response, committed, before, unrelayed>>

-----------------------------------------------------------------------------
(* Failures.                                                               *)

\* The handlers of a process that dies never answer: their callers read from
\* a closed connection for ever.
ServerCrash(s) ==
    /\ Crash(s)
    /\ handlers' = [c \in Client |-> [i \in 1 .. Len(handlers[c]) |->
                      IF handlers[c][i].at = s
                      THEN [handlers[c][i] EXCEPT !.does = "gone"]
                      ELSE handlers[c][i]]]
    /\ uninformed' = uninformed \ {s}
    /\ UNCHANGED <<applied, deadLog, response, outcome, committed, before, unrelayed>>

\* crashRecoveryFunction: the writes logged for s are applied, and the log is
\* emptied.
Recover(s) ==
    /\ applied' = [applied EXCEPT ![s] = @ \o deadLog[s]]
    /\ deadLog' = [deadLog EXCEPT ![s] = <<>>]
    /\ UNCHANGED <<requestVars, uninformed>>

ServerStart(s) == Start(s) /\ Recover(s)

ServerEnable(s) == Enable(s) /\ Recover(s)

\* A server that runs but is not counted alive yet may not be told that the
\* primary has died, while it was told of an earlier one.
ServerSuspect(s) ==
    /\ Suspect(s)
    /\ uninformed' = uninformed \union
          {r \in Server : isPrimary[s] /\ up[r] /\ \A m \in sent' : m.to # r}
    /\ UNCHANGED <<applied, deadLog, requestVars>>

MembershipStep(s) ==
    /\ Heartbeat(s) \/ Silence(s) \/ ReceiveStatus(s) \/ Disable(s)
    /\ UNCHANGED <<applied, deadLog, requestVars, uninformed>>

RequestStep(c) ==
    \/ LoopSkipPrimary(c) \/ LoopLogForDead(c) \/ LoopForward(c)
    \/ LoopForwarded(c) \/ LoopDone(c)
    \/ ApplyForwarded(c)
    \/ Relay(c) \/ Relayed(c)
    \/ Reply(c)

ReplicationNext ==
    \/ \E s \in Server :
          \/ MembershipStep(s) \/ ServerSuspect(s)
          \/ ServerCrash(s) \/ ServerStart(s) \/ ServerEnable(s)
    \/ \E c \in Client :
          \/ RequestStep(c)
          \/ \E s \in Server : Request(c, s)

\* The threads of the servers run. Nothing is assumed of roles and failures.
ReplicationFairness == \A c \in Client : WF_allVars(RequestStep(c))

ReplicationSpec ==
    ReplicationInit /\ [][ReplicationNext]_allVars /\ ReplicationFairness

-----------------------------------------------------------------------------
(* Properties.                                                             *)

\* The writes of server s once it has recovered, in the order of replay.
History(s) == applied[s] \o deadLog[s]

Holds(s, c) == c \in ToSet(History(s))

\* A write that a primary has carried out is held by every server of the
\* group, in its table or in its dead-server log: whatever roles, views and
\* failures change while the loop over the servers runs, no server is
\* neither forwarded to nor logged for, and recovery loses nothing.
CommittedIsHeld == \A c \in committed, s \in Server : Holds(s, c)

\* A request either is answered, or waits for a process that has died or for
\* one that does not know its role, or is passed back and forth by servers
\* that both believe to be the primary: handlers that call each other do not
\* otherwise wait for ever.
WaitsOnlyForFailure ==
    \A c \in Client :
        outcome[c] = "none" ~>
            \/ outcome[c] \in {"ok", "err"}
            \/ /\ handlers[c] # <<>>
               /\ Last(handlers[c]).does \in {"gone", "mute"}
            \/ Len(handlers[c]) >= MaxDepth

\* The comments of handleCommand: +OK is sent when the primary has the write
\* and OK responses from the secondaries. An acknowledged write has been
\* applied somewhere, whoever was asked and whatever roles the servers on its
\* way had, except for the one that forwardToPrimary reports as true although
\* it found no primary to connect to.
AckedIsApplied ==
    \A c \in Client :
        outcome[c] = "ok" /\ c \notin unrelayed =>
            \E s \in Server : c \in ToSet(applied[s])

\* Consistency: writes acknowledged one after the other are held by every
\* server in that order, so that the newer one wins.
OrderKept ==
    \A c, d \in Client :
        /\ outcome[c] = "ok" /\ outcome[d] = "ok"
        /\ c \in before[d]
        => \A s \in Server : Holds(s, c) /\ Holds(s, d) =>
              SelectLastInSeq(History(s), LAMBDA e : e = c)
                < SelectLastInSeq(History(s), LAMBDA e : e = d)
=============================================================================
