------------------------------- MODULE Master -------------------------------
(***************************************************************************)
(* The master node of the key-value store (backend/kvstore/master.cc), seen *)
(* by one replica group: heartbeat bookkeeping, election of the primary,    *)
(* the status datagrams sent to the servers of the group, and the           *)
(* round-robin answer to a frontend's GET_SERVER request.                   *)
(*                                                                         *)
(* Every handler is one action. The two threads that run them, and what     *)
(* happens when the handlers overlap, are the subject of MasterThreads.     *)
(* Replica groups share no state of the master but the maps they index, so  *)
(* one group is modelled.                                                   *)
(***************************************************************************)
EXTENDS Integers

CONSTANT NumServers   \* servers of the group in config.txt

ASSUME NumServersAssumption == NumServers \in Nat \ {0}

\* servers[replicaGroup] is a vector: a server is its index in config order.
Server == 0 .. NumServers - 1

NoServer == -1

VARIABLES
    isDead,               \* ServerInfo.isDead
    isPrimary,            \* ServerInfo.isPrimary
    primaryServers,       \* primaryServers[group], NoServer when erased
    lastHeartbeat,        \* last_heartbeat: no entry, recent, or too old
    nextServerRoundRobin, \* where the next GET_SERVER starts
    selected,             \* the latest answer to GET_SERVER
    sent                  \* the status datagrams the latest handler sent

electionVars == <<isDead, isPrimary, primaryServers>>
requestVars == <<nextServerRoundRobin, selected>>
vars == <<isDead, isPrimary, primaryServers, lastHeartbeat,
          nextServerRoundRobin, selected, sent>>

Role == {"PRIMARY", "SECONDARY"}

\* The status datagram sent to udpPort2 of a server: the role of the
\* receiver, the primary named to a secondary, the new secondary named to
\* the primary, and the server reported dead after ";".
Status == [to : Server,
           role : Role,
           primary : Server \union {NoServer},
           newSecondary : Server \union {NoServer},
           dead : Server \union {NoServer}]

HeartbeatAge == {"none", "fresh", "stale"}

TypeOK ==
    /\ isDead \in [Server -> BOOLEAN]
    /\ isPrimary \in [Server -> BOOLEAN]
    /\ primaryServers \in Server \union {NoServer}
    /\ lastHeartbeat \in [Server -> HeartbeatAge]
    /\ nextServerRoundRobin \in Server
    /\ selected \in Server \union {NoServer}
    /\ sent \subseteq Status

Init ==
    /\ isDead = [s \in Server |-> TRUE]
    /\ isPrimary = [s \in Server |-> FALSE]
    /\ primaryServers = NoServer
    /\ lastHeartbeat = [s \in Server |-> "none"]
    /\ nextServerRoundRobin = 0
    /\ selected = NoServer
    /\ sent = {}

Alive == {s \in Server : ~isDead[s]}

-----------------------------------------------------------------------------
(* Faulty variants of the definitions below. No specification uses them:   *)
(* each stands for a slip in the code that a property must notice.         *)

\* A revived server takes over although the group has a primary.
FirstOfGroupIgnored == TRUE

\* The scan passes over the primary.
TimedOutSecondary(s) == lastHeartbeat[s] = "stale" /\ primaryServers # s

\* The entry of a dead server stays in last_heartbeat.
EntryKept(s) == lastHeartbeat

\* The election does not skip dead servers.
FirstListedBut(s) ==
    IF Alive \ {s} = {} THEN NoServer
    ELSE CHOOSE t \in Server \ {s} : \A u \in Server \ {s} : t <= u

\* The election runs before the dying server is marked dead.
FirstAliveAtAll(s) == CHOOSE t \in Alive : \A u \in Alive : t <= u

\* Only the promoted server is told.
ListedAt(t) == {t}

\* The stored index is not reduced.
IndexAfterUnwrapped(s) == s + 1

\* The stored index advances from the start of the search, not its end.
IndexAfterStart(s) == (nextServerRoundRobin + 1) % NumServers

-----------------------------------------------------------------------------
(* Status datagrams.                                                       *)

\* sendIsPrimary: the text says PRIMARY or names the primary to a secondary.
RoleStatus(r, asPrimary, primary, dead) ==
    [to |-> r,
     role |-> IF asPrimary THEN "PRIMARY" ELSE "SECONDARY",
     primary |-> IF asPrimary THEN NoServer ELSE primary,
     newSecondary |-> NoServer,
     dead |-> dead]

\* sendNewSecondaryInfoToPrimary
NewSecondaryStatus(r, s) ==
    [to |-> r, role |-> "PRIMARY", primary |-> NoServer,
     newSecondary |-> s, dead |-> NoServer]

-----------------------------------------------------------------------------
(* recvHeartbeat: a heartbeat datagram of server s.                        *)

\* A server that is already alive: only its time stamp is refreshed.
HeartbeatOfAlive(s) ==
    /\ ~isDead[s]
    /\ lastHeartbeat' = [lastHeartbeat EXCEPT ![s] = "fresh"]
    /\ sent' = {}
    /\ UNCHANGED <<electionVars, requestVars>>

\* primaryServers.find(replicaGroup) == primaryServers.end()
FirstOfGroup == primaryServers = NoServer

\* A server that is new or back: it becomes the primary when the group has
\* none, it is told its role, and the primary is told of a new secondary.
HeartbeatOfRevived(s) ==
    LET prim == IF FirstOfGroup THEN s ELSE primaryServers
    IN  /\ isDead[s]
        /\ isDead' = [isDead EXCEPT ![s] = FALSE]
        /\ isPrimary' = [isPrimary EXCEPT ![s] = @ \/ FirstOfGroup]
        /\ primaryServers' = prim
        /\ sent' = {RoleStatus(s, isPrimary'[s], prim, NoServer)}
                   \union IF isPrimary'[s] THEN {}
                          ELSE {NewSecondaryStatus(prim, s)}
        /\ lastHeartbeat' = [lastHeartbeat EXCEPT ![s] = "fresh"]
        /\ UNCHANGED requestVars

-----------------------------------------------------------------------------
(* checkHeartbeats: an entry of last_heartbeat is older than               *)
(* DEAD_THRESHOLD.                                                         *)

\* DEAD_THRESHOLD milliseconds pass without a heartbeat of s.
HeartbeatExpires(s) ==
    /\ lastHeartbeat[s] = "fresh"
    /\ lastHeartbeat' = [lastHeartbeat EXCEPT ![s] = "stale"]
    /\ sent' = {}
    /\ UNCHANGED <<electionVars, requestVars>>

\* The age test of an entry of last_heartbeat.
TimedOut(s) == lastHeartbeat[s] = "stale"

\* last_heartbeat.erase(it)
EntryErased(s) == [lastHeartbeat EXCEPT ![s] = "none"]

\* The first live server of the list other than s, NoServer if there is none.
FirstAliveBut(s) ==
    IF Alive \ {s} = {} THEN NoServer
    ELSE CHOOSE t \in Alive \ {s} : \A u \in Alive \ {s} : t <= u

\* The servers the promotion loop still visits once t is promoted.
ListedFrom(t) == {r \in Server : r >= t}

\* The primary is dead: the first live server is promoted, and every server
\* after it in the list, dead or alive, is told of the new primary.
PrimaryDies(s) ==
    LET new == FirstAliveBut(s)
    IN  /\ TimedOut(s)
        /\ isPrimary[s]
        /\ isDead' = [isDead EXCEPT ![s] = TRUE]
        /\ isPrimary' = [r \in Server |-> IF r = s THEN FALSE
                                          ELSE r = new \/ isPrimary[r]]
        /\ primaryServers' = new
        /\ sent' = IF new = NoServer THEN {}
                   ELSE {RoleStatus(r, r = new, new, s) : r \in ListedFrom(new)}
        /\ lastHeartbeat' = EntryErased(s)
        /\ UNCHANGED requestVars

\* A secondary is dead: every live server is told, with its own role.
SecondaryDies(s) ==
    /\ TimedOut(s)
    /\ ~isPrimary[s]
    /\ isDead' = [isDead EXCEPT ![s] = TRUE]
    /\ sent' = {RoleStatus(r, isPrimary[r], primaryServers, s) :
                  r \in Alive \ {s}}
    /\ lastHeartbeat' = EntryErased(s)
    /\ UNCHANGED <<isPrimary, primaryServers, requestVars>>

-----------------------------------------------------------------------------
(* handleIncomingRequests: GET_SERVER of a frontend.                       *)

\* The i-th server looked at by the do-while loop.
Probe(i) == (nextServerRoundRobin + i) % NumServers

\* The index stored for the next request when server s is chosen.
IndexAfter(s) == (s + 1) % NumServers

\* A live server is found after i dead ones.
GetServer(i) ==
    /\ ~isDead[Probe(i)]
    /\ \A j \in 0 .. i - 1 : isDead[Probe(j)]
    /\ selected' = Probe(i)
    /\ nextServerRoundRobin' = IndexAfter(Probe(i))
    /\ sent' = {}
    /\ UNCHANGED <<electionVars, lastHeartbeat>>

\* -ERR NO_SERVERS_ALIVE
GetServerFails ==
    /\ Alive = {}
    /\ selected' = NoServer
    /\ sent' = {}
    /\ UNCHANGED <<electionVars, lastHeartbeat, nextServerRoundRobin>>

-----------------------------------------------------------------------------
Next ==
    \/ \E s \in Server :
          \/ HeartbeatOfAlive(s)
          \/ HeartbeatOfRevived(s)
          \/ HeartbeatExpires(s)
          \/ PrimaryDies(s)
          \/ SecondaryDies(s)
          \/ GetServer(s)
    \/ GetServerFails

\* checkHeartbeats runs every HEARTBEAT_INTERVAL and each time visits every
\* entry of last_heartbeat; it waits only for the mutex, which recvHeartbeat
\* holds just to write a time stamp.
Fairness == \A s \in Server : WF_vars(PrimaryDies(s) \/ SecondaryDies(s))

Spec == Init /\ [][Next]_vars

FairSpec == Spec /\ Fairness

-----------------------------------------------------------------------------
(* Properties.                                                             *)

\* The isPrimary flags of the server list and the primaryServers map agree:
\* they are kept in two places and written by different handlers.
FlagsMatchMap ==
    \A s \in Server : isPrimary[s] <=> primaryServers = s

\* A group with a live server has a primary, and the primary is alive: no
\* handler leaves live servers without a primary or promotes a dead one.
PrimaryIsAlive ==
    IF Alive = {} THEN primaryServers = NoServer
                  ELSE primaryServers \in Alive

\* Every server counted alive has a heartbeat entry: only entries are ever
\* examined by checkHeartbeats, so a live server without one could never be
\* declared dead again.
AliveIsTracked ==
    \A s \in Server : ~isDead[s] <=> lastHeartbeat[s] # "none"

\* A primary is replaced only in the step that declares it dead: a server
\* that joins or revives never takes over from a live primary.
NoPreemption ==
    [][primaryServers # NoServer /\ primaryServers' # primaryServers
         => isDead'[primaryServers]]_vars

\* Whenever the group gets a new primary, every live server is sent its
\* role by the same handler, and every other live server the name of the new
\* primary: the promotion loop informs only the servers that follow the new
\* primary in the list.
ElectionAnnounced ==
    [][primaryServers' \notin {primaryServers, NoServer}
         => \A s \in Server : ~isDead'[s] =>
              \E m \in sent' :
                 /\ m.to = s
                 /\ IF s = primaryServers'
                    THEN m.role = "PRIMARY"
                    ELSE m.role = "SECONDARY" /\ m.primary = primaryServers'
      ]_vars

\* Round robin: a frontend is sent to the server of the previous answer only
\* if no other server of the group is alive.
RoundRobinRotates ==
    [][nextServerRoundRobin' # nextServerRoundRobin
         => \/ selected' # selected
            \/ \A s \in Server \ {selected} : isDead[s]]_vars

\* A server that falls silent is eventually declared dead, unless it is
\* heard of again.
SilenceIsNoticed ==
    \A s \in Server :
        lastHeartbeat[s] = "stale" ~> isDead[s] \/ lastHeartbeat[s] = "fresh"

\* The promise of the master: see Election.
Promise == INSTANCE Election WITH alive <- Alive, primary <- primaryServers

ElectionSpec == Promise!Spec
=============================================================================
