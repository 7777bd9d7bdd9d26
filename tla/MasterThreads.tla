--------------------------- MODULE MasterThreads ---------------------------
(***************************************************************************)
(* The two threads of the master that maintain the election of one replica  *)
(* group (backend/kvstore/master.cc): the receiver (recvHeartbeat) and the  *)
(* checker (checkHeartbeats). The checker holds heartbeat_mutex during a    *)
(* whole scan; the receiver takes it only to write the time stamp, so its   *)
(* accesses to servers and primaryServers interleave with the scan.         *)
(*                                                                         *)
(* A step is one access to the flags of a server or to primaryServers that  *)
(* the other thread can observe. The model also has the executions in which *)
(* a handler starts only when the other thread is between handlers: these   *)
(* implement Master.                                                        *)
(***************************************************************************)
EXTENDS Integers

CONSTANT NumServers   \* servers of the group in config.txt

ASSUME NumServersAssumption == NumServers \in Nat \ {0}

Server == 0 .. NumServers - 1

NoServer == -1

\* The ServerInfo that primaryServers[group] creates when there is no entry:
\* an entry like any other for find, with an empty address.
Blank == -2

VARIABLES
    isDead,         \* ServerInfo.isDead of the server list
    isPrimary,      \* ServerInfo.isPrimary of the server list
    primaryServers, \* the group's entry of primaryServers
    lastHeartbeat,  \* last_heartbeat: no entry, recent, or too old
    recvPC,         \* where the receiver is
    sender,         \* the server whose heartbeat it handles
    checkPC,        \* where the checker is; it holds the mutex unless asleep
    pending,        \* entries too old, not yet visited by this scan
    dying,          \* the server being declared dead
    wasPrimary,     \* deadServerInfo.isPrimary
    cursor,         \* index of the loop over the server list
    assigned,       \* primaryAssigned
    overlap,        \* whether handlers overlap, fixed in each execution
    outbox,         \* datagrams sent by the current handler, if not
    committed       \* the state left by the latest handler, if not

sharedVars == <<isDead, isPrimary, primaryServers, lastHeartbeat>>
recvVars == <<recvPC, sender>>
loopVars == <<dying, wasPrimary, cursor, assigned>>
checkVars == <<checkPC, pending, loopVars>>
historyVars == <<overlap, outbox, committed>>
vars == <<sharedVars, recvVars, checkVars, historyVars>>

\* The handlers of module Master, on the state between handlers.
Atomic == INSTANCE Master
            WITH isDead <- committed.isDead,
                 isPrimary <- committed.isPrimary,
                 primaryServers <- committed.primaryServers,
                 lastHeartbeat <- committed.lastHeartbeat,
                 sent <- committed.sent,
                 nextServerRoundRobin <- 0,
                 selected <- NoServer

TypeOK ==
    /\ isDead \in [Server -> BOOLEAN]
    /\ isPrimary \in [Server -> BOOLEAN]
    /\ primaryServers \in Server \union {NoServer, Blank}
    /\ lastHeartbeat \in [Server -> {"none", "fresh", "stale"}]
    /\ recvPC \in {"idle", "find", "promote", "record", "inform", "tell",
                 "stamp"}
    /\ sender \in Server
    /\ checkPC \in {"asleep", "scan", "drop", "clear", "elect", "enter",
                  "notify", "erase"}
    /\ pending \subseteq Server
    /\ dying \in Server
    /\ wasPrimary \in BOOLEAN
    /\ cursor \in Server
    /\ assigned \in BOOLEAN
    /\ overlap \in BOOLEAN

Init ==
    /\ isDead = [s \in Server |-> TRUE]
    /\ isPrimary = [s \in Server |-> FALSE]
    /\ primaryServers = NoServer
    /\ lastHeartbeat = [s \in Server |-> "none"]
    /\ recvPC = "idle"
    /\ sender = 0
    /\ checkPC = "asleep"
    /\ pending = {}
    /\ dying = 0
    /\ wasPrimary = FALSE
    /\ cursor = 0
    /\ assigned = FALSE
    /\ overlap \in BOOLEAN
    /\ outbox = {}
    /\ committed = [isDead |-> isDead, isPrimary |-> isPrimary,
                    primaryServers |-> primaryServers,
                    lastHeartbeat |-> lastHeartbeat, sent |-> {}]

\* The history is kept only where Atomic is compared with it.
Send(msgs) ==
    /\ outbox' = IF overlap THEN {} ELSE outbox \union msgs
    /\ UNCHANGED <<overlap, committed>>

SendNothing == Send({})

\* A handler ends.
Commit ==
    /\ outbox' = {}
    /\ committed' =
         IF overlap THEN committed
         ELSE [isDead |-> isDead', isPrimary |-> isPrimary',
               primaryServers |-> primaryServers',
               lastHeartbeat |-> lastHeartbeat', sent |-> outbox]
    /\ UNCHANGED overlap

BetweenHandlers == recvPC = "idle" /\ checkPC = "asleep"

MayStart == overlap \/ BetweenHandlers

\* The value read by primaryServers[group], which leaves an entry behind.
EntryRead == IF primaryServers = NoServer THEN Blank ELSE primaryServers

-----------------------------------------------------------------------------
(* Faulty variants of the definitions below. No specification uses them:   *)
(* each stands for a slip in the code that a property must notice.         *)

\* The receiver takes the next heartbeat without stamping a secondary.
RecvTellNoStamp ==
    /\ recvPC = "tell"
    /\ primaryServers' = EntryRead
    /\ recvPC' = "idle"
    /\ UNCHANGED <<isDead, isPrimary, lastHeartbeat, sender, checkVars>>
    /\ Send({Atomic!NewSecondaryStatus(EntryRead, sender)})

\* The entry is erased whoever died.
CheckDropAlways ==
    /\ checkPC = "drop"
    /\ primaryServers' = NoServer
    /\ checkPC' = "clear"
    /\ UNCHANGED <<isDead, isPrimary, lastHeartbeat, recvVars, pending, loopVars>>
    /\ SendNothing

\* The index of the loop runs off the list.
NextServerUnwrapped(loop) ==
    /\ cursor' = cursor + 1
    /\ checkPC' = IF cursor + 1 = NumServers THEN "erase" ELSE loop

\* The promoted server is flagged and told, but not entered.
ElectEnterNothing ==
    /\ checkPC = "enter"
    /\ assigned' = TRUE
    /\ cursor' = IF cursor + 1 = NumServers THEN 0 ELSE cursor + 1
    /\ checkPC' = IF cursor + 1 = NumServers THEN "erase" ELSE "elect"
    /\ UNCHANGED <<sharedVars, recvVars, pending, dying, wasPrimary>>
    /\ SendNothing

\* The mutex is not released at the end of a scan.
CheckEraseKeepsLock ==
    /\ checkPC = "erase"
    /\ lastHeartbeat' = [lastHeartbeat EXCEPT ![dying] = "none"]
    /\ checkPC' = "scan"
    /\ dying' = 0
    /\ wasPrimary' = FALSE
    /\ assigned' = FALSE
    /\ UNCHANGED <<isDead, isPrimary, primaryServers, recvVars, pending, cursor>>
    /\ Commit

-----------------------------------------------------------------------------
(* The receiver.                                                           *)

\* A heartbeat of s arrives; a server known to be alive is only stamped.
RecvAlive(s) ==
    /\ recvPC = "idle" /\ MayStart
    /\ ~isDead[s]
    /\ recvPC' = "stamp"
    /\ sender' = s
    /\ UNCHANGED <<sharedVars, checkVars>>
    /\ SendNothing

\* A server that is new or back is marked alive.
RecvRevived(s) ==
    /\ recvPC = "idle" /\ MayStart
    /\ isDead[s]
    /\ isDead' = [isDead EXCEPT ![s] = FALSE]
    /\ recvPC' = "find"
    /\ sender' = s
    /\ UNCHANGED <<isPrimary, primaryServers, lastHeartbeat, checkVars>>
    /\ SendNothing

\* Whether the group has a primary: primaryServers.find(replicaGroup).
RecvFind ==
    /\ recvPC = "find"
    /\ recvPC' = IF primaryServers = NoServer THEN "promote" ELSE "inform"
    /\ UNCHANGED <<sharedVars, sender, checkVars>>
    /\ SendNothing

RecvPromote ==
    /\ recvPC = "promote"
    /\ isPrimary' = [isPrimary EXCEPT ![sender] = TRUE]
    /\ recvPC' = "record"
    /\ UNCHANGED <<isDead, primaryServers, lastHeartbeat, sender, checkVars>>
    /\ SendNothing

RecvRecord ==
    /\ recvPC = "record"
    /\ primaryServers' = sender
    /\ recvPC' = "inform"
    /\ UNCHANGED <<isDead, isPrimary, lastHeartbeat, sender, checkVars>>
    /\ SendNothing

\* The server is told its role.
RecvInform ==
    /\ recvPC = "inform"
    /\ primaryServers' = EntryRead
    /\ recvPC' = IF isPrimary[sender] THEN "stamp" ELSE "tell"
    /\ UNCHANGED <<isDead, isPrimary, lastHeartbeat, sender, checkVars>>
    /\ Send({Atomic!RoleStatus(sender, isPrimary[sender], EntryRead, NoServer)})

\* The primary is told of a new secondary.
RecvTell ==
    /\ recvPC = "tell"
    /\ primaryServers' = EntryRead
    /\ recvPC' = "stamp"
    /\ UNCHANGED <<isDead, isPrimary, lastHeartbeat, sender, checkVars>>
    /\ Send({Atomic!NewSecondaryStatus(EntryRead, sender)})

\* The time stamp is written under the mutex.
RecvStamp ==
    /\ recvPC = "stamp"
    /\ checkPC = "asleep"
    /\ lastHeartbeat' = [lastHeartbeat EXCEPT ![sender] = "fresh"]
    /\ recvPC' = "idle"
    /\ sender' = 0
    /\ UNCHANGED <<isDead, isPrimary, primaryServers, checkVars>>
    /\ Commit

-----------------------------------------------------------------------------
(* The checker.                                                            *)

\* DEAD_THRESHOLD milliseconds pass without a heartbeat of s.
HeartbeatExpires(s) ==
    /\ MayStart
    /\ lastHeartbeat[s] = "fresh"
    /\ lastHeartbeat' = [lastHeartbeat EXCEPT ![s] = "stale"]
    /\ UNCHANGED <<isDead, isPrimary, primaryServers, recvVars, checkVars>>
    /\ Commit

\* A scan that finds entries too old takes the mutex and visits them in the
\* order of the hash map, that is, in any order.
CheckLock ==
    /\ checkPC = "asleep" /\ MayStart
    /\ pending' = {s \in Server : lastHeartbeat[s] = "stale"}
    /\ pending' # {}
    /\ checkPC' = "scan"
    /\ UNCHANGED <<sharedVars, recvVars, loopVars>>
    /\ SendNothing

\* The server is marked dead and copied to deadServerInfo, ...
CheckMark(s) ==
    /\ checkPC = "scan"
    /\ s \in pending
    /\ pending' = pending \ {s}
    /\ dying' = s
    /\ wasPrimary' = isPrimary[s]
    /\ isDead' = [isDead EXCEPT ![s] = TRUE]
    /\ checkPC' = "drop"
    /\ UNCHANGED <<isPrimary, primaryServers, lastHeartbeat, recvVars, cursor,
                   assigned>>
    /\ SendNothing

\* ... the group's entry is erased if the server is the primary, ...
CheckDrop ==
    /\ checkPC = "drop"
    /\ primaryServers' = IF isPrimary[dying] THEN NoServer ELSE primaryServers
    /\ checkPC' = "clear"
    /\ UNCHANGED <<isDead, isPrimary, lastHeartbeat, recvVars, pending, loopVars>>
    /\ SendNothing

\* ... and its flag is cleared. The copy decides which loop follows.
CheckClear ==
    /\ checkPC = "clear"
    /\ isPrimary' = [isPrimary EXCEPT ![dying] = FALSE]
    /\ checkPC' = IF wasPrimary THEN "elect" ELSE "notify"
    /\ UNCHANGED <<isDead, primaryServers, lastHeartbeat, recvVars, pending,
                   loopVars>>
    /\ SendNothing

\* The end of an iteration of a loop over the server list.
NextServer(loop) ==
    /\ cursor' = IF cursor + 1 = NumServers THEN 0 ELSE cursor + 1
    /\ checkPC' = IF cursor + 1 = NumServers THEN "erase" ELSE loop

\* The promotion loop: the first live server is flagged, ...
ElectFirstAlive ==
    /\ checkPC = "elect"
    /\ ~assigned
    /\ ~isDead[cursor]
    /\ isPrimary' = [isPrimary EXCEPT ![cursor] = TRUE]
    /\ checkPC' = "enter"
    /\ UNCHANGED <<isDead, primaryServers, lastHeartbeat, recvVars, pending,
                   loopVars>>
    /\ SendNothing

\* ... entered in primaryServers and told, ...
ElectEnter ==
    /\ checkPC = "enter"
    /\ primaryServers' = cursor
    /\ assigned' = TRUE
    /\ NextServer("elect")
    /\ UNCHANGED <<isDead, isPrimary, lastHeartbeat, recvVars, pending, dying,
                   wasPrimary>>
    /\ Send({Atomic!RoleStatus(cursor, TRUE, cursor, dying)})

\* ... the dead ones before it are passed over, ...
ElectSkipDead ==
    /\ checkPC = "elect"
    /\ ~assigned
    /\ isDead[cursor]
    /\ NextServer("elect")
    /\ UNCHANGED <<sharedVars, recvVars, pending, dying, wasPrimary, assigned>>
    /\ SendNothing

\* ... and the servers after it are told, dead or alive.
ElectInform ==
    /\ checkPC = "elect"
    /\ assigned
    /\ primaryServers' = EntryRead
    /\ NextServer("elect")
    /\ UNCHANGED <<isDead, isPrimary, lastHeartbeat, recvVars, pending, dying,
                   wasPrimary, assigned>>
    /\ Send({Atomic!RoleStatus(cursor, FALSE, EntryRead, dying)})

\* The loop after the death of a secondary: live servers are told.
NotifyAlive ==
    /\ checkPC = "notify"
    /\ ~isDead[cursor]
    /\ primaryServers' = EntryRead
    /\ NextServer("notify")
    /\ UNCHANGED <<isDead, isPrimary, lastHeartbeat, recvVars, pending, dying,
                   wasPrimary, assigned>>
    /\ Send({Atomic!RoleStatus(cursor, isPrimary[cursor], EntryRead, dying)})

NotifySkipDead ==
    /\ checkPC = "notify"
    /\ isDead[cursor]
    /\ NextServer("notify")
    /\ UNCHANGED <<sharedVars, recvVars, pending, dying, wasPrimary, assigned>>
    /\ SendNothing

\* The entry of the dead server is erased; the mutex is released after the
\* last one.
CheckErase ==
    /\ checkPC = "erase"
    /\ lastHeartbeat' = [lastHeartbeat EXCEPT ![dying] = "none"]
    /\ checkPC' = IF pending = {} THEN "asleep" ELSE "scan"
    /\ dying' = 0
    /\ wasPrimary' = FALSE
    /\ assigned' = FALSE
    /\ UNCHANGED <<isDead, isPrimary, primaryServers, recvVars, pending, cursor>>
    /\ Commit

-----------------------------------------------------------------------------
RecvStep ==
    \/ RecvFind \/ RecvPromote \/ RecvRecord
    \/ RecvInform \/ RecvTell
    \/ RecvStamp

CheckStep ==
    \/ \E s \in Server : CheckMark(s)
    \/ CheckDrop \/ CheckClear
    \/ ElectFirstAlive \/ ElectEnter \/ ElectSkipDead \/ ElectInform
    \/ NotifyAlive \/ NotifySkipDead
    \/ CheckErase

Next ==
    \/ \E s \in Server : RecvAlive(s) \/ RecvRevived(s) \/ HeartbeatExpires(s)
    \/ RecvStep
    \/ CheckLock
    \/ CheckStep

\* Both threads run; the checker wakes up every HEARTBEAT_INTERVAL and the
\* receiver never holds the mutex across a step (fairness of CheckLock is
\* strong for the executions without overlap, where it also waits for the
\* receiver). Nothing is assumed of the servers, which may stay silent.
Fairness == WF_vars(RecvStep) /\ SF_vars(CheckLock) /\ WF_vars(CheckStep)

Spec == Init /\ [][Next]_vars /\ Fairness

-----------------------------------------------------------------------------
(* Properties.                                                             *)

Alive == {s \in Server : ~isDead[s]}

\* Handlers that do not overlap have the effect Master gives them, including
\* the datagrams sent: the promotion loop finds the first live server and
\* informs exactly the servers after it.
ImplementsMaster == Atomic!Spec

\* The comments of master.cc: the first server of a group to connect becomes
\* its primary, and primaryServers maps the group to it. Between handlers, a
\* group with live servers has one primary, alive, in both places.
OnePrimary ==
    BetweenHandlers =>
      IF Alive = {} THEN primaryServers = NoServer
      ELSE /\ primaryServers \in Alive
           /\ \A s \in Server : isPrimary[s] <=> s = primaryServers

\* However the threads interleave, a server counted alive has a heartbeat
\* entry, or the receiver is about to write one: a live server without an
\* entry is never visited by a scan and would stay alive forever. The time
\* stamp is written last, so the scan cannot erase it.
AliveIsTracked ==
    \A s \in Alive : lastHeartbeat[s] = "none" => recvPC # "idle" /\ sender = s

\* However the threads interleave, once they come to rest a group with live
\* servers has an entry in primaryServers. It may be a blank one: see
\* OnePrimary.
NeverWithoutEntry == BetweenHandlers /\ Alive # {} => primaryServers # NoServer

\* A server whose heartbeats stop is declared dead although the receiver
\* stamps entries and revives servers during the scan, unless it is heard of.
SilenceIsNoticed ==
    \A s \in Server :
        lastHeartbeat[s] = "stale" ~> isDead[s] \/ lastHeartbeat[s] = "fresh"
=============================================================================
