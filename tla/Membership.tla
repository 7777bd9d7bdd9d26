----------------------------- MODULE Membership -----------------------------
(***************************************************************************)
(* The master of the key-value store together with the servers of one       *)
(* replica group, as far as roles and liveness go: the servers send         *)
(* heartbeats, the master (module Master) answers with status datagrams,    *)
(* and receiveStatus of kvstore.cc turns those into each server's own view  *)
(* of the group. Servers crash and restart, and are disabled and enabled by *)
(* the admin console.                                                       *)
(***************************************************************************)
EXTENDS Integers, Sequences

CONSTANTS NumServers,    \* servers of the group in config.txt
          MaxFailures    \* bound: crashes, disablings and false suspicions

ASSUME MembershipAssumption ==
    /\ NumServers \in Nat \ {0}
    /\ MaxFailures \in Nat

Server == 0 .. NumServers - 1

NoServer == -1

VARIABLES
    isDead, isPrimary, primaryServers, lastHeartbeat, sent,  \* see Master
    nextServerRoundRobin, selected,                          \* not used here
    up,          \* the server process runs
    enabled,     \* enabled of the server
    reading,     \* receiveStatus is inside recvfrom
    me,          \* myInfo.isPrimary
    view,        \* the server's list of the group: isDead, isPrimary
    primaryInfo, \* where the server forwards writes
    network,     \* status datagrams on their way to each server
    missed,      \* the master took the server for dead while it ran
    failures     \* number of failures so far

masterVars == <<isDead, isPrimary, primaryServers, lastHeartbeat, sent,
                nextServerRoundRobin, selected>>
roleVars == <<me, view, primaryInfo>>
nodeVars == <<up, enabled, reading, roleVars, missed>>
vars == <<masterVars, nodeVars, network, failures>>

\* The handlers of the master. Requests of frontends are left out.
Mst == INSTANCE Master

\* No handler of the master runs, and what the last one sent is under way.
MasterIdle ==
    /\ sent' = {}
    /\ UNCHANGED <<isDead, isPrimary, primaryServers, lastHeartbeat,
                   nextServerRoundRobin, selected>>

\* The list as parsed from config.txt: everyone dead, nobody primary.
Unknown == [dead |-> TRUE, prim |-> FALSE]

TypeOK ==
    /\ Mst!TypeOK
    /\ up \in [Server -> BOOLEAN]
    /\ enabled \in [Server -> BOOLEAN]
    /\ reading \in [Server -> BOOLEAN]
    /\ me \in [Server -> BOOLEAN]
    /\ view \in [Server -> [Server -> [dead : BOOLEAN, prim : BOOLEAN]]]
    /\ primaryInfo \in [Server -> Server \union {NoServer}]
    /\ network \in [Server -> Seq(Mst!Status)]
    /\ missed \in [Server -> BOOLEAN]
    /\ failures \in 0 .. MaxFailures

Init ==
    /\ Mst!Init
    /\ up = [s \in Server |-> FALSE]
    /\ enabled = [s \in Server |-> TRUE]
    /\ reading = [s \in Server |-> TRUE]
    /\ me = [s \in Server |-> FALSE]
    /\ view = [s \in Server |-> [r \in Server |-> Unknown]]
    /\ primaryInfo = [s \in Server |-> NoServer]
    /\ network = [s \in Server |-> <<>>]
    /\ missed = [s \in Server |-> FALSE]
    /\ failures = 0

-----------------------------------------------------------------------------
(* The network: datagrams of one sender arrive in order. A process that     *)
(* does not run has no socket, and what is sent to it is dropped.           *)

\* The handler of the master that has just run hands over its datagrams, at
\* most one to each server.
Transmit ==
    network' = [r \in Server |->
        LET msgs == {m \in sent' : m.to = r}
        IN  IF msgs = {} \/ ~up[r] THEN network[r]
            ELSE Append(network[r], CHOOSE m \in msgs : TRUE)]

-----------------------------------------------------------------------------
(* The servers and the master.                                             *)

\* sendHeartbeat of s and recvHeartbeat of the master.
Heartbeat(s) ==
    /\ up[s] /\ enabled[s]
    /\ Mst!HeartbeatOfAlive(s) \/ Mst!HeartbeatOfRevived(s)
    /\ Transmit
    /\ UNCHANGED <<nodeVars, failures>>

\* Silence of a server that does not run or is disabled, or of one whose
\* heartbeats are held up: the latter is a false suspicion.
Silence(s) ==
    /\ Mst!HeartbeatExpires(s)
    /\ IF up[s] /\ enabled[s]
       THEN failures < MaxFailures /\ failures' = failures + 1
       ELSE UNCHANGED failures
    /\ UNCHANGED <<nodeVars, network>>

Suspect(s) ==
    /\ Mst!PrimaryDies(s) \/ Mst!SecondaryDies(s)
    /\ Transmit
    /\ missed' = [missed EXCEPT ![s] = up[s]]
    /\ UNCHANGED <<up, enabled, reading, roleVars, failures>>

-----------------------------------------------------------------------------
(* receiveStatus.                                                          *)

Marked(v, s, d, p) == [v EXCEPT ![s] = [dead |-> d, prim |-> p]]

\* Faulty variant: a primary does not look for a dead server in the message.
AfterDeathIfSecondary(v, m) ==
    IF m.dead = NoServer \/ m.role = "PRIMARY" THEN v
    ELSE Marked(v, m.dead, TRUE, FALSE)

\* The message names a server that has died.
AfterDeath(v, m) ==
    IF m.dead = NoServer THEN v ELSE Marked(v, m.dead, TRUE, FALSE)

\* PRIMARY: the server enters itself, and the new secondary if one is named.
ViewOfPrimary(s, m) ==
    LET own == Marked(view[s], s, FALSE, TRUE)
    IN  IF m.newSecondary = NoServer THEN own
        ELSE Marked(own, m.newSecondary, FALSE, FALSE)

\* SECONDARY: the server enters itself, and flags the primary.
ViewOfSecondary(s, m) ==
    LET own == Marked(view[s], s, FALSE, FALSE)
    IN  [own EXCEPT ![m.primary].prim = TRUE]

\* Faulty variant: a primary that is told to be a secondary stays primary.
RoleKept(s, m) == me[s] \/ m.role = "PRIMARY"

Role(s, m) == m.role = "PRIMARY"

\* A disabled server still handles the datagram it was waiting for.
ReceiveStatus(s) ==
    /\ up[s] /\ reading[s]
    /\ network[s] # <<>>
    /\ LET m == Head(network[s])
           v == IF m.role = "PRIMARY" THEN ViewOfPrimary(s, m)
                                      ELSE ViewOfSecondary(s, m)
       IN  /\ me' = [me EXCEPT ![s] = Role(s, m)]
           /\ view' = [view EXCEPT ![s] = AfterDeath(v, m)]
           /\ primaryInfo' = IF m.role = "PRIMARY" THEN primaryInfo
                             ELSE [primaryInfo EXCEPT ![s] = m.primary]
    /\ network' = [network EXCEPT ![s] = Tail(@)]
    /\ reading' = [reading EXCEPT ![s] = enabled[s]]
    /\ MasterIdle
    /\ UNCHANGED <<up, enabled, missed, failures>>

-----------------------------------------------------------------------------
(* Failures.                                                               *)

Start(s) ==
    /\ ~up[s]
    \* a restart takes longer than DEAD_THRESHOLD
    /\ isDead[s]
    /\ up' = [up EXCEPT ![s] = TRUE]
    /\ MasterIdle
    /\ UNCHANGED <<enabled, reading, roleVars, network, missed, failures>>

\* Everything the process knew is gone, with the datagrams in its socket.
Crash(s) ==
    /\ up[s]
    /\ failures < MaxFailures
    /\ failures' = failures + 1
    /\ up' = [up EXCEPT ![s] = FALSE]
    /\ enabled' = [enabled EXCEPT ![s] = TRUE]
    /\ reading' = [reading EXCEPT ![s] = TRUE]
    /\ me' = [me EXCEPT ![s] = FALSE]
    /\ view' = [view EXCEPT ![s] = [r \in Server |-> Unknown]]
    /\ primaryInfo' = [primaryInfo EXCEPT ![s] = NoServer]
    /\ network' = [network EXCEPT ![s] = <<>>]
    /\ missed' = [missed EXCEPT ![s] = FALSE]
    /\ MasterIdle

\* The admin console: heartbeats stop, and status datagrams pile up unread.
Disable(s) ==
    /\ up[s] /\ enabled[s]
    /\ failures < MaxFailures
    /\ failures' = failures + 1
    /\ enabled' = [enabled EXCEPT ![s] = FALSE]
    /\ MasterIdle
    /\ UNCHANGED <<up, reading, roleVars, network, missed>>

\* Faulty variant: receiveStatus has returned and does not come back.
EnableDeaf(s) ==
    /\ up[s] /\ ~enabled[s]
    /\ enabled' = [enabled EXCEPT ![s] = TRUE]
    /\ MasterIdle
    /\ UNCHANGED <<up, reading, roleVars, network, missed, failures>>

Enable(s) ==
    /\ up[s] /\ ~enabled[s]
    /\ enabled' = [enabled EXCEPT ![s] = TRUE]
    /\ reading' = [reading EXCEPT ![s] = TRUE]
    /\ MasterIdle
    /\ UNCHANGED <<up, roleVars, network, missed, failures>>

Next ==
    \E s \in Server :
        \/ Heartbeat(s) \/ Silence(s) \/ Suspect(s)
        \/ ReceiveStatus(s)
        \/ Start(s) \/ Crash(s) \/ Disable(s) \/ Enable(s)

\* sendHeartbeat, checkHeartbeats and receiveStatus are loops that never end.
\* A server that does not run may stay so, and so may a disabled one.
Fairness ==
    \A s \in Server : /\ WF_vars(Heartbeat(s))
                      /\ WF_vars(up[s] /\ ~enabled[s] /\ Silence(s))
                      /\ WF_vars(~up[s] /\ Silence(s))
                      /\ WF_vars(Suspect(s))
                      /\ WF_vars(ReceiveStatus(s))

Spec == Init /\ [][Next]_vars /\ Fairness

-----------------------------------------------------------------------------
(* Properties.                                                             *)

\* The master counts s alive and s has read everything it was sent.
Settled(s) == up[s] /\ enabled[s] /\ ~isDead[s] /\ network[s] = <<>>

\* A settled server knows its own role and, if a secondary, the primary of
\* the group, whatever it was told before it crashed, was disabled or was
\* suspected by mistake.
RoleAgreement ==
    \A s \in Server : Settled(s) =>
        /\ me[s] = isPrimary[s]
        /\ ~me[s] => primaryInfo[s] = primaryServers

\* A settled primary that was never suspected takes every server the master
\* holds dead for dead: it logs writes for them instead of waiting for an
\* answer. (A server that was suspected misses the deaths reported meanwhile.)
PrimaryKnowsDead ==
    \A s, d \in Server :
        Settled(s) /\ me[s] /\ ~missed[s] /\ isDead[d] => view[s][d].dead

\* After the last failure the group comes to agree with the master for good:
\* servers that run are counted alive, the others dead, and every running
\* server has the role the master gave it.
Stabilises ==
    <>[](\A s \in Server :
            IF up[s] /\ enabled[s] THEN Settled(s) /\ me[s] = isPrimary[s]
                                   ELSE isDead[s])

\* The comment of forwardToAllSecondaryServers: requests are forwarded to all
\* alive secondaries. A settled primary takes every server the master holds
\* alive for a live secondary.
PrimaryKnowsAlive ==
    \A s, r \in Server :
        Settled(s) /\ me[s] /\ ~isDead[r] /\ r # s
            => ~view[s][r].dead /\ ~view[s][r].prim
=============================================================================
