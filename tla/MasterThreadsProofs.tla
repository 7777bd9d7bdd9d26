------------------------ MODULE MasterThreadsProofs ------------------------
(***************************************************************************)
(* Proofs about module MasterThreads, for any number of servers: what holds *)
(* however the receiver and the checker interleave, and that handlers which *)
(* do not overlap implement Master.                                         *)
(***************************************************************************)
EXTENDS MasterThreads, TLAPS

\* What is proved of Master, about the state between handlers.
Proved == INSTANCE MasterProofs
            WITH isDead <- committed.isDead,
                 isPrimary <- committed.isPrimary,
                 primaryServers <- committed.primaryServers,
                 lastHeartbeat <- committed.lastHeartbeat,
                 sent <- committed.sent,
                 nextServerRoundRobin <- 0,
                 selected <- NoServer

-----------------------------------------------------------------------------
(* The inductive invariant, whether handlers overlap or not.               *)

\* The index and the flag of the two loops are reset when they end.
LoopsReset ==
    /\ checkPC \notin {"elect", "enter", "notify"} => cursor = 0
    /\ checkPC \notin {"elect", "erase"} => ~assigned

\* A server that comes back while it is declared dead has the receiver's
\* attention: the receiver will stamp it after its entry is erased.
RevivalIsStamped ==
    checkPC \notin {"asleep", "scan"} /\ ~isDead[dying] =>
        recvPC # "idle" /\ sender = dying

\* While live servers are without an entry in primaryServers, one of the
\* threads is on its way to write one.
EntryIsComing ==
    primaryServers = NoServer /\ Alive # {} =>
        \/ recvPC \in {"find", "promote", "record", "inform"}
        \/ checkPC \in {"clear", "enter"}
        \/ /\ checkPC \in {"elect", "notify"}
           /\ \E s \in Alive : s >= cursor

ThreadsInv ==
    /\ TypeOK /\ LoopsReset /\ AliveIsTracked
    /\ RevivalIsStamped /\ EntryIsComing

-----------------------------------------------------------------------------
(* The state in the middle of a handler that runs alone, as a function of   *)
(* the state it started from.                                               *)

Unchanged ==
    /\ isDead = committed.isDead
    /\ isPrimary = committed.isPrimary
    /\ primaryServers = committed.primaryServers
    /\ outbox = {}

Resting ==
    BetweenHandlers => Unchanged /\ lastHeartbeat = committed.lastHeartbeat

\* recvHeartbeat, before and after it knows of a primary.
Joining ==
    /\ recvPC # "find" => Atomic!FirstOfGroup
    /\ isPrimary = IF recvPC = "record"
                   THEN [committed.isPrimary EXCEPT ![sender] = TRUE]
                   ELSE committed.isPrimary
    /\ primaryServers = committed.primaryServers
    /\ outbox = {}

Joined ==
    /\ isPrimary = [committed.isPrimary EXCEPT ![sender] =
                      @ \/ Atomic!FirstOfGroup]
    /\ primaryServers = IF Atomic!FirstOfGroup THEN sender
                        ELSE committed.primaryServers
    /\ recvPC = "tell" => ~isPrimary[sender]
    /\ outbox = (IF recvPC = "inform" THEN {}
                 ELSE {Atomic!RoleStatus(sender, isPrimary[sender],
                                         primaryServers, NoServer)})
                \union (IF recvPC = "stamp" /\ ~isPrimary[sender]
                        THEN {Atomic!NewSecondaryStatus(primaryServers, sender)}
                        ELSE {})

Receiving ==
    recvPC # "idle" =>
      /\ checkPC = "asleep"
      /\ lastHeartbeat = committed.lastHeartbeat
      /\ IF committed.isDead[sender]
         THEN /\ isDead = [committed.isDead EXCEPT ![sender] = FALSE]
              /\ IF recvPC \in {"find", "promote", "record"} THEN Joining
                                                             ELSE Joined
         ELSE recvPC = "stamp" /\ Unchanged

\* checkHeartbeats: the server to be promoted, the flags and the datagrams.
Heir == Atomic!FirstAliveBut(dying)

Elected == [r \in Server |-> IF r = dying THEN FALSE
                             ELSE r = Heir \/ committed.isPrimary[r]]

ToldOfHeir(n) == {Atomic!RoleStatus(r, r = Heir, Heir, dying) :
                    r \in {q \in Server : Heir <= q /\ q < n}}

ToldOfDeath(n) == {Atomic!RoleStatus(r, committed.isPrimary[r],
                                     committed.primaryServers, dying) :
                     r \in {q \in Server : q < n /\ ~isDead[q]}}

Searching ==
    /\ wasPrimary
    /\ isPrimary = [committed.isPrimary EXCEPT ![dying] = FALSE]
    /\ primaryServers = NoServer
    /\ outbox = {}
    /\ \A r \in Server : r < cursor => isDead[r]

Entering ==
    /\ wasPrimary
    /\ isPrimary = Elected
    /\ primaryServers = NoServer
    /\ outbox = {}
    /\ cursor = Heir

Informing ==
    /\ wasPrimary
    /\ isPrimary = Elected
    /\ primaryServers = Heir
    /\ Heir \in Server /\ Heir < cursor
    /\ outbox = ToldOfHeir(cursor)

Notifying ==
    /\ ~wasPrimary
    /\ isPrimary = committed.isPrimary
    /\ primaryServers = committed.primaryServers
    /\ outbox = ToldOfDeath(cursor)

Declared ==
    IF wasPrimary
    THEN /\ isPrimary = Elected
         /\ primaryServers = Heir
         /\ outbox = IF Heir = NoServer THEN {} ELSE ToldOfHeir(NumServers)
    ELSE /\ isPrimary = committed.isPrimary
         /\ primaryServers = committed.primaryServers
         /\ outbox = ToldOfDeath(NumServers)

Declaring ==
    /\ dying \notin pending /\ lastHeartbeat[dying] = "stale"
    /\ wasPrimary = committed.isPrimary[dying]
    /\ isDead = [committed.isDead EXCEPT ![dying] = TRUE]
    /\ checkPC \in {"drop", "clear"} =>
         /\ isPrimary = committed.isPrimary
         /\ primaryServers = IF checkPC = "clear" /\ wasPrimary THEN NoServer
                             ELSE committed.primaryServers
         /\ outbox = {}
    /\ checkPC = "elect" => IF assigned THEN Informing ELSE Searching
    /\ checkPC = "enter" => Entering
    /\ checkPC = "notify" => Notifying
    /\ checkPC = "erase" => Declared

Checking ==
    checkPC # "asleep" =>
      /\ recvPC = "idle"
      /\ lastHeartbeat = committed.lastHeartbeat
      /\ pending \subseteq {s \in Server : lastHeartbeat[s] = "stale"}
      /\ IF checkPC = "scan" THEN Unchanged ELSE Declaring

\* The whole invariant. What is known of Master's states is needed in the
\* middle of a handler: a live server to be told of a death has a primary to
\* be told of, so no access leaves a blank entry behind.
Alone == ~overlap => Resting /\ Receiving /\ Checking

Inv == ThreadsInv /\ Proved!Inv /\ Alone

-----------------------------------------------------------------------------
(* However the threads interleave.                                         *)

\* Every access keeps the types; the loops stay within the server list.
LEMMA TypeKept ==
  ASSUME TypeOK, Next
  PROVE  TypeOK'
<1> USE NumServersAssumption DEF TypeOK, Server, NoServer, Blank, sharedVars, recvVars, checkVars, loopVars, EntryRead, Send, SendNothing, Commit
<1>1. ASSUME NEW s \in Server, RecvAlive(s) PROVE TypeOK'
  BY <1>1 DEF RecvAlive
<1>2. ASSUME NEW s \in Server, RecvRevived(s) PROVE TypeOK'
  BY <1>2 DEF RecvRevived
<1>3. ASSUME NEW s \in Server, HeartbeatExpires(s) PROVE TypeOK'
  BY <1>3 DEF HeartbeatExpires
<1>4. ASSUME NEW s \in Server, CheckMark(s) PROVE TypeOK'
  BY <1>4 DEF CheckMark
<1>5. CASE RecvFind
  BY <1>5 DEF RecvFind
<1>6. CASE RecvPromote
  BY <1>6 DEF RecvPromote
<1>7. CASE RecvRecord
  BY <1>7 DEF RecvRecord
<1>8. CASE RecvInform
  BY <1>8 DEF RecvInform
<1>9. CASE RecvTell
  BY <1>9 DEF RecvTell
<1>10. CASE RecvStamp
  BY <1>10 DEF RecvStamp
<1>11. CASE CheckLock
  BY <1>11 DEF CheckLock
<1>12. CASE CheckDrop
  BY <1>12 DEF CheckDrop
<1>13. CASE CheckClear
  BY <1>13 DEF CheckClear
<1>14. CASE ElectFirstAlive
  BY <1>14 DEF ElectFirstAlive
<1>15. CASE ElectEnter
  BY <1>15 DEF ElectEnter, NextServer
<1>16. CASE ElectSkipDead
  BY <1>16 DEF ElectSkipDead, NextServer
<1>17. CASE ElectInform
  BY <1>17 DEF ElectInform, NextServer
<1>18. CASE NotifyAlive
  BY <1>18 DEF NotifyAlive, NextServer
<1>19. CASE NotifySkipDead
  BY <1>19 DEF NotifySkipDead, NextServer
<1>20. CASE CheckErase
  <2>1. 0 \in Server
    OBVIOUS
  <2>2. lastHeartbeat' \in [Server -> {"none", "fresh", "stale"}]
    BY <1>20 DEF CheckErase
  <2> QED
    BY <1>20, <2>1, <2>2 DEF CheckErase
<1> QED
  BY <1>1, <1>2, <1>3, <1>4, <1>5, <1>6, <1>7, <1>8, <1>9, <1>10,
     <1>11, <1>12, <1>13, <1>14, <1>15, <1>16, <1>17, <1>18, <1>19, <1>20
     DEF Next, RecvStep, CheckStep

\* The loops leave the index and the flag as they found them.
LEMMA ResetKept ==
  ASSUME TypeOK, LoopsReset, Next
  PROVE  LoopsReset'
<1> USE NumServersAssumption DEF TypeOK, Server, LoopsReset, recvVars, checkVars, loopVars
<1>1. ASSUME NEW s \in Server, RecvAlive(s) PROVE LoopsReset'
  BY <1>1 DEF RecvAlive
<1>2. ASSUME NEW s \in Server, RecvRevived(s) PROVE LoopsReset'
  BY <1>2 DEF RecvRevived
<1>3. ASSUME NEW s \in Server, HeartbeatExpires(s) PROVE LoopsReset'
  BY <1>3 DEF HeartbeatExpires
<1>4. ASSUME NEW s \in Server, CheckMark(s) PROVE LoopsReset'
  BY <1>4 DEF CheckMark
<1>5. CASE RecvFind
  BY <1>5 DEF RecvFind
<1>6. CASE RecvPromote
  BY <1>6 DEF RecvPromote
<1>7. CASE RecvRecord
  BY <1>7 DEF RecvRecord
<1>8. CASE RecvInform
  BY <1>8 DEF RecvInform
<1>9. CASE RecvTell
  BY <1>9 DEF RecvTell
<1>10. CASE RecvStamp
  BY <1>10 DEF RecvStamp
<1>11. CASE CheckLock
  BY <1>11 DEF CheckLock
<1>12. CASE CheckDrop
  BY <1>12 DEF CheckDrop
<1>13. CASE CheckClear
  BY <1>13 DEF CheckClear
<1>14. CASE ElectFirstAlive
  BY <1>14 DEF ElectFirstAlive
<1>15. CASE ElectEnter
  BY <1>15 DEF ElectEnter, NextServer
<1>16. CASE ElectSkipDead
  BY <1>16 DEF ElectSkipDead, NextServer
<1>17. CASE ElectInform
  BY <1>17 DEF ElectInform, NextServer
<1>18. CASE NotifyAlive
  BY <1>18 DEF NotifyAlive, NextServer
<1>19. CASE NotifySkipDead
  BY <1>19 DEF NotifySkipDead, NextServer
<1>20. CASE CheckErase
  BY <1>20 DEF CheckErase
<1> QED
  BY <1>1, <1>2, <1>3, <1>4, <1>5, <1>6, <1>7, <1>8, <1>9, <1>10,
     <1>11, <1>12, <1>13, <1>14, <1>15, <1>16, <1>17, <1>18, <1>19, <1>20
     DEF Next, RecvStep, CheckStep

\* The receiver stamps a server it has revived after the scan has erased its
\* entry: both need the mutex.
LEMMA TrackedKept ==
  ASSUME TypeOK, AliveIsTracked, RevivalIsStamped, Next
  PROVE  (AliveIsTracked /\ RevivalIsStamped)'
<1> USE NumServersAssumption DEF TypeOK, AliveIsTracked, RevivalIsStamped, Alive, sharedVars, recvVars, checkVars, loopVars
<1>1. ASSUME NEW s \in Server, RecvAlive(s) PROVE (AliveIsTracked /\ RevivalIsStamped)'
  BY <1>1 DEF RecvAlive
<1>2. ASSUME NEW s \in Server, RecvRevived(s) PROVE (AliveIsTracked /\ RevivalIsStamped)'
  BY <1>2 DEF RecvRevived
<1>3. ASSUME NEW s \in Server, HeartbeatExpires(s) PROVE (AliveIsTracked /\ RevivalIsStamped)'
  BY <1>3 DEF HeartbeatExpires
<1>4. ASSUME NEW s \in Server, CheckMark(s) PROVE (AliveIsTracked /\ RevivalIsStamped)'
  BY <1>4 DEF CheckMark
<1>5. CASE RecvFind
  BY <1>5 DEF RecvFind
<1>6. CASE RecvPromote
  BY <1>6 DEF RecvPromote
<1>7. CASE RecvRecord
  BY <1>7 DEF RecvRecord
<1>8. CASE RecvInform
  BY <1>8 DEF RecvInform
<1>9. CASE RecvTell
  BY <1>9 DEF RecvTell
<1>10. CASE RecvStamp
  BY <1>10 DEF RecvStamp
<1>11. CASE CheckLock
  BY <1>11 DEF CheckLock
<1>12. CASE CheckDrop
  BY <1>12 DEF CheckDrop
<1>13. CASE CheckClear
  BY <1>13 DEF CheckClear
<1>14. CASE ElectFirstAlive
  BY <1>14 DEF ElectFirstAlive
<1>15. CASE ElectEnter
  BY <1>15 DEF ElectEnter, NextServer
<1>16. CASE ElectSkipDead
  BY <1>16 DEF ElectSkipDead, NextServer
<1>17. CASE ElectInform
  BY <1>17 DEF ElectInform, NextServer
<1>18. CASE NotifyAlive
  BY <1>18 DEF NotifyAlive, NextServer
<1>19. CASE NotifySkipDead
  BY <1>19 DEF NotifySkipDead, NextServer
<1>20. CASE CheckErase
  BY <1>20 DEF CheckErase
<1> QED
  BY <1>1, <1>2, <1>3, <1>4, <1>5, <1>6, <1>7, <1>8, <1>9, <1>10,
     <1>11, <1>12, <1>13, <1>14, <1>15, <1>16, <1>17, <1>18, <1>19, <1>20
     DEF Next, RecvStep, CheckStep

\* Whoever erases the entry of primaryServers, or finds it erased, goes on to
\* write one while there are live servers.
LEMMA EntryKept ==
  ASSUME TypeOK, LoopsReset, EntryIsComing, Next
  PROVE  EntryIsComing'
<1> USE NumServersAssumption DEF TypeOK, Server, NoServer, Blank, LoopsReset, EntryIsComing, Alive, EntryRead, sharedVars, recvVars, checkVars, loopVars
<1>1. ASSUME NEW s \in Server, RecvAlive(s) PROVE EntryIsComing'
  BY <1>1 DEF RecvAlive
<1>2. ASSUME NEW s \in Server, RecvRevived(s) PROVE EntryIsComing'
  BY <1>2 DEF RecvRevived
<1>3. ASSUME NEW s \in Server, HeartbeatExpires(s) PROVE EntryIsComing'
  BY <1>3 DEF HeartbeatExpires
<1>4. ASSUME NEW s \in Server, CheckMark(s) PROVE EntryIsComing'
  BY <1>4 DEF CheckMark
<1>5. CASE RecvFind
  BY <1>5 DEF RecvFind
<1>6. CASE RecvPromote
  BY <1>6 DEF RecvPromote
<1>7. CASE RecvRecord
  BY <1>7 DEF RecvRecord
<1>8. CASE RecvInform
  BY <1>8 DEF RecvInform
<1>9. CASE RecvTell
  BY <1>9 DEF RecvTell
<1>10. CASE RecvStamp
  BY <1>10 DEF RecvStamp
<1>11. CASE CheckLock
  BY <1>11 DEF CheckLock
<1>12. CASE CheckDrop
  BY <1>12 DEF CheckDrop
<1>13. CASE CheckClear
  BY <1>13 DEF CheckClear
<1>14. CASE ElectFirstAlive
  BY <1>14 DEF ElectFirstAlive
<1>15. CASE ElectEnter
  BY <1>15 DEF ElectEnter, NextServer
<1>16. CASE ElectSkipDead
  BY <1>16 DEF ElectSkipDead, NextServer
<1>17. CASE ElectInform
  BY <1>17 DEF ElectInform, NextServer
<1>18. CASE NotifyAlive
  BY <1>18 DEF NotifyAlive, NextServer
<1>19. CASE NotifySkipDead
  BY <1>19 DEF NotifySkipDead, NextServer
<1>20. CASE CheckErase
  BY <1>20 DEF CheckErase
<1> QED
  BY <1>1, <1>2, <1>3, <1>4, <1>5, <1>6, <1>7, <1>8, <1>9, <1>10,
     <1>11, <1>12, <1>13, <1>14, <1>15, <1>16, <1>17, <1>18, <1>19, <1>20
     DEF Next, RecvStep, CheckStep
-----------------------------------------------------------------------------
(* Handlers that run alone.                                                *)

\* Atomic and Proved are the same specification: both start in the same state.
LEMMA SameInit == Atomic!Init <=> Proved!Init
BY Zenon DEF Atomic!Init, Proved!Init, Atomic!Server, Proved!Server,
             Atomic!NoServer, Proved!NoServer

\* Both have the same steps.
LEMMA SameNext == Atomic!Next <=> Proved!Next
BY Zenon
   DEF Atomic!Next, Proved!Next, Atomic!Server, Proved!Server,
       Atomic!NoServer, Proved!NoServer, Atomic!Alive, Proved!Alive,
       Atomic!electionVars, Proved!electionVars,
       Atomic!requestVars, Proved!requestVars,
       Atomic!HeartbeatOfAlive, Proved!HeartbeatOfAlive,
       Atomic!HeartbeatOfRevived, Proved!HeartbeatOfRevived,
       Atomic!HeartbeatExpires, Proved!HeartbeatExpires,
       Atomic!PrimaryDies, Proved!PrimaryDies,
       Atomic!SecondaryDies, Proved!SecondaryDies,
       Atomic!GetServer, Proved!GetServer,
       Atomic!GetServerFails, Proved!GetServerFails,
       Atomic!RoleStatus, Proved!RoleStatus,
       Atomic!NewSecondaryStatus, Proved!NewSecondaryStatus,
       Atomic!FirstOfGroup, Proved!FirstOfGroup,
       Atomic!TimedOut, Proved!TimedOut,
       Atomic!EntryErased, Proved!EntryErased,
       Atomic!FirstAliveBut, Proved!FirstAliveBut,
       Atomic!ListedFrom, Proved!ListedFrom,
       Atomic!Probe, Proved!Probe, Atomic!IndexAfter, Proved!IndexAfter

\* The servers of the two modules are the same.
LEMMA SameServers ==
  /\ Proved!Server = Server /\ Atomic!Server = Server
  /\ Proved!NoServer = NoServer /\ Atomic!NoServer = NoServer
BY DEF Proved!Server, Atomic!Server, Server, Proved!NoServer,
       Atomic!NoServer, NoServer

\* The types of the state between handlers.
LEMMA CommittedType ==
  ASSUME Proved!Inv
  PROVE  /\ committed.isDead \in [Server -> BOOLEAN]
         /\ committed.isPrimary \in [Server -> BOOLEAN]
         /\ committed.primaryServers \in Server \union {NoServer}
BY SameServers DEF Proved!Inv, Proved!TypeOK

\* Between handlers, a live server has a primary.
LEMMA CommittedPrimary ==
  ASSUME Proved!Inv, NEW s \in Server, ~committed.isDead[s]
  PROVE  committed.primaryServers # NoServer
<1>1. s \in Proved!Alive
  BY SameServers DEF Proved!Alive
<1>2. committed.primaryServers \in Proved!Alive
  BY <1>1 DEF Proved!Inv, Proved!PrimaryIsAlive
<1> QED
  BY <1>2, SameServers DEF Proved!Alive, Server, NoServer

\* Which server the promotion loop looks for.
LEMMA HeirIsFirst ==
  ASSUME dying \in Server
  PROVE  IF \E s \in Server : s # dying /\ ~committed.isDead[s]
         THEN /\ Heir \in Server /\ Heir # dying /\ ~committed.isDead[Heir]
              /\ \A s \in Server : s # dying /\ ~committed.isDead[s] =>
                    Heir <= s
         ELSE Heir = NoServer
<1>1. Proved!FirstAliveBut(dying) = Heir
  BY Zenon DEF Heir, Proved!FirstAliveBut, Atomic!FirstAliveBut,
               Proved!Alive, Atomic!Alive, Proved!Server, Atomic!Server,
               Proved!NoServer, Atomic!NoServer
<1>2. IF Proved!Alive \ {dying} = {}
      THEN Heir = Proved!NoServer
      ELSE /\ Heir \in Proved!Alive \ {dying}
           /\ \A u \in Proved!Alive \ {dying} : Heir <= u
  BY <1>1, SameServers, Proved!FirstAliveButIsFirst, NumServersAssumption
<1> QED
  BY <1>2, SameServers DEF Proved!Alive

\* What a step that ends no handler does to the history.
LEMMA SendEffect ==
  ASSUME NEW msgs, Send(msgs), ~overlap
  PROVE  /\ outbox' = outbox \union msgs
         /\ committed' = committed /\ overlap' = overlap
BY DEF Send

\* What one that ends a handler does.
LEMMA CommitEffect ==
  ASSUME Commit, ~overlap
  PROVE  /\ outbox' = {} /\ overlap' = overlap
         /\ committed'.isDead = isDead'
         /\ committed'.isPrimary = isPrimary'
         /\ committed'.primaryServers = primaryServers'
         /\ committed'.lastHeartbeat = lastHeartbeat'
         /\ committed'.sent = outbox
BY DEF Commit
\* The receiver starts on a heartbeat: nobody else is at work.
LEMMA RecvStartAlone ==
  ASSUME Inv, ~overlap, NEW s \in Server, RecvAlive(s) \/ RecvRevived(s)
  PROVE  Alone' /\ committed' = committed
<1>1. SendNothing /\ BetweenHandlers
  BY DEF RecvAlive, RecvRevived, MayStart
<1>2. outbox' = outbox /\ committed' = committed /\ overlap' = overlap
  BY <1>1, SendEffect DEF SendNothing
<1>3. Unchanged /\ lastHeartbeat = committed.lastHeartbeat
  BY <1>1 DEF Inv, Alone, Resting
<1>4. recvPC' # "idle" /\ checkPC' = "asleep"
  BY <1>1 DEF RecvAlive, RecvRevived, checkVars, BetweenHandlers
<1>5. Receiving'
  <2>1. CASE RecvAlive(s)
    BY <1>2, <1>3, <1>4, <2>1
       DEF RecvAlive, Receiving, Unchanged, sharedVars
  <2>2. CASE RecvRevived(s)
    BY <1>2, <1>3, <1>4, <2>2
       DEF RecvRevived, Receiving, Joining, Unchanged
  <2> QED
    BY <2>1, <2>2
<1>6. Resting' /\ Checking'
  BY <1>4 DEF Resting, BetweenHandlers, Checking
<1> QED
  BY <1>2, <1>5, <1>6 DEF Alone

\* The receiver goes on with a server it has revived, and sends what Master
\* sends in one step.
LEMMA RecvStepAlone ==
  ASSUME Inv, ~overlap,
         RecvFind \/ RecvPromote \/ RecvRecord \/ RecvInform \/ RecvTell
  PROVE  Alone' /\ committed' = committed
<1> USE SameServers
<1>1. PICK msgs : Send(msgs)
  BY DEF RecvFind, RecvPromote, RecvRecord, RecvInform, RecvTell, SendNothing
<1>2. committed' = committed /\ overlap' = overlap
  BY <1>1, SendEffect
<1>3. /\ recvPC \in {"find", "promote", "record", "inform", "tell"}
      /\ checkPC = "asleep" /\ checkPC' = "asleep" /\ recvPC' # "idle"
      /\ isDead' = isDead /\ lastHeartbeat' = lastHeartbeat
      /\ sender' = sender
  BY DEF Inv, Alone, Receiving, RecvFind, RecvPromote, RecvRecord, RecvInform,
         RecvTell, sharedVars, checkVars
<1>4. /\ lastHeartbeat = committed.lastHeartbeat
      /\ committed.isDead[sender]
      /\ isDead = [committed.isDead EXCEPT ![sender] = FALSE]
      /\ IF recvPC \in {"find", "promote", "record"} THEN Joining ELSE Joined
  BY <1>3 DEF Inv, Alone, Receiving
<1>5. /\ committed.isPrimary \in [Server -> BOOLEAN]
      /\ committed.primaryServers \in Server \union {NoServer}
      /\ sender \in Server
  BY CommittedType DEF Inv, ThreadsInv, TypeOK
<1>6. IF recvPC' \in {"find", "promote", "record"} THEN Joining' ELSE Joined'
  <2>1. CASE RecvFind
    <3>1. outbox' = outbox
      BY <2>1, SendEffect DEF RecvFind, SendNothing
    <3>2. CASE primaryServers = NoServer
      BY <1>2, <1>3, <1>4, <2>1, <3>1, <3>2
         DEF RecvFind, Joining, sharedVars, Atomic!FirstOfGroup
    <3>3. CASE primaryServers # NoServer
      <4>1. ~Atomic!FirstOfGroup
        BY <1>4, <2>1, <3>3 DEF RecvFind, Joining, Atomic!FirstOfGroup
      <4>2. [committed.isPrimary EXCEPT ![sender] = @ \/ Atomic!FirstOfGroup]
              = committed.isPrimary
        BY <1>5, <4>1
      <4> QED
        BY <1>2, <1>3, <1>4, <2>1, <3>1, <3>3, <4>1, <4>2
           DEF RecvFind, Joining, Joined, sharedVars, Atomic!FirstOfGroup
    <3> QED
      BY <3>2, <3>3
  <2>2. CASE RecvPromote
    <3>1. outbox' = outbox
      BY <2>2, SendEffect DEF RecvPromote, SendNothing
    <3> QED
      BY <1>2, <1>3, <1>4, <2>2, <3>1
         DEF RecvPromote, Joining, Atomic!FirstOfGroup
  <2>3. CASE RecvRecord
    <3>1. outbox' = outbox
      BY <2>3, SendEffect DEF RecvRecord, SendNothing
    <3>2. Atomic!FirstOfGroup
      BY <1>4, <2>3 DEF RecvRecord, Joining
    <3>3. [committed.isPrimary EXCEPT ![sender] = @ \/ Atomic!FirstOfGroup]
            = [committed.isPrimary EXCEPT ![sender] = TRUE]
      BY <1>5, <3>2
    <3> QED
      BY <1>2, <1>3, <1>4, <2>3, <3>1, <3>2, <3>3
         DEF RecvRecord, Joining, Joined, Atomic!FirstOfGroup
  <2>4. CASE RecvInform
    <3>1. primaryServers # NoServer
      BY <1>4, <1>5, <2>4
         DEF RecvInform, Joined, Atomic!FirstOfGroup, Server, NoServer
    <3>2. outbox' = outbox \union {Atomic!RoleStatus(sender, isPrimary[sender],
                                                     primaryServers, NoServer)}
      BY <2>4, <3>1, SendEffect DEF RecvInform, EntryRead
    <3> QED
      BY <1>2, <1>3, <1>4, <2>4, <3>1, <3>2
         DEF RecvInform, Joined, EntryRead, Atomic!FirstOfGroup
  <2>5. CASE RecvTell
    <3>1. primaryServers # NoServer
      BY <1>4, <1>5, <2>5
         DEF RecvTell, Joined, Atomic!FirstOfGroup, Server, NoServer
    <3>2. outbox' = outbox
                      \union {Atomic!NewSecondaryStatus(primaryServers, sender)}
      BY <2>5, <3>1, SendEffect DEF RecvTell, EntryRead
    <3> QED
      BY <1>2, <1>3, <1>4, <2>5, <3>1, <3>2
         DEF RecvTell, Joined, EntryRead, Atomic!FirstOfGroup
  <2> QED
    BY <2>1, <2>2, <2>3, <2>4, <2>5
<1>7. Receiving'
  BY <1>2, <1>3, <1>4, <1>6 DEF Receiving
<1>8. Resting' /\ Checking'
  BY <1>3 DEF Resting, BetweenHandlers, Checking
<1> QED
  BY <1>2, <1>7, <1>8 DEF Alone

\* The time stamp ends the handler: it has done what Master does for a server
\* that was alive, or for one that is back.
LEMMA RecvStampAlone ==
  ASSUME Inv, ~overlap, RecvStamp
  PROVE  Alone' /\ Atomic!Next
<1> USE SameServers
<1>1. /\ recvPC = "stamp" /\ recvPC' = "idle"
      /\ checkPC = "asleep" /\ checkPC' = "asleep"
      /\ lastHeartbeat' = [lastHeartbeat EXCEPT ![sender] = "fresh"]
      /\ isDead' = isDead /\ isPrimary' = isPrimary
      /\ primaryServers' = primaryServers
      /\ Commit
  BY DEF RecvStamp, checkVars
<1>2. /\ outbox' = {} /\ overlap' = overlap
      /\ committed'.isDead = isDead
      /\ committed'.isPrimary = isPrimary
      /\ committed'.primaryServers = primaryServers
      /\ committed'.lastHeartbeat = lastHeartbeat'
      /\ committed'.sent = outbox
  BY <1>1, CommitEffect
<1>3. Alone'
  BY <1>1, <1>2 DEF Alone, Resting, Unchanged, Receiving, Checking
<1>4. sender \in Server /\ lastHeartbeat = committed.lastHeartbeat
  BY <1>1 DEF Inv, ThreadsInv, TypeOK, Alone, Receiving
<1>5. CASE ~committed.isDead[sender]
  <2>1. Unchanged
    BY <1>1, <1>5 DEF Inv, Alone, Receiving
  <2>2. Atomic!HeartbeatOfAlive(sender)
    BY <1>1, <1>2, <1>4, <1>5, <2>1
       DEF Atomic!HeartbeatOfAlive, Unchanged, Atomic!electionVars,
           Atomic!requestVars
  <2> QED
    BY <1>3, <1>4, <2>2 DEF Atomic!Next
<1>6. CASE committed.isDead[sender]
  <2>1. isDead = [committed.isDead EXCEPT ![sender] = FALSE] /\ Joined
    BY <1>1, <1>6 DEF Inv, Alone, Receiving
  <2>2. Atomic!HeartbeatOfRevived(sender)
    BY <1>1, <1>2, <1>4, <1>6, <2>1
       DEF Atomic!HeartbeatOfRevived, Joined, Atomic!requestVars
  <2> QED
    BY <1>3, <1>4, <2>2 DEF Atomic!Next
<1> QED
  BY <1>5, <1>6

\* The passing of time is a step of its own.
LEMMA ExpiresAlone ==
  ASSUME Inv, ~overlap, NEW s \in Server, HeartbeatExpires(s)
  PROVE  Alone' /\ Atomic!Next
<1> USE SameServers
<1>1. /\ BetweenHandlers /\ recvPC' = recvPC /\ checkPC' = checkPC
      /\ lastHeartbeat[s] = "fresh"
      /\ lastHeartbeat' = [lastHeartbeat EXCEPT ![s] = "stale"]
      /\ isDead' = isDead /\ isPrimary' = isPrimary
      /\ primaryServers' = primaryServers
      /\ Commit
  BY DEF HeartbeatExpires, MayStart, recvVars, checkVars
<1>2. /\ outbox' = {} /\ overlap' = overlap
      /\ committed'.isDead = isDead
      /\ committed'.isPrimary = isPrimary
      /\ committed'.primaryServers = primaryServers
      /\ committed'.lastHeartbeat = lastHeartbeat'
      /\ committed'.sent = outbox
  BY <1>1, CommitEffect
<1>3. Unchanged /\ lastHeartbeat = committed.lastHeartbeat
  BY <1>1 DEF Inv, Alone, Resting
<1>4. Alone'
  BY <1>1, <1>2
     DEF Alone, Resting, BetweenHandlers, Unchanged, Receiving, Checking
<1>5. Atomic!HeartbeatExpires(s)
  BY <1>1, <1>2, <1>3
     DEF Atomic!HeartbeatExpires, Unchanged, Atomic!electionVars,
         Atomic!requestVars
<1> QED
  BY <1>4, <1>5 DEF Atomic!Next
\* A scan begins: nobody else is at work.
LEMMA CheckLockAlone ==
  ASSUME Inv, ~overlap, CheckLock
  PROVE  Alone' /\ committed' = committed
<1>1. outbox' = outbox /\ committed' = committed /\ overlap' = overlap
  BY SendEffect DEF CheckLock, SendNothing
<1>2. BetweenHandlers /\ recvPC' = "idle" /\ checkPC' = "scan"
  BY DEF CheckLock, MayStart, recvVars, BetweenHandlers
<1>3. Unchanged /\ lastHeartbeat = committed.lastHeartbeat
  BY <1>2 DEF Inv, Alone, Resting
<1>4. Checking'
  BY <1>1, <1>2, <1>3 DEF CheckLock, Checking, Unchanged, sharedVars
<1> QED
  BY <1>1, <1>2, <1>4 DEF Alone, Resting, BetweenHandlers, Receiving

\* What every step of the checker in the middle of a declaration preserves.
LEMMA DeclaringFrame ==
  ASSUME Inv, ~overlap, NEW msgs, Send(msgs),
         checkPC \in {"drop", "clear", "elect", "enter", "notify"},
         checkPC' \in {"clear", "elect", "enter", "notify", "erase"},
         UNCHANGED <<recvPC, isDead, lastHeartbeat, dying, wasPrimary, pending>>
  PROVE  /\ committed' = committed /\ overlap' = overlap
         /\ Declaring' => Alone'
         /\ Heir' = Heir /\ Elected' = Elected
         /\ \A n : /\ ToldOfHeir(n)' = ToldOfHeir(n)
                   /\ ToldOfDeath(n)' = ToldOfDeath(n)
<1>1. committed' = committed /\ overlap' = overlap
  BY SendEffect
<1>2. /\ recvPC = "idle" /\ recvPC' = "idle"
      /\ lastHeartbeat = committed.lastHeartbeat
      /\ pending \subseteq {s \in Server : lastHeartbeat[s] = "stale"}
  BY DEF Inv, Alone, Checking
<1>3. Declaring' => Alone'
  BY <1>1, <1>2 DEF Alone, Resting, BetweenHandlers, Receiving, Checking
<1>4. Heir' = Heir
  BY <1>1 DEF Heir, Atomic!FirstAliveBut, Atomic!Alive
<1>5. Elected' = Elected
  BY <1>1, <1>4 DEF Elected
<1>6. ASSUME NEW n
      PROVE  ToldOfHeir(n)' = ToldOfHeir(n) /\ ToldOfDeath(n)' = ToldOfDeath(n)
  BY <1>1, <1>4 DEF ToldOfHeir, ToldOfDeath, Atomic!RoleStatus
<1> QED
  BY <1>1, <1>3, <1>4, <1>5, <1>6

\* The next entry of the scan: its server is marked dead.
LEMMA CheckMarkAlone ==
  ASSUME Inv, ~overlap, NEW s \in Server, CheckMark(s)
  PROVE  Alone' /\ committed' = committed
<1>1. outbox' = outbox /\ committed' = committed /\ overlap' = overlap
  BY SendEffect DEF CheckMark, SendNothing
<1>2. /\ recvPC' = "idle" /\ lastHeartbeat = committed.lastHeartbeat
      /\ pending \subseteq {r \in Server : lastHeartbeat[r] = "stale"}
      /\ Unchanged
  BY DEF Inv, Alone, Checking, CheckMark, recvVars
<1>3. checkPC' = "drop" /\ dying' = s /\ dying' \notin pending'
  BY DEF CheckMark
<1>4. Declaring'
  BY <1>1, <1>2, <1>3 DEF CheckMark, Declaring, Unchanged
<1>5. Checking'
  BY <1>1, <1>2, <1>3, <1>4 DEF Checking, CheckMark
<1> QED
  BY <1>1, <1>2, <1>3, <1>5 DEF Alone, Resting, BetweenHandlers, Receiving

\* The entry of a primary is erased and its flag cleared.
LEMMA CheckDropAlone ==
  ASSUME Inv, ~overlap, CheckDrop
  PROVE  Alone' /\ committed' = committed
<1>1. checkPC = "drop" /\ checkPC' = "clear" /\ Send({})
  BY DEF CheckDrop, SendNothing
<1>2. UNCHANGED <<recvPC, isDead, lastHeartbeat, dying, wasPrimary, pending>>
  BY DEF CheckDrop, recvVars, loopVars
<1>3. committed' = committed /\ outbox' = outbox /\ (Declaring' => Alone')
  BY <1>1, <1>2, DeclaringFrame, SendEffect
<1>4. Declaring
  BY <1>1 DEF Inv, Alone, Checking
<1>5. Declaring'
  BY <1>1, <1>2, <1>3, <1>4 DEF Declaring, CheckDrop
<1> QED
  BY <1>3, <1>5

\* Which of the two loops follows.
LEMMA CheckClearAlone ==
  ASSUME Inv, ~overlap, CheckClear
  PROVE  Alone' /\ committed' = committed
<1>1. /\ checkPC = "clear" /\ checkPC' \in {"elect", "notify"}
      /\ checkPC' = IF wasPrimary THEN "elect" ELSE "notify"
      /\ Send({})
  BY DEF CheckClear, SendNothing
<1>2. UNCHANGED <<recvPC, isDead, lastHeartbeat, dying, wasPrimary, pending>>
  BY DEF CheckClear, recvVars, loopVars
<1>3. committed' = committed /\ outbox' = outbox /\ (Declaring' => Alone')
  BY <1>1, <1>2, DeclaringFrame, SendEffect
<1>4. Declaring
  BY <1>1 DEF Inv, Alone, Checking
<1>5. cursor = 0 /\ ~assigned /\ cursor' = cursor /\ assigned' = assigned
  BY <1>1 DEF Inv, ThreadsInv, LoopsReset, CheckClear, loopVars
<1>6. /\ committed.isPrimary \in [Server -> BOOLEAN]
      /\ dying \in Server
  BY CommittedType DEF Inv, ThreadsInv, TypeOK
<1>7. CASE wasPrimary
  <2>1. Searching'
    <3>1. isPrimary' = [isPrimary EXCEPT ![dying] = FALSE]
      BY DEF CheckClear
    <3>2. primaryServers' = primaryServers /\ cursor' = 0
      BY <1>5 DEF CheckClear
    <3>3. /\ isPrimary = committed.isPrimary
          /\ primaryServers = NoServer
          /\ outbox = {}
      BY <1>1, <1>4, <1>7 DEF Declaring
    <3>4. \A r \in Server : ~(r < 0)
      BY DEF Server
    <3> QED
      BY <1>2, <1>3, <1>7, <3>1, <3>2, <3>3, <3>4 DEF Searching
  <2> QED
    BY <1>1, <1>2, <1>3, <1>4, <1>5, <1>7, <2>1 DEF Declaring
<1>8. CASE ~wasPrimary
  <2>1. [committed.isPrimary EXCEPT ![dying] = FALSE] = committed.isPrimary
    BY <1>4, <1>6, <1>8 DEF Declaring
  <2>2. ToldOfDeath(0)' = {}
    BY DEF ToldOfDeath, Server
  <2>3. Notifying'
    <3>1. isPrimary' = [isPrimary EXCEPT ![dying] = FALSE]
      BY DEF CheckClear
    <3>2. primaryServers' = primaryServers /\ cursor' = 0
      BY <1>5 DEF CheckClear
    <3>3. /\ isPrimary = committed.isPrimary
          /\ primaryServers = committed.primaryServers
          /\ outbox = {}
      BY <1>1, <1>4, <1>8 DEF Declaring
    <3> QED
      BY <1>2, <1>3, <1>8, <2>1, <2>2, <3>1, <3>2, <3>3 DEF Notifying
  <2> QED
    BY <1>1, <1>2, <1>3, <1>4, <1>8, <2>3 DEF Declaring
<1> QED
  BY <1>3, <1>7, <1>8
\* The end of an iteration: the loop goes on with the next server, or has
\* visited all of them.
LEMMA NextServerEffect ==
  ASSUME Inv, NEW loop, NextServer(loop)
  PROVE  \/ cursor' = cursor + 1 /\ cursor' \in Server /\ checkPC' = loop
         \/ cursor + 1 = NumServers /\ cursor' = 0 /\ checkPC' = "erase"
BY NumServersAssumption DEF Inv, ThreadsInv, TypeOK, Server, NextServer

\* One more server has been told.
LEMMA ToldNext ==
  ASSUME Inv
  PROVE  /\ Heir \in Server /\ Heir < cursor =>
              ToldOfHeir(cursor + 1) = ToldOfHeir(cursor)
                \union {Atomic!RoleStatus(cursor, FALSE, Heir, dying)}
         /\ Heir = cursor =>
              ToldOfHeir(cursor + 1)
                = {Atomic!RoleStatus(cursor, TRUE, cursor, dying)}
         /\ isDead[cursor] => ToldOfDeath(cursor + 1) = ToldOfDeath(cursor)
         /\ ~isDead[cursor] =>
              ToldOfDeath(cursor + 1) = ToldOfDeath(cursor)
                \union {Atomic!RoleStatus(cursor, committed.isPrimary[cursor],
                                          committed.primaryServers, dying)}
<1>1. cursor \in Server /\ NumServers \in Nat
  BY NumServersAssumption DEF Inv, ThreadsInv, TypeOK
<1>2. ASSUME Heir \in Server, Heir < cursor
      PROVE  {q \in Server : Heir <= q /\ q < cursor + 1}
               = {q \in Server : Heir <= q /\ q < cursor} \union {cursor}
  BY <1>1, <1>2 DEF Server
<1>3. ASSUME Heir = cursor
      PROVE  {q \in Server : Heir <= q /\ q < cursor + 1} = {cursor}
  BY <1>1, <1>3 DEF Server
<1>4. isDead[cursor] => {q \in Server : q < cursor + 1 /\ ~isDead[q]}
                          = {q \in Server : q < cursor /\ ~isDead[q]}
  BY <1>1 DEF Server
<1>5. ~isDead[cursor] => {q \in Server : q < cursor + 1 /\ ~isDead[q]}
                = {q \in Server : q < cursor /\ ~isDead[q]} \union {cursor}
  BY <1>1 DEF Server
<1>6. ASSUME Heir \in Server, Heir < cursor
      PROVE  (cursor = Heir) = FALSE
  BY <1>1, <1>6 DEF Server
<1>7. ASSUME Heir \in Server, Heir < cursor
      PROVE  ToldOfHeir(cursor + 1) = ToldOfHeir(cursor)
                \union {Atomic!RoleStatus(cursor, FALSE, Heir, dying)}
  BY <1>2, <1>6, <1>7 DEF ToldOfHeir
<1>8. ASSUME Heir = cursor
      PROVE  ToldOfHeir(cursor + 1)
                = {Atomic!RoleStatus(cursor, TRUE, cursor, dying)}
  BY <1>3, <1>8 DEF ToldOfHeir
<1> QED
  BY <1>4, <1>5, <1>7, <1>8 DEF ToldOfDeath

\* The first live server is found.
LEMMA ElectFirstAliveAlone ==
  ASSUME Inv, ~overlap, ElectFirstAlive
  PROVE  Alone' /\ committed' = committed
<1>1. checkPC = "elect" /\ checkPC' = "enter" /\ Send({})
  BY DEF ElectFirstAlive, SendNothing
<1>2. UNCHANGED <<recvPC, isDead, lastHeartbeat, dying, wasPrimary, pending>>
  BY DEF ElectFirstAlive, recvVars, loopVars
<1>3. /\ committed' = committed /\ outbox' = outbox /\ (Declaring' => Alone')
      /\ Heir' = Heir /\ Elected' = Elected
  BY <1>1, <1>2, DeclaringFrame, SendEffect
<1>4. Declaring /\ Searching
  BY <1>1 DEF Inv, Alone, Checking, Declaring, ElectFirstAlive
<1>5. /\ committed.isDead \in [Server -> BOOLEAN]
      /\ committed.isPrimary \in [Server -> BOOLEAN]
      /\ dying \in Server /\ cursor \in Server
  BY CommittedType DEF Inv, ThreadsInv, TypeOK
<1>6. \A s \in Server : ~isDead[s] <=> s # dying /\ ~committed.isDead[s]
  BY <1>4, <1>5 DEF Declaring
<1>7. Heir = cursor
  <2>1. ~isDead[cursor] /\ \A r \in Server : r < cursor => isDead[r]
    BY <1>4 DEF ElectFirstAlive, Searching
  <2>2. /\ Heir \in Server /\ ~isDead[Heir] /\ Heir <= cursor
    BY <1>5, <1>6, <2>1, HeirIsFirst
  <2> QED
    BY <1>5, <2>1, <2>2 DEF Server
<1>8. isPrimary' = Elected
  <2>1. isPrimary' = [[committed.isPrimary EXCEPT ![dying] = FALSE]
                        EXCEPT ![cursor] = TRUE]
    BY <1>4 DEF ElectFirstAlive, Searching
  <2>2. cursor # dying
    BY <1>5, <1>6 DEF ElectFirstAlive
  <2> QED
    BY <1>5, <1>7, <2>1, <2>2 DEF Elected
<1>9. Entering'
  BY <1>2, <1>3, <1>4, <1>7, <1>8
     DEF Entering, Searching, ElectFirstAlive, loopVars
<1> QED
  BY <1>1, <1>2, <1>3, <1>4, <1>9 DEF Declaring
\* It is entered and told, and those after it are told; or the loop has ended.
LEMMA InformedOrDeclared ==
  ASSUME Inv, ~overlap, NextServer("elect"), NEW msgs, Send(msgs),
         checkPC \in {"elect", "enter"}, Declaring,
         UNCHANGED <<recvPC, isDead, lastHeartbeat, dying, wasPrimary, pending>>,
         wasPrimary, isPrimary' = Elected, primaryServers' = Heir,
         Heir \in Server, Heir <= cursor, assigned',
         outbox' = ToldOfHeir(cursor + 1)
  PROVE  Alone' /\ committed' = committed
<1>0. cursor \in Server /\ NumServers \in Nat
  BY NumServersAssumption DEF Inv, ThreadsInv, TypeOK
<1>1. checkPC' \in {"elect", "erase"}
  BY NextServerEffect
<1>2. /\ committed' = committed /\ (Declaring' => Alone')
      /\ Heir' = Heir /\ Elected' = Elected
  BY <1>1, DeclaringFrame
<1>3. CASE cursor' = cursor + 1 /\ cursor' \in Server /\ checkPC' = "elect"
  <2>1. outbox' = ToldOfHeir(cursor)'
    BY <1>2, <1>3 DEF ToldOfHeir
  <2>2. Heir < cursor'
    BY <1>0, <1>3 DEF Server
  <2>3. Informing'
    BY <1>2, <2>1, <2>2 DEF Informing
  <2> QED
    BY <1>2, <1>3, <2>3 DEF Declaring
<1>4. CASE cursor + 1 = NumServers /\ cursor' = 0 /\ checkPC' = "erase"
  <2>1. outbox' = ToldOfHeir(NumServers)'
    BY <1>2, <1>4 DEF ToldOfHeir
  <2>2. Heir # NoServer
    BY DEF Server, NoServer
  <2>3. Declared'
    BY <1>2, <2>1, <2>2 DEF Declared
  <2> QED
    BY <1>2, <1>4, <2>3 DEF Declaring
<1> QED
  BY <1>3, <1>4, NextServerEffect

\* The promoted server is entered in primaryServers and told.
LEMMA ElectEnterAlone ==
  ASSUME Inv, ~overlap, ElectEnter
  PROVE  Alone' /\ committed' = committed
<1>1. /\ checkPC = "enter" /\ NextServer("elect")
      /\ primaryServers' = cursor /\ assigned' /\ isPrimary' = isPrimary
      /\ Send({Atomic!RoleStatus(cursor, TRUE, cursor, dying)})
      /\ UNCHANGED <<recvPC, isDead, lastHeartbeat, dying, wasPrimary, pending>>
  BY DEF ElectEnter, recvVars
<1>2. Declaring /\ Entering
  BY <1>1 DEF Inv, Alone, Checking, Declaring
<1>3. cursor \in Server
  BY DEF Inv, ThreadsInv, TypeOK
<1>4. outbox' = ToldOfHeir(cursor + 1)
  BY <1>1, <1>2, SendEffect, ToldNext DEF Entering
<1>5. Heir <= cursor /\ Heir \in Server
  BY <1>2, <1>3 DEF Entering, Server
<1> QED
  BY <1>1, <1>2, <1>4, <1>5, InformedOrDeclared DEF Entering

\* The servers after the promoted one are told of it.
LEMMA ElectInformAlone ==
  ASSUME Inv, ~overlap, ElectInform
  PROVE  Alone' /\ committed' = committed
<1>1. /\ checkPC = "elect" /\ NextServer("elect")
      /\ primaryServers' = EntryRead /\ assigned /\ assigned'
      /\ isPrimary' = isPrimary
      /\ Send({Atomic!RoleStatus(cursor, FALSE, EntryRead, dying)})
      /\ UNCHANGED <<recvPC, isDead, lastHeartbeat, dying, wasPrimary, pending>>
  BY DEF ElectInform, recvVars
<1>2. Declaring /\ Informing
  BY <1>1 DEF Inv, Alone, Checking, Declaring
<1>3. cursor \in Server
  BY DEF Inv, ThreadsInv, TypeOK
<1>4. EntryRead = Heir
  BY <1>2 DEF EntryRead, Informing, Server, NoServer
<1>5. outbox' = ToldOfHeir(cursor + 1)
  BY <1>1, <1>2, <1>4, SendEffect, ToldNext DEF Informing
<1>6. Heir <= cursor /\ Heir \in Server
  BY <1>2, <1>3 DEF Informing, Server
<1> QED
  BY <1>1, <1>2, <1>4, <1>5, <1>6, InformedOrDeclared DEF Informing

\* A dead server is passed over; if it is the last, none is promoted.
LEMMA ElectSkipDeadAlone ==
  ASSUME Inv, ~overlap, ElectSkipDead
  PROVE  Alone' /\ committed' = committed
<1>1. /\ checkPC = "elect" /\ NextServer("elect") /\ ~assigned /\ ~assigned'
      /\ isDead[cursor]
      /\ UNCHANGED <<isPrimary, primaryServers>>
      /\ Send({})
      /\ UNCHANGED <<recvPC, isDead, lastHeartbeat, dying, wasPrimary, pending>>
  BY DEF Inv, ThreadsInv, TypeOK, ElectSkipDead, recvVars, sharedVars, SendNothing
<1>2. Declaring /\ Searching
  BY <1>1 DEF Inv, Alone, Checking, Declaring
<1>3. checkPC' \in {"elect", "erase"}
  BY <1>1, NextServerEffect
<1>4. /\ committed' = committed /\ (Declaring' => Alone') /\ outbox' = outbox
      /\ Heir' = Heir /\ Elected' = Elected
  BY <1>1, <1>3, DeclaringFrame, SendEffect
<1>5. /\ committed.isDead \in [Server -> BOOLEAN]
      /\ committed.isPrimary \in [Server -> BOOLEAN]
      /\ dying \in Server /\ cursor \in Server /\ NumServers \in Nat
  BY CommittedType, NumServersAssumption DEF Inv, ThreadsInv, TypeOK
<1>6. \A r \in Server : r < cursor + 1 => isDead[r]
  <2>1. \A r \in Server : r < cursor => isDead[r]
    BY <1>2 DEF Searching
  <2> QED
    BY <1>1, <1>5, <2>1 DEF Server
<1>7. CASE cursor' = cursor + 1 /\ cursor' \in Server /\ checkPC' = "elect"
  <2>1. Searching'
    BY <1>1, <1>2, <1>4, <1>6, <1>7 DEF Searching
  <2> QED
    BY <1>1, <1>2, <1>4, <1>7, <2>1 DEF Declaring
<1>8. CASE cursor + 1 = NumServers /\ cursor' = 0 /\ checkPC' = "erase"
  <2>1. \A s \in Server : ~isDead[s] <=> s # dying /\ ~committed.isDead[s]
    BY <1>2, <1>5 DEF Declaring
  <2>2. Heir = NoServer
    BY <1>5, <1>6, <1>8, <2>1, HeirIsFirst DEF Server
  <2>3. [committed.isPrimary EXCEPT ![dying] = FALSE] = Elected
    <3>1. \A r \in Server : r # Heir
      BY <2>2 DEF Server, NoServer
    <3> QED
      BY <1>5, <3>1 DEF Elected
  <2>4. Declared'
    BY <1>1, <1>2, <1>4, <2>2, <2>3 DEF Declared, Searching
  <2> QED
    BY <1>1, <1>2, <1>4, <1>8, <2>4 DEF Declaring
<1> QED
  BY <1>1, <1>7, <1>8, NextServerEffect

\* After the death of a secondary, the next live server has been told.
LEMMA NotifiedOrDeclared ==
  ASSUME Inv, ~overlap, NextServer("notify"), NEW msgs, Send(msgs),
         checkPC = "notify", Declaring,
         UNCHANGED <<recvPC, isDead, lastHeartbeat, dying, wasPrimary, pending>>,
         isPrimary' = isPrimary, primaryServers' = primaryServers,
         outbox' = ToldOfDeath(cursor + 1)
  PROVE  Alone' /\ committed' = committed
<1>1. checkPC' \in {"notify", "erase"}
  BY NextServerEffect
<1>2. committed' = committed /\ (Declaring' => Alone')
  BY <1>1, DeclaringFrame
<1>3. Notifying
  BY DEF Declaring
<1>4. CASE cursor' = cursor + 1 /\ cursor' \in Server /\ checkPC' = "notify"
  <2>1. outbox' = ToldOfDeath(cursor)'
    BY <1>2, <1>4 DEF ToldOfDeath
  <2>2. Notifying'
    BY <1>2, <1>3, <2>1 DEF Notifying
  <2> QED
    BY <1>2, <1>4, <2>2 DEF Declaring
<1>5. CASE cursor + 1 = NumServers /\ cursor' = 0 /\ checkPC' = "erase"
  <2>1. outbox' = ToldOfDeath(NumServers)'
    BY <1>2, <1>5 DEF ToldOfDeath
  <2>2. Declared'
    BY <1>2, <1>3, <2>1 DEF Declared, Notifying
  <2> QED
    BY <1>2, <1>5, <2>2 DEF Declaring
<1> QED
  BY <1>4, <1>5, NextServerEffect

\* A live server is told; there is a primary to tell it of.
LEMMA NotifyAliveAlone ==
  ASSUME Inv, ~overlap, NotifyAlive
  PROVE  Alone' /\ committed' = committed
<1>1. /\ checkPC = "notify" /\ NextServer("notify") /\ ~isDead[cursor]
      /\ primaryServers' = EntryRead /\ isPrimary' = isPrimary
      /\ Send({Atomic!RoleStatus(cursor, isPrimary[cursor], EntryRead, dying)})
      /\ UNCHANGED <<recvPC, isDead, lastHeartbeat, dying, wasPrimary, pending>>
  BY DEF NotifyAlive, recvVars
<1>2. Declaring /\ Notifying
  BY <1>1 DEF Inv, Alone, Checking, Declaring
<1>3. committed.isDead \in [Server -> BOOLEAN] /\ cursor \in Server
  BY CommittedType DEF Inv, ThreadsInv, TypeOK
<1>4. ~committed.isDead[cursor]
  BY <1>1, <1>2, <1>3 DEF Declaring
<1>5. EntryRead = primaryServers
  BY <1>2, <1>3, <1>4, CommittedPrimary DEF Inv, EntryRead, Notifying
<1>6. outbox' = ToldOfDeath(cursor + 1)
  BY <1>1, <1>2, <1>5, SendEffect, ToldNext DEF Notifying
<1> QED
  BY <1>1, <1>2, <1>5, <1>6, NotifiedOrDeclared

\* A dead one is not.
LEMMA NotifySkipDeadAlone ==
  ASSUME Inv, ~overlap, NotifySkipDead
  PROVE  Alone' /\ committed' = committed
<1>1. /\ checkPC = "notify" /\ NextServer("notify") /\ isDead[cursor]
      /\ UNCHANGED <<isPrimary, primaryServers>>
      /\ Send({})
      /\ UNCHANGED <<recvPC, isDead, lastHeartbeat, dying, wasPrimary, pending>>
  BY DEF NotifySkipDead, recvVars, sharedVars, SendNothing
<1>2. Declaring /\ Notifying
  BY <1>1 DEF Inv, Alone, Checking, Declaring
<1>3. outbox' = ToldOfDeath(cursor + 1)
  BY <1>1, <1>2, SendEffect, ToldNext DEF Notifying
<1> QED
  BY <1>1, <1>2, <1>3, NotifiedOrDeclared

\* The entry is erased: the handler has done what Master does when a primary,
\* or a secondary, dies.
LEMMA CheckEraseAlone ==
  ASSUME Inv, ~overlap, CheckErase
  PROVE  Alone' /\ Atomic!Next
<1> USE SameServers
<1>1. /\ checkPC = "erase" /\ pending' = pending /\ recvPC' = recvPC
      /\ checkPC' = IF pending = {} THEN "asleep" ELSE "scan"
      /\ lastHeartbeat' = [lastHeartbeat EXCEPT ![dying] = "none"]
      /\ isDead' = isDead /\ isPrimary' = isPrimary
      /\ primaryServers' = primaryServers
      /\ Commit
  BY DEF CheckErase, recvVars
<1>2. /\ outbox' = {} /\ overlap' = overlap
      /\ committed'.isDead = isDead
      /\ committed'.isPrimary = isPrimary
      /\ committed'.primaryServers = primaryServers
      /\ committed'.lastHeartbeat = lastHeartbeat'
      /\ committed'.sent = outbox
  BY <1>1, CommitEffect
<1>3. /\ Declaring /\ Declared /\ recvPC = "idle"
      /\ lastHeartbeat = committed.lastHeartbeat
      /\ pending \subseteq {s \in Server : lastHeartbeat[s] = "stale"}
  BY <1>1 DEF Inv, Alone, Checking, Declaring
<1>4. /\ committed.isDead \in [Server -> BOOLEAN]
      /\ committed.isPrimary \in [Server -> BOOLEAN]
      /\ dying \in Server /\ NumServers \in Nat
      /\ lastHeartbeat \in [Server -> {"none", "fresh", "stale"}]
  BY CommittedType, NumServersAssumption DEF Inv, ThreadsInv, TypeOK
<1>5. Alone'
  <2>1. pending' \subseteq {s \in Server : lastHeartbeat'[s] = "stale"}
    BY <1>1, <1>3, <1>4 DEF Declaring
  <2>2. Unchanged' /\ lastHeartbeat' = committed'.lastHeartbeat
    BY <1>1, <1>2 DEF Unchanged
  <2> QED
    BY <1>1, <1>3, <2>1, <2>2
       DEF Alone, Resting, BetweenHandlers, Receiving, Checking
<1>6. CASE wasPrimary
  <2>1. /\ Atomic!TimedOut(dying) /\ committed.isPrimary[dying]
    BY <1>3, <1>6 DEF Declaring, Atomic!TimedOut
  <2>2. committed'.isDead = [committed.isDead EXCEPT ![dying] = TRUE]
    BY <1>2, <1>3 DEF Declaring
  <2>3. committed'.isPrimary = Elected /\ committed'.primaryServers = Heir
    BY <1>2, <1>3, <1>6 DEF Declared
  <2>4. ToldOfHeir(NumServers) = {Atomic!RoleStatus(r, r = Heir, Heir, dying) :
                                    r \in Atomic!ListedFrom(Heir)}
    <3>1. Heir \in Server \union {NoServer}
      BY <1>4, HeirIsFirst
    <3>2. {q \in Server : Heir <= q /\ q < NumServers} = Atomic!ListedFrom(Heir)
      BY <1>4, <3>1 DEF Atomic!ListedFrom, Server, NoServer
    <3> QED
      BY <3>2 DEF ToldOfHeir
  <2>5. committed'.sent = IF Heir = NoServer THEN {}
                          ELSE {Atomic!RoleStatus(r, r = Heir, Heir, dying) :
                                  r \in Atomic!ListedFrom(Heir)}
    BY <1>2, <1>3, <1>6, <2>4 DEF Declared
  <2>6. committed'.lastHeartbeat = Atomic!EntryErased(dying)
    BY <1>1, <1>2, <1>3 DEF Atomic!EntryErased
  <2>7. Atomic!PrimaryDies(dying)
    BY <2>1, <2>2, <2>3, <2>5, <2>6
       DEF Atomic!PrimaryDies, Heir, Elected, Atomic!requestVars
  <2> QED
    BY <1>4, <1>5, <2>7 DEF Atomic!Next
<1>7. CASE ~wasPrimary
  <2>1. Atomic!TimedOut(dying) /\ ~committed.isPrimary[dying]
    BY <1>3, <1>7 DEF Declaring, Atomic!TimedOut
  <2>2. committed'.isDead = [committed.isDead EXCEPT ![dying] = TRUE]
    BY <1>2, <1>3 DEF Declaring
  <2>3. /\ committed'.isPrimary = committed.isPrimary
        /\ committed'.primaryServers = committed.primaryServers
        /\ committed'.sent = ToldOfDeath(NumServers)
    BY <1>2, <1>3, <1>7 DEF Declared
  <2>4. {q \in Server : q < NumServers /\ ~isDead[q]} = Atomic!Alive \ {dying}
    BY <1>3, <1>4 DEF Declaring, Atomic!Alive, Server
  <2>5. committed'.lastHeartbeat = Atomic!EntryErased(dying)
    BY <1>1, <1>2, <1>3 DEF Atomic!EntryErased
  <2>6. Atomic!SecondaryDies(dying)
    BY <2>1, <2>2, <2>3, <2>4, <2>5
       DEF Atomic!SecondaryDies, ToldOfDeath, Atomic!requestVars
  <2> QED
    BY <1>4, <1>5, <2>6 DEF Atomic!Next
<1> QED
  BY <1>6, <1>7
-----------------------------------------------------------------------------
(* All steps.                                                              *)

\* Whether handlers overlap is fixed, and the history is not kept if they do.
LEMMA HistoryFrame ==
  ASSUME Next
  PROVE  overlap' = overlap /\ (overlap => committed' = committed)
<1>1. (\E msgs : Send(msgs)) \/ Commit
  BY Zenon
     DEF Next, RecvStep, CheckStep, RecvAlive, RecvRevived, HeartbeatExpires,
         RecvFind, RecvPromote, RecvRecord, RecvInform, RecvTell, RecvStamp,
         CheckLock, CheckMark, CheckDrop, CheckClear, ElectFirstAlive,
         ElectEnter, ElectSkipDead, ElectInform, NotifyAlive, NotifySkipDead,
         CheckErase, SendNothing
<1> QED
  BY <1>1 DEF Send, Commit

\* A step of handlers that run alone ends one, with the effect of a step of
\* Master, or is invisible to Master.
LEMMA NextAlone ==
  ASSUME Inv, ~overlap, Next
  PROVE  Alone' /\ (Atomic!Next \/ committed' = committed)
<1>1. ASSUME NEW s \in Server, RecvAlive(s) \/ RecvRevived(s)
      PROVE  Alone' /\ committed' = committed
  BY <1>1, RecvStartAlone
<1>2. ASSUME NEW s \in Server, HeartbeatExpires(s)
      PROVE  Alone' /\ Atomic!Next
  BY <1>2, ExpiresAlone
<1>3. ASSUME NEW s \in Server, CheckMark(s)
      PROVE  Alone' /\ committed' = committed
  BY <1>3, CheckMarkAlone
<1>4. CASE RecvStep
  BY <1>4, RecvStepAlone, RecvStampAlone DEF RecvStep
<1>5. CASE CheckLock \/ CheckDrop \/ CheckClear
  BY <1>5, CheckLockAlone, CheckDropAlone, CheckClearAlone
<1>6. CASE ElectFirstAlive \/ ElectEnter \/ ElectSkipDead \/ ElectInform
  BY <1>6, ElectFirstAliveAlone, ElectEnterAlone, ElectSkipDeadAlone,
     ElectInformAlone
<1>7. CASE NotifyAlive \/ NotifySkipDead \/ CheckErase
  BY <1>7, NotifyAliveAlone, NotifySkipDeadAlone, CheckEraseAlone
<1> QED
  BY <1>1, <1>2, <1>3, <1>4, <1>5, <1>6, <1>7 DEF Next, CheckStep

\* The state main sets up.
LEMMA InitEstablishesInv == Init => Inv /\ Atomic!Init
<1> SUFFICES ASSUME Init PROVE Inv /\ Atomic!Init
  OBVIOUS
<1>1. 0 \in Server
  BY NumServersAssumption DEF Server
<1>2. ThreadsInv
  BY <1>1 DEF Init, ThreadsInv, TypeOK, LoopsReset, AliveIsTracked,
              RevivalIsStamped, EntryIsComing, Alive
<1>3. Atomic!Init
  BY SameServers DEF Init, Atomic!Init
<1>4. Proved!Inv
  BY <1>3, SameInit, Proved!InitEstablishesInv, NumServersAssumption
<1>5. Alone
  BY DEF Init, Alone, Resting, Unchanged, Receiving, Checking
<1> QED
  BY <1>2, <1>3, <1>4, <1>5 DEF Inv

\* Every step keeps the invariant and is one of Master, or invisible to it.
LEMMA StepKeepsInv ==
  ASSUME Inv, [Next]_vars
  PROVE  Inv' /\ [Atomic!Next]_(Atomic!vars)
<1>1. CASE Next
  <2>1. ThreadsInv'
    BY <1>1, TypeKept, ResetKept, TrackedKept, EntryKept DEF Inv, ThreadsInv
  <2>2. Alone' /\ (Atomic!Next \/ committed' = committed)
    <3>1. CASE overlap
      BY <1>1, <3>1, HistoryFrame DEF Alone
    <3>2. CASE ~overlap
      BY <1>1, <3>2, NextAlone
    <3> QED
      BY <3>1, <3>2
  <2>3. [Proved!Next]_(Proved!vars)
    BY <2>2, SameNext DEF Proved!vars
  <2>4. Proved!Inv'
    BY <2>3, Proved!NextKeepsInv, NumServersAssumption DEF Inv
  <2> QED
    BY <2>1, <2>2, <2>4 DEF Inv, Atomic!vars
<1>2. CASE UNCHANGED vars
  <2> USE <1>2 DEF vars, sharedVars, recvVars, checkVars, loopVars, historyVars
  <2>1. ThreadsInv'
    BY DEF Inv, ThreadsInv, TypeOK, LoopsReset, AliveIsTracked,
           RevivalIsStamped, EntryIsComing, Alive
  <2>2. Proved!Inv'
    <3>1. UNCHANGED Proved!vars
      BY DEF Proved!vars
    <3> QED
      BY <3>1, Proved!NextKeepsInv, NumServersAssumption DEF Inv
  <2>3. Alone'
    <3>1. Heir' = Heir
      BY DEF Heir, Atomic!FirstAliveBut, Atomic!Alive
    <3>2. Resting' = Resting /\ Unchanged' = Unchanged
      BY DEF Resting, BetweenHandlers, Unchanged
    <3>3. Joining' = Joining /\ Joined' = Joined
      BY DEF Joining, Joined, Atomic!FirstOfGroup, Atomic!RoleStatus,
             Atomic!NewSecondaryStatus
    <3>4. Declaring' = Declaring
      BY <3>1 DEF Declaring, Searching, Entering, Informing, Notifying,
                  Declared, Elected, ToldOfHeir, ToldOfDeath, Atomic!RoleStatus
    <3> QED
      BY <3>2, <3>3, <3>4 DEF Inv, Alone, Receiving, Checking
  <2>4. UNCHANGED Atomic!vars
    BY DEF Atomic!vars
  <2> QED
    BY <2>1, <2>2, <2>3, <2>4 DEF Inv
<1> QED
  BY <1>1, <1>2

-----------------------------------------------------------------------------
(* The theorems.                                                           *)

\* The bookkeeping of the two threads stays consistent (recvHeartbeat and
\* checkHeartbeats), between accesses and between handlers.
THEOREM Invariance == Spec => []Inv
<1>1. Init => Inv
  BY InitEstablishesInv
<1>2. Inv /\ [Next]_vars => Inv'
  BY StepKeepsInv
<1> QED
  BY <1>1, <1>2, PTL DEF Spec

\* The variables keep their types: no loop runs off the server list.
THEOREM TypeCorrect == Spec => []TypeOK
<1>1. Inv => TypeOK
  BY DEF Inv, ThreadsInv
<1> QED
  BY <1>1, Invariance, PTL

\* A server counted alive is, or is about to be, among those that
\* checkHeartbeats can declare dead, however the threads interleave.
THEOREM LiveServersAreTracked == Spec => []AliveIsTracked
<1>1. Inv => AliveIsTracked
  BY DEF Inv, ThreadsInv
<1> QED
  BY <1>1, Invariance, PTL

\* However the threads interleave, no live group is left without an entry in
\* primaryServers once they come to rest.
THEOREM EntryAtRest == Spec => []NeverWithoutEntry
<1>1. Inv => NeverWithoutEntry
  BY DEF Inv, ThreadsInv, EntryIsComing, NeverWithoutEntry, BetweenHandlers
<1> QED
  BY <1>1, Invariance, PTL

\* Handlers that run alone do to the group, step by step, what the actions of
\* Master do: the accesses of recvHeartbeat and checkHeartbeats add up to its
\* handlers, datagrams included.
THEOREM Implementation == Spec => ImplementsMaster
<1>1. Init => Inv /\ Atomic!Init
  BY InitEstablishesInv
<1>2. Inv /\ [Next]_vars => Inv' /\ [Atomic!Next]_(Atomic!vars)
  BY StepKeepsInv
<1> QED
  BY <1>1, <1>2, PTL DEF Spec, ImplementsMaster, Atomic!Spec

\* The group has one live primary, in both places, if handlers do not overlap:
\* what the comments of master.cc say needs nothing but that.
THEOREM OnePrimaryUnlessOverlap == Spec => [](~overlap => OnePrimary)
<1>1. Inv => (~overlap => OnePrimary)
  <2> SUFFICES ASSUME Inv, ~overlap, BetweenHandlers
               PROVE  IF Alive = {} THEN primaryServers = NoServer
                      ELSE /\ primaryServers \in Alive
                           /\ \A s \in Server :
                                isPrimary[s] <=> s = primaryServers
    BY DEF OnePrimary
  <2>1. Unchanged
    BY DEF Inv, Alone, Resting
  <2>2. Alive = Proved!Alive
    BY <2>1, SameServers DEF Unchanged, Alive, Proved!Alive
  <2>3. Proved!PrimaryIsAlive /\ Proved!FlagsMatchMap
    BY DEF Inv, Proved!Inv
  <2> QED
    BY <2>1, <2>2, <2>3, SameServers
       DEF Unchanged, Proved!PrimaryIsAlive, Proved!FlagsMatchMap
<1> QED
  BY <1>1, Invariance, PTL
=============================================================================
