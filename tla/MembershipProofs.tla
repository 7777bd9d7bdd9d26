-------------------------- MODULE MembershipProofs --------------------------
(***************************************************************************)
(* Proofs about module Membership, for any number of servers and failures:  *)
(* what the servers know of their roles and of each other's deaths agrees   *)
(* with the master once they have read what it sent.                        *)
(***************************************************************************)
EXTENDS Membership, TLAPS

\* What is proved of the master holds here too.
Proved == INSTANCE MasterProofs

-----------------------------------------------------------------------------
(* The inductive invariant.                                                *)

\* What a datagram says of its receiver's role is what the master holds now.
TellsRole(m) ==
    /\ m.role = "PRIMARY" <=> isPrimary[m.to]
    /\ m.role # "PRIMARY" => m.primary = primaryServers

\* The last datagram on its way to a live server tells it its role; if none
\* is on its way, the server knows it.
RoleIsComing ==
    \A s \in Server : up[s] /\ ~isDead[s] =>
        IF network[s] = <<>>
        THEN /\ me[s] = isPrimary[s]
             /\ ~me[s] => primaryInfo[s] = primaryServers
        ELSE TellsRole(network[s][Len(network[s])])

\* Every datagram is addressed to the server it is on its way to.
Addressed ==
    \A s \in Server : \A i \in 1 .. Len(network[s]) : network[s][i].to = s

\* No datagram from number i on tells s that d has joined.
NoNewsOf(s, d, i) ==
    \A j \in 1 .. Len(network[s]) : j >= i => network[s][j].newSecondary # d

\* s takes d for dead, or will when it has read what is on its way.
LearnsDeath(s, d) ==
    \/ view[s][d].dead /\ NoNewsOf(s, d, 1)
    \/ \E i \in 1 .. Len(network[s]) :
          network[s][i].dead = d /\ NoNewsOf(s, d, i + 1)

\* A server that does not run, or has not been heard of since it was started,
\* takes everyone else for dead.
NewcomerKnowsNobody ==
    \A s, d \in Server : s # d /\ (~up[s] \/ (isDead[s] /\ ~missed[s])) =>
        view[s][d].dead /\ NoNewsOf(s, d, 1)

\* A server that was not suspected has been told of every death since.
DeathIsComing ==
    \A s, d \in Server :
        s # d /\ up[s] /\ ~isDead[s] /\ ~missed[s] /\ isDead[d]
            => LearnsDeath(s, d)

Inv ==
    /\ TypeOK
    /\ Proved!Inv
    /\ Addressed
    /\ RoleIsComing
    /\ NewcomerKnowsNobody
    /\ DeathIsComing
-----------------------------------------------------------------------------
(* The master's handlers.                                                  *)

\* Mst and Proved are the same module.
LEMMA SameServers ==
  /\ Mst!Server = Server /\ Proved!Server = Server
  /\ Mst!NoServer = NoServer /\ Proved!NoServer = NoServer
  /\ Proved!Status = Mst!Status
  /\ Proved!TypeOK = Mst!TypeOK /\ Proved!TypeOK' = Mst!TypeOK'
  /\ Proved!Init = Mst!Init
  /\ NumServers \in Nat \ {0}
<1>1. /\ Mst!Server = Server /\ Proved!Server = Server
      /\ Mst!NoServer = NoServer /\ Proved!NoServer = NoServer
  BY DEF Mst!Server, Proved!Server, Server, Mst!NoServer, Proved!NoServer,
         NoServer
<1>2. Proved!Status = Mst!Status
  BY <1>1, Zenon DEF Proved!Status, Mst!Status, Proved!Role, Mst!Role
<1>3. Proved!TypeOK = Mst!TypeOK /\ Proved!TypeOK' = Mst!TypeOK'
  BY <1>1, <1>2, Zenon DEF Proved!TypeOK, Mst!TypeOK, Proved!HeartbeatAge,
                           Mst!HeartbeatAge
<1>4. Proved!Init = Mst!Init
  BY <1>1, Zenon DEF Proved!Init, Mst!Init
<1> QED
  BY <1>1, <1>2, <1>3, <1>4, MembershipAssumption

\* The handlers that this module uses keep what is proved of the master.
LEMMA MasterKeepsInv ==
  ASSUME Proved!Inv, NEW s \in Server,
         \/ Mst!HeartbeatOfAlive(s) \/ Mst!HeartbeatOfRevived(s)
         \/ Mst!HeartbeatExpires(s)
         \/ Mst!PrimaryDies(s) \/ Mst!SecondaryDies(s)
  PROVE  Proved!Inv'
<1>1. \/ Proved!HeartbeatOfAlive(s) \/ Proved!HeartbeatOfRevived(s)
      \/ Proved!HeartbeatExpires(s)
      \/ Proved!PrimaryDies(s) \/ Proved!SecondaryDies(s)
  BY Zenon
     DEF Mst!Server, Proved!Server, Mst!NoServer, Proved!NoServer,
         Mst!Alive, Proved!Alive, Mst!electionVars, Proved!electionVars,
         Mst!requestVars, Proved!requestVars,
         Mst!HeartbeatOfAlive, Proved!HeartbeatOfAlive,
         Mst!HeartbeatOfRevived, Proved!HeartbeatOfRevived,
         Mst!HeartbeatExpires, Proved!HeartbeatExpires,
         Mst!PrimaryDies, Proved!PrimaryDies,
         Mst!SecondaryDies, Proved!SecondaryDies,
         Mst!RoleStatus, Proved!RoleStatus,
         Mst!NewSecondaryStatus, Proved!NewSecondaryStatus,
         Mst!FirstOfGroup, Proved!FirstOfGroup,
         Mst!TimedOut, Proved!TimedOut, Mst!EntryErased, Proved!EntryErased,
         Mst!FirstAliveBut, Proved!FirstAliveBut,
         Mst!ListedFrom, Proved!ListedFrom
<1>2. Proved!Next
  BY <1>1, SameServers DEF Proved!Next
<1> QED
  BY <1>2, SameServers, Proved!NextKeepsInv

\* So do the steps in which no handler runs.
LEMMA IdleKeepsInv ==
  ASSUME Proved!Inv, MasterIdle
  PROVE  Proved!Inv'
BY DEF MasterIdle, Proved!Inv, Proved!TypeOK, Proved!FlagsMatchMap,
       Proved!PrimaryIsAlive, Proved!AliveIsTracked, Proved!Alive

\* What is proved of the master, in the terms of this module.
LEMMA MasterFacts ==
  ASSUME Proved!Inv
  PROVE  /\ isDead \in [Server -> BOOLEAN]
         /\ isPrimary \in [Server -> BOOLEAN]
         /\ primaryServers \in Server \union {NoServer}
         /\ sent \subseteq Mst!Status
         /\ \A s \in Server : isPrimary[s] <=> primaryServers = s
         /\ \A s \in Server : ~isDead[s] =>
               primaryServers \in Server /\ ~isDead[primaryServers]
<1>1. /\ isDead \in [Server -> BOOLEAN]
      /\ isPrimary \in [Server -> BOOLEAN]
      /\ primaryServers \in Server \union {NoServer}
      /\ sent \subseteq Mst!Status
      /\ \A s \in Server : isPrimary[s] <=> primaryServers = s
  BY SameServers DEF Proved!Inv, Proved!TypeOK, Proved!FlagsMatchMap
<1>2. \A s \in Server : ~isDead[s] =>
         primaryServers \in Server /\ ~isDead[primaryServers]
  BY SameServers DEF Proved!Inv, Proved!PrimaryIsAlive, Proved!Alive
<1> QED
  BY <1>1, <1>2

\* The fields of a status datagram.
LEMMA StatusFields ==
  ASSUME NEW m \in Mst!Status
  PROVE  /\ m.to \in Server /\ m.role \in {"PRIMARY", "SECONDARY"}
         /\ m.primary \in Server \union {NoServer}
         /\ m.newSecondary \in Server \union {NoServer}
         /\ m.dead \in Server \union {NoServer}
BY SameServers DEF Mst!Status, Mst!Role

\* recvHeartbeat of a server that is back tells it its role, and only the
\* primary that it has joined.
LEMMA RevivedSends ==
  ASSUME Proved!Inv, NEW s \in Server, Mst!HeartbeatOfRevived(s)
  PROVE  /\ \A m \in sent' : TellsRole(m)' /\ m.dead = NoServer
         /\ \E m \in sent' : m.to = s
         /\ \A m \in sent' : m.newSecondary # NoServer =>
              /\ m.newSecondary = s /\ m.to # s
              /\ m.to \in Server /\ ~isDead[m.to]
         /\ \A r \in Server : r # s => isDead'[r] = isDead[r]
         /\ isDead[s] /\ ~isDead'[s]
         /\ (\E r \in Server : ~isDead[r]) => primaryServers' = primaryServers
         /\ \A r \in Server : r # s => isPrimary'[r] = isPrimary[r]
<1> USE SameServers
<1> DEFINE prim == IF primaryServers = NoServer THEN s ELSE primaryServers
           role == Mst!RoleStatus(s, isPrimary'[s], prim, NoServer)
           news == Mst!NewSecondaryStatus(prim, s)
<1>1. /\ isDead[s] /\ isDead' = [isDead EXCEPT ![s] = FALSE]
      /\ primaryServers' = prim
      /\ isPrimary' = [isPrimary EXCEPT ![s] = @ \/ Mst!FirstOfGroup]
      /\ role \in sent'
      /\ \A m \in sent' : m = role \/ (m = news /\ ~isPrimary'[s])
  BY DEF Mst!HeartbeatOfRevived, Mst!FirstOfGroup
<1>2. isDead \in [Server -> BOOLEAN] /\ isPrimary \in [Server -> BOOLEAN]
  BY MasterFacts
<1>3. \A r \in Server : isPrimary'[r] <=> r = prim
  <2>1. Proved!Inv'
    BY MasterKeepsInv
  <2> QED
    BY <1>1, <2>1 DEF Proved!Inv, Proved!FlagsMatchMap
<1>4. ~isPrimary'[s] => prim # s /\ prim \in Server /\ ~isDead[prim]
  <2> SUFFICES ASSUME ~isPrimary'[s]
               PROVE  prim # s /\ prim \in Server /\ ~isDead[prim]
    OBVIOUS
  <2>1. prim # s
    BY <1>3
  <2>2. primaryServers \in Server
    BY <2>1, MasterFacts
  <2>3. Proved!Alive # {}
    BY <2>2 DEF Proved!Inv, Proved!PrimaryIsAlive, Server, NoServer
  <2> QED
    BY <2>1, <2>3 DEF Proved!Inv, Proved!PrimaryIsAlive, Proved!Alive
<1>5. /\ role.to = s /\ role.newSecondary = NoServer /\ role.dead = NoServer
      /\ role.role = "PRIMARY" <=> isPrimary'[s]
      /\ role.role # "PRIMARY" => role.primary = prim
  BY DEF Mst!RoleStatus
<1>6. /\ news.to = prim /\ news.newSecondary = s /\ news.dead = NoServer
      /\ news.role = "PRIMARY"
  BY DEF Mst!NewSecondaryStatus
<1>7. \A m \in sent' : TellsRole(m)'
  <2> SUFFICES ASSUME NEW m \in sent'
               PROVE  TellsRole(m)'
    OBVIOUS
  <2> HIDE DEF role, news
  <2>1. CASE m = role
    BY <1>1, <1>5, <2>1 DEF TellsRole
  <2>2. CASE m = news /\ ~isPrimary'[s]
    BY <1>3, <1>4, <1>6, <2>2 DEF TellsRole
  <2> QED
    BY <1>1, <2>1, <2>2
<1>8. (\E r \in Server : ~isDead[r]) => primaryServers' = primaryServers
  BY <1>1, MasterFacts DEF Server, NoServer
<1> HIDE DEF role, news
<1> QED
  BY <1>1, <1>2, <1>4, <1>5, <1>6, <1>7, <1>8 DEF Server, NoServer

\* checkHeartbeats tells every live server of a death, and its role.
LEMMA DeathSends ==
  ASSUME Proved!Inv, NEW d \in Server, Mst!PrimaryDies(d) \/ Mst!SecondaryDies(d)
  PROVE  /\ \A m \in sent' :
               TellsRole(m)' /\ m.dead = d /\ m.newSecondary = NoServer
         /\ \A s \in Server : ~isDead'[s] => \E m \in sent' : m.to = s
         /\ \A r \in Server : r # d => isDead'[r] = isDead[r]
         /\ isDead'[d]
<1> USE SameServers
<1>1. isDead \in [Server -> BOOLEAN] /\ isDead' = [isDead EXCEPT ![d] = TRUE]
  BY MasterFacts DEF Mst!PrimaryDies, Mst!SecondaryDies
<1>2. CASE Mst!PrimaryDies(d)
  <2> DEFINE new == Mst!FirstAliveBut(d)
  <2>1. primaryServers' = new
    BY <1>2 DEF Mst!PrimaryDies
  <2>2. Proved!Inv'
    BY <1>2, MasterKeepsInv
  <2>3. \A r \in Server : isPrimary'[r] <=> r = new
    BY <2>1, <2>2 DEF Proved!Inv, Proved!FlagsMatchMap
  <2>4. sent' = IF new = NoServer THEN {}
                ELSE {Mst!RoleStatus(r, r = new, new, d) :
                        r \in Mst!ListedFrom(new)}
    BY <1>2 DEF Mst!PrimaryDies
  <2>5. \A s \in Server : ~isDead'[s] => new # NoServer /\ new <= s
    <3>1. Proved!FirstAliveBut(d) = new
      BY Zenon DEF Proved!FirstAliveBut, Mst!FirstAliveBut, Proved!Alive,
                   Mst!Alive, Proved!Server, Mst!Server, Proved!NoServer,
                   Mst!NoServer
    <3>2. IF Proved!Alive \ {d} = {} THEN new = NoServer
          ELSE /\ new \in Proved!Alive \ {d}
               /\ \A u \in Proved!Alive \ {d} : new <= u
      BY <3>1, Proved!FirstAliveButIsFirst
    <3>3. \A s \in Server : ~isDead'[s] => s \in Proved!Alive \ {d}
      BY <1>1 DEF Proved!Alive
    <3> QED
      BY <3>2, <3>3 DEF Proved!Alive, Server, NoServer
  <2> HIDE DEF new
  <2>6. ASSUME NEW r \in Server, NEW m, m = Mst!RoleStatus(r, r = new, new, d)
        PROVE  /\ m.to = r /\ TellsRole(m)'
               /\ m.dead = d /\ m.newSecondary = NoServer
    BY <2>1, <2>3, <2>6 DEF Mst!RoleStatus, TellsRole
  <2>7. \A m \in sent' : TellsRole(m)' /\ m.dead = d /\ m.newSecondary = NoServer
    BY <2>4, <2>6 DEF Mst!ListedFrom
  <2>8. \A s \in Server : ~isDead'[s] => \E m \in sent' : m.to = s
    <3> SUFFICES ASSUME NEW s \in Server, ~isDead'[s]
                 PROVE  \E m \in sent' : m.to = s
      OBVIOUS
    <3>1. s \in Mst!ListedFrom(new) /\ new # NoServer
      BY <2>5 DEF Mst!ListedFrom
    <3>2. Mst!RoleStatus(s, s = new, new, d) \in sent'
      BY <2>4, <3>1
    <3> QED
      BY <2>6, <3>2
  <2> QED
    BY <1>1, <2>7, <2>8
<1>3. CASE Mst!SecondaryDies(d)
  <2>1. /\ primaryServers' = primaryServers /\ isPrimary' = isPrimary
        /\ sent' = {Mst!RoleStatus(r, isPrimary[r], primaryServers, d) :
                      r \in Mst!Alive \ {d}}
    BY <1>3 DEF Mst!SecondaryDies
  <2>2. isPrimary \in [Server -> BOOLEAN]
    BY MasterFacts
  <2>3. ASSUME NEW r \in Server, NEW m,
               m = Mst!RoleStatus(r, isPrimary[r], primaryServers, d)
        PROVE  /\ m.to = r /\ TellsRole(m)'
               /\ m.dead = d /\ m.newSecondary = NoServer
    BY <2>1, <2>2, <2>3 DEF Mst!RoleStatus, TellsRole
  <2>4. \A m \in sent' : TellsRole(m)' /\ m.dead = d /\ m.newSecondary = NoServer
    BY <2>1, <2>3 DEF Mst!Alive
  <2>5. \A s \in Server : ~isDead'[s] => \E m \in sent' : m.to = s
    BY <1>1, <2>1, <2>3 DEF Mst!Alive
  <2> QED
    BY <1>1, <2>4, <2>5
<1> QED
  BY <1>2, <1>3
-----------------------------------------------------------------------------
(* Every step keeps the invariant.                                         *)

\* Every datagram of the handler reaches the socket it is addressed to, at the
\* end of what is already there, if the process runs.
LEMMA TransmitEffect ==
  ASSUME TypeOK, Transmit, sent' \subseteq Mst!Status
  PROVE  /\ network' \in [Server -> Seq(Mst!Status)]
         /\ \A r \in Server :
               \/ /\ network'[r] = network[r]
                  /\ ~up[r] \/ \A m \in sent' : m.to # r
               \/ /\ up[r]
                  /\ \E m \in sent' : /\ m.to = r
                                      /\ network'[r] = Append(network[r], m)
<1> DEFINE msgs(r) == {m \in sent' : m.to = r}
           new(r) == IF msgs(r) = {} \/ ~up[r] THEN network[r]
                     ELSE Append(network[r], CHOOSE m \in msgs(r) : TRUE)
<1>1. network' = [r \in Server |-> new(r)]
  BY DEF Transmit
<1>2. ASSUME NEW r \in Server
      PROVE  \/ /\ new(r) = network[r]
                /\ ~up[r] \/ \A m \in sent' : m.to # r
             \/ /\ up[r]
                /\ \E m \in sent' : m.to = r /\ new(r) = Append(network[r], m)
  <2>1. CASE msgs(r) = {} \/ ~up[r]
    BY <2>1
  <2>2. CASE msgs(r) # {} /\ up[r]
    <3>1. PICK m \in msgs(r) : m = CHOOSE n \in msgs(r) : TRUE
      BY <2>2
    <3> QED
      BY <2>2, <3>1
  <2> QED
    BY <2>1, <2>2
<1> HIDE DEF new
<1>3. ASSUME NEW r \in Server
      PROVE  new(r) \in Seq(Mst!Status)
  <2>1. network[r] \in Seq(Mst!Status)
    BY DEF TypeOK
  <2> QED
    BY <1>2, <2>1
<1> QED
  BY <1>1, <1>2, <1>3

\* The facts about datagrams and views do not depend on the rest of the state.
LEMMA FrameKeepsNews ==
  ASSUME Inv, UNCHANGED <<isDead, isPrimary, primaryServers, up, roleVars,
                          missed, network>>
  PROVE  /\ Addressed' /\ RoleIsComing'
         /\ NewcomerKnowsNobody' /\ DeathIsComing'
BY DEF Inv, Addressed, RoleIsComing, TellsRole, NewcomerKnowsNobody,
       DeathIsComing, LearnsDeath, NoNewsOf, roleVars

\* What a datagram at the end of the queue changes.
LEMMA AppendedNews ==
  ASSUME TypeOK, Transmit, sent' \subseteq Mst!Status, UNCHANGED view,
         NEW s \in Server, NEW d \in Server,
         \A m \in sent' : m.to = s => m.newSecondary # d
  PROVE  /\ NoNewsOf(s, d, 1) => NoNewsOf(s, d, 1)'
         /\ LearnsDeath(s, d) => LearnsDeath(s, d)'
<1>1. network[s] \in Seq(Mst!Status)
  BY DEF TypeOK
<1>2. CASE network'[s] = network[s]
  BY <1>2 DEF NoNewsOf, LearnsDeath
<1>3. CASE \E m \in sent' : m.to = s /\ network'[s] = Append(network[s], m)
  <2>1. PICK m \in sent' : m.to = s /\ network'[s] = Append(network[s], m)
    BY <1>3
  <2>2. m \in Mst!Status /\ m.newSecondary # d
    BY <2>1
  <2>3. /\ Len(network'[s]) = Len(network[s]) + 1
        /\ \A j \in 1 .. Len(network[s]) : network'[s][j] = network[s][j]
        /\ network'[s][Len(network[s]) + 1] = m
        /\ Len(network[s]) \in Nat
    BY <1>1, <2>1, <2>2
  <2>4. ASSUME NEW i \in Nat, NoNewsOf(s, d, i)
        PROVE  \A j \in 1 .. Len(network'[s]) :
                  j >= i => network'[s][j].newSecondary # d
    BY <2>2, <2>3, <2>4 DEF NoNewsOf
  <2>5. NoNewsOf(s, d, 1) => NoNewsOf(s, d, 1)'
    BY <2>4 DEF NoNewsOf
  <2>6. ASSUME NEW i \in 1 .. Len(network[s]),
               network[s][i].dead = d, NoNewsOf(s, d, i + 1)
        PROVE  /\ i \in 1 .. Len(network'[s]) /\ network'[s][i].dead = d
               /\ \A j \in 1 .. Len(network'[s]) :
                     j >= i + 1 => network'[s][j].newSecondary # d
    BY <2>3, <2>4, <2>6
  <2>7. LearnsDeath(s, d) => LearnsDeath(s, d)'
    BY <2>5, <2>6 DEF LearnsDeath, NoNewsOf
  <2> QED
    BY <2>5, <2>7
<1> QED
  BY <1>2, <1>3, TransmitEffect

\* A handler whose datagrams tell everyone's role leaves nobody without.
LEMMA TransmitKeepsRoles ==
  ASSUME Inv, Transmit, sent' \subseteq Mst!Status, UNCHANGED <<up, roleVars>>,
         \A m \in sent' : TellsRole(m)',
         \A s \in Server : ~isDead'[s] =>
            \/ \E m \in sent' : m.to = s
            \/ /\ ~isDead[s] /\ isPrimary'[s] = isPrimary[s]
               /\ primaryServers' = primaryServers
  PROVE  Addressed' /\ RoleIsComing'
<1>1. \A s \in Server : network[s] \in Seq(Mst!Status)
  BY DEF Inv, TypeOK
<1>2. Addressed'
  <2> SUFFICES ASSUME NEW s \in Server, NEW i \in 1 .. Len(network'[s])
               PROVE  network'[s][i].to = s
    BY DEF Addressed
  <2>1. \A j \in 1 .. Len(network[s]) : network[s][j].to = s
    BY DEF Inv, Addressed
  <2>2. CASE network'[s] = network[s]
    BY <2>1, <2>2
  <2>3. CASE \E m \in sent' : m.to = s /\ network'[s] = Append(network[s], m)
    BY <1>1, <2>1, <2>3
  <2> QED
    BY <2>2, <2>3, TransmitEffect DEF Inv
<1>3. RoleIsComing'
  <2> SUFFICES ASSUME NEW s \in Server, up[s], ~isDead'[s]
               PROVE  IF network'[s] = <<>>
                      THEN /\ me[s] = isPrimary'[s]
                           /\ ~me[s] => primaryInfo[s] = primaryServers'
                      ELSE LET m == network'[s][Len(network'[s])]
                           IN  /\ m.role = "PRIMARY" <=> isPrimary'[m.to]
                               /\ m.role # "PRIMARY" =>
                                     m.primary = primaryServers'
    BY DEF RoleIsComing, TellsRole, roleVars
  <2>1. CASE \E m \in sent' : m.to = s /\ network'[s] = Append(network[s], m)
    <3>1. PICK m \in sent' : m.to = s /\ network'[s] = Append(network[s], m)
      BY <2>1
    <3>2. network'[s] # <<>> /\ network'[s][Len(network'[s])] = m
      BY <1>1, <3>1
    <3> QED
      BY <3>1, <3>2 DEF TellsRole
  <2>2. CASE network'[s] = network[s] /\ \A m \in sent' : m.to # s
    <3>1. /\ ~isDead[s] /\ isPrimary'[s] = isPrimary[s]
          /\ primaryServers' = primaryServers
      BY <2>2
    <3>2. CASE network[s] = <<>>
      BY <2>2, <3>1, <3>2 DEF Inv, RoleIsComing
    <3>3. CASE network[s] # <<>>
      <4>1. Len(network[s]) \in 1 .. Len(network[s])
        BY <1>1, <3>3
      <4>2. network[s][Len(network[s])].to = s
        BY <4>1 DEF Inv, Addressed
      <4>3. TellsRole(network[s][Len(network[s])])
        BY <3>1, <3>3 DEF Inv, RoleIsComing
      <4> QED
        BY <2>2, <3>1, <3>3, <4>2, <4>3 DEF TellsRole
    <3> QED
      BY <3>2, <3>3
  <2> QED
    BY <2>1, <2>2, TransmitEffect DEF Inv
<1> QED
  BY <1>2, <1>3

\* A heartbeat of a server that is back.
LEMMA HeartbeatKeepsInv ==
  ASSUME Inv, NEW s \in Server, Heartbeat(s)
  PROVE  Inv'
<1>1. /\ up[s] /\ enabled[s] /\ Transmit
      /\ UNCHANGED <<up, enabled, reading, roleVars, missed, failures>>
  BY DEF Heartbeat, nodeVars
<1>2. Proved!Inv'
  BY MasterKeepsInv DEF Inv, Heartbeat
<1>3. sent' \subseteq Mst!Status
  BY <1>2, MasterFacts, SameServers DEF Proved!Inv, Proved!TypeOK
<1>4. TypeOK'
  <2>1. Mst!TypeOK'
    BY <1>2, SameServers DEF Proved!Inv
  <2> QED
    BY <1>1, <1>3, <2>1, TransmitEffect DEF Inv, TypeOK, roleVars
<1>5. CASE Mst!HeartbeatOfAlive(s)
  <2>1. sent' = {} /\ UNCHANGED <<isDead, isPrimary, primaryServers>>
    BY <1>5 DEF Mst!HeartbeatOfAlive, Mst!electionVars
  <2>2. network' = network
    BY <2>1 DEF Transmit, Heartbeat, Inv, TypeOK
  <2>3. Addressed' /\ RoleIsComing' /\ NewcomerKnowsNobody' /\ DeathIsComing'
    BY <1>1, <2>1, <2>2, FrameKeepsNews
  <2> QED
    BY <1>2, <1>4, <2>3 DEF Inv
<1>6. CASE Mst!HeartbeatOfRevived(s)
  <2>1. /\ \A m \in sent' : TellsRole(m)' /\ m.dead = NoServer
        /\ \E m \in sent' : m.to = s
        /\ \A m \in sent' : m.newSecondary # NoServer =>
              /\ m.newSecondary = s /\ m.to # s
              /\ m.to \in Server /\ ~isDead[m.to]
        /\ \A r \in Server : r # s => isDead'[r] = isDead[r]
        /\ isDead[s] /\ ~isDead'[s]
        /\ (\E r \in Server : ~isDead[r]) => primaryServers' = primaryServers
        /\ \A r \in Server : r # s => isPrimary'[r] = isPrimary[r]
    BY <1>6, RevivedSends DEF Inv
  <2>2. Addressed' /\ RoleIsComing'
    <3>1. \A r \in Server : ~isDead'[r] =>
            \/ \E m \in sent' : m.to = r
            \/ /\ ~isDead[r] /\ isPrimary'[r] = isPrimary[r]
               /\ primaryServers' = primaryServers
      BY <2>1
    <3> QED
      BY <1>1, <1>3, <2>1, <3>1, TransmitKeepsRoles DEF roleVars
  <2>3. NewcomerKnowsNobody'
    <3> SUFFICES ASSUME NEW r \in Server, NEW d \in Server, r # d,
                        ~up[r] \/ (isDead'[r] /\ ~missed[r])
                 PROVE  view[r][d].dead /\ NoNewsOf(r, d, 1)'
      BY <1>1 DEF NewcomerKnowsNobody, roleVars
    <3>1. r # s
      BY <1>1, <2>1
    <3>2. view[r][d].dead /\ NoNewsOf(r, d, 1)
      BY <2>1, <3>1 DEF Inv, NewcomerKnowsNobody
    <3>3. CASE ~up[r]
      <4>1. network'[r] = network[r]
        BY <1>1, <1>3, <3>3, TransmitEffect DEF Inv
      <4> QED
        BY <3>2, <4>1 DEF NoNewsOf
    <3>4. CASE isDead[r]
      <4>1. \A m \in sent' : m.to = r => m.newSecondary # d
        BY <2>1, <3>4 DEF Server, NoServer
      <4> QED
        BY <1>1, <1>3, <3>2, <4>1, AppendedNews DEF Inv, roleVars
    <3> QED
      BY <2>1, <3>1, <3>3, <3>4
  <2>4. DeathIsComing'
    <3> SUFFICES ASSUME NEW r \in Server, NEW d \in Server, r # d, up[r],
                        ~isDead'[r], ~missed[r], isDead'[d]
                 PROVE  LearnsDeath(r, d)'
      BY <1>1 DEF DeathIsComing
    <3>1. d # s /\ isDead[d]
      BY <2>1
    <3>2. LearnsDeath(r, d)
      <4>1. CASE isDead[r]
        BY <4>1 DEF Inv, NewcomerKnowsNobody, LearnsDeath
      <4>2. CASE ~isDead[r]
        BY <3>1, <4>2 DEF Inv, DeathIsComing
      <4> QED
        BY <4>1, <4>2
    <3>3. \A m \in sent' : m.to = r => m.newSecondary # d
      BY <2>1, <3>1 DEF Server, NoServer
    <3> QED
      BY <1>1, <1>3, <3>2, <3>3, AppendedNews DEF Inv, roleVars
  <2> QED
    BY <1>2, <1>4, <2>2, <2>3, <2>4 DEF Inv
<1> QED
  BY <1>5, <1>6 DEF Heartbeat

\* The death of a server is reported to all that are counted alive.
LEMMA SuspectKeepsInv ==
  ASSUME Inv, NEW d \in Server, Suspect(d)
  PROVE  Inv'
<1>1. /\ Transmit /\ missed' = [missed EXCEPT ![d] = up[d]]
      /\ UNCHANGED <<up, enabled, reading, roleVars, failures>>
  BY DEF Suspect
<1>2. Proved!Inv'
  BY MasterKeepsInv DEF Inv, Suspect
<1>3. sent' \subseteq Mst!Status
  BY <1>2, SameServers DEF Proved!Inv, Proved!TypeOK
<1>4. TypeOK'
  <2>1. Mst!TypeOK'
    BY <1>2, SameServers DEF Proved!Inv
  <2> QED
    BY <1>1, <1>3, <2>1, TransmitEffect DEF Inv, TypeOK, roleVars
<1>5. /\ \A m \in sent' : TellsRole(m)' /\ m.dead = d /\ m.newSecondary = NoServer
      /\ \A s \in Server : ~isDead'[s] => \E m \in sent' : m.to = s
      /\ \A r \in Server : r # d => isDead'[r] = isDead[r]
      /\ isDead'[d]
  BY DeathSends DEF Inv, Suspect
<1>6. Addressed' /\ RoleIsComing'
  BY <1>1, <1>3, <1>5, TransmitKeepsRoles DEF roleVars
<1>7. \A r, e \in Server : /\ NoNewsOf(r, e, 1) => NoNewsOf(r, e, 1)'
                           /\ LearnsDeath(r, e) => LearnsDeath(r, e)'
  <2> SUFFICES ASSUME NEW r \in Server, NEW e \in Server
               PROVE  /\ NoNewsOf(r, e, 1) => NoNewsOf(r, e, 1)'
                      /\ LearnsDeath(r, e) => LearnsDeath(r, e)'
    OBVIOUS
  <2>1. \A m \in sent' : m.to = r => m.newSecondary # e
    BY <1>5 DEF Server, NoServer
  <2> QED
    BY <1>1, <1>3, <2>1, AppendedNews DEF Inv, roleVars
<1>8. missed \in [Server -> BOOLEAN]
  BY DEF Inv, TypeOK
<1>9. NewcomerKnowsNobody'
  <2> SUFFICES ASSUME NEW r \in Server, NEW e \in Server, r # e,
                      ~up[r] \/ (isDead'[r] /\ ~missed'[r])
               PROVE  view[r][e].dead /\ NoNewsOf(r, e, 1)'
    BY <1>1 DEF NewcomerKnowsNobody, roleVars
  <2>1. ~up[r] \/ (isDead[r] /\ ~missed[r])
    BY <1>1, <1>5, <1>8
  <2> QED
    BY <1>7, <2>1 DEF Inv, NewcomerKnowsNobody
<1>10. DeathIsComing'
  <2> SUFFICES ASSUME NEW r \in Server, NEW e \in Server, r # e, up[r],
                      ~isDead'[r], ~missed'[r], isDead'[e]
               PROVE  LearnsDeath(r, e)'
    BY <1>1 DEF DeathIsComing
  <2>1. r # d /\ ~isDead[r] /\ ~missed[r]
    BY <1>1, <1>5, <1>8
  <2>2. CASE e # d
    BY <1>5, <1>7, <2>1, <2>2 DEF Inv, DeathIsComing
  <2>3. CASE e = d
    <3>1. PICK m \in sent' : m.to = r /\ network'[r] = Append(network[r], m)
      BY <1>1, <1>3, <1>5, TransmitEffect DEF Inv
    <3>2. network[r] \in Seq(Mst!Status) /\ m \in Mst!Status
      BY <1>3 DEF Inv, TypeOK
    <3>3. /\ Len(network'[r]) \in 1 .. Len(network'[r])
          /\ network'[r][Len(network'[r])].dead = d
      BY <1>5, <3>1, <3>2
    <3>4. \A j \in 1 .. Len(network'[r]) : ~(j >= Len(network'[r]) + 1)
      BY <3>1, <3>2
    <3> QED
      BY <2>3, <3>3, <3>4 DEF LearnsDeath, NoNewsOf
  <2> QED
    BY <2>2, <2>3
<1> QED
  BY <1>2, <1>4, <1>6, <1>9, <1>10 DEF Inv
\* Steps of which the servers' knowledge does not depend.
LEMMA QuietKeepsInv ==
  ASSUME Inv, NEW s \in Server, Silence(s) \/ Disable(s) \/ Enable(s)
  PROVE  Inv'
<1>1. Proved!Inv'
  BY MasterKeepsInv, IdleKeepsInv DEF Inv, Silence, Disable, Enable
<1>2. Mst!TypeOK'
  BY <1>1, SameServers DEF Proved!Inv
<1>3. UNCHANGED <<isDead, isPrimary, primaryServers, up, roleVars, missed,
                  network>>
  BY DEF Silence, Disable, Enable, Mst!HeartbeatExpires, Mst!electionVars,
         MasterIdle, nodeVars
<1>4. TypeOK'
  <2>1. /\ enabled' \in [Server -> BOOLEAN] /\ reading' \in [Server -> BOOLEAN]
        /\ failures' \in 0 .. MaxFailures
    <3>1. CASE Silence(s)
      BY <3>1, MembershipAssumption DEF Inv, TypeOK, Silence, nodeVars
    <3>2. CASE Disable(s)
      BY <3>2, MembershipAssumption DEF Inv, TypeOK, Disable
    <3>3. CASE Enable(s)
      BY <3>3, MembershipAssumption DEF Inv, TypeOK, Enable
    <3> QED
      BY <3>1, <3>2, <3>3
  <2> QED
    BY <1>2, <1>3, <2>1 DEF Inv, TypeOK, roleVars
<1> QED
  BY <1>1, <1>3, <1>4, FrameKeepsNews DEF Inv

\* A process is started: it takes everyone for dead, and nothing is claimed of
\* its role until the master has heard of it.
LEMMA StartKeepsInv ==
  ASSUME Inv, NEW s \in Server, Start(s)
  PROVE  Inv'
<1>1. Proved!Inv'
  BY IdleKeepsInv DEF Inv, Start
<1>2. /\ UNCHANGED <<isDead, isPrimary, primaryServers, roleVars, missed, network>>
      /\ up' = [up EXCEPT ![s] = TRUE]
      /\ ~up[s] /\ isDead[s]
  BY DEF Start, MasterIdle
<1>3. up \in [Server -> BOOLEAN]
  BY DEF Inv, TypeOK
<1>4. TypeOK'
  <2>1. Mst!TypeOK'
    BY <1>1, SameServers DEF Proved!Inv
  <2> QED
    BY <1>2, <2>1 DEF Inv, TypeOK, roleVars, Start
<1>5. Addressed' /\ RoleIsComing'
  BY <1>2, <1>3 DEF Inv, Addressed, RoleIsComing, TellsRole, roleVars
<1>6. NewcomerKnowsNobody'
  BY <1>2, <1>3 DEF Inv, NewcomerKnowsNobody, NoNewsOf, roleVars
<1>7. DeathIsComing'
  BY <1>2, <1>3 DEF Inv, DeathIsComing, LearnsDeath, NoNewsOf, roleVars
<1> QED
  BY <1>1, <1>4, <1>5, <1>6, <1>7 DEF Inv

\* A process dies: nothing is claimed of it but that it knows nothing.
LEMMA CrashKeepsInv ==
  ASSUME Inv, NEW s \in Server, Crash(s)
  PROVE  Inv'
<1>1. Proved!Inv'
  BY IdleKeepsInv DEF Inv, Crash
<1>2. UNCHANGED <<isDead, isPrimary, primaryServers>>
  BY DEF Crash, MasterIdle
<1>3. /\ up' \in [Server -> BOOLEAN] /\ ~up'[s]
      /\ network' \in [Server -> Seq(Mst!Status)] /\ network'[s] = <<>>
      /\ view' \in [Server -> [Server -> [dead : BOOLEAN, prim : BOOLEAN]]]
      /\ \A d \in Server : view'[s][d].dead
      /\ me' \in [Server -> BOOLEAN]
      /\ primaryInfo' \in [Server -> Server \union {NoServer}]
      /\ missed' \in [Server -> BOOLEAN]
  BY DEF Inv, TypeOK, Crash, Unknown
<1>4. ASSUME NEW r \in Server, r # s
       PROVE  /\ up'[r] = up[r] /\ network'[r] = network[r]
              /\ view'[r] = view[r] /\ me'[r] = me[r]
              /\ primaryInfo'[r] = primaryInfo[r] /\ missed'[r] = missed[r]
  BY <1>4 DEF Inv, TypeOK, Crash
<1>5. TypeOK'
  <2>1. Mst!TypeOK'
    BY <1>1, SameServers DEF Proved!Inv
  <2>2. /\ enabled' \in [Server -> BOOLEAN] /\ reading' \in [Server -> BOOLEAN]
        /\ failures' \in 0 .. MaxFailures
    BY MembershipAssumption DEF Inv, TypeOK, Crash
  <2> QED
    BY <1>3, <2>1, <2>2 DEF TypeOK
<1>6. \A i : i \notin 1 .. Len(network'[s])
  BY <1>3
<1>7. Addressed'
  <2> SUFFICES ASSUME NEW r \in Server, NEW i \in 1 .. Len(network'[r])
               PROVE  network'[r][i].to = r
    BY DEF Addressed
  <2>1. r # s
    BY <1>6
  <2> QED
    BY <1>4, <2>1 DEF Inv, Addressed
<1>8. RoleIsComing'
  <2> SUFFICES ASSUME NEW r \in Server, up'[r], ~isDead'[r]
               PROVE  IF network'[r] = <<>>
                      THEN /\ me'[r] = isPrimary'[r]
                           /\ ~me'[r] => primaryInfo'[r] = primaryServers'
                      ELSE TellsRole(network'[r][Len(network'[r])])
    BY <1>2 DEF RoleIsComing, TellsRole
  <2>1. r # s
    BY <1>3
  <2> QED
    BY <1>2, <1>4, <2>1 DEF Inv, RoleIsComing
<1>9. NewcomerKnowsNobody'
  <2> SUFFICES ASSUME NEW r \in Server, NEW d \in Server, r # d,
                      ~up'[r] \/ (isDead'[r] /\ ~missed'[r])
               PROVE  view'[r][d].dead /\ NoNewsOf(r, d, 1)'
    BY DEF NewcomerKnowsNobody
  <2>1. CASE r = s
    BY <1>3, <1>6, <2>1 DEF NoNewsOf
  <2>2. CASE r # s
    BY <1>2, <1>4, <2>2 DEF Inv, NewcomerKnowsNobody, NoNewsOf
  <2> QED
    BY <2>1, <2>2
<1>10. DeathIsComing'
  <2> SUFFICES ASSUME NEW r \in Server, NEW d \in Server, r # d, up'[r],
                      ~isDead'[r], ~missed'[r], isDead'[d]
               PROVE  LearnsDeath(r, d)'
    BY DEF DeathIsComing
  <2>1. r # s
    BY <1>3
  <2>2. LearnsDeath(r, d)
    BY <1>2, <1>4, <2>1 DEF Inv, DeathIsComing
  <2>3. network'[r] = network[r] /\ view'[r] = view[r]
    BY <1>4, <2>1
  <2> QED
    BY <2>2, <2>3 DEF LearnsDeath, NoNewsOf
<1> QED
  BY <1>1, <1>5, <1>7, <1>8, <1>9, <1>10 DEF Inv

\* What receiveStatus makes of the view: only the server itself and a new
\* secondary are entered as alive.
LEMMA ViewEffect ==
  ASSUME TypeOK, NEW s \in Server, NEW m \in Mst!Status,
         NEW v, v = AfterDeath(IF m.role = "PRIMARY" THEN ViewOfPrimary(s, m)
                               ELSE ViewOfSecondary(s, m), m)
  PROVE  /\ v \in [Server -> [dead : BOOLEAN, prim : BOOLEAN]]
         /\ \A d \in Server : d # s =>
               /\ m.dead = d => v[d].dead
               /\ view[s][d].dead /\ m.newSecondary # d => v[d].dead
<1> DEFINE Entry == [dead : BOOLEAN, prim : BOOLEAN]
           own(p) == Marked(view[s], s, FALSE, p)
<1>1. view[s] \in [Server -> Entry]
  BY DEF TypeOK
<1>2. ASSUME NEW p \in BOOLEAN
      PROVE  /\ own(p) \in [Server -> Entry]
             /\ \A d \in Server : d # s => own(p)[d] = view[s][d]
  BY <1>1 DEF Marked
<1> HIDE DEF own
<1>3. /\ ViewOfPrimary(s, m) \in [Server -> Entry]
      /\ \A d \in Server : d # s /\ view[s][d].dead /\ m.newSecondary # d =>
            ViewOfPrimary(s, m)[d].dead
  <2>1. CASE m.newSecondary = NoServer
    <3>1. ViewOfPrimary(s, m) = own(TRUE)
      BY <2>1 DEF ViewOfPrimary, own
    <3> QED
      BY <1>2, <3>1
  <2>2. CASE m.newSecondary # NoServer
    <3>1. ViewOfPrimary(s, m) = Marked(own(TRUE), m.newSecondary, FALSE, FALSE)
      BY <2>2 DEF ViewOfPrimary, own
    <3>2. m.newSecondary \in Server
      BY <2>2, StatusFields
    <3>3. own(TRUE) \in [Server -> Entry]
      BY <1>2
    <3>4. /\ ViewOfPrimary(s, m) \in [Server -> Entry]
          /\ \A d \in Server : d # m.newSecondary =>
                ViewOfPrimary(s, m)[d] = own(TRUE)[d]
      <4> DEFINE e == [dead |-> FALSE, prim |-> FALSE]
      <4>1. e \in Entry
        OBVIOUS
      <4>2. ViewOfPrimary(s, m) = [own(TRUE) EXCEPT ![m.newSecondary] = e]
        BY <3>1 DEF Marked
      <4> HIDE DEF e
      <4> QED
        BY <3>2, <3>3, <4>1, <4>2
    <3> QED
      BY <1>2, <3>4
  <2> QED
    BY <2>1, <2>2
<1>4. /\ ViewOfSecondary(s, m) \in [Server -> Entry]
      /\ \A d \in Server : d # s /\ view[s][d].dead =>
            ViewOfSecondary(s, m)[d].dead
  <2>1. ViewOfSecondary(s, m) = [own(FALSE) EXCEPT ![m.primary].prim = TRUE]
    BY DEF ViewOfSecondary, own
  <2>2. ViewOfSecondary(s, m) \in [Server -> Entry]
    BY <1>2, <2>1
  <2>3. own(FALSE) \in [Server -> Entry]
    BY <1>2
  <2>4. ASSUME NEW d \in Server
        PROVE  ViewOfSecondary(s, m)[d].dead = own(FALSE)[d].dead
    <3>1. CASE d = m.primary
      <4>1. ViewOfSecondary(s, m)[d] = [own(FALSE)[d] EXCEPT !.prim = TRUE]
        BY <2>1, <2>3, <3>1
      <4>2. own(FALSE)[d] \in Entry
        BY <2>3
      <4> QED
        BY <4>1, <4>2
    <3>2. CASE d # m.primary
      BY <2>1, <2>3, <3>2
    <3> QED
      BY <3>1, <3>2
  <2> QED
    BY <1>2, <2>2, <2>4
<1> DEFINE w == IF m.role = "PRIMARY" THEN ViewOfPrimary(s, m)
                ELSE ViewOfSecondary(s, m)
<1>5. /\ w \in [Server -> Entry]
      /\ \A d \in Server : d # s /\ view[s][d].dead /\ m.newSecondary # d =>
            w[d].dead
  BY <1>3, <1>4
<1>6. v = IF m.dead = NoServer THEN w ELSE Marked(w, m.dead, TRUE, FALSE)
  BY DEF AfterDeath
<1> HIDE DEF w
<1>7. CASE m.dead = NoServer
  BY <1>5, <1>6, <1>7, SameServers DEF Server, NoServer
<1>8. CASE m.dead # NoServer
  <2>1. v = Marked(w, m.dead, TRUE, FALSE) /\ m.dead \in Server
    BY <1>6, <1>8, StatusFields
  <2>2. w \in [Server -> Entry]
    BY <1>5
  <2>3. /\ v \in [Server -> Entry] /\ v[m.dead].dead
        /\ \A d \in Server : d # m.dead => v[d] = w[d]
    <3> DEFINE e == [dead |-> TRUE, prim |-> FALSE]
    <3>1. e \in Entry /\ e.dead
      OBVIOUS
    <3>2. v = [w EXCEPT ![m.dead] = e]
      BY <2>1 DEF Marked
    <3> HIDE DEF e
    <3> QED
      BY <2>1, <2>2, <3>1, <3>2
  <2> QED
    BY <1>5, <2>3
<1> QED
  BY <1>7, <1>8

\* receiveStatus: what was coming has come.
LEMMA ReceiveStatusKeepsInv ==
  ASSUME Inv, NEW s \in Server, ReceiveStatus(s)
  PROVE  Inv'
<1> DEFINE q == network[s]
           m == Head(q)
<1>1. Proved!Inv' /\ UNCHANGED <<isDead, isPrimary, primaryServers>>
  BY IdleKeepsInv DEF Inv, ReceiveStatus, MasterIdle
<1>2. q \in Seq(Mst!Status) /\ q # <<>> /\ m \in Mst!Status
  BY DEF Inv, TypeOK, ReceiveStatus
<1>3. /\ network' \in [Server -> Seq(Mst!Status)]
      /\ network'[s] = Tail(q)
      /\ \A r \in Server : r # s => network'[r] = network[r]
  BY <1>2 DEF Inv, TypeOK, ReceiveStatus
<1>4. /\ Len(q) \in Nat /\ Len(q) >= 1 /\ Len(Tail(q)) = Len(q) - 1
      /\ \A i \in 1 .. Len(q) - 1 : Tail(q)[i] = q[i + 1]
      /\ m = q[1]
  BY <1>2
<1>5. /\ view' \in [Server -> [Server -> [dead : BOOLEAN, prim : BOOLEAN]]]
      /\ \A r \in Server : r # s => view'[r] = view[r]
      /\ \A d \in Server : d # s =>
            /\ m.dead = d => view'[s][d].dead
            /\ view[s][d].dead /\ m.newSecondary # d => view'[s][d].dead
  <2> DEFINE v == AfterDeath(IF m.role = "PRIMARY" THEN ViewOfPrimary(s, m)
                             ELSE ViewOfSecondary(s, m), m)
  <2>1. view' = [view EXCEPT ![s] = v]
    BY DEF ReceiveStatus
  <2>2. /\ v \in [Server -> [dead : BOOLEAN, prim : BOOLEAN]]
        /\ \A d \in Server : d # s =>
               /\ m.dead = d => v[d].dead
               /\ view[s][d].dead /\ m.newSecondary # d => v[d].dead
    BY <1>2, ViewEffect DEF Inv
  <2> HIDE DEF v, m
  <2> QED
    BY <2>1, <2>2 DEF Inv, TypeOK
<1>6. /\ me' \in [Server -> BOOLEAN]
      /\ primaryInfo' \in [Server -> Server \union {NoServer}]
      /\ me'[s] = (m.role = "PRIMARY")
      /\ m.role # "PRIMARY" => primaryInfo'[s] = m.primary
      /\ \A r \in Server : r # s => /\ me'[r] = me[r]
                                    /\ primaryInfo'[r] = primaryInfo[r]
  BY <1>2, StatusFields DEF Inv, TypeOK, ReceiveStatus, Role
<1>7. UNCHANGED <<up, enabled, missed, failures>>
      /\ reading' \in [Server -> BOOLEAN]
  BY DEF Inv, TypeOK, ReceiveStatus
<1> HIDE DEF q, m
<1>8. TypeOK'
  <2>1. Mst!TypeOK'
    BY <1>1, SameServers DEF Proved!Inv
  <2> QED
    BY <1>3, <1>5, <1>6, <1>7, <2>1 DEF Inv, TypeOK
<1>9. Addressed'
  BY <1>3, <1>4 DEF Inv, Addressed, q
<1>10. RoleIsComing'
  <2> SUFFICES ASSUME NEW r \in Server, up[r], ~isDead[r]
               PROVE  IF network'[r] = <<>>
                      THEN /\ me'[r] = isPrimary[r]
                           /\ ~me'[r] => primaryInfo'[r] = primaryServers
                      ELSE TellsRole(network'[r][Len(network'[r])])
    BY <1>1, <1>7 DEF RoleIsComing, TellsRole
  <2>1. CASE r # s
    BY <1>3, <1>6, <2>1 DEF Inv, RoleIsComing
  <2>2. CASE r = s
    <3>1. TellsRole(q[Len(q)]) /\ q[Len(q)].to = s
      BY <1>2, <1>4, <2>2 DEF Inv, RoleIsComing, Addressed, q
    <3>2. CASE Len(q) = 1
      <4>1. network'[s] = <<>>
        BY <1>2, <1>3, <1>4, <3>2
      <4>2. isPrimary[s] \in BOOLEAN
        BY MasterFacts DEF Inv
      <4> QED
        BY <1>4, <1>6, <2>2, <3>1, <3>2, <4>1, <4>2 DEF TellsRole
    <3>3. CASE Len(q) > 1
      <4>1. /\ network'[s] # <<>>
            /\ network'[s][Len(network'[s])] = q[Len(q)]
        BY <1>3, <1>4, <3>3
      <4> QED
        BY <2>2, <3>1, <4>1
    <3> QED
      BY <1>4, <3>2, <3>3
  <2> QED
    BY <2>1, <2>2
<1>11. ASSUME NEW d \in Server, d # s
       PROVE  /\ view[s][d].dead /\ NoNewsOf(s, d, 1) =>
                    view'[s][d].dead /\ NoNewsOf(s, d, 1)'
              /\ LearnsDeath(s, d) => LearnsDeath(s, d)'
  <2> DEFINE NoMore(i) == \A j \in 1 .. Len(network'[s]) :
                             j >= i => network'[s][j].newSecondary # d
  <2>1. ASSUME NEW i \in 2 .. Len(q) + 1, NoNewsOf(s, d, i)
        PROVE  NoMore(i - 1)
    BY <1>3, <1>4, <2>1 DEF NoNewsOf, q
  <2>2. NoMore(1) => NoNewsOf(s, d, 1)'
    BY DEF NoNewsOf
  <2>3. NoMore(1) /\ view'[s][d].dead => LearnsDeath(s, d)'
    BY <2>2 DEF LearnsDeath
  <2>4. ASSUME NEW i \in 1 .. Len(network'[s]),
               network'[s][i].dead = d, NoMore(i + 1)
        PROVE  LearnsDeath(s, d)'
    BY <2>4 DEF LearnsDeath, NoNewsOf
  <2> HIDE DEF NoMore
  <2>5. view[s][d].dead /\ NoNewsOf(s, d, 1) => view'[s][d].dead /\ NoMore(1)
    <3> SUFFICES ASSUME view[s][d].dead, NoNewsOf(s, d, 1)
                 PROVE  view'[s][d].dead /\ NoMore(1)
      OBVIOUS
    <3>1. m.newSecondary # d /\ NoNewsOf(s, d, 2)
      BY <1>4 DEF NoNewsOf, q
    <3>2. 2 \in 2 .. Len(q) + 1 /\ 2 - 1 = 1
      BY <1>4
    <3>3. NoMore(1)
      BY <2>1, <3>1, <3>2
    <3> QED
      BY <1>5, <1>11, <3>1, <3>3
  <2>6. ASSUME NEW i \in 1 .. Len(q), q[i].dead = d, NoNewsOf(s, d, i + 1)
        PROVE  LearnsDeath(s, d)'
    <3>1. i + 1 \in 2 .. Len(q) + 1 /\ (i + 1) - 1 = i /\ (i - 1) + 1 = i
      BY <1>4
    <3>2. NoMore(i)
      BY <2>1, <2>6, <3>1
    <3>3. CASE i = 1
      <4>1. view'[s][d].dead
        BY <1>4, <1>5, <1>11, <2>6, <3>3
      <4> QED
        BY <2>3, <3>2, <3>3, <4>1
    <3>4. CASE i > 1
      <4>1. /\ i - 1 \in 1 .. Len(network'[s])
            /\ network'[s][i - 1].dead = d
        BY <1>3, <1>4, <2>6, <3>4
      <4> QED
        BY <2>4, <3>1, <3>2, <4>1
    <3> QED
      BY <3>3, <3>4
  <2>7. LearnsDeath(s, d) => LearnsDeath(s, d)'
    BY <2>3, <2>5, <2>6 DEF LearnsDeath, q
  <2> QED
    BY <2>2, <2>5, <2>7
<1>12. NewcomerKnowsNobody'
  <2> SUFFICES ASSUME NEW r \in Server, NEW d \in Server, r # d,
                      ~up[r] \/ (isDead[r] /\ ~missed[r])
               PROVE  view'[r][d].dead /\ NoNewsOf(r, d, 1)'
    BY <1>1, <1>7 DEF NewcomerKnowsNobody
  <2>1. view[r][d].dead /\ NoNewsOf(r, d, 1)
    BY DEF Inv, NewcomerKnowsNobody
  <2>2. CASE r = s
    BY <1>11, <2>1, <2>2
  <2>3. CASE r # s
    BY <1>3, <1>5, <2>1, <2>3 DEF NoNewsOf
  <2> QED
    BY <2>2, <2>3
<1>13. DeathIsComing'
  <2> SUFFICES ASSUME NEW r \in Server, NEW d \in Server, r # d, up[r],
                      ~isDead[r], ~missed[r], isDead[d]
               PROVE  LearnsDeath(r, d)'
    BY <1>1, <1>7 DEF DeathIsComing
  <2>1. LearnsDeath(r, d)
    BY DEF Inv, DeathIsComing
  <2>2. CASE r = s
    BY <1>11, <2>1, <2>2
  <2>3. CASE r # s
    <3>1. view'[r] = view[r] /\ network'[r] = network[r]
      BY <1>3, <1>5, <2>3
    <3>2. CASE view[r][d].dead /\ NoNewsOf(r, d, 1)
      BY <3>1, <3>2 DEF LearnsDeath, NoNewsOf
    <3>3. CASE \E i \in 1 .. Len(network[r]) :
                  network[r][i].dead = d /\ NoNewsOf(r, d, i + 1)
      BY <3>1, <3>3 DEF LearnsDeath, NoNewsOf
    <3> QED
      BY <2>1, <3>2, <3>3 DEF LearnsDeath
  <2> QED
    BY <2>2, <2>3
<1> QED
  BY <1>1, <1>8, <1>9, <1>10, <1>12, <1>13 DEF Inv

\* The state in which the master and the processes are started.
LEMMA InitEstablishesInv == Init => Inv
<1> SUFFICES ASSUME Init PROVE Inv
  OBVIOUS
<1>1. Proved!Inv
  BY SameServers, Proved!InitEstablishesInv DEF Init
<1>2. TypeOK
  <2>1. Mst!TypeOK
    BY <1>1, SameServers DEF Proved!Inv
  <2> QED
    BY <2>1, MembershipAssumption DEF Init, TypeOK, Unknown
<1>3. Addressed /\ RoleIsComing
  BY DEF Init, Addressed, RoleIsComing
<1>4. NewcomerKnowsNobody /\ DeathIsComing
  BY DEF Init, NewcomerKnowsNobody, DeathIsComing, NoNewsOf, Unknown
<1> QED
  BY <1>1, <1>2, <1>3, <1>4 DEF Inv

\* The facts above, put together for any step.
LEMMA NextKeepsInv == Inv /\ [Next]_vars => Inv'
<1> SUFFICES ASSUME Inv, [Next]_vars
             PROVE  Inv'
  OBVIOUS
<1>1. ASSUME NEW s \in Server,
             \/ Heartbeat(s) \/ Silence(s) \/ Suspect(s)
             \/ ReceiveStatus(s)
             \/ Start(s) \/ Crash(s) \/ Disable(s) \/ Enable(s)
      PROVE  Inv'
  BY <1>1, HeartbeatKeepsInv, QuietKeepsInv, SuspectKeepsInv,
     ReceiveStatusKeepsInv, StartKeepsInv, CrashKeepsInv
<1>2. CASE UNCHANGED vars
  <2>1. UNCHANGED <<masterVars, nodeVars, network, failures>>
    BY <1>2 DEF vars
  <2>2. Proved!Inv'
    <3>1. UNCHANGED Proved!vars
      BY <2>1 DEF masterVars, Proved!vars
    <3> QED
      BY <3>1, SameServers, Proved!NextKeepsInv DEF Inv
  <2>3. TypeOK'
    <3>1. Mst!TypeOK'
      BY <2>2, SameServers DEF Proved!Inv
    <3> QED
      BY <2>1, <3>1 DEF Inv, TypeOK, nodeVars, roleVars
  <2> QED
    BY <2>1, <2>2, <2>3, FrameKeepsNews DEF Inv, masterVars, nodeVars
<1> QED
  BY <1>1, <1>2 DEF Next

-----------------------------------------------------------------------------
(* The theorems.                                                           *)

\* What the servers know, and what is on its way to them, stays consistent
\* with the master, whatever fails.
THEOREM Invariance == Spec => []Inv
<1>1. Init => Inv
  BY InitEstablishesInv
<1>2. Inv /\ [Next]_vars => Inv'
  BY NextKeepsInv
<1> QED
  BY <1>1, <1>2, PTL DEF Spec

\* The variables of the master and of the servers keep their types.
THEOREM TypeCorrect == Spec => []TypeOK
<1>1. Inv => TypeOK
  BY DEF Inv
<1> QED
  BY <1>1, Invariance, PTL

\* sendIsPrimary and receiveStatus: a server that has read what the master
\* sent it has the role the master gave it, after any number of failures.
THEOREM RolesAgree == Spec => []RoleAgreement
<1>1. Inv => RoleAgreement
  BY DEF Inv, RoleIsComing, RoleAgreement, Settled
<1> QED
  BY <1>1, Invariance, PTL

\* The deaths the master reports: a primary that was never suspected takes no
\* dead server for a live one.
THEOREM PrimaryKnowsTheDead == Spec => []PrimaryKnowsDead
<1>1. Inv => PrimaryKnowsDead
  <2> SUFFICES ASSUME Inv, NEW s \in Server, NEW d \in Server,
                      Settled(s), ~missed[s], isDead[d]
               PROVE  view[s][d].dead
    BY DEF PrimaryKnowsDead
  <2>1. s # d /\ up[s] /\ ~isDead[s] /\ network[s] = <<>>
    BY DEF Settled
  <2>2. LearnsDeath(s, d)
    BY <2>1 DEF Inv, DeathIsComing
  <2> QED
    BY <2>1, <2>2 DEF LearnsDeath
<1> QED
  BY <1>1, Invariance, PTL
=============================================================================
