---------------------------- MODULE MasterProofs ----------------------------
(***************************************************************************)
(* Proofs about module Master, for any number of servers: the inductive     *)
(* invariant, the action properties, and that Master implements Election.   *)
(***************************************************************************)
EXTENDS Master, WellFoundedInduction, TLAPS

-----------------------------------------------------------------------------
(* Lemmas about the operators of Master.                                   *)

\* A nonempty set of servers has a least element, so the CHOOSE of
\* FirstAliveBut is well defined.
LEMMA LeastServer ==
  ASSUME NEW T, T \subseteq Server, T # {}
  PROVE  \E t \in T : \A u \in T : t <= u
<1>1. T \subseteq Nat
  BY NumServersAssumption DEF Server
<1>2. PICK t \in T : \A u \in T : ~(<<u, t>> \in OpToRel(<, Nat))
  BY <1>1, NatLessThanWellFounded, WFMin, Zenon
<1>3. \A u \in T : ~(u < t)
  BY <1>1, <1>2 DEF OpToRel
<1> QED
  BY <1>1, <1>3

\* The election loop of checkHeartbeats promotes a live server other than
\* the dead one, the first of the list, and none only if none is alive.
LEMMA FirstAliveButIsFirst ==
  ASSUME NEW s \in Server
  PROVE  IF Alive \ {s} = {}
         THEN FirstAliveBut(s) = NoServer
         ELSE /\ FirstAliveBut(s) \in Alive \ {s}
              /\ \A u \in Alive \ {s} : FirstAliveBut(s) <= u
<1>1. Alive \ {s} \subseteq Server
  BY DEF Alive
<1>2. CASE Alive \ {s} = {}
  BY <1>2 DEF FirstAliveBut
<1>3. CASE Alive \ {s} # {}
  <2>1. \E t \in Alive \ {s} : \A u \in Alive \ {s} : t <= u
    BY <1>1, <1>3, LeastServer
  <2> QED
    BY <1>3, <2>1 DEF FirstAliveBut
<1> QED
  BY <1>2, <1>3

\* The datagrams built by sendIsPrimary and sendNewSecondaryInfoToPrimary are
\* well formed.
LEMMA StatusType ==
  ASSUME NEW r \in Server, NEW b \in BOOLEAN, NEW s \in Server,
         NEW p \in Server \union {NoServer},
         NEW d \in Server \union {NoServer}
  PROVE  /\ RoleStatus(r, b, p, d) \in Status
         /\ NewSecondaryStatus(r, s) \in Status
BY DEF RoleStatus, NewSecondaryStatus, Status, Role

\* The round-robin index stays an index of the server list.
LEMMA IndexInRange ==
  ASSUME NEW n \in Int
  PROVE  n % NumServers \in Server
BY NumServersAssumption DEF Server

-----------------------------------------------------------------------------
(* The inductive invariant. FlagsMatchMap and PrimaryIsAlive need each      *)
(* other: PrimaryDies is chosen by the flag, the election writes the map.   *)

Inv == TypeOK /\ FlagsMatchMap /\ PrimaryIsAlive /\ AliveIsTracked

\* The state main sets up satisfies the invariant.
LEMMA InitEstablishesInv == Init => Inv
BY NumServersAssumption
   DEF Init, Inv, TypeOK, FlagsMatchMap, PrimaryIsAlive, AliveIsTracked,
       Alive, Server, NoServer, HeartbeatAge

\* A heartbeat of a live server changes its time stamp only.
LEMMA HeartbeatOfAliveKeepsInv ==
  ASSUME Inv, NEW s \in Server, HeartbeatOfAlive(s)
  PROVE  Inv'
BY DEF Inv, TypeOK, FlagsMatchMap, PrimaryIsAlive, AliveIsTracked, Alive,
       HeartbeatAge, HeartbeatOfAlive, electionVars, requestVars

\* The passing of time changes the age of an entry only.
LEMMA HeartbeatExpiresKeepsInv ==
  ASSUME Inv, NEW s \in Server, HeartbeatExpires(s)
  PROVE  Inv'
BY DEF Inv, TypeOK, FlagsMatchMap, PrimaryIsAlive, AliveIsTracked, Alive,
       HeartbeatAge, HeartbeatExpires, electionVars, requestVars

\* A revived server becomes the primary exactly when the group has none.
LEMMA HeartbeatOfRevivedKeepsInv ==
  ASSUME Inv, NEW s \in Server, HeartbeatOfRevived(s)
  PROVE  Inv'
<1> USE DEF Inv
<1>1. TypeOK'
  <2>1. isPrimary' \in [Server -> BOOLEAN]
    BY DEF HeartbeatOfRevived, TypeOK
  <2>2. (IF FirstOfGroup THEN s ELSE primaryServers) \in Server
    BY DEF TypeOK, FirstOfGroup
  <2>3. sent' \subseteq Status
    <3> DEFINE prim == IF FirstOfGroup THEN s ELSE primaryServers
    <3>1. /\ RoleStatus(s, isPrimary'[s], prim, NoServer) \in Status
          /\ NewSecondaryStatus(prim, s) \in Status
      BY <2>1, <2>2, StatusType
    <3>2. sent' \subseteq {RoleStatus(s, isPrimary'[s], prim, NoServer),
                         NewSecondaryStatus(prim, s)}
      BY DEF HeartbeatOfRevived
    <3> QED
      BY <3>1, <3>2
  <2> QED
    BY <2>1, <2>2, <2>3
       DEF HeartbeatOfRevived, TypeOK, HeartbeatAge, requestVars
<1>2. FlagsMatchMap'
  BY DEF HeartbeatOfRevived, TypeOK, FlagsMatchMap, PrimaryIsAlive, Alive,
         FirstOfGroup, Server, NoServer
<1>3. PrimaryIsAlive'
  BY DEF HeartbeatOfRevived, TypeOK, PrimaryIsAlive, Alive, FirstOfGroup
<1>4. AliveIsTracked'
  BY DEF HeartbeatOfRevived, TypeOK, AliveIsTracked
<1> QED
  BY <1>1, <1>2, <1>3, <1>4

\* The promotion loop leaves one live primary, or no live server.
LEMMA PrimaryDiesKeepsInv ==
  ASSUME Inv, NEW s \in Server, PrimaryDies(s)
  PROVE  Inv'
<1> USE DEF Inv
<1> DEFINE new == FirstAliveBut(s)
<1>1. new \in (Alive \ {s}) \union {NoServer}
  BY FirstAliveButIsFirst
<1>2. new = NoServer <=> Alive \ {s} = {}
  BY FirstAliveButIsFirst DEF Alive, Server, NoServer
<1>3. Alive' = Alive \ {s}
  BY DEF PrimaryDies, TypeOK, Alive
<1> HIDE DEF new
<1>4. TypeOK'
  <2>1. new \in Server \union {NoServer}
    BY <1>1 DEF Alive
  <2>2. sent' \subseteq Status
    <3>1. CASE new = NoServer
      BY <3>1 DEF PrimaryDies, new
    <3>2. CASE new # NoServer
      <4>1. sent' = {RoleStatus(r, r = new, new, s) : r \in ListedFrom(new)}
        BY <3>2 DEF PrimaryDies, new
      <4>2. ASSUME NEW r \in ListedFrom(new)
            PROVE  RoleStatus(r, r = new, new, s) \in Status
        BY <2>1, StatusType DEF ListedFrom
      <4> QED
        BY <4>1, <4>2
    <3> QED
      BY <3>1, <3>2
  <2>3. primaryServers' = new
    BY DEF PrimaryDies, new
  <2> QED
    BY <2>1, <2>2, <2>3
       DEF PrimaryDies, EntryErased, TypeOK, HeartbeatAge, requestVars
<1>5. FlagsMatchMap'
  <2>1. primaryServers' = new
    BY DEF PrimaryDies, new
  <2>2. isPrimary' = [r \in Server |-> IF r = s THEN FALSE
                                       ELSE r = new \/ isPrimary[r]]
    BY DEF PrimaryDies, new
  <2>3. \A r \in Server : isPrimary[r] => r = s
    BY DEF PrimaryDies, FlagsMatchMap
  <2>4. new # s
    BY <1>1 DEF Server, NoServer
  <2>5. \A r \in Server : isPrimary'[r] <=> r = new
    <3> SUFFICES ASSUME NEW r \in Server
                 PROVE  isPrimary'[r] <=> r = new
      OBVIOUS
    <3>1. isPrimary'[r] = IF r = s THEN FALSE ELSE r = new \/ isPrimary[r]
      BY <2>2
    <3>2. isPrimary[r] \in BOOLEAN
      BY DEF TypeOK
    <3> QED
      BY <3>1, <3>2, <2>3, <2>4
  <2> QED
    BY <2>1, <2>5 DEF FlagsMatchMap
<1>6. PrimaryIsAlive'
  BY <1>1, <1>2, <1>3 DEF PrimaryDies, new, PrimaryIsAlive
<1>7. AliveIsTracked'
  BY DEF PrimaryDies, EntryErased, TypeOK, AliveIsTracked
<1> QED
  BY <1>4, <1>5, <1>6, <1>7

\* The death of a secondary leaves the primary in place and alive.
LEMMA SecondaryDiesKeepsInv ==
  ASSUME Inv, NEW s \in Server, SecondaryDies(s)
  PROVE  Inv'
<1> USE DEF Inv
<1>1. primaryServers # s
  BY DEF SecondaryDies, FlagsMatchMap
<1>2. Alive' = Alive \ {s}
  BY DEF SecondaryDies, TypeOK, Alive
<1>3. TypeOK'
  <2>1. ASSUME NEW r \in Alive \ {s}
        PROVE  RoleStatus(r, isPrimary[r], primaryServers, s) \in Status
    BY StatusType DEF TypeOK, Alive
  <2>2. sent' \subseteq Status
    BY <2>1 DEF SecondaryDies
  <2> QED
    BY <2>2 DEF SecondaryDies, EntryErased, TypeOK, HeartbeatAge, requestVars
<1>4. FlagsMatchMap'
  BY DEF SecondaryDies, FlagsMatchMap
<1>5. PrimaryIsAlive'
  <2>1. s \in Alive
    BY DEF SecondaryDies, TimedOut, AliveIsTracked, Alive
  <2>2. primaryServers \in Alive
    BY <2>1 DEF PrimaryIsAlive
  <2> QED
    BY <1>1, <1>2, <2>2 DEF SecondaryDies, PrimaryIsAlive
<1>6. AliveIsTracked'
  BY DEF SecondaryDies, EntryErased, TypeOK, AliveIsTracked
<1> QED
  BY <1>3, <1>4, <1>5, <1>6

\* An answer to GET_SERVER changes the round-robin index only.
LEMMA GetServerKeepsInv ==
  ASSUME Inv, NEW i \in Server, GetServer(i)
  PROVE  Inv'
<1>1. Probe(i) \in Server
  <2>1. nextServerRoundRobin + i \in Int
    BY DEF Inv, TypeOK, Server
  <2> QED
    BY <2>1, IndexInRange DEF Probe
<1>2. IndexAfter(Probe(i)) \in Server
  BY <1>1, IndexInRange DEF IndexAfter, Server
<1> QED
  BY <1>1, <1>2
     DEF GetServer, Inv, TypeOK, FlagsMatchMap, PrimaryIsAlive,
         AliveIsTracked, Alive, electionVars

\* NO_SERVERS_ALIVE changes nothing of the group.
LEMMA GetServerFailsKeepsInv ==
  ASSUME Inv, GetServerFails
  PROVE  Inv'
BY DEF GetServerFails, Inv, TypeOK, FlagsMatchMap, PrimaryIsAlive,
       AliveIsTracked, Alive, electionVars

\* The facts above, put together for any step.
LEMMA NextKeepsInv == Inv /\ [Next]_vars => Inv'
<1> SUFFICES ASSUME Inv, [Next]_vars
             PROVE  Inv'
  OBVIOUS
<1>1. ASSUME NEW s \in Server, HeartbeatOfAlive(s) PROVE Inv'
  BY <1>1, HeartbeatOfAliveKeepsInv
<1>2. ASSUME NEW s \in Server, HeartbeatOfRevived(s) PROVE Inv'
  BY <1>2, HeartbeatOfRevivedKeepsInv
<1>3. ASSUME NEW s \in Server, HeartbeatExpires(s) PROVE Inv'
  BY <1>3, HeartbeatExpiresKeepsInv
<1>4. ASSUME NEW s \in Server, PrimaryDies(s) PROVE Inv'
  BY <1>4, PrimaryDiesKeepsInv
<1>5. ASSUME NEW s \in Server, SecondaryDies(s) PROVE Inv'
  BY <1>5, SecondaryDiesKeepsInv
<1>6. ASSUME NEW i \in Server, GetServer(i) PROVE Inv'
  BY <1>6, GetServerKeepsInv
<1>7. CASE GetServerFails
  BY <1>7, GetServerFailsKeepsInv
<1>8. CASE UNCHANGED vars
  BY <1>8 DEF vars, Inv, TypeOK, FlagsMatchMap, PrimaryIsAlive,
              AliveIsTracked, Alive
<1> QED
  BY <1>1, <1>2, <1>3, <1>4, <1>5, <1>6, <1>7, <1>8 DEF Next

-----------------------------------------------------------------------------
(* The theorems.                                                           *)

\* All the master's bookkeeping stays consistent, whatever the order of
\* heartbeats, timeouts and requests (recvHeartbeat, checkHeartbeats,
\* handleIncomingRequests).
THEOREM Invariance == Spec => []Inv
<1>1. Init => Inv
  BY InitEstablishesInv
<1>2. Inv /\ [Next]_vars => Inv'
  BY NextKeepsInv
<1> QED
  BY <1>1, <1>2, PTL DEF Spec

\* The variables of the master keep their types.
THEOREM TypeCorrect == Spec => []TypeOK
<1>1. Inv => TypeOK
  BY DEF Inv
<1> QED
  BY <1>1, Invariance, PTL

\* The isPrimary flags and the primaryServers map never disagree.
THEOREM FlagsAgree == Spec => []FlagsMatchMap
<1>1. Inv => FlagsMatchMap
  BY DEF Inv
<1> QED
  BY <1>1, Invariance, PTL

\* A group with a live server always has a live primary.
THEOREM AlwaysALivePrimary == Spec => []PrimaryIsAlive
<1>1. Inv => PrimaryIsAlive
  BY DEF Inv
<1> QED
  BY <1>1, Invariance, PTL

\* Exactly the live servers are watched by checkHeartbeats.
THEOREM LiveServersAreTracked == Spec => []AliveIsTracked
<1>1. Inv => AliveIsTracked
  BY DEF Inv
<1> QED
  BY <1>1, Invariance, PTL

-----------------------------------------------------------------------------
(* Action properties.                                                      *)

\* A live primary is never replaced: neither the assignment in recvHeartbeat
\* nor the one in checkHeartbeats overwrites an entry of primaryServers.
THEOREM PrimaryNotPreempted == Spec => NoPreemption
<1> DEFINE A == primaryServers # NoServer /\ primaryServers' # primaryServers
                  => isDead'[primaryServers]
<1>1. Inv /\ [Next]_vars => [A]_vars
  <2> SUFFICES ASSUME Inv, Next
               PROVE  A
    OBVIOUS
  <2>1. ASSUME NEW s \in Server, HeartbeatOfAlive(s) PROVE A
    BY <2>1 DEF HeartbeatOfAlive, electionVars
  <2>2. ASSUME NEW s \in Server, HeartbeatOfRevived(s) PROVE A
    BY <2>2 DEF HeartbeatOfRevived, FirstOfGroup
  <2>3. ASSUME NEW s \in Server, HeartbeatExpires(s) PROVE A
    BY <2>3 DEF HeartbeatExpires, electionVars
  <2>4. ASSUME NEW s \in Server, PrimaryDies(s) PROVE A
    <3>1. primaryServers = s
      BY <2>4 DEF PrimaryDies, Inv, FlagsMatchMap
    <3>2. isDead'[s]
      BY <2>4 DEF PrimaryDies, Inv, TypeOK
    <3> QED
      BY <3>1, <3>2
  <2>5. ASSUME NEW s \in Server, SecondaryDies(s) PROVE A
    BY <2>5 DEF SecondaryDies
  <2>6. ASSUME NEW i \in Server, GetServer(i) PROVE A
    BY <2>6 DEF GetServer, electionVars
  <2>7. CASE GetServerFails
    BY <2>7 DEF GetServerFails, electionVars
  <2> QED
    BY <2>1, <2>2, <2>3, <2>4, <2>5, <2>6, <2>7 DEF Next
<1>2. [][A]_vars => NoPreemption
  BY DEF NoPreemption
<1> QED
  BY <1>1, <1>2, Invariance, PTL DEF Spec

\* Every live server hears of a new primary from the handler that elected
\* it: the servers the promotion loop has already passed when it finds the
\* first live one are dead.
THEOREM NewPrimaryIsAnnounced == Spec => ElectionAnnounced
<1> DEFINE told(s) ==
             \E m \in sent' :
                /\ m.to = s
                /\ IF s = primaryServers'
                   THEN m.role = "PRIMARY"
                   ELSE m.role = "SECONDARY" /\ m.primary = primaryServers'
           A == primaryServers' \notin {primaryServers, NoServer}
                  => \A s \in Server : ~isDead'[s] => told(s)
<1>1. Inv /\ [Next]_vars => [A]_vars
  <2> SUFFICES ASSUME Inv, Next,
                      primaryServers' \notin {primaryServers, NoServer}
               PROVE  \A s \in Server : ~isDead'[s] => told(s)
    OBVIOUS
  <2>1. PICK s \in Server : HeartbeatOfRevived(s) \/ PrimaryDies(s)
    BY DEF Next, HeartbeatOfAlive, HeartbeatExpires, SecondaryDies, GetServer,
           GetServerFails, electionVars
  <2>2. CASE HeartbeatOfRevived(s)
    <3>1. FirstOfGroup /\ primaryServers' = s
      BY <2>2 DEF HeartbeatOfRevived
    <3>2. Alive = {}
      BY <3>1 DEF Inv, PrimaryIsAlive, FirstOfGroup, Alive, Server, NoServer
    <3>3. \A r \in Server : ~isDead'[r] => r = s
      BY <2>2, <3>2 DEF HeartbeatOfRevived, Inv, TypeOK, Alive
    <3>4. isPrimary'[s]
      BY <2>2, <3>1 DEF HeartbeatOfRevived, Inv, TypeOK
    <3>5. RoleStatus(s, isPrimary'[s], s, NoServer) \in sent'
      BY <2>2, <3>1 DEF HeartbeatOfRevived
    <3>6. told(s)
      BY <3>1, <3>4, <3>5 DEF RoleStatus
    <3> QED
      BY <3>3, <3>6
  <2>3. CASE PrimaryDies(s)
    <3> DEFINE new == FirstAliveBut(s)
    <3>1. primaryServers' = new /\ new # NoServer
      BY <2>3 DEF PrimaryDies
    <3>2. sent' = {RoleStatus(r, r = new, new, s) : r \in ListedFrom(new)}
      BY <2>3, <3>1 DEF PrimaryDies
    <3>3. \A r \in Alive \ {s} : new <= r
      BY FirstAliveButIsFirst
    <3>4. Alive' = Alive \ {s}
      BY <2>3 DEF PrimaryDies, Inv, TypeOK, Alive
    <3>5. \A r \in Server : ~isDead'[r] => r \in ListedFrom(new)
      BY <3>3, <3>4 DEF Alive, ListedFrom, Server
    <3>6. ASSUME NEW r \in ListedFrom(new)
          PROVE  told(r)
      <4> DEFINE m == RoleStatus(r, r = new, new, s)
      <4>1. m \in sent'
        BY <3>2
      <4>2. /\ m.to = r
            /\ IF r = new THEN m.role = "PRIMARY"
                          ELSE m.role = "SECONDARY" /\ m.primary = new
        BY DEF RoleStatus
      <4> HIDE DEF m
      <4> QED
        BY <3>1, <4>1, <4>2
    <3> QED
      BY <3>5, <3>6
  <2> QED
    BY <2>1, <2>2, <2>3
<1>2. [][A]_vars => ElectionAnnounced
  BY DEF ElectionAnnounced
<1> QED
  BY <1>1, <1>2, Invariance, PTL DEF Spec

-----------------------------------------------------------------------------
(* Round robin.                                                            *)

\* The remainder of a number that is less than twice the number of servers.
LEMMA Wraps ==
  ASSUME NEW n \in 0 .. 2 * NumServers - 1
  PROVE  n % NumServers = IF n < NumServers THEN n ELSE n - NumServers
<1>1. CASE n \in 0 .. NumServers - 1
  BY <1>1, NumServersAssumption
<1>2. CASE n \in NumServers .. 2 * NumServers - 1
  BY <1>2, NumServersAssumption
<1> QED
  BY <1>1, <1>2, NumServersAssumption

\* The loop of handleIncomingRequests starts behind the latest answer.
StartsBehindAnswer ==
    selected # NoServer => nextServerRoundRobin = IndexAfter(selected)

LEMMA RequestKeepsStart ==
  ASSUME TypeOK, StartsBehindAnswer, [Next]_vars
  PROVE  StartsBehindAnswer'
<1>1. CASE UNCHANGED requestVars
  BY <1>1 DEF StartsBehindAnswer, requestVars, IndexAfter
<1>2. ASSUME NEW i \in Server, GetServer(i) PROVE StartsBehindAnswer'
  BY <1>2 DEF GetServer, StartsBehindAnswer, IndexAfter
<1>3. CASE GetServerFails
  BY <1>3 DEF GetServerFails, StartsBehindAnswer
<1> QED
  BY <1>1, <1>2, <1>3
     DEF Next, vars, requestVars, HeartbeatOfAlive, HeartbeatOfRevived,
         HeartbeatExpires, PrimaryDies, SecondaryDies

\* If the loop comes back to the latest answer, it has looked at every other
\* server of the group before.
LEMMA OthersComeFirst ==
  ASSUME nextServerRoundRobin \in Server, NEW t \in Server,
         nextServerRoundRobin = IndexAfter(t),
         NEW i \in Server, Probe(i) = t,
         NEW s \in Server \ {t}
  PROVE  \E j \in 0 .. i - 1 : Probe(j) = s
<1> DEFINE N == NumServers
           n == nextServerRoundRobin
           j == IF s >= n THEN s - n ELSE s - n + N
<1>1. /\ N \in Nat \ {0} /\ n \in 0 .. N - 1 /\ t \in 0 .. N - 1
      /\ i \in 0 .. N - 1 /\ s \in 0 .. N - 1 /\ s # t
  BY NumServersAssumption DEF Server
<1>2. n = IF t + 1 < N THEN t + 1 ELSE t + 1 - N
  <2>1. PICK m \in 0 .. 2 * NumServers - 1 : m = t + 1
    BY <1>1
  <2>2. m % NumServers = IF m < NumServers THEN m ELSE m - NumServers
    BY Wraps
  <2> QED
    BY <1>1, <2>1, <2>2 DEF IndexAfter
<1>3. ASSUME NEW k \in 0 .. N - 1
      PROVE  Probe(k) = IF n + k < N THEN n + k ELSE n + k - N
  <2>1. PICK m \in 0 .. 2 * NumServers - 1 : m = n + k
    BY <1>1
  <2>2. m % NumServers = IF m < NumServers THEN m ELSE m - NumServers
    BY Wraps
  <2>3. Probe(k) = m % NumServers
    BY <2>1 DEF Probe
  <2> QED
    BY <1>1, <2>1, <2>2, <2>3
<1>4. j \in 0 .. N - 1 /\ Probe(j) = s
  BY <1>1, <1>3
<1>5. i = N - 1
  BY <1>1, <1>2, <1>3
<1>6. j # N - 1
  BY <1>1, <1>2
<1> HIDE DEF j
<1> QED
  BY <1>1, <1>4, <1>5, <1>6

\* Requests rotate: the server of the previous answer is chosen again only if
\* it is the only one alive.
THEOREM RequestsRotate == Spec => RoundRobinRotates
<1> DEFINE A == nextServerRoundRobin' # nextServerRoundRobin =>
                  \/ selected' # selected
                  \/ \A s \in Server \ {selected} : isDead[s]
<1>1. Init => StartsBehindAnswer
  BY DEF Init, StartsBehindAnswer
<1>2. Inv /\ StartsBehindAnswer /\ [Next]_vars => StartsBehindAnswer'
  BY RequestKeepsStart DEF Inv
<1>3. Inv /\ StartsBehindAnswer /\ [Next]_vars => [A]_vars
  <2> SUFFICES ASSUME Inv, StartsBehindAnswer, Next,
                      nextServerRoundRobin' # nextServerRoundRobin,
                      selected' = selected, NEW s \in Server \ {selected}
               PROVE  isDead[s]
    OBVIOUS
  <2>1. PICK i \in Server : GetServer(i)
    BY DEF Next, requestVars, HeartbeatOfAlive, HeartbeatOfRevived,
           HeartbeatExpires, PrimaryDies, SecondaryDies, GetServerFails
  <2>2. Probe(i) = selected
    BY <2>1 DEF GetServer
  <2>3. nextServerRoundRobin \in Server /\ Probe(i) \in Server
    <3>1. nextServerRoundRobin \in Server /\ nextServerRoundRobin + i \in Int
      BY DEF Inv, TypeOK, Server
    <3> QED
      BY <3>1, IndexInRange DEF Probe
  <2>4. nextServerRoundRobin = IndexAfter(selected)
    BY <2>2, <2>3, NumServersAssumption DEF StartsBehindAnswer, Server, NoServer
  <2>5. PICK j \in 0 .. i - 1 : Probe(j) = s
    BY <2>2, <2>3, <2>4, OthersComeFirst
  <2> QED
    BY <2>1, <2>5 DEF GetServer
<1>4. [][A]_vars => RoundRobinRotates
  BY DEF RoundRobinRotates
<1> QED
  BY <1>1, <1>2, <1>3, <1>4, Invariance, PTL DEF Spec

-----------------------------------------------------------------------------
(* Master implements Election: a heartbeat of a revived server is a Join,   *)
(* a death is a Leave, every other step changes nothing of the group.       *)

\* Each handler is a Join, a Leave or a stuttering step of Election.
LEMMA StepIsElectionStep ==
  ASSUME Inv, [Next]_vars
  PROVE  [Promise!Next]_(Promise!vars)
<1> DEFINE stutter == Alive' = Alive /\ primaryServers' = primaryServers
<1>0. stutter => UNCHANGED Promise!vars
  BY DEF Promise!vars
<1>1. ASSUME NEW s \in Server, HeartbeatOfAlive(s) PROVE stutter
  BY <1>1 DEF HeartbeatOfAlive, electionVars, Alive
<1>2. ASSUME NEW s \in Server, HeartbeatOfRevived(s) PROVE Promise!Join(s)
  <2>1. s \notin Alive
    BY <1>2 DEF HeartbeatOfRevived, Alive
  <2>2. Alive' = Alive \union {s}
    BY <1>2 DEF HeartbeatOfRevived, Inv, TypeOK, Alive
  <2> QED
    BY <1>2, <2>1, <2>2 DEF HeartbeatOfRevived, FirstOfGroup, Promise!Join
<1>3. ASSUME NEW s \in Server, HeartbeatExpires(s) PROVE stutter
  BY <1>3 DEF HeartbeatExpires, electionVars, Alive
<1>4. ASSUME NEW s \in Server, PrimaryDies(s) PROVE Promise!Leave(s)
  <2>1. s \in Alive
    BY <1>4 DEF PrimaryDies, TimedOut, Inv, AliveIsTracked, Alive
  <2>2. Alive' = Alive \ {s}
    BY <1>4 DEF PrimaryDies, Inv, TypeOK, Alive
  <2>3. primaryServers = s
    BY <1>4 DEF PrimaryDies, Inv, FlagsMatchMap
  <2>4. IF Alive \ {s} = {} THEN primaryServers' = NoServer
                            ELSE primaryServers' \in Alive \ {s}
    BY <1>4, FirstAliveButIsFirst DEF PrimaryDies
  <2> QED
    BY <2>1, <2>2, <2>3, <2>4 DEF Promise!Leave
<1>5. ASSUME NEW s \in Server, SecondaryDies(s) PROVE Promise!Leave(s)
  <2>1. s \in Alive
    BY <1>5 DEF SecondaryDies, TimedOut, Inv, AliveIsTracked, Alive
  <2>2. Alive' = Alive \ {s}
    BY <1>5 DEF SecondaryDies, Inv, TypeOK, Alive
  <2>3. primaryServers # s
    BY <1>5 DEF SecondaryDies, Inv, FlagsMatchMap
  <2> QED
    BY <1>5, <2>1, <2>2, <2>3 DEF SecondaryDies, Promise!Leave
<1>6. ASSUME NEW i \in Server, GetServer(i) PROVE stutter
  BY <1>6 DEF GetServer, electionVars, Alive
<1>7. CASE GetServerFails
  BY <1>0, <1>7 DEF GetServerFails, electionVars, Alive
<1>8. CASE UNCHANGED vars
  BY <1>0, <1>8 DEF vars, Alive
<1> HIDE DEF stutter
<1> QED
  BY <1>0, <1>1, <1>2, <1>3, <1>4, <1>5, <1>6, <1>7, <1>8
     DEF Next, Promise!Next

\* The handlers of the master, run one at a time, implement the election that
\* Election promises: one live primary, replaced only when it leaves.
THEOREM MasterImplementsElection == Spec => ElectionSpec
<1>1. Init => Promise!Init
  BY DEF Init, Promise!Init, Alive
<1>2. Inv /\ [Next]_vars => [Promise!Next]_(Promise!vars)
  BY StepIsElectionStep
<1> QED
  BY <1>1, <1>2, Invariance, PTL DEF Spec, ElectionSpec, Promise!Spec
=============================================================================
