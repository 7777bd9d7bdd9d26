------------------------- MODULE ReplicationProofs -------------------------
(***************************************************************************)
(* Proofs about module Replication, for any number of servers, failures,    *)
(* clients and nested handlers: what a client is told of its write, and      *)
(* where a write is once a primary has carried it out.                      *)
(***************************************************************************)
EXTENDS Replication, MembershipProofs, SequenceTheorems

-----------------------------------------------------------------------------
(* Sequences.                                                              *)

LEMMA FrontProperties ==
  ASSUME NEW S, NEW q \in Seq(S), q # <<>>
  PROVE  /\ Front(q) \in Seq(S)
         /\ Len(Front(q)) = Len(q) - 1 /\ Len(q) \in Nat \ {0}
         /\ \A i \in 1 .. Len(q) - 1 : Front(q)[i] = q[i]
         /\ Last(q) = q[Len(q)] /\ Last(q) \in S
<1> DEFINE n == Len(q) - 1
<1>1. n \in Nat /\ Len(q) = n + 1 /\ \A i \in 1 .. n + 1 : q[i] \in S
  OBVIOUS
<1>2. /\ Front(q) \in Seq(S)
      /\ Len(Front(q)) = IF 1 <= n THEN n - 1 + 1 ELSE 0
      /\ \A i \in 1 .. n - 1 + 1 : Front(q)[i] = q[1 + i - 1]
  BY <1>1, SubSeqProperties DEF Front
<1> HIDE DEF n
<1>3. Len(Front(q)) = n
  BY <1>1, <1>2
<1>4. ASSUME NEW i \in 1 .. n
      PROVE  Front(q)[i] = q[i]
  <2>1. i \in 1 .. n - 1 + 1 /\ 1 + i - 1 = i
    BY <1>1
  <2>2. QED
    BY <1>2, <2>1
<1>5. Len(q) - 1 = n /\ Len(q) \in Nat \ {0} /\ Last(q) \in S
  BY <1>1 DEF Last
<1>6. QED
  BY <1>2, <1>3, <1>4, <1>5 DEF Last

LEMMA ToSetAppend ==
  ASSUME NEW S, NEW q \in Seq(S), NEW e \in S
  PROVE  ToSet(Append(q, e)) = ToSet(q) \union {e}
<1>1. /\ DOMAIN q = 1 .. Len(q) /\ Len(q) \in Nat
      /\ DOMAIN Append(q, e) = 1 .. Len(q) + 1
      /\ Append(q, e)[Len(q) + 1] = e
      /\ \A i \in 1 .. Len(q) : Append(q, e)[i] = q[i]
  OBVIOUS
<1>2. ToSet(q) \union {e} \subseteq ToSet(Append(q, e))
  BY <1>1 DEF ToSet
<1>3. ToSet(Append(q, e)) \subseteq ToSet(q) \union {e}
  BY <1>1 DEF ToSet
<1>4. QED
  BY <1>2, <1>3

LEMMA ToSetConcat ==
  ASSUME NEW S, NEW q \in Seq(S), NEW r \in Seq(S)
  PROVE  ToSet(q \o r) = ToSet(q) \union ToSet(r)
<1>1. /\ q \o r \in Seq(S)
      /\ Len(q \o r) = Len(q) + Len(r)
      /\ \A i \in 1 .. Len(q) + Len(r) :
            (q \o r)[i] = IF i <= Len(q) THEN q[i] ELSE r[i - Len(q)]
  BY ConcatProperties
<1>2. /\ DOMAIN (q \o r) = 1 .. Len(q) + Len(r)
      /\ DOMAIN q = 1 .. Len(q) /\ DOMAIN r = 1 .. Len(r)
      /\ Len(q) \in Nat /\ Len(r) \in Nat
  BY <1>1
<1>3. \A i \in 1 .. Len(q) : i \in DOMAIN (q \o r) /\ (q \o r)[i] = q[i]
  BY <1>1, <1>2
<1>4. \A i \in 1 .. Len(r) : /\ Len(q) + i \in DOMAIN (q \o r)
                             /\ (q \o r)[Len(q) + i] = r[i]
  BY <1>1, <1>2
<1>5. \A i \in DOMAIN (q \o r) : \/ i \in DOMAIN q /\ (q \o r)[i] = q[i]
                                \/ /\ i - Len(q) \in DOMAIN r
                                   /\ (q \o r)[i] = r[i - Len(q)]
  BY <1>1, <1>2
<1>6. ToSet(q) \subseteq ToSet(q \o r)
  BY <1>2, <1>3 DEF ToSet
<1>7. ToSet(r) \subseteq ToSet(q \o r)
  BY <1>2, <1>4 DEF ToSet
<1>8. ToSet(q \o r) \subseteq ToSet(q) \union ToSet(r)
  BY <1>5 DEF ToSet
<1>9. QED
  BY <1>6, <1>7, <1>8

LEMMA ToSetEmpty == ToSet(<<>>) = {}
BY DEF ToSet

-----------------------------------------------------------------------------
(* The inductive invariant: what an informed server takes for the primary.  *)

\* Whom s takes for the primary once it has read i of its datagrams.
Holder(s, i) ==
    IF i = 0 THEN IF me[s] THEN s ELSE primaryInfo[s]
    ELSE IF network[s][i].role = "PRIMARY" THEN s ELSE network[s][i].primary

\* Every datagram either leaves the primary what it was, or tells of its
\* death; the last one tells who the primary is.
ChainOfPrimaries(s) ==
    /\ \A i \in 1 .. Len(network[s]) :
          /\ network[s][i].dead # s
          /\ network[s][i].role # "PRIMARY" => network[s][i].primary # s
          /\ Holder(s, i - 1) \in {NoServer, Holder(s, i), network[s][i].dead}
    /\ Holder(s, Len(network[s])) \in {NoServer, primaryServers}

\* At most the server that s forwards to is flagged, and no other than s
\* itself if s is the primary.
FlagsOneHolder(s) ==
    \A d \in Server : d # s /\ view[s][d].prim => ~me[s] /\ primaryInfo[s] = d

\* A process that does not run knows nothing.
DownIsBlank(s) ==
    ~up[s] => /\ ~me[s] /\ primaryInfo[s] = NoServer /\ network[s] = <<>>
              /\ \A d \in Server : ~view[s][d].prim

RolesInv ==
    \A s \in Server :
        /\ DownIsBlank(s)
        /\ Informed(s) => ChainOfPrimaries(s) /\ FlagsOneHolder(s)

-----------------------------------------------------------------------------
(* The inductive invariant: the handlers of a request.                     *)

\* A handler that forwards has called the server it has come to.
Nested(c) ==
    \A i \in 1 .. Len(handlers[c]) : handlers[c][i].does = "loop" =>
        IF i < Len(handlers[c])
        THEN /\ handlers[c][i].next = handlers[c][i + 1].at
             /\ handlers[c][i + 1].does \in {"loop", "apply", "gone"}
        ELSE response[c] = "ok" => handlers[c][i].next < NumServers

\* It runs on a server that is up, and that is still the primary if it is
\* informed; then every server it has passed holds the write.
PassedHold(c) ==
    \A i \in 1 .. Len(handlers[c]) : handlers[c][i].does = "loop" =>
        LET s == handlers[c][i].at
        IN  /\ up[s]
            /\ Informed(s) =>
                  /\ me[s]
                  /\ \A v \in Server : v < handlers[c][i].next /\ v # s =>
                        Holds(v, c)

\* A server that has answered +OK to the handler that forwards holds the write.
AnsweredHolds(c) ==
    LET n == Len(handlers[c])
    IN  n > 0 /\ handlers[c][n].does = "loop" /\ response[c] = "ok" =>
            \A v \in Server : v = handlers[c][n].next => Holds(v, c)

\* +OK comes from a server that has applied the write, but for the relay that
\* found no primary.
OkIsApplied(c) ==
    (response[c] = "ok" \/ outcome[c] = "ok") /\ c \notin unrelayed =>
        \E s \in Server : c \in ToSet(applied[s])

RequestInv ==
    /\ \A c \in Client : /\ outcome[c] = "unsent" => handlers[c] = <<>>
                         /\ Nested(c)
                         /\ PassedHold(c)
                         /\ AnsweredHolds(c)
                         /\ OkIsApplied(c)
    /\ CommittedIsHeld

ReplicationInv ==
    /\ Inv
    /\ ReplicationTypeOK
    /\ RolesInv
    /\ RequestInv

-----------------------------------------------------------------------------
(* Roles.                                                                  *)

\* One more datagram: it tells r who is the primary, and the former one was
\* the same or is the server that has died.
LEMMA DatagramKeepsChain ==
  ASSUME Inv, NEW r \in Server, ChainOfPrimaries(r), UNCHANGED roleVars,
         NEW m \in Mst!Status, network'[r] = Append(network[r], m),
         m.to = r, m.dead # r, TellsRole(m)',
         isPrimary'[r] <=> primaryServers' = r,
         primaryServers \in {NoServer, primaryServers', m.dead}
  PROVE  ChainOfPrimaries(r)'
<1> PICK n \in Nat : n = Len(network[r])
  BY DEF Inv, TypeOK
<1>1. /\ network[r] \in Seq(Mst!Status)
      /\ Len(network'[r]) = n + 1 /\ network'[r][n + 1] = m
      /\ \A i \in 1 .. n : network'[r][i] = network[r][i]
  BY DEF Inv, TypeOK
<1>2. \A i \in 0 .. n : Holder(r, i)' = Holder(r, i)
  BY <1>1 DEF Holder, roleVars
<1>3. /\ Holder(r, n + 1)' = primaryServers'
      /\ m.role # "PRIMARY" => m.primary # r
  BY <1>1, n + 1 # 0 DEF Holder, TellsRole
<1>4. ASSUME NEW i \in 1 .. n + 1
      PROVE  /\ network'[r][i].dead # r
             /\ network'[r][i].role # "PRIMARY" => network'[r][i].primary # r
             /\ Holder(r, i - 1)' \in
                   {NoServer, Holder(r, i)', network'[r][i].dead}
  <2>1. CASE i = n + 1
    <3>1. Holder(r, n)' \in {NoServer, primaryServers}
      BY <1>1, <1>2 DEF ChainOfPrimaries
    <3>2. i - 1 = n
      BY <1>1, <2>1
    <3>3. QED
      BY <1>1, <1>3, <2>1, <3>1, <3>2
  <2>2. CASE i # n + 1
    <3>1. i \in 1 .. n /\ i - 1 \in 0 .. n /\ i \in 0 .. n
      BY <1>1, <2>2
    <3>2. QED
      BY <1>1, <1>2, <3>1 DEF ChainOfPrimaries
  <2>3. QED
    BY <2>1, <2>2
<1>5. Holder(r, Len(network[r]))' = Holder(r, n + 1)'
  BY <1>1 DEF Holder
<1>6. QED
  BY <1>1, <1>3, <1>4, <1>5 DEF ChainOfPrimaries

\* Nothing is sent: the primary is the same, or there was none.
LEMMA SilenceKeepsChain ==
  ASSUME NEW r \in Server, ChainOfPrimaries(r), UNCHANGED roleVars,
         network'[r] = network[r],
         primaryServers \in {NoServer, primaryServers'}
  PROVE  ChainOfPrimaries(r)'
<1>1. \A i : Holder(r, i)' = Holder(r, i)
  BY DEF Holder, roleVars
<1>2. Holder(r, Len(network[r]))' = Holder(r, Len(network[r]))
  BY DEF Holder, roleVars
<1>3. QED
  BY <1>1, <1>2 DEF ChainOfPrimaries

\* The datagrams of one handler of the master.
LEMMA TransmitKeepsChain ==
  ASSUME Inv, Inv', Transmit, UNCHANGED <<up, roleVars>>, NEW r \in Server,
         ChainOfPrimaries(r), up[r],
         \A m \in sent' : /\ TellsRole(m)' /\ m.dead # r
                          /\ primaryServers \in {NoServer, primaryServers', m.dead},
         (\A m \in sent' : m.to # r) => primaryServers \in {NoServer, primaryServers'}
  PROVE  ChainOfPrimaries(r)'
<1>1. sent' \subseteq Mst!Status
  BY SameServers DEF Inv, Proved!Inv, Proved!TypeOK
<1>2. isPrimary'[r] <=> primaryServers' = r
  BY SameServers DEF Inv, Proved!Inv, Proved!FlagsMatchMap
<1>3. CASE network'[r] = network[r] /\ \A m \in sent' : m.to # r
  BY <1>3, SilenceKeepsChain
<1>4. CASE \E m \in sent' : m.to = r /\ network'[r] = Append(network[r], m)
  BY <1>1, <1>2, <1>4, DatagramKeepsChain
<1>5. QED
  BY <1>1, <1>3, <1>4, TransmitEffect DEF Inv

\* What the datagram at the head of the queue makes of a server's list.
LEMMA PrimAfterStatus ==
  ASSUME TypeOK, NEW s \in Server, NEW m \in Mst!Status,
         NEW v, v = AfterDeath(IF m.role = "PRIMARY" THEN ViewOfPrimary(s, m)
                               ELSE ViewOfSecondary(s, m), m)
  PROVE  \A d \in Server : d # s /\ v[d].prim =>
            /\ d # m.dead
            /\ view[s][d].prim \/ (m.role # "PRIMARY" /\ d = m.primary)
<1> DEFINE Mark == [dead : BOOLEAN, prim : BOOLEAN]
           own(p) == Marked(view[s], s, FALSE, p)
<1>1. view[s] \in [Server -> Mark]
  BY DEF TypeOK
<1>2. ASSUME NEW p \in BOOLEAN
      PROVE  /\ own(p) \in [Server -> Mark]
             /\ \A d \in Server : d # s => own(p)[d] = view[s][d]
  BY <1>1 DEF Marked
<1> HIDE DEF own
<1>3. /\ ViewOfPrimary(s, m) \in [Server -> Mark]
      /\ \A d \in Server : d # s /\ ViewOfPrimary(s, m)[d].prim =>
            view[s][d].prim
  <2>1. ViewOfPrimary(s, m) =
          IF m.newSecondary = NoServer THEN own(TRUE)
          ELSE Marked(own(TRUE), m.newSecondary, FALSE, FALSE)
    BY DEF ViewOfPrimary, own
  <2>2. ASSUME NEW w \in [Server -> Mark], NEW e
        PROVE  /\ Marked(w, e, FALSE, FALSE) \in [Server -> Mark]
               /\ \A d \in Server : Marked(w, e, FALSE, FALSE)[d].prim => w[d].prim
    BY DEF Marked
  <2>3. CASE m.newSecondary = NoServer
    BY <1>2, <2>1, <2>3
  <2>4. CASE m.newSecondary # NoServer
    <3>1. ViewOfPrimary(s, m) = Marked(own(TRUE), m.newSecondary, FALSE, FALSE)
      BY <2>1, <2>4
    <3>2. own(TRUE) \in [Server -> Mark]
      BY <1>2
    <3> HIDE DEF Mark
    <3>3. /\ Marked(own(TRUE), m.newSecondary, FALSE, FALSE) \in [Server -> Mark]
          /\ \A d \in Server :
                Marked(own(TRUE), m.newSecondary, FALSE, FALSE)[d].prim
                   => own(TRUE)[d].prim
      BY <2>2, <3>2
    <3>4. \A d \in Server : d # s => own(TRUE)[d] = view[s][d]
      BY <1>2
    <3>5. QED
      BY <3>1, <3>3, <3>4
  <2>5. QED
    BY <2>3, <2>4
<1>4. /\ ViewOfSecondary(s, m) \in [Server -> Mark]
      /\ \A d \in Server : d # s /\ ViewOfSecondary(s, m)[d].prim =>
            view[s][d].prim \/ d = m.primary
  <2>1. ViewOfSecondary(s, m) = [own(FALSE) EXCEPT ![m.primary].prim = TRUE]
    BY DEF ViewOfSecondary, own
  <2>2. QED
    BY <1>2, <2>1
<1>5. \A w \in [Server -> Mark] : \A d \in Server : d # s =>
         /\ AfterDeath(w, m)[d].prim => w[d].prim /\ d # m.dead
  <2>1. NoServer \notin Server
    BY DEF NoServer, Server
  <2>2. QED
    BY <2>1 DEF AfterDeath, Marked
<1>6. QED
  BY <1>3, <1>4, <1>5

\* A process that does not run has a chain of no datagrams.
LEMMA BlankFits ==
  ASSUME NEW r \in Server
  PROVE  /\ DownIsBlank(r) /\ ~up[r] => ChainOfPrimaries(r) /\ FlagsOneHolder(r)
         /\ (DownIsBlank(r) /\ ~up[r] => ChainOfPrimaries(r) /\ FlagsOneHolder(r))'
BY DEF DownIsBlank, ChainOfPrimaries, FlagsOneHolder, Holder

LEMMA HeartbeatKeepsRoles ==
  ASSUME Inv, Inv', RolesInv, NEW s \in Server, Heartbeat(s),
         UNCHANGED uninformed
  PROVE  RolesInv'
<1>1. Transmit /\ UNCHANGED <<up, roleVars, missed>>
  BY DEF Heartbeat, nodeVars
<1>2. /\ \A m \in sent' : TellsRole(m)' /\ m.dead = NoServer
      /\ primaryServers \in {NoServer, primaryServers'}
  <2>1. CASE Mst!HeartbeatOfAlive(s)
    BY <2>1 DEF Mst!HeartbeatOfAlive, Mst!electionVars
  <2>2. CASE Mst!HeartbeatOfRevived(s)
    <3>1. \A m \in sent' : TellsRole(m)' /\ m.dead = NoServer
      BY <2>2, RevivedSends DEF Inv
    <3>2. primaryServers \in {NoServer, primaryServers'}
      BY <2>2, SameServers DEF Mst!HeartbeatOfRevived, Mst!FirstOfGroup
    <3>3. QED
      BY <3>1, <3>2
  <2>3. QED
    BY <2>1, <2>2 DEF Heartbeat
<1>3. ASSUME NEW r \in Server
      PROVE  DownIsBlank(r)' /\ (Informed(r)' =>
                ChainOfPrimaries(r)' /\ FlagsOneHolder(r)')
  <2>1. sent' \subseteq Mst!Status
    BY SameServers DEF Inv, Proved!Inv, Proved!TypeOK
  <2>2. DownIsBlank(r)'
    <3>1. ~up[r] => network'[r] = network[r]
      BY <1>1, <2>1, TransmitEffect DEF Inv
    <3>2. QED
      BY <1>1, <3>1 DEF RolesInv, DownIsBlank, roleVars
  <2>3. CASE ~up[r]
    BY <1>1, <2>2, <2>3, BlankFits
  <2>4. CASE up[r]
    <3>1. SUFFICES ASSUME Informed(r)'
                   PROVE  ChainOfPrimaries(r)' /\ FlagsOneHolder(r)'
      BY <2>2
    <3>2. ChainOfPrimaries(r) /\ FlagsOneHolder(r)
      BY <1>1, <3>1 DEF RolesInv, Informed
    <3>3. \A m \in sent' : m.dead # r
      BY <1>2 DEF NoServer, Server
    <3>4. ChainOfPrimaries(r)'
      BY <1>1, <1>2, <2>4, <3>2, <3>3, TransmitKeepsChain
    <3>5. FlagsOneHolder(r)'
      BY <1>1, <3>2 DEF FlagsOneHolder, roleVars
    <3>6. QED
      BY <3>4, <3>5
  <2>5. QED
    BY <2>3, <2>4
<1>4. QED
  BY <1>3 DEF RolesInv

LEMMA SuspectKeepsRoles ==
  ASSUME Inv, Inv', RolesInv, NEW d \in Server, ServerSuspect(d)
  PROVE  RolesInv'
<1>1. /\ Transmit /\ UNCHANGED <<up, roleVars>>
      /\ missed' = [missed EXCEPT ![d] = up[d]]
      /\ uninformed \subseteq uninformed'
      /\ \A r \in Server : r \notin uninformed' /\ up[r] /\ isPrimary[d] =>
            \E m \in sent' : m.to = r
  BY DEF ServerSuspect, Suspect
<1>2. \A m \in sent' : TellsRole(m)' /\ m.dead = d
  BY DeathSends DEF Inv, ServerSuspect, Suspect
<1>3. /\ primaryServers \in {d, primaryServers'}
      /\ isPrimary[d] \/ primaryServers' = primaryServers
  <2>1. CASE Mst!PrimaryDies(d)
    <3>1. isPrimary[d]
      BY <2>1 DEF Mst!PrimaryDies
    <3>2. QED
      BY <3>1, MasterFacts DEF Inv
  <2>2. CASE Mst!SecondaryDies(d)
    BY <2>2 DEF Mst!SecondaryDies
  <2>3. QED
    BY <2>1, <2>2 DEF ServerSuspect, Suspect
<1>4. missed \in [Server -> BOOLEAN]
  BY DEF Inv, TypeOK
<1>5. ASSUME NEW r \in Server
      PROVE  DownIsBlank(r)' /\ (Informed(r)' =>
                ChainOfPrimaries(r)' /\ FlagsOneHolder(r)')
  <2>1. sent' \subseteq Mst!Status
    BY SameServers DEF Inv, Proved!Inv, Proved!TypeOK
  <2>2. DownIsBlank(r)'
    <3>1. ~up[r] => network'[r] = network[r]
      BY <1>1, <2>1, TransmitEffect DEF Inv
    <3>2. QED
      BY <1>1, <3>1 DEF RolesInv, DownIsBlank, roleVars
  <2>3. CASE ~up[r]
    BY <1>1, <2>2, <2>3, BlankFits
  <2>4. CASE up[r]
    <3>1. SUFFICES ASSUME Informed(r)'
                   PROVE  ChainOfPrimaries(r)' /\ FlagsOneHolder(r)'
      BY <2>2
    <3>2. r # d /\ Informed(r)
      BY <1>1, <1>4, <2>4, <3>1 DEF Informed
    <3>3. ChainOfPrimaries(r) /\ FlagsOneHolder(r)
      BY <3>2 DEF RolesInv
    <3>4. (\A m \in sent' : m.to # r) => primaryServers' = primaryServers
      BY <1>1, <1>3, <2>4, <3>1 DEF Informed
    <3>5. ChainOfPrimaries(r)'
      BY <1>1, <1>2, <1>3, <2>4, <3>2, <3>3, <3>4, TransmitKeepsChain
    <3>6. FlagsOneHolder(r)'
      BY <1>1, <3>3 DEF FlagsOneHolder, roleVars
    <3>7. QED
      BY <3>5, <3>6
  <2>5. QED
    BY <2>3, <2>4
<1>6. QED
  BY <1>5 DEF RolesInv

LEMMA ReceiveKeepsRoles ==
  ASSUME Inv, RolesInv, NEW s \in Server, ReceiveStatus(s),
         UNCHANGED uninformed
  PROVE  RolesInv'
<1> DEFINE m == Head(network[s])
           v == AfterDeath(IF m.role = "PRIMARY" THEN ViewOfPrimary(s, m)
                           ELSE ViewOfSecondary(s, m), m)
<1> PICK n \in Nat : n = Len(network[s])
  BY DEF Inv, TypeOK
<1>1. /\ up[s] /\ network[s] # <<>>
      /\ me' = [me EXCEPT ![s] = (m.role = "PRIMARY")]
      /\ view' = [view EXCEPT ![s] = v]
      /\ primaryInfo' = IF m.role = "PRIMARY" THEN primaryInfo
                        ELSE [primaryInfo EXCEPT ![s] = m.primary]
      /\ network' = [network EXCEPT ![s] = Tail(@)]
      /\ UNCHANGED <<primaryServers, up, missed>>
  BY DEF ReceiveStatus, Role, MasterIdle
<1>2. /\ me \in [Server -> BOOLEAN]
      /\ view \in [Server -> [Server -> [dead : BOOLEAN, prim : BOOLEAN]]]
      /\ primaryInfo \in [Server -> Server \union {NoServer}]
      /\ network \in [Server -> Seq(Mst!Status)]
  BY DEF Inv, TypeOK
<1>3. /\ n > 0 /\ m \in Mst!Status /\ m = network[s][1]
      /\ Len(network'[s]) = n - 1
      /\ \A i \in 1 .. n - 1 : network'[s][i] = network[s][i + 1]
  BY <1>1, <1>2
<1>4. /\ me'[s] <=> m.role = "PRIMARY"
      /\ view'[s] = v
      /\ primaryInfo'[s] = IF m.role = "PRIMARY" THEN primaryInfo[s]
                           ELSE m.primary
  BY <1>1, <1>2
<1>5. \A d \in Server : d # s /\ v[d].prim =>
         /\ d # m.dead
         /\ view[s][d].prim \/ (m.role # "PRIMARY" /\ d = m.primary)
  BY <1>3, PrimAfterStatus DEF Inv
<1> HIDE DEF m, v
<1>6. ASSUME Informed(s)
      PROVE  ChainOfPrimaries(s)' /\ FlagsOneHolder(s)'
  <2>1. ChainOfPrimaries(s) /\ FlagsOneHolder(s)
    BY <1>6 DEF RolesInv
  <2>2. \A i \in 0 .. n - 1 : Holder(s, i)' = Holder(s, i + 1)
    <3>1. Holder(s, 0)' = Holder(s, 1)
      BY <1>3, <1>4 DEF Holder
    <3>2. ASSUME NEW i \in 1 .. n - 1
          PROVE  Holder(s, i)' = Holder(s, i + 1)
      <4>1. i # 0 /\ i + 1 # 0 /\ network'[s][i] = network[s][i + 1]
        BY <1>3
      <4>2. QED
        BY <4>1 DEF Holder
    <3>3. QED
      BY <3>1, <3>2
  <2>3. ASSUME NEW i \in 1 .. n - 1
        PROVE  /\ network'[s][i].dead # s
               /\ network'[s][i].role # "PRIMARY" =>
                     network'[s][i].primary # s
               /\ Holder(s, i - 1)' \in
                     {NoServer, Holder(s, i)', network'[s][i].dead}
    <3>1. /\ i + 1 \in 1 .. n /\ i - 1 \in 0 .. n - 1 /\ i \in 0 .. n - 1
          /\ (i - 1) + 1 = i /\ (i + 1) - 1 = i
      BY <1>3
    <3>2. /\ Holder(s, i - 1)' = Holder(s, i)
          /\ Holder(s, i)' = Holder(s, i + 1)
      BY <2>2, <3>1
    <3>3. Holder(s, i) \in {NoServer, Holder(s, i + 1), network[s][i + 1].dead}
      BY <2>1, <3>1 DEF ChainOfPrimaries
    <3>4. QED
      BY <1>3, <2>1, <3>1, <3>2, <3>3 DEF ChainOfPrimaries
  <2>4. Holder(s, Len(network[s]))' \in {NoServer, primaryServers'}
    <3>1. Holder(s, Len(network[s]))' = Holder(s, n - 1)'
      BY <1>3 DEF Holder
    <3>2. Holder(s, n - 1)' = Holder(s, n)
      BY <1>3, <2>2
    <3>3. QED
      BY <1>1, <2>1, <3>1, <3>2 DEF ChainOfPrimaries
  <2>5. ChainOfPrimaries(s)'
    BY <1>3, <2>3, <2>4 DEF ChainOfPrimaries
  <2>6. FlagsOneHolder(s)'
    <3>1. SUFFICES ASSUME NEW d \in Server, d # s, v[d].prim
                   PROVE  m.role # "PRIMARY" /\ m.primary = d
      BY <1>4 DEF FlagsOneHolder
    <3>2. CASE m.role # "PRIMARY" /\ d = m.primary
      BY <3>2
    <3>3. CASE view[s][d].prim
      <4>1. Holder(s, 0) = d /\ d # NoServer
        BY <2>1, <3>1, <3>3 DEF FlagsOneHolder, Holder, NoServer, Server
      <4>2. Holder(s, 0) \in {NoServer, Holder(s, 1), m.dead}
        BY <1>3, <2>1, 1 - 1 = 0 DEF ChainOfPrimaries
      <4>3. Holder(s, 1) = d
        BY <1>5, <3>1, <4>1, <4>2
      <4>4. QED
        BY <1>3, <3>1, <4>3 DEF Holder
    <3>4. QED
      BY <1>5, <3>1, <3>2, <3>3
  <2>7. QED
    BY <2>5, <2>6
<1>7. \A r \in Server : r # s =>
         /\ DownIsBlank(r)'
         /\ Informed(r)' => ChainOfPrimaries(r)' /\ FlagsOneHolder(r)'
  <2>1. SUFFICES ASSUME NEW r \in Server, r # s
                 PROVE  /\ DownIsBlank(r)'
                        /\ Informed(r)' =>
                              ChainOfPrimaries(r)' /\ FlagsOneHolder(r)'
    OBVIOUS
  <2>2. /\ me'[r] = me[r] /\ view'[r] = view[r]
        /\ primaryInfo'[r] = primaryInfo[r] /\ network'[r] = network[r]
    BY <1>1, <1>2, <2>1
  <2>3. ASSUME ChainOfPrimaries(r) PROVE ChainOfPrimaries(r)'
    <3>1. ASSUME NEW i \in 1 .. Len(network'[r])
          PROVE  /\ network'[r][i].dead # r
                 /\ network'[r][i].role # "PRIMARY" => network'[r][i].primary # r
                 /\ Holder(r, i - 1)' \in
                       {NoServer, Holder(r, i)', network'[r][i].dead}
      <4>1. i \in 1 .. Len(network[r])
        BY <2>2
      <4>2. Holder(r, i - 1)' = Holder(r, i - 1) /\ Holder(r, i)' = Holder(r, i)
        BY <2>2 DEF Holder
      <4>3. QED
        BY <2>2, <2>3, <4>1, <4>2 DEF ChainOfPrimaries
    <3>2. Holder(r, Len(network[r]))' = Holder(r, Len(network[r]))
      BY <2>2 DEF Holder
    <3>3. Holder(r, Len(network[r]))' \in {NoServer, primaryServers'}
      BY <1>1, <2>3, <3>2 DEF ChainOfPrimaries
    <3>4. QED
      BY <3>1, <3>3 DEF ChainOfPrimaries
  <2>4. QED
    BY <1>1, <2>2, <2>3 DEF RolesInv, DownIsBlank, FlagsOneHolder, Informed
<1>8. DownIsBlank(s)' /\ (Informed(s)' => Informed(s))
  BY <1>1 DEF DownIsBlank, Informed
<1>9. QED
  BY <1>6, <1>7, <1>8 DEF RolesInv, Informed

LEMMA QuietKeepsRoles ==
  ASSUME Inv, RolesInv, NEW s \in Server,
         Silence(s) \/ Disable(s) \/ Enable(s) \/ Start(s), UNCHANGED uninformed
  PROVE  RolesInv'
<1>1. /\ UNCHANGED <<primaryServers, roleVars, network, missed>>
      /\ up' = up \/ up' = [up EXCEPT ![s] = TRUE]
  BY DEF Silence, Disable, Enable, Start, Mst!HeartbeatExpires,
         Mst!electionVars, MasterIdle, nodeVars
<1>2. up \in [Server -> BOOLEAN]
  BY DEF Inv, TypeOK
<1>3. ASSUME NEW r \in Server
      PROVE  DownIsBlank(r)' /\ (Informed(r)' =>
                ChainOfPrimaries(r)' /\ FlagsOneHolder(r)')
  <2>1. ChainOfPrimaries(r) => ChainOfPrimaries(r)'
    BY <1>1, SilenceKeepsChain
  <2>2. QED
    BY <1>1, <1>2, <2>1
       DEF RolesInv, DownIsBlank, FlagsOneHolder, Informed, roleVars
<1>4. QED
  BY <1>3 DEF RolesInv

LEMMA CrashKeepsRoles ==
  ASSUME Inv, RolesInv, NEW s \in Server, Crash(s),
         uninformed' = uninformed \ {s}
  PROVE  RolesInv'
<1>1. /\ me' = [me EXCEPT ![s] = FALSE]
      /\ view' = [view EXCEPT ![s] = [r \in Server |-> Unknown]]
      /\ primaryInfo' = [primaryInfo EXCEPT ![s] = NoServer]
      /\ network' = [network EXCEPT ![s] = <<>>]
      /\ up' = [up EXCEPT ![s] = FALSE]
      /\ missed' = [missed EXCEPT ![s] = FALSE]
      /\ UNCHANGED primaryServers
  BY DEF Crash, MasterIdle
<1>2. /\ me \in [Server -> BOOLEAN] /\ up \in [Server -> BOOLEAN]
      /\ view \in [Server -> [Server -> [dead : BOOLEAN, prim : BOOLEAN]]]
      /\ primaryInfo \in [Server -> Server \union {NoServer}]
      /\ network \in [Server -> Seq(Mst!Status)]
      /\ missed \in [Server -> BOOLEAN]
  BY DEF Inv, TypeOK
<1>3. ASSUME NEW r \in Server
      PROVE  DownIsBlank(r)' /\ (Informed(r)' =>
                ChainOfPrimaries(r)' /\ FlagsOneHolder(r)')
  <2>1. CASE r = s
    <3>1. DownIsBlank(s)' /\ ~up'[s]
      BY <1>1, <1>2 DEF DownIsBlank, Unknown
    <3>2. QED
      BY <2>1, <3>1, BlankFits
  <2>2. CASE r # s
    <3>1. /\ me'[r] = me[r] /\ view'[r] = view[r] /\ up'[r] = up[r]
          /\ primaryInfo'[r] = primaryInfo[r] /\ network'[r] = network[r]
          /\ Informed(r)' => Informed(r)
      BY <1>1, <1>2, <2>2 DEF Informed
    <3>2. \A i : Holder(r, i)' = Holder(r, i)
      BY <3>1 DEF Holder
    <3>3. Holder(r, Len(network[r]))' = Holder(r, Len(network[r]))
      BY <3>1 DEF Holder
    <3>4. ChainOfPrimaries(r) => ChainOfPrimaries(r)'
      BY <1>1, <3>1, <3>2, <3>3 DEF ChainOfPrimaries
    <3>5. QED
      BY <3>1, <3>4 DEF RolesInv, DownIsBlank, FlagsOneHolder
  <2>3. QED
    BY <2>1, <2>2
<1>4. QED
  BY <1>3 DEF RolesInv

-----------------------------------------------------------------------------
(* Every step is a step of the group, or leaves the group alone.           *)

LEMMA StepOfGroup ==
  ASSUME [ReplicationNext]_allVars
  PROVE  [Next]_vars
<1>1. ASSUME NEW s \in Server, MembershipStep(s)
      PROVE  Next
  BY <1>1 DEF MembershipStep, Next
<1>2. ASSUME NEW s \in Server, ServerSuspect(s)
      PROVE  Next
  BY <1>2 DEF ServerSuspect, Next
<1>3. ASSUME NEW s \in Server,
             ServerCrash(s) \/ ServerStart(s) \/ ServerEnable(s)
      PROVE  Next
  BY <1>3 DEF ServerCrash, ServerStart, ServerEnable, Next
<1>4. ASSUME NEW c \in Client, RequestStep(c)
      PROVE  UNCHANGED vars
  BY <1>4 DEF RequestStep, LoopSkipPrimary, LoopLogForDead, LoopForward,
     LoopForwarded, LoopDone, ApplyForwarded, Relay, Relayed, Reply, groupVars
<1>5. ASSUME NEW c \in Client, NEW s \in Server, Request(c, s)
      PROVE  UNCHANGED vars
  BY <1>5 DEF Request, groupVars
<1>6. CASE UNCHANGED allVars
  BY <1>6 DEF allVars, groupVars
<1>7. QED
  BY <1>1, <1>2, <1>3, <1>4, <1>5, <1>6 DEF ReplicationNext

LEMMA GroupKeepsRoles ==
  ASSUME RolesInv, UNCHANGED groupVars
  PROVE  RolesInv'
<1>1. UNCHANGED <<vars, uninformed>>
  BY DEF groupVars
<1>2. UNCHANGED <<up, roleVars, network, missed, primaryServers>>
  BY <1>1 DEF vars, masterVars, nodeVars
<1>3. ASSUME NEW r \in Server
      PROVE  DownIsBlank(r)' /\ (Informed(r)' =>
                ChainOfPrimaries(r)' /\ FlagsOneHolder(r)')
  <2>1. ChainOfPrimaries(r) => ChainOfPrimaries(r)'
    BY <1>2, SilenceKeepsChain
  <2>2. QED
    BY <1>1, <1>2, <2>1
       DEF RolesInv, DownIsBlank, FlagsOneHolder, Informed, roleVars
<1>4. QED
  BY <1>3 DEF RolesInv

LEMMA NextKeepsRoles ==
  ASSUME Inv, Inv', RolesInv, [ReplicationNext]_allVars
  PROVE  RolesInv'
<1>1. ASSUME NEW s \in Server, MembershipStep(s)
      PROVE  RolesInv'
  BY <1>1, HeartbeatKeepsRoles, QuietKeepsRoles, ReceiveKeepsRoles
     DEF MembershipStep, requestVars
<1>2. ASSUME NEW s \in Server, ServerSuspect(s)
      PROVE  RolesInv'
  BY <1>2, SuspectKeepsRoles
<1>3. ASSUME NEW s \in Server, ServerCrash(s)
      PROVE  RolesInv'
  BY <1>3, CrashKeepsRoles DEF ServerCrash
<1>4. ASSUME NEW s \in Server, ServerStart(s) \/ ServerEnable(s)
      PROVE  RolesInv'
  BY <1>4, QuietKeepsRoles DEF ServerStart, ServerEnable, Recover
<1>5. ASSUME NEW c \in Client, RequestStep(c)
      PROVE  UNCHANGED groupVars
  BY <1>5 DEF RequestStep, LoopSkipPrimary, LoopLogForDead, LoopForward,
     LoopForwarded, LoopDone, ApplyForwarded, Relay, Relayed, Reply
<1>6. ASSUME NEW c \in Client, NEW s \in Server, Request(c, s)
      PROVE  UNCHANGED groupVars
  BY <1>6 DEF Request
<1>7. CASE UNCHANGED allVars
  BY <1>7, GroupKeepsRoles DEF allVars
<1>8. QED
  BY <1>1, <1>2, <1>3, <1>4, <1>5, <1>6, <1>7, GroupKeepsRoles
     DEF ReplicationNext

-----------------------------------------------------------------------------
(* What calls and returns do to the handlers of a client.                  *)

LEMMA HandlerFields ==
  \A h \in Handler : h.at \in Server /\ h.next \in 0 .. NumServers
BY DEF Handler

LEMMA Innermost ==
  ASSUME ReplicationTypeOK, NEW c \in Client, handlers[c] # <<>>
  PROVE  /\ Len(handlers[c]) \in Nat \ {0}
         /\ Last(handlers[c]) = handlers[c][Len(handlers[c])]
         /\ Last(handlers[c]) \in Handler
         /\ Here(c) = handlers[c][Len(handlers[c])].at /\ Here(c) \in Server
         /\ Visited(c) = handlers[c][Len(handlers[c])].next
         /\ Visited(c) \in 0 .. NumServers
         /\ Visited(c) < NumServers => Visited(c) \in Server
<1>1. handlers[c] \in Seq(Handler)
  BY DEF ReplicationTypeOK
<1>2. /\ Len(handlers[c]) \in Nat \ {0}
      /\ Last(handlers[c]) = handlers[c][Len(handlers[c])]
      /\ Last(handlers[c]) \in Handler
  BY <1>1, FrontProperties
<1>3. Last(handlers[c]).at \in Server /\ Last(handlers[c]).next \in 0 .. NumServers
  BY <1>2 DEF Handler
<1>4. NumServers \in Nat
  BY MembershipAssumption
<1>5. QED
  BY <1>2, <1>3, <1>4 DEF Here, Visited, Server

LEMMA AdvanceEffect ==
  ASSUME ReplicationTypeOK, NEW c \in Client, handlers[c] # <<>>,
         Visited(c) < NumServers, Advance(c)
  PROVE  /\ handlers' \in [Client -> Seq(Handler)]
         /\ response' \in [Client -> Response] /\ response'[c] = "none"
         /\ \A d \in Client : d # c =>
               handlers'[d] = handlers[d] /\ response'[d] = response[d]
         /\ Len(handlers'[c]) = Len(handlers[c])
         /\ \A i \in 1 .. Len(handlers[c]) :
               /\ handlers'[c][i].at = handlers[c][i].at
               /\ handlers'[c][i].does = handlers[c][i].does
               /\ handlers'[c][i].next = IF i = Len(handlers[c])
                                         THEN handlers[c][i].next + 1
                                         ELSE handlers[c][i].next
<1> PICK n \in Nat : n = Len(handlers[c])
  BY DEF ReplicationTypeOK
<1> DEFINE q == handlers[c]
           e == [q[n] EXCEPT !.next = @ + 1]
<1>1. handlers \in [Client -> Seq(Handler)] /\ response \in [Client -> Response]
  BY DEF ReplicationTypeOK
<1>2. /\ n > 0 /\ q[n] \in Handler /\ q[n].next < NumServers
      /\ q[n].next \in 0 .. NumServers
  BY Innermost
<1>3. /\ e \in Handler /\ e.at = q[n].at /\ e.does = q[n].does
      /\ e.next = q[n].next + 1
  BY <1>2, MembershipAssumption DEF Handler
<1>4. handlers' = [handlers EXCEPT ![c] = [q EXCEPT ![n] = e]]
  BY <1>1 DEF Advance
<1> HIDE DEF e
<1>5. /\ [q EXCEPT ![n] = e] \in Seq(Handler)
      /\ Len([q EXCEPT ![n] = e]) = n
      /\ \A i \in 1 .. n : [q EXCEPT ![n] = e][i] = IF i = n THEN e ELSE q[i]
  BY <1>1, <1>2, <1>3
<1>6. /\ handlers' \in [Client -> Seq(Handler)]
      /\ \A d \in Client : d # c => handlers'[d] = handlers[d]
      /\ handlers'[c] = [q EXCEPT ![n] = e]
  BY <1>1, <1>4, <1>5
<1>7. /\ response' \in [Client -> Response] /\ response'[c] = "none"
      /\ \A d \in Client : d # c => response'[d] = response[d]
  BY <1>1 DEF Advance, Response
<1>8. QED
  BY <1>3, <1>5, <1>6, <1>7

LEMMA ReturnEffect ==
  ASSUME ReplicationTypeOK, NEW c \in Client, handlers[c] # <<>>,
         NEW r \in Response, Return(c, r)
  PROVE  /\ handlers' \in [Client -> Seq(Handler)]
         /\ response' \in [Client -> Response] /\ response'[c] = r
         /\ \A d \in Client : d # c =>
               handlers'[d] = handlers[d] /\ response'[d] = response[d]
         /\ Len(handlers'[c]) = Len(handlers[c]) - 1
         /\ \A i \in 1 .. Len(handlers[c]) - 1 :
               handlers'[c][i] = handlers[c][i]
<1>1. handlers \in [Client -> Seq(Handler)] /\ response \in [Client -> Response]
  BY DEF ReplicationTypeOK
<1>2. /\ Front(handlers[c]) \in Seq(Handler)
      /\ Len(Front(handlers[c])) = Len(handlers[c]) - 1
      /\ \A i \in 1 .. Len(handlers[c]) - 1 :
            Front(handlers[c])[i] = handlers[c][i]
  BY <1>1, FrontProperties
<1>3. QED
  BY <1>1, <1>2 DEF Return

\* A disabled server is not entered.
LEMMA CallEffect ==
  ASSUME ReplicationTypeOK, NEW c \in Client, NEW s \in Server,
         NEW from, Call(c, s, from)
  PROVE  /\ handlers' \in [Client -> Seq(Handler)]
         /\ response' \in [Client -> Response]
         /\ \A d \in Client : d # c =>
               handlers'[d] = handlers[d] /\ response'[d] = response[d]
         /\ \/ handlers'[c] = handlers[c] /\ response'[c] = "err"
            \/ /\ response'[c] = "none"
               /\ Len(handlers'[c]) = Len(handlers[c]) + 1
               /\ \A i \in 1 .. Len(handlers[c]) :
                     handlers'[c][i] = handlers[c][i]
               /\ handlers'[c][Len(handlers[c]) + 1] = HandlerAt(s, from)
<1>1. handlers \in [Client -> Seq(Handler)] /\ response \in [Client -> Response]
  BY DEF ReplicationTypeOK
<1>2. HandlerAt(s, from) \in Handler
  BY MembershipAssumption DEF HandlerAt, Handler
<1>3. PICK h \in Handler : h = HandlerAt(s, from)
  BY <1>2
<1>4. PICK n \in Nat : n = Len(handlers[c])
  BY <1>1
<1>5. /\ Append(handlers[c], h) \in Seq(Handler)
      /\ Len(Append(handlers[c], h)) = n + 1
      /\ \A i \in 1 .. n : Append(handlers[c], h)[i] = handlers[c][i]
      /\ Append(handlers[c], h)[n + 1] = h
  BY <1>1, <1>4
<1>6. CASE enabled[s]
  BY <1>1, <1>3, <1>4, <1>5, <1>6 DEF Call, Response
<1>7. CASE ~enabled[s]
  BY <1>1, <1>7 DEF Call, Response
<1>8. QED
  BY <1>6, <1>7

-----------------------------------------------------------------------------
(* Types.                                                                  *)

LEMMA ApplyAtEffect ==
  ASSUME ReplicationTypeOK, NEW s \in Server, NEW c \in Client, ApplyAt(s, c)
  PROVE  /\ applied' \in [Server -> Seq(Client)]
         /\ ToSet(applied'[s]) = ToSet(applied[s]) \union {c}
         /\ \A r \in Server : r # s => applied'[r] = applied[r]
<1>1. applied \in [Server -> Seq(Client)]
  BY DEF ReplicationTypeOK
<1>2. /\ Append(applied[s], c) \in Seq(Client)
      /\ ToSet(Append(applied[s], c)) = ToSet(applied[s]) \union {c}
  BY <1>1, ToSetAppend
<1>3. QED
  BY <1>1, <1>2 DEF ApplyAt

LEMMA LogEffect ==
  ASSUME ReplicationTypeOK, NEW s \in Server, NEW c \in Client,
         deadLog' = [deadLog EXCEPT ![s] = Append(@, c)]
  PROVE  /\ deadLog' \in [Server -> Seq(Client)]
         /\ ToSet(deadLog'[s]) = ToSet(deadLog[s]) \union {c}
         /\ \A r \in Server : r # s => deadLog'[r] = deadLog[r]
<1>1. deadLog \in [Server -> Seq(Client)]
  BY DEF ReplicationTypeOK
<1>2. /\ Append(deadLog[s], c) \in Seq(Client)
      /\ ToSet(Append(deadLog[s], c)) = ToSet(deadLog[s]) \union {c}
  BY <1>1, ToSetAppend
<1>3. QED
  BY <1>1, <1>2

\* Recovery moves what was logged to the table.
LEMMA RecoverEffect ==
  ASSUME ReplicationTypeOK, NEW s \in Server, Recover(s)
  PROVE  /\ applied' \in [Server -> Seq(Client)]
         /\ deadLog' \in [Server -> Seq(Client)]
         /\ ToSet(applied'[s]) = ToSet(applied[s]) \union ToSet(deadLog[s])
         /\ ToSet(deadLog'[s]) = {}
         /\ \A r \in Server : r # s => /\ applied'[r] = applied[r]
                                       /\ deadLog'[r] = deadLog[r]
<1>1. applied \in [Server -> Seq(Client)] /\ deadLog \in [Server -> Seq(Client)]
  BY DEF ReplicationTypeOK
<1>2. /\ applied[s] \o deadLog[s] \in Seq(Client)
      /\ ToSet(applied[s] \o deadLog[s])
           = ToSet(applied[s]) \union ToSet(deadLog[s])
  BY <1>1, ToSetConcat
<1>3. applied' = [applied EXCEPT ![s] = applied[s] \o deadLog[s]]
  BY DEF Recover
<1>4. applied' \in [Server -> Seq(Client)] /\ applied'[s] = applied[s] \o deadLog[s]
  BY <1>1, <1>2, <1>3
<1>5. deadLog' \in [Server -> Seq(Client)] /\ deadLog'[s] = <<>>
  BY <1>1 DEF Recover
<1>6. QED
  BY <1>1, <1>2, <1>3, <1>4, <1>5, ToSetEmpty DEF Recover

\* The handlers of a process that has died are gone; the others are left.
LEMMA ServerCrashEffect ==
  ASSUME ReplicationTypeOK, NEW s \in Server, ServerCrash(s)
  PROVE  /\ handlers' \in [Client -> Seq(Handler)]
         /\ \A c \in Client :
               /\ Len(handlers'[c]) = Len(handlers[c])
               /\ \A i \in 1 .. Len(handlers[c]) :
                     /\ handlers'[c][i].at = handlers[c][i].at
                     /\ handlers'[c][i].next = handlers[c][i].next
                     /\ handlers'[c][i].does = IF handlers[c][i].at = s
                                               THEN "gone"
                                               ELSE handlers[c][i].does
<1> DEFINE new(h) == IF h.at = s THEN [h EXCEPT !.does = "gone"] ELSE h
<1>1. handlers \in [Client -> Seq(Handler)]
  BY DEF ReplicationTypeOK
<1>2. handlers' = [c \in Client |->
                     [i \in 1 .. Len(handlers[c]) |-> new(handlers[c][i])]]
  BY DEF ServerCrash
<1>3. \A h \in Handler :
         /\ new(h) \in Handler /\ new(h).at = h.at /\ new(h).next = h.next
         /\ new(h).does = IF h.at = s THEN "gone" ELSE h.does
  BY DEF Handler
<1> HIDE DEF new
<1>4. ASSUME NEW c \in Client
      PROVE  /\ handlers'[c] \in Seq(Handler)
             /\ Len(handlers'[c]) = Len(handlers[c])
             /\ \A i \in 1 .. Len(handlers[c]) :
                   /\ handlers[c][i] \in Handler
                   /\ handlers'[c][i] = new(handlers[c][i])
  <2> PICK n \in Nat : n = Len(handlers[c])
    BY <1>1
  <2>1. \A i \in 1 .. n : handlers[c][i] \in Handler
    BY <1>1
  <2>2. handlers'[c] = [i \in 1 .. n |-> new(handlers[c][i])]
    BY <1>2
  <2>3. handlers'[c] \in [1 .. n -> Handler]
    BY <1>3, <2>1, <2>2
  <2>4. handlers'[c] \in Seq(Handler) /\ Len(handlers'[c]) = n
    BY <2>3
  <2>5. QED
    BY <2>1, <2>2, <2>4
<1>5. handlers' \in [Client -> Seq(Handler)]
  BY <1>2, <1>4
<1>6. QED
  BY <1>3, <1>4, <1>5

\* A handler that has got +OK has called a server of the list.
LEMMA AnswerOfListed ==
  ASSUME RequestInv, NEW c \in Client, handlers[c] # <<>>, ReplicationTypeOK,
         Runs(c, "loop", "ok")
  PROVE  Visited(c) < NumServers
<1>1. /\ Len(handlers[c]) \in Nat \ {0} /\ response[c] = "ok"
      /\ handlers[c][Len(handlers[c])].does = "loop"
      /\ Visited(c) = handlers[c][Len(handlers[c])].next
  BY Innermost DEF Runs
<1>2. QED
  BY <1>1 DEF RequestInv, Nested

LEMMA RequestKeepsTypes ==
  ASSUME TypeOK', ReplicationTypeOK, RequestInv, NEW c \in Client,
         RequestStep(c) \/ \E s \in Server : Request(c, s)
  PROVE  ReplicationTypeOK'
<1>1. "ok" \in Response /\ "err" \in Response /\ "none" \in Response
  BY DEF Response
<1>2. ASSUME LoopSkipPrimary(c)
      PROVE  ReplicationTypeOK'
  <2>1. handlers[c] # <<>> /\ Visited(c) < NumServers /\ Advance(c)
    BY <1>2 DEF LoopSkipPrimary, Runs, AtServer
  <2>2. QED
    BY <1>2, <2>1, AdvanceEffect
       DEF LoopSkipPrimary, ReplicationTypeOK, groupVars
<1>3. ASSUME LoopLogForDead(c)
      PROVE  ReplicationTypeOK'
  <2>1. handlers[c] # <<>> /\ Visited(c) < NumServers /\ Advance(c)
    BY <1>3 DEF LoopLogForDead, Runs, AtServer
  <2>2. Visited(c) \in Server
    BY <2>1, Innermost
  <2>3. deadLog' \in [Server -> Seq(Client)]
    BY <1>3, <2>2, LogEffect DEF LoopLogForDead
  <2>4. QED
    BY <1>3, <2>1, <2>3, AdvanceEffect
       DEF LoopLogForDead, ReplicationTypeOK, groupVars
<1>4. ASSUME LoopForward(c)
      PROVE  ReplicationTypeOK'
  <2>1. handlers[c] # <<>> /\ Visited(c) \in Server
    BY <1>4, Innermost DEF LoopForward, Runs, AtServer
  <2>2. Call(c, Visited(c), "PRIMARY") \/ Return(c, "err")
    BY <1>4 DEF LoopForward
  <2>3. handlers' \in [Client -> Seq(Handler)] /\ response' \in [Client -> Response]
    BY <1>1, <2>1, <2>2, CallEffect, ReturnEffect
  <2>4. QED
    BY <1>4, <2>3 DEF LoopForward, ReplicationTypeOK, groupVars
<1>5. ASSUME LoopForwarded(c)
      PROVE  ReplicationTypeOK'
  <2>1. handlers[c] # <<>>
    BY <1>5 DEF LoopForwarded, Runs
  <2>2. handlers' \in [Client -> Seq(Handler)] /\ response' \in [Client -> Response]
    <3>1. CASE response[c] = "ok"
      <4>1. Runs(c, "loop", "ok") /\ Advance(c)
        BY <1>5, <3>1 DEF LoopForwarded, Runs
      <4>2. QED
        BY <2>1, <4>1, AnswerOfListed, AdvanceEffect
    <3>2. CASE response[c] # "ok"
      BY <1>1, <1>5, <2>1, <3>2, ReturnEffect DEF LoopForwarded
    <3>3. QED
      BY <3>1, <3>2
  <2>3. QED
    BY <1>5, <2>2 DEF LoopForwarded, ReplicationTypeOK, groupVars
<1>6. ASSUME LoopDone(c) \/ ApplyForwarded(c)
      PROVE  ReplicationTypeOK'
  <2>1. handlers[c] # <<>> /\ ApplyAt(Here(c), c) /\ Return(c, "ok")
    BY <1>6 DEF LoopDone, ApplyForwarded, Runs
  <2>2. Here(c) \in Server
    BY <2>1, Innermost
  <2>3. /\ handlers' \in [Client -> Seq(Handler)]
        /\ response' \in [Client -> Response]
        /\ applied' \in [Server -> Seq(Client)]
    BY <1>1, <2>1, <2>2, ReturnEffect, ApplyAtEffect
  <2>4. committed' \subseteq Client
    BY <1>6 DEF LoopDone, ApplyForwarded, ReplicationTypeOK
  <2>5. QED
    BY <1>6, <2>3, <2>4
       DEF LoopDone, ApplyForwarded, ReplicationTypeOK, groupVars
<1>7. ASSUME Relay(c)
      PROVE  ReplicationTypeOK'
  <2>1. handlers[c] # <<>>
    BY <1>7 DEF Relay, Runs
  <2>2. \/ \E p \in Server : Call(c, p, "SECONDARY") /\ UNCHANGED unrelayed
        \/ Return(c, "ok") /\ unrelayed' = unrelayed \union {c}
    BY <1>7 DEF Relay
  <2>3. /\ handlers' \in [Client -> Seq(Handler)]
        /\ response' \in [Client -> Response]
        /\ unrelayed' \subseteq Client
    BY <1>1, <2>1, <2>2, CallEffect, ReturnEffect DEF ReplicationTypeOK
  <2>4. QED
    BY <1>7, <2>3 DEF Relay, ReplicationTypeOK, groupVars
<1>8. ASSUME Relayed(c)
      PROVE  ReplicationTypeOK'
  <2>1. handlers[c] # <<>> /\ response[c] \in Response /\ Return(c, response[c])
    BY <1>8 DEF Relayed, Runs, ReplicationTypeOK
  <2>2. QED
    BY <1>8, <2>1, ReturnEffect DEF Relayed, ReplicationTypeOK, groupVars
<1>9. ASSUME Reply(c)
      PROVE  ReplicationTypeOK'
  BY <1>9 DEF Reply, ReplicationTypeOK, groupVars
<1>10. ASSUME NEW s \in Server, Request(c, s)
       PROVE  ReplicationTypeOK'
  <2>1. handlers' \in [Client -> Seq(Handler)] /\ response' \in [Client -> Response]
    BY <1>10, CallEffect DEF Request
  <2>2. /\ outcome' \in [Client -> Response \union {"unsent"}]
        /\ before' \in [Client -> SUBSET Client]
    BY <1>1, <1>10 DEF Request, Answered, ReplicationTypeOK
  <2>3. QED
    BY <1>10, <2>1, <2>2 DEF Request, ReplicationTypeOK, groupVars
<1>11. QED
  BY <1>2, <1>3, <1>4, <1>5, <1>6, <1>7, <1>8, <1>9, <1>10 DEF RequestStep

LEMMA NextKeepsTypes ==
  ASSUME TypeOK', ReplicationTypeOK, RequestInv, [ReplicationNext]_allVars
  PROVE  ReplicationTypeOK'
<1>1. ASSUME NEW s \in Server, MembershipStep(s) \/ ServerSuspect(s)
      PROVE  ReplicationTypeOK'
  BY <1>1 DEF MembershipStep, ServerSuspect, ReplicationTypeOK, requestVars
<1>2. ASSUME NEW s \in Server, ServerCrash(s)
      PROVE  ReplicationTypeOK'
  BY <1>2, ServerCrashEffect DEF ServerCrash, ReplicationTypeOK
<1>3. ASSUME NEW s \in Server, ServerStart(s) \/ ServerEnable(s)
      PROVE  ReplicationTypeOK'
  <2>1. Recover(s)
    BY <1>3 DEF ServerStart, ServerEnable
  <2>2. QED
    BY <2>1, RecoverEffect DEF Recover, ReplicationTypeOK, requestVars
<1>4. CASE UNCHANGED allVars
  BY <1>4 DEF allVars, groupVars, requestVars, ReplicationTypeOK
<1>5. QED
  BY <1>1, <1>2, <1>3, <1>4, RequestKeepsTypes DEF ReplicationNext

-----------------------------------------------------------------------------
(* A write that a server holds stays there.                                *)

LEMMA HeldWhere ==
  ASSUME NEW s \in Server, NEW c
  PROVE  /\ ReplicationTypeOK =>
              (Holds(s, c) <=> c \in ToSet(applied[s]) \union ToSet(deadLog[s]))
         /\ ReplicationTypeOK' =>
              (Holds(s, c)' <=> c \in ToSet(applied'[s]) \union ToSet(deadLog'[s]))
<1>1. ASSUME ReplicationTypeOK
      PROVE  ToSet(applied[s] \o deadLog[s])
               = ToSet(applied[s]) \union ToSet(deadLog[s])
  BY <1>1, ToSetConcat DEF ReplicationTypeOK
<1>2. ASSUME ReplicationTypeOK'
      PROVE  ToSet(applied'[s] \o deadLog'[s])
               = ToSet(applied'[s]) \union ToSet(deadLog'[s])
  BY <1>2, ToSetConcat DEF ReplicationTypeOK
<1>3. QED
  BY <1>1, <1>2 DEF Holds, History

\* Nothing a server holds or has applied is lost by a step.
Kept == \A s \in Server, c \in Client :
           /\ Holds(s, c) => Holds(s, c)'
           /\ c \in ToSet(applied[s]) => c \in ToSet(applied'[s])

LEMMA NextKeepsWrites ==
  ASSUME ReplicationTypeOK, ReplicationTypeOK', [ReplicationNext]_allVars
  PROVE  Kept
<1>1. ASSUME \A s \in Server :
                /\ ToSet(applied[s]) \subseteq ToSet(applied'[s])
                /\ ToSet(deadLog[s])
                     \subseteq ToSet(applied'[s]) \union ToSet(deadLog'[s])
      PROVE  Kept
  BY <1>1, HeldWhere DEF Kept
<1>2. ASSUME UNCHANGED <<applied, deadLog>>
      PROVE  Kept
  BY <1>1, <1>2
<1>3. ASSUME NEW s \in Server, NEW c \in Client, ApplyAt(s, c), UNCHANGED deadLog
      PROVE  Kept
  BY <1>1, <1>3, ApplyAtEffect
<1>4. ASSUME NEW s \in Server, Recover(s)
      PROVE  Kept
  <2>1. ASSUME NEW r \in Server
        PROVE  /\ ToSet(applied[r]) \subseteq ToSet(applied'[r])
               /\ ToSet(deadLog[r])
                    \subseteq ToSet(applied'[r]) \union ToSet(deadLog'[r])
    BY <1>4, RecoverEffect
  <2>2. QED
    BY <1>1, <2>1
<1>5. ASSUME NEW s \in Server, NEW c \in Client, UNCHANGED applied,
             deadLog' = [deadLog EXCEPT ![s] = Append(@, c)]
      PROVE  Kept
  BY <1>1, <1>5, LogEffect
<1>6. ASSUME NEW c \in Client, RequestStep(c)
      PROVE  Kept
  <2>1. CASE LoopDone(c) \/ ApplyForwarded(c)
    <3>1. handlers[c] # <<>> /\ ApplyAt(Here(c), c) /\ UNCHANGED deadLog
      BY <2>1 DEF LoopDone, ApplyForwarded, Runs
    <3>2. Here(c) \in Server
      BY <3>1, Innermost
    <3>3. QED
      BY <1>3, <3>1, <3>2
  <2>2. CASE LoopLogForDead(c)
    <3>1. handlers[c] # <<>> /\ Visited(c) < NumServers
      BY <2>2 DEF LoopLogForDead, Runs, AtServer
    <3>2. Visited(c) \in Server
      BY <3>1, Innermost
    <3>3. QED
      BY <1>5, <2>2, <3>2 DEF LoopLogForDead
  <2>3. CASE \/ LoopSkipPrimary(c) \/ LoopForward(c) \/ LoopForwarded(c)
             \/ Relay(c) \/ Relayed(c) \/ Reply(c)
    BY <1>2, <2>3 DEF LoopSkipPrimary, LoopForward, LoopForwarded, Relay,
       Relayed, Reply
  <2>4. QED
    BY <1>6, <2>1, <2>2, <2>3 DEF RequestStep
<1>7. ASSUME NEW c \in Client, NEW s \in Server, Request(c, s)
      PROVE  Kept
  BY <1>2, <1>7 DEF Request
<1>8. ASSUME NEW s \in Server, ServerStart(s) \/ ServerEnable(s)
      PROVE  Kept
  BY <1>4, <1>8 DEF ServerStart, ServerEnable
<1>9. ASSUME NEW s \in Server, MembershipStep(s) \/ ServerSuspect(s)
      PROVE  Kept
  BY <1>2, <1>9 DEF MembershipStep, ServerSuspect
<1>10. ASSUME NEW s \in Server, ServerCrash(s)
       PROVE  Kept
  BY <1>2, <1>10 DEF ServerCrash
<1>11. CASE UNCHANGED allVars
  BY <1>2, <1>11 DEF allVars
<1>12. QED
  BY <1>6, <1>7, <1>8, <1>9, <1>10, <1>11 DEF ReplicationNext

-----------------------------------------------------------------------------
(* +OK is sent for a write that has been applied.                          *)

LEMMA NextKeepsOkIsApplied ==
  ASSUME ReplicationTypeOK, ReplicationTypeOK', RequestInv, Kept,
         [ReplicationNext]_allVars, NEW c \in Client
  PROVE  OkIsApplied(c)'
<1>1. OkIsApplied(c)
  BY DEF RequestInv
<1>2. \A s \in Server : c \in ToSet(applied[s]) => c \in ToSet(applied'[s])
  BY DEF Kept
<1>3. ASSUME unrelayed \subseteq unrelayed',
             response'[c] = "ok" => response[c] = "ok" \/ c \in unrelayed',
             outcome'[c] = "ok" => outcome[c] = "ok" \/ response[c] = "ok"
      PROVE  OkIsApplied(c)'
  BY <1>1, <1>2, <1>3 DEF OkIsApplied
<1>4. ASSUME NEW d \in Client, NEW r \in Response, handlers[d] # <<>>,
             Return(d, r), UNCHANGED outcome, unrelayed \subseteq unrelayed',
             r = "ok" => response[d] = "ok" \/ d \in unrelayed'
      PROVE  OkIsApplied(c)'
  BY <1>3, <1>4, ReturnEffect
<1>5. ASSUME NEW d \in Client, NEW s \in Server, NEW from, Call(d, s, from),
             UNCHANGED unrelayed, outcome'[c] \in {outcome[c], "none"}
      PROVE  OkIsApplied(c)'
  BY <1>3, <1>5, CallEffect
<1>6. ASSUME NEW d \in Client, handlers[d] # <<>>, Visited(d) < NumServers,
             Advance(d), UNCHANGED <<outcome, unrelayed>>
      PROVE  OkIsApplied(c)'
  BY <1>3, <1>6, AdvanceEffect
<1>7. "ok" \in Response /\ "err" \in Response
  BY DEF Response
<1>8. ASSUME NEW d \in Client, RequestStep(d)
      PROVE  OkIsApplied(c)'
  <2>1. CASE LoopSkipPrimary(d) \/ LoopLogForDead(d)
    BY <1>6, <2>1 DEF LoopSkipPrimary, LoopLogForDead, Runs, AtServer
  <2>2. CASE LoopForward(d)
    <3>1. handlers[d] # <<>> /\ Visited(d) < NumServers
      BY <2>2 DEF LoopForward, Runs, AtServer
    <3>2. Visited(d) \in Server
      BY <3>1, Innermost
    <3>3. QED
      BY <1>4, <1>5, <1>7, <2>2, <3>1, <3>2 DEF LoopForward
  <2>3. CASE LoopForwarded(d)
    <3>1. handlers[d] # <<>>
      BY <2>3 DEF LoopForwarded, Runs
    <3>2. CASE response[d] = "ok"
      <4>1. Runs(d, "loop", "ok") /\ Advance(d)
        BY <2>3, <3>2 DEF LoopForwarded, Runs
      <4>2. QED
        BY <1>6, <2>3, <3>1, <4>1, AnswerOfListed DEF LoopForwarded
    <3>3. CASE response[d] # "ok"
      BY <1>4, <1>7, <2>3, <3>1, <3>3 DEF LoopForwarded
    <3>4. QED
      BY <3>2, <3>3
  <2>4. CASE LoopDone(d) \/ ApplyForwarded(d)
    <3>1. /\ handlers[d] # <<>> /\ ApplyAt(Here(d), d) /\ Return(d, "ok")
          /\ UNCHANGED <<outcome, unrelayed>>
      BY <2>4 DEF LoopDone, ApplyForwarded, Runs
    <3>2. PICK s \in Server : s = Here(d)
      BY <3>1, Innermost
    <3>3. CASE d = c
      <4>1. c \in ToSet(applied'[s])
        BY <3>1, <3>2, <3>3, ApplyAtEffect
      <4>2. QED
        BY <4>1 DEF OkIsApplied
    <3>4. CASE d # c
      BY <1>3, <1>7, <3>1, <3>4, ReturnEffect
    <3>5. QED
      BY <3>3, <3>4
  <2>5. CASE Relay(d)
    <3>1. handlers[d] # <<>> /\ UNCHANGED outcome
      BY <2>5 DEF Relay, Runs
    <3>2. \/ \E p \in Server : Call(d, p, "SECONDARY") /\ UNCHANGED unrelayed
          \/ Return(d, "ok") /\ unrelayed' = unrelayed \union {d}
      BY <2>5 DEF Relay
    <3>3. QED
      BY <1>4, <1>5, <1>7, <3>1, <3>2
  <2>6. CASE Relayed(d)
    <3>1. handlers[d] # <<>> /\ response[d] \in Response
      BY <2>6 DEF Relayed, Runs, ReplicationTypeOK
    <3>2. QED
      BY <1>4, <2>6, <3>1 DEF Relayed
  <2>7. CASE Reply(d)
    BY <1>3, <2>7 DEF Reply, ReplicationTypeOK
  <2>8. QED
    BY <1>8, <2>1, <2>2, <2>3, <2>4, <2>5, <2>6, <2>7 DEF RequestStep
<1>9. ASSUME NEW d \in Client, NEW s \in Server, Request(d, s)
      PROVE  OkIsApplied(c)'
  BY <1>5, <1>9 DEF Request, ReplicationTypeOK
<1>10. ASSUME UNCHANGED <<response, outcome, unrelayed>>
       PROVE  OkIsApplied(c)'
  BY <1>3, <1>10
<1>11. ASSUME NEW s \in Server, MembershipStep(s) \/ ServerSuspect(s)
       PROVE  OkIsApplied(c)'
  BY <1>10, <1>11 DEF MembershipStep, ServerSuspect, requestVars
<1>12. ASSUME NEW s \in Server,
              ServerCrash(s) \/ ServerStart(s) \/ ServerEnable(s)
       PROVE  OkIsApplied(c)'
  BY <1>10, <1>12
     DEF ServerCrash, ServerStart, ServerEnable, Recover, requestVars
<1>13. CASE UNCHANGED allVars
  BY <1>10, <1>13 DEF allVars, requestVars
<1>14. QED
  BY <1>8, <1>9, <1>11, <1>12, <1>13 DEF ReplicationNext

-----------------------------------------------------------------------------
(* An informed primary stays the primary for as long as it runs.           *)

StillPrimary(s) ==
    up[s] => up'[s] /\ (Informed(s)' => Informed(s) /\ (me[s] => me'[s]))

LEMMA ReceiveKeepsPrimary ==
  ASSUME Inv, RolesInv, NEW r \in Server, ReceiveStatus(r),
         UNCHANGED uninformed, NEW s \in Server
  PROVE  StillPrimary(s)
<1> DEFINE m == Head(network[r])
<1>1. /\ me' = [me EXCEPT ![r] = (m.role = "PRIMARY")] /\ network[r] # <<>>
      /\ UNCHANGED <<up, missed>>
  BY DEF ReceiveStatus, Role
<1>2. me \in [Server -> BOOLEAN] /\ network[r] \in Seq(Mst!Status)
  BY DEF Inv, TypeOK
<1>3. m = network[r][1] /\ 1 \in 1 .. Len(network[r]) /\ 1 - 1 = 0
  BY <1>1, <1>2
<1>4. Informed(s)' <=> Informed(s)
  BY <1>1 DEF Informed
<1>5. CASE s # r
  BY <1>1, <1>2, <1>4, <1>5 DEF StillPrimary
<1>6. CASE s = r
  <2>1. SUFFICES ASSUME Informed(s), me[s]
                 PROVE  m.role = "PRIMARY"
    BY <1>1, <1>2, <1>4, <1>6 DEF StillPrimary
  <2>2. ChainOfPrimaries(s)
    BY <2>1 DEF RolesInv
  <2>3. Holder(s, 0) = s /\ Holder(s, 0) \in {NoServer, Holder(s, 1), m.dead}
    BY <1>3, <1>6, <2>1, <2>2 DEF ChainOfPrimaries, Holder
  <2>4. s # NoServer /\ m.dead # s
    BY <1>3, <1>6, <2>2 DEF ChainOfPrimaries, NoServer, Server
  <2>5. Holder(s, 1) = s
    BY <2>3, <2>4
  <2>6. QED
    BY <1>3, <1>6, <2>2, <2>5 DEF ChainOfPrimaries, Holder
<1>7. QED
  BY <1>5, <1>6

LEMMA GroupKeepsPrimary ==
  ASSUME Inv, RolesInv, NEW r \in Server, NEW s \in Server,
         \/ MembershipStep(r) \/ ServerSuspect(r)
         \/ ServerStart(r) \/ ServerEnable(r)
         \/ ServerCrash(r) /\ r # s
  PROVE  StillPrimary(s)
<1>1. /\ me \in [Server -> BOOLEAN] /\ up \in [Server -> BOOLEAN]
      /\ missed \in [Server -> BOOLEAN]
  BY DEF Inv, TypeOK
<1>2. CASE ReceiveStatus(r) /\ UNCHANGED uninformed
  BY <1>2, ReceiveKeepsPrimary
<1>3. CASE /\ Heartbeat(r) \/ Silence(r) \/ Disable(r) \/ Enable(r) \/ Start(r)
           /\ UNCHANGED uninformed
  <2>1. /\ UNCHANGED <<me, missed>> /\ (up' = up \/ up' = [up EXCEPT ![r] = TRUE])
    BY <1>3 DEF Heartbeat, Silence, Disable, Enable, Start, nodeVars, roleVars
  <2>2. QED
    BY <1>1, <1>3, <2>1 DEF StillPrimary, Informed
<1>4. CASE ServerSuspect(r)
  <2>1. /\ UNCHANGED <<me, up>> /\ missed' = [missed EXCEPT ![r] = up[r]]
        /\ uninformed \subseteq uninformed'
    BY <1>4 DEF ServerSuspect, Suspect, roleVars
  <2>2. QED
    BY <1>1, <2>1 DEF StillPrimary, Informed
<1>5. CASE ServerCrash(r) /\ r # s
  <2>1. /\ me' = [me EXCEPT ![r] = FALSE] /\ up' = [up EXCEPT ![r] = FALSE]
        /\ missed' = [missed EXCEPT ![r] = FALSE]
        /\ uninformed' = uninformed \ {r}
    BY <1>5 DEF ServerCrash, Crash
  <2>2. QED
    BY <1>1, <1>5, <2>1 DEF StillPrimary, Informed
<1>6. QED
  BY <1>2, <1>3, <1>4, <1>5
     DEF MembershipStep, ServerStart, ServerEnable, Recover, requestVars

-----------------------------------------------------------------------------
(* The handlers of a request, one step after the other.                    *)

Fit(c) == Nested(c) /\ PassedHold(c) /\ AnsweredHolds(c)

\* The handlers of c do not move.
LEMMA RestKeepsFit ==
  ASSUME ReplicationTypeOK, Kept, NEW c \in Client, Fit(c),
         handlers'[c] = handlers[c], response'[c] \in {response[c], "err"},
         \A s \in Server : StillPrimary(s)
  PROVE  Fit(c)'
<1> PICK n \in Nat : n = Len(handlers[c])
  BY DEF ReplicationTypeOK
<1> PICK q \in Seq(Handler) : q = handlers[c]
  BY DEF ReplicationTypeOK
<1>1. \A i \in 1 .. n : q[i] \in Handler /\ q[i].at \in Server
  BY HandlerFields
<1>2. Nested(c)'
  BY DEF Fit, Nested
<1>3. PassedHold(c)'
  <2>1. SUFFICES ASSUME NEW i \in 1 .. n, q[i].does = "loop",
                        NEW s \in Server, s = q[i].at
                 PROVE  /\ up'[s]
                        /\ Informed(s)' =>
                              /\ me'[s]
                              /\ \A v \in Server : v < q[i].next /\ v # s =>
                                    Holds(v, c)'
    BY <1>1 DEF PassedHold
  <2>2. /\ up[s]
        /\ Informed(s) => /\ me[s]
                          /\ \A v \in Server : v < q[i].next /\ v # s => Holds(v, c)
    BY <2>1 DEF Fit, PassedHold
  <2>3. QED
    BY <2>2 DEF StillPrimary, Kept
<1>4. AnsweredHolds(c)'
  BY DEF Fit, AnsweredHolds, Kept
<1>5. QED
  BY <1>2, <1>3, <1>4 DEF Fit

\* A server has been passed: it has the write, or the primary will have it.
LEMMA AdvanceKeepsFit ==
  ASSUME ReplicationTypeOK, Kept, UNCHANGED groupVars, NEW c \in Client, Fit(c),
         handlers[c] # <<>>, Visited(c) < NumServers, Advance(c),
         Informed(Here(c)) /\ Visited(c) # Here(c) =>
            \A v \in Server : v = Visited(c) => Holds(v, c)'
  PROVE  Fit(c)'
<1> PICK n \in Nat : n = Len(handlers[c])
  BY DEF ReplicationTypeOK
<1> PICK q \in Seq(Handler) : q = handlers[c]
  BY DEF ReplicationTypeOK
<1>1. /\ Len(handlers'[c]) = n /\ response'[c] = "none"
      /\ \A i \in 1 .. n :
               /\ handlers'[c][i].at = q[i].at
               /\ handlers'[c][i].does = q[i].does
               /\ handlers'[c][i].next = IF i = n THEN q[i].next + 1 ELSE q[i].next
  BY AdvanceEffect
<1>2. /\ n > 0 /\ Here(c) = q[n].at /\ Visited(c) = q[n].next
      /\ \A i \in 1 .. n : q[i] \in Handler /\ q[i].at \in Server
                           /\ q[i].next \in 0 .. NumServers
  BY Innermost, HandlerFields
<1>3. Nested(c)'
  <2>1. ASSUME NEW i \in 1 .. n, q[i].does = "loop", i < n
        PROVE  /\ handlers'[c][i].next = handlers'[c][i + 1].at
               /\ handlers'[c][i + 1].does \in {"loop", "apply", "gone"}
    <3>1. i + 1 \in 1 .. n /\ i # n
      BY <2>1
    <3>2. q[i].next = q[i + 1].at /\ q[i + 1].does \in {"loop", "apply", "gone"}
      BY <2>1 DEF Fit, Nested
    <3>3. QED
      BY <1>1, <3>1, <3>2
  <2>2. QED
    BY <1>1, <2>1 DEF Nested
<1>4. PassedHold(c)'
  <2>1. SUFFICES ASSUME NEW i \in 1 .. n, q[i].does = "loop",
                        NEW s \in Server, s = q[i].at
                 PROVE  /\ up'[s]
                        /\ Informed(s)' =>
                              /\ me'[s]
                              /\ \A v \in Server :
                                    v < handlers'[c][i].next /\ v # s =>
                                    Holds(v, c)'
    BY <1>1, <1>2 DEF PassedHold
  <2>2. /\ up[s]
        /\ Informed(s) => /\ me[s]
                          /\ \A v \in Server : v < q[i].next /\ v # s => Holds(v, c)
    BY <2>1 DEF Fit, PassedHold
  <2>3. UNCHANGED <<up, me, missed, uninformed>>
    BY DEF groupVars, vars, nodeVars, roleVars
  <2>4. ASSUME Informed(s), NEW v \in Server, v < handlers'[c][i].next, v # s
        PROVE  Holds(v, c)'
    <3>1. CASE v < q[i].next
      BY <2>2, <2>4, <3>1 DEF Kept
    <3>2. CASE ~(v < q[i].next)
      <4>1. v \in Nat /\ q[i].next \in Nat
        BY <1>2, MembershipAssumption DEF Server
      <4>2. i = n /\ handlers'[c][i].next = q[n].next + 1
        BY <1>1, <2>4, <3>2
      <4>3. v = q[n].next
        BY <2>4, <3>2, <4>1, <4>2
      <4>4. QED
        BY <1>2, <2>1, <2>4, <4>2, <4>3
    <3>3. QED
      BY <3>1, <3>2
  <2>5. QED
    BY <2>2, <2>3, <2>4 DEF Informed
<1>5. AnsweredHolds(c)'
  BY <1>1 DEF AnsweredHolds
<1>6. QED
  BY <1>3, <1>4, <1>5 DEF Fit

\* A handler has been left: if it says that the write is applied, it is.
LEMMA ReturnKeepsFit ==
  ASSUME ReplicationTypeOK, Kept, UNCHANGED groupVars, NEW c \in Client, Fit(c),
         handlers[c] # <<>>, NEW r \in Response, Return(c, r),
         r = "ok" => \/ Last(handlers[c]).does = "relay"
                     \/ \A v \in Server : v = Here(c) => Holds(v, c)'
  PROVE  Fit(c)'
<1> PICK n \in Nat : n + 1 = Len(handlers[c])
  <2>1. Len(handlers[c]) \in Nat \ {0}
    BY Innermost
  <2>2. Len(handlers[c]) - 1 \in Nat /\ Len(handlers[c]) = (Len(handlers[c]) - 1) + 1
    BY <2>1
  <2>3. QED
    BY <2>2
<1> PICK q \in Seq(Handler) : q = handlers[c]
  BY DEF ReplicationTypeOK
<1>1. /\ Len(handlers'[c]) = n /\ response'[c] = r
      /\ \A i \in 1 .. n : handlers'[c][i] = q[i]
  BY ReturnEffect
<1>2. /\ Here(c) = q[n + 1].at /\ Last(handlers[c]) = q[n + 1]
      /\ \A i \in 1 .. n + 1 : q[i] \in Handler /\ q[i].at \in Server
                               /\ q[i].next \in 0 .. NumServers
  BY Innermost, HandlerFields
<1>3. \A i \in 1 .. n : q[i].does = "loop" =>
         q[i].next = q[i + 1].at /\ q[i + 1].does \in {"loop", "apply", "gone"}
  BY DEF Fit, Nested
<1>4. Nested(c)'
  <2>1. ASSUME n > 0, q[n].does = "loop"
        PROVE  q[n].next < NumServers
    <3>1. n \in 1 .. n /\ n + 1 \in 1 .. n + 1
      BY <2>1
    <3>2. q[n].next = q[n + 1].at
      BY <1>3, <2>1, <3>1
    <3>3. q[n + 1].at \in Server
      BY <1>2, <3>1
    <3>4. QED
      BY <3>2, <3>3, MembershipAssumption DEF Server
  <2>2. ASSUME NEW i \in 1 .. n, q[i].does = "loop", i < n
        PROVE  /\ handlers'[c][i].next = handlers'[c][i + 1].at
               /\ handlers'[c][i + 1].does \in {"loop", "apply", "gone"}
    <3>1. i + 1 \in 1 .. n
      BY <2>2
    <3>2. QED
      BY <1>1, <1>3, <2>2, <3>1
  <2>3. ASSUME NEW i \in 1 .. n, q[i].does = "loop", ~(i < n)
        PROVE  handlers'[c][i].next < NumServers
    <3>1. i = n /\ n > 0 /\ handlers'[c][n] = q[n]
      BY <1>1, <2>3
    <3>2. QED
      BY <2>1, <2>3, <3>1
  <2>4. QED
    BY <1>1, <2>2, <2>3 DEF Nested
<1>5. PassedHold(c)'
  <2>0. \A i \in 1 .. n : q[i].at \in Server
    <3>1. \A i \in 1 .. n : i \in 1 .. n + 1
      OBVIOUS
    <3>2. QED
      BY <1>2, <3>1
  <2>1. SUFFICES ASSUME NEW i \in 1 .. n, q[i].does = "loop",
                        NEW s \in Server, s = q[i].at
                 PROVE  /\ up'[s]
                        /\ Informed(s)' =>
                              /\ me'[s]
                              /\ \A v \in Server : v < q[i].next /\ v # s =>
                                    Holds(v, c)'
    BY <1>1, <2>0 DEF PassedHold
  <2>2. /\ up[s]
        /\ Informed(s) => /\ me[s]
                          /\ \A v \in Server : v < q[i].next /\ v # s => Holds(v, c)
    BY <2>1 DEF Fit, PassedHold
  <2>3. UNCHANGED <<up, me, missed, uninformed>>
    BY DEF groupVars, vars, nodeVars, roleVars
  <2>4. QED
    BY <2>2, <2>3 DEF Informed, Kept
<1>6. AnsweredHolds(c)'
  <2>1. SUFFICES ASSUME n > 0, q[n].does = "loop", r = "ok",
                        NEW v \in Server, v = q[n].next
                 PROVE  Holds(v, c)'
    BY <1>1 DEF AnsweredHolds
  <2>2. v = q[n + 1].at /\ q[n + 1].does # "relay"
    BY <1>3, <2>1
  <2>3. QED
    BY <1>2, <2>1, <2>2
<1>7. QED
  BY <1>4, <1>5, <1>6 DEF Fit

\* A handler has been entered at s, by a loop that has come to s.
LEMMA CallKeepsFit ==
  ASSUME ReplicationTypeOK, Kept, UNCHANGED groupVars, NEW c \in Client, Fit(c),
         NEW s \in Server, up[s], NEW from, Call(c, s, from),
         handlers[c] # <<>> /\ Last(handlers[c]).does = "loop" =>
            Visited(c) = s /\ from = "PRIMARY"
  PROVE  Fit(c)'
<1>1. UNCHANGED <<up, me, missed, uninformed>>
  BY DEF groupVars, vars, nodeVars, roleVars
<1>2. CASE handlers'[c] = handlers[c] /\ response'[c] = "err"
  BY <1>1, <1>2, RestKeepsFit DEF StillPrimary, Informed
<1>3. CASE ~(handlers'[c] = handlers[c] /\ response'[c] = "err")
  <2> PICK n \in Nat : n = Len(handlers[c])
    BY DEF ReplicationTypeOK
  <2> PICK q \in Seq(Handler) : q = handlers[c]
    BY DEF ReplicationTypeOK
  <2> DEFINE h == HandlerAt(s, from)
  <2>1. /\ Len(handlers'[c]) = n + 1 /\ response'[c] = "none"
        /\ \A i \in 1 .. n : handlers'[c][i] = q[i]
        /\ handlers'[c][n + 1] = h
    BY <1>3, CallEffect
  <2>2. /\ h.at = s /\ h.next = 0 /\ (h.does = "loop" => me[s])
        /\ from = "PRIMARY" => h.does \in {"loop", "apply", "gone"}
    BY DEF HandlerAt
  <2> HIDE DEF h
  <2>3. \A i \in 1 .. n : q[i] \in Handler /\ q[i].at \in Server
    BY HandlerFields
  <2>4. Nested(c)'
    <3>1. ASSUME NEW i \in 1 .. n, q[i].does = "loop"
          PROVE  /\ handlers'[c][i].next = handlers'[c][i + 1].at
                 /\ handlers'[c][i + 1].does \in {"loop", "apply", "gone"}
      <4>1. CASE i < n
        <5>1. i + 1 \in 1 .. n
          BY <4>1
        <5>2. q[i].next = q[i + 1].at /\ q[i + 1].does \in {"loop", "apply", "gone"}
          BY <3>1, <4>1 DEF Fit, Nested
        <5>3. QED
          BY <2>1, <5>1, <5>2
      <4>2. CASE i = n
        <5>1. handlers[c] # <<>>
          BY <4>2
        <5>2. Last(handlers[c]) = q[n] /\ Visited(c) = q[n].next
          BY <5>1, Innermost
        <5>3. QED
          BY <2>1, <2>2, <3>1, <4>2, <5>1, <5>2
      <4>3. QED
        BY <4>1, <4>2
    <3>2. ASSUME NEW i \in 1 .. n + 1, i < n + 1
          PROVE  i \in 1 .. n /\ handlers'[c][i] = q[i]
      BY <2>1, <3>2
    <3>3. QED
      BY <2>1, <3>1, <3>2 DEF Nested
  <2>5. PassedHold(c)'
    <3>0. \A i \in 1 .. n + 1 : handlers'[c][i].at \in Server
      <4>1. \A i \in 1 .. n + 1 : i \in 1 .. n \/ i = n + 1
        OBVIOUS
      <4>2. QED
        BY <2>1, <2>2, <2>3, <4>1
    <3>1. SUFFICES ASSUME NEW i \in 1 .. n + 1, handlers'[c][i].does = "loop",
                          NEW t \in Server, t = handlers'[c][i].at
                   PROVE  /\ up'[t]
                          /\ Informed(t)' =>
                                /\ me'[t]
                                /\ \A v \in Server :
                                      v < handlers'[c][i].next /\ v # t =>
                                      Holds(v, c)'
      BY <2>1, <3>0 DEF PassedHold
    <3>2. CASE i = n + 1
      <4>1. handlers'[c][i] = h
        BY <2>1, <3>2
      <4>2. \A v \in Server : ~(v < 0)
        BY MembershipAssumption DEF Server
      <4>3. QED
        BY <1>1, <2>2, <3>1, <4>1, <4>2
    <3>3. CASE i # n + 1
      <4>1. i \in 1 .. n /\ handlers'[c][i] = q[i]
        BY <2>1, <3>3
      <4>2. t = q[i].at
        BY <3>1, <4>1
      <4>3. /\ up[t]
            /\ Informed(t) => /\ me[t]
                              /\ \A v \in Server : v < q[i].next /\ v # t =>
                                    Holds(v, c)
        BY <3>1, <4>1, <4>2 DEF Fit, PassedHold
      <4>4. Informed(t)' <=> Informed(t)
        BY <1>1 DEF Informed
      <4>5. QED
        BY <1>1, <4>1, <4>3, <4>4 DEF Kept
    <3>4. QED
      BY <3>2, <3>3
  <2>6. AnsweredHolds(c)'
    BY <2>1 DEF AnsweredHolds
  <2>7. QED
    BY <2>4, <2>5, <2>6 DEF Fit
<1>4. QED
  BY <1>2, <1>3

\* The handlers of a process that dies are gone; those that wait for them wait
\* for ever.
LEMMA CrashKeepsFit ==
  ASSUME Inv, RolesInv, ReplicationTypeOK, Kept, NEW r \in Server, ServerCrash(r),
         NEW c \in Client, Fit(c)
  PROVE  Fit(c)'
<1> PICK n \in Nat : n = Len(handlers[c])
  BY DEF ReplicationTypeOK
<1> PICK q \in Seq(Handler) : q = handlers[c]
  BY DEF ReplicationTypeOK
<1>1. /\ Len(handlers'[c]) = n /\ response'[c] = response[c]
      /\ \A i \in 1 .. n :
            /\ handlers'[c][i].at = q[i].at
            /\ handlers'[c][i].next = q[i].next
            /\ handlers'[c][i].does = IF q[i].at = r THEN "gone" ELSE q[i].does
  BY ServerCrashEffect DEF ServerCrash
<1>2. \A i \in 1 .. n : q[i] \in Handler /\ q[i].at \in Server
  BY HandlerFields
<1>3. Nested(c)'
  <2>1. ASSUME NEW i \in 1 .. n, handlers'[c][i].does = "loop"
        PROVE  IF i < n
               THEN /\ handlers'[c][i].next = handlers'[c][i + 1].at
                    /\ handlers'[c][i + 1].does \in {"loop", "apply", "gone"}
               ELSE response'[c] = "ok" => handlers'[c][i].next < NumServers
    <3>1. q[i].does = "loop"
      BY <1>1, <2>1
    <3>2. CASE i < n
      <4>1. i + 1 \in 1 .. n
        BY <3>2
      <4>2. q[i].next = q[i + 1].at /\ q[i + 1].does \in {"loop", "apply", "gone"}
        BY <3>1, <3>2 DEF Fit, Nested
      <4>3. QED
        BY <1>1, <3>2, <4>1, <4>2
    <3>3. CASE ~(i < n)
      BY <1>1, <3>1, <3>3 DEF Fit, Nested
    <3>4. QED
      BY <3>2, <3>3
  <2>2. QED
    BY <1>1, <2>1 DEF Nested
<1>4. PassedHold(c)'
  <2>1. SUFFICES ASSUME NEW i \in 1 .. n, handlers'[c][i].does = "loop",
                        NEW s \in Server, s = q[i].at
                 PROVE  /\ up'[s]
                        /\ Informed(s)' =>
                              /\ me'[s]
                              /\ \A v \in Server : v < q[i].next /\ v # s =>
                                    Holds(v, c)'
    BY <1>1, <1>2 DEF PassedHold
  <2>2. q[i].does = "loop" /\ s # r
    BY <1>1, <2>1
  <2>3. /\ up[s]
        /\ Informed(s) => /\ me[s]
                          /\ \A v \in Server : v < q[i].next /\ v # s => Holds(v, c)
    BY <2>1, <2>2 DEF Fit, PassedHold
  <2>4. StillPrimary(s)
    BY <2>2, GroupKeepsPrimary
  <2>5. QED
    BY <2>3, <2>4 DEF StillPrimary, Kept
<1>5. AnsweredHolds(c)'
  <2>1. SUFFICES ASSUME n > 0, handlers'[c][n].does = "loop", response[c] = "ok",
                        NEW v \in Server, v = q[n].next
                 PROVE  Holds(v, c)'
    BY <1>1 DEF AnsweredHolds
  <2>2. q[n].does = "loop"
    BY <1>1, <2>1
  <2>3. QED
    BY <2>1, <2>2 DEF Fit, AnsweredHolds, Kept
<1>6. QED
  BY <1>3, <1>4, <1>5 DEF Fit

\* An informed server that forwards flags nobody else as the primary, and every
\* server it has passed holds the write.
LEMMA LoopFacts ==
  ASSUME Inv, RolesInv, RequestInv, ReplicationTypeOK, NEW c \in Client,
         handlers[c] # <<>>, Last(handlers[c]).does = "loop", Informed(Here(c))
  PROVE  /\ \A d \in Server : d # Here(c) => ~view[Here(c)][d].prim
         /\ \A v \in Server : v < Visited(c) /\ v # Here(c) => Holds(v, c)
<1>1. PassedHold(c)
  BY DEF RequestInv
<1>2. PICK n \in Nat : n = Len(handlers[c]) /\ n > 0
  BY Innermost
<1>3. PICK s \in Server : s = Here(c)
  BY Innermost
<1>4. handlers[c][n].does = "loop" /\ handlers[c][n].at = s
      /\ handlers[c][n].next = Visited(c)
  BY <1>2, <1>3, Innermost
<1>5. me[s] /\ \A v \in Server : v < Visited(c) /\ v # s => Holds(v, c)
  BY <1>1, <1>2, <1>3, <1>4 DEF PassedHold
<1>6. FlagsOneHolder(s)
  BY <1>3 DEF RolesInv
<1>7. QED
  BY <1>3, <1>5, <1>6 DEF FlagsOneHolder

LEMMA RequestKeepsFit ==
  ASSUME Inv, RolesInv, RequestInv, ReplicationTypeOK, ReplicationTypeOK', Kept,
         NEW c \in Client, RequestStep(c) \/ \E s \in Server : Request(c, s)
  PROVE  Fit(c)'
<1>1. Fit(c)
  BY DEF Fit, RequestInv
<1>2. "ok" \in Response /\ "err" \in Response
  BY DEF Response
<1>3. ASSUME LoopSkipPrimary(c)
      PROVE  Fit(c)'
  <2>1. /\ handlers[c] # <<>> /\ Visited(c) < NumServers /\ Advance(c)
        /\ Last(handlers[c]).does = "loop" /\ view[Here(c)][Visited(c)].prim
        /\ UNCHANGED groupVars
    BY <1>3 DEF LoopSkipPrimary, Runs, AtServer, Entry
  <2>2. Visited(c) \in Server
    BY <2>1, Innermost
  <2>3. ~(Informed(Here(c)) /\ Visited(c) # Here(c))
    BY <2>1, <2>2, LoopFacts
  <2>4. QED
    BY <1>1, <2>1, <2>3, AdvanceKeepsFit
<1>4. ASSUME LoopLogForDead(c)
      PROVE  Fit(c)'
  <2>1. /\ handlers[c] # <<>> /\ Visited(c) < NumServers /\ Advance(c)
        /\ deadLog' = [deadLog EXCEPT ![Visited(c)] = Append(@, c)]
        /\ UNCHANGED groupVars
    BY <1>4 DEF LoopLogForDead, Runs, AtServer
  <2>2. PICK v \in Server : v = Visited(c)
    BY <2>1, Innermost
  <2>3. c \in ToSet(deadLog'[v])
    BY <2>1, <2>2, LogEffect
  <2>4. Holds(v, c)'
    BY <2>3, HeldWhere
  <2>5. QED
    BY <1>1, <2>1, <2>2, <2>4, AdvanceKeepsFit
<1>5. ASSUME LoopForward(c)
      PROVE  Fit(c)'
  <2>1. handlers[c] # <<>> /\ Visited(c) < NumServers /\ UNCHANGED groupVars
    BY <1>5 DEF LoopForward, Runs, AtServer
  <2>2. PICK v \in Server : v = Visited(c)
    BY <2>1, Innermost
  <2>3. (up[v] /\ Call(c, v, "PRIMARY")) \/ Return(c, "err")
    BY <1>5, <2>2 DEF LoopForward
  <2>4. QED
    BY <1>1, <1>2, <2>1, <2>2, <2>3, CallKeepsFit, ReturnKeepsFit
<1>6. ASSUME LoopForwarded(c)
      PROVE  Fit(c)'
  <2>1. handlers[c] # <<>> /\ UNCHANGED groupVars
    BY <1>6 DEF LoopForwarded, Runs
  <2>2. CASE response[c] = "ok"
    <3>1. Runs(c, "loop", "ok") /\ Advance(c)
      BY <1>6, <2>2 DEF LoopForwarded, Runs
    <3>2. Visited(c) < NumServers
      BY <2>1, <3>1, AnswerOfListed
    <3>3. \A v \in Server : v = Visited(c) => Holds(v, c)
      <4>1. /\ Len(handlers[c]) \in Nat \ {0}
            /\ handlers[c][Len(handlers[c])].does = "loop"
            /\ Visited(c) = handlers[c][Len(handlers[c])].next
        BY <2>1, <3>1, Innermost DEF Runs
      <4>2. QED
        BY <1>1, <2>2, <4>1 DEF Fit, AnsweredHolds
    <3>4. \A v \in Server : v = Visited(c) => Holds(v, c)'
      BY <3>3 DEF Kept
    <3>5. QED
      BY <1>1, <2>1, <3>1, <3>2, <3>4, AdvanceKeepsFit
  <2>3. CASE response[c] # "ok"
    BY <1>1, <1>2, <1>6, <2>1, <2>3, ReturnKeepsFit DEF LoopForwarded
  <2>4. QED
    BY <2>2, <2>3
<1>7. ASSUME LoopDone(c) \/ ApplyForwarded(c)
      PROVE  Fit(c)'
  <2>1. /\ handlers[c] # <<>> /\ ApplyAt(Here(c), c) /\ Return(c, "ok")
        /\ UNCHANGED groupVars
    BY <1>7 DEF LoopDone, ApplyForwarded, Runs
  <2>2. PICK s \in Server : s = Here(c)
    BY <2>1, Innermost
  <2>3. c \in ToSet(applied'[s])
    BY <2>1, <2>2, ApplyAtEffect
  <2>4. Holds(s, c)'
    BY <2>3, HeldWhere
  <2>5. QED
    BY <1>1, <1>2, <2>1, <2>2, <2>4, ReturnKeepsFit
<1>8. ASSUME Relay(c)
      PROVE  Fit(c)'
  <2>1. /\ handlers[c] # <<>> /\ Last(handlers[c]).does = "relay"
        /\ UNCHANGED groupVars
    BY <1>8 DEF Relay, Runs
  <2>2. (\E p \in Server : up[p] /\ Call(c, p, "SECONDARY")) \/ Return(c, "ok")
    BY <1>8 DEF Relay
  <2>3. QED
    BY <1>1, <1>2, <2>1, <2>2, CallKeepsFit, ReturnKeepsFit
<1>9. ASSUME Relayed(c)
      PROVE  Fit(c)'
  <2>1. /\ handlers[c] # <<>> /\ Last(handlers[c]).does = "relay"
        /\ response[c] \in Response /\ Return(c, response[c])
        /\ UNCHANGED groupVars
    BY <1>9 DEF Relayed, Runs, ReplicationTypeOK
  <2>2. QED
    BY <1>1, <2>1, ReturnKeepsFit
<1>10. ASSUME Reply(c)
       PROVE  Fit(c)'
  <2>1. UNCHANGED <<up, me, missed, uninformed, handlers, response>>
    BY <1>10 DEF Reply, groupVars, vars, nodeVars, roleVars
  <2>2. QED
    BY <1>1, <2>1, RestKeepsFit DEF StillPrimary, Informed
<1>11. ASSUME NEW s \in Server, Request(c, s)
       PROVE  Fit(c)'
  <2>1. /\ handlers[c] = <<>> /\ up[s] /\ Call(c, s, "FRONTEND")
        /\ UNCHANGED groupVars
    BY <1>11 DEF Request, RequestInv
  <2>2. QED
    BY <1>1, <2>1, CallKeepsFit
<1>12. QED
  BY <1>3, <1>4, <1>5, <1>6, <1>7, <1>8, <1>9, <1>10, <1>11 DEF RequestStep

\* A step of one client leaves the handlers of the others alone.
LEMMA OthersAlone ==
  ASSUME RequestInv, ReplicationTypeOK, NEW c \in Client, NEW d \in Client, d # c,
         RequestStep(c) \/ \E s \in Server : Request(c, s)
  PROVE  /\ handlers'[d] = handlers[d] /\ response'[d] = response[d]
         /\ UNCHANGED groupVars
<1>1. "ok" \in Response /\ "err" \in Response
  BY DEF Response
<1>2. UNCHANGED groupVars
  BY DEF RequestStep, LoopSkipPrimary, LoopLogForDead, LoopForward,
     LoopForwarded, LoopDone, ApplyForwarded, Relay, Relayed, Reply, Request
<1>3. \/ handlers[c] # <<>> /\ Visited(c) < NumServers /\ Advance(c)
      \/ handlers[c] # <<>> /\ \E r \in Response : Return(c, r)
      \/ \E s \in Server, from \in {"PRIMARY", "SECONDARY", "FRONTEND"} :
            Call(c, s, from)
      \/ UNCHANGED <<handlers, response>>
  <2>1. CASE LoopSkipPrimary(c) \/ LoopLogForDead(c)
    BY <2>1 DEF LoopSkipPrimary, LoopLogForDead, Runs, AtServer
  <2>2. CASE LoopForward(c)
    <3>1. handlers[c] # <<>> /\ Visited(c) < NumServers
      BY <2>2 DEF LoopForward, Runs, AtServer
    <3>2. Visited(c) \in Server
      BY <3>1, Innermost
    <3>3. QED
      BY <1>1, <2>2, <3>1, <3>2 DEF LoopForward
  <2>3. CASE LoopForwarded(c)
    <3>1. handlers[c] # <<>>
      BY <2>3 DEF LoopForwarded, Runs
    <3>2. CASE response[c] = "ok"
      <4>1. Runs(c, "loop", "ok") /\ Advance(c)
        BY <2>3, <3>2 DEF LoopForwarded, Runs
      <4>2. QED
        BY <3>1, <4>1, AnswerOfListed
    <3>3. CASE response[c] # "ok"
      BY <1>1, <2>3, <3>1, <3>3 DEF LoopForwarded
    <3>4. QED
      BY <3>2, <3>3
  <2>4. CASE LoopDone(c) \/ ApplyForwarded(c)
    BY <1>1, <2>4 DEF LoopDone, ApplyForwarded, Runs
  <2>5. CASE Relay(c)
    BY <1>1, <2>5 DEF Relay, Runs
  <2>6. CASE Relayed(c)
    BY <2>6 DEF Relayed, Runs, ReplicationTypeOK
  <2>7. CASE Reply(c)
    BY <2>7 DEF Reply
  <2>8. ASSUME NEW s \in Server, Request(c, s)
        PROVE  Call(c, s, "FRONTEND")
    BY <2>8 DEF Request
  <2>9. QED
    BY <2>1, <2>2, <2>3, <2>4, <2>5, <2>6, <2>7, <2>8 DEF RequestStep
<1>4. handlers'[d] = handlers[d] /\ response'[d] = response[d]
  BY <1>3, AdvanceEffect, ReturnEffect, CallEffect
<1>5. QED
  BY <1>2, <1>4

LEMMA NextKeepsFit ==
  ASSUME Inv, RolesInv, RequestInv, ReplicationTypeOK, ReplicationTypeOK', Kept,
         [ReplicationNext]_allVars, NEW c \in Client
  PROVE  Fit(c)'
<1>1. Fit(c)
  BY DEF Fit, RequestInv
<1>2. ASSUME UNCHANGED groupVars, handlers'[c] = handlers[c],
             response'[c] = response[c]
      PROVE  Fit(c)'
  <2>1. UNCHANGED <<up, me, missed, uninformed>>
    BY <1>2 DEF groupVars, vars, nodeVars, roleVars
  <2>2. QED
    BY <1>1, <1>2, <2>1, RestKeepsFit DEF StillPrimary, Informed
<1>3. ASSUME NEW d \in Client, RequestStep(d) \/ \E s \in Server : Request(d, s)
      PROVE  Fit(c)'
  BY <1>2, <1>3, RequestKeepsFit, OthersAlone
<1>4. ASSUME NEW r \in Server, \/ MembershipStep(r) \/ ServerSuspect(r)
                               \/ ServerStart(r) \/ ServerEnable(r)
      PROVE  Fit(c)'
  <2>1. UNCHANGED <<handlers, response>>
    BY <1>4 DEF MembershipStep, ServerSuspect, ServerStart, ServerEnable,
       Recover, requestVars
  <2>2. \A s \in Server : StillPrimary(s)
    BY <1>4, GroupKeepsPrimary
  <2>3. QED
    BY <1>1, <2>1, <2>2, RestKeepsFit
<1>5. ASSUME NEW r \in Server, ServerCrash(r)
      PROVE  Fit(c)'
  BY <1>1, <1>5, CrashKeepsFit
<1>6. CASE UNCHANGED allVars
  BY <1>2, <1>6 DEF allVars, requestVars
<1>7. QED
  BY <1>3, <1>4, <1>5, <1>6 DEF ReplicationNext

-----------------------------------------------------------------------------
(* What a primary has carried out.                                         *)

LEMMA NextKeepsCommitted ==
  ASSUME Inv, RolesInv, RequestInv, ReplicationTypeOK, ReplicationTypeOK', Kept,
         [ReplicationNext]_allVars
  PROVE  CommittedIsHeld'
<1>1. ASSUME committed' = committed
      PROVE  CommittedIsHeld'
  BY <1>1 DEF RequestInv, CommittedIsHeld, Kept, ReplicationTypeOK
<1>2. ASSUME NEW c \in Client, LoopDone(c)
      PROVE  CommittedIsHeld'
  <2>1. /\ handlers[c] # <<>> /\ Last(handlers[c]).does = "loop"
        /\ ~(Visited(c) < NumServers) /\ ApplyAt(Here(c), c)
        /\ committed' = IF Informed(Here(c)) THEN committed \union {c}
                                             ELSE committed
    BY <1>2 DEF LoopDone, Runs, AtServer
  <2>2. PICK s \in Server : s = Here(c)
    BY <2>1, Innermost
  <2>3. CASE Informed(s)
    <3>1. Holds(s, c)'
      <4>1. c \in ToSet(applied'[s])
        BY <2>1, <2>2, ApplyAtEffect
      <4>2. QED
        BY <4>1, HeldWhere
    <3>2. ASSUME NEW v \in Server, v # s
          PROVE  Holds(v, c)'
      <4>1. v < Visited(c)
        BY <2>1, Innermost, MembershipAssumption DEF Server
      <4>2. Holds(v, c)
        BY <2>1, <2>2, <2>3, <3>2, <4>1, LoopFacts
      <4>3. QED
        BY <4>2 DEF Kept
    <3>3. ASSUME NEW d \in committed, NEW v \in Server
          PROVE  Holds(v, d)'
      BY <3>3 DEF RequestInv, CommittedIsHeld, Kept, ReplicationTypeOK
    <3>4. committed' = committed \union {c}
      BY <2>1, <2>2, <2>3
    <3>5. QED
      BY <3>1, <3>2, <3>3, <3>4 DEF CommittedIsHeld
  <2>4. CASE ~Informed(s)
    BY <1>1, <2>1, <2>2, <2>4
  <2>5. QED
    BY <2>3, <2>4
<1>3. ASSUME NEW c \in Client, RequestStep(c)
      PROVE  CommittedIsHeld'
  BY <1>1, <1>2, <1>3 DEF RequestStep, LoopSkipPrimary, LoopLogForDead,
     LoopForward, LoopForwarded, ApplyForwarded, Relay, Relayed, Reply
<1>4. ASSUME NEW c \in Client, NEW s \in Server, Request(c, s)
      PROVE  CommittedIsHeld'
  BY <1>1, <1>4 DEF Request
<1>5. ASSUME NEW s \in Server, MembershipStep(s) \/ ServerSuspect(s)
      PROVE  CommittedIsHeld'
  BY <1>1, <1>5 DEF MembershipStep, ServerSuspect, requestVars
<1>6. ASSUME NEW s \in Server,
             ServerCrash(s) \/ ServerStart(s) \/ ServerEnable(s)
      PROVE  CommittedIsHeld'
  BY <1>1, <1>6 DEF ServerCrash, ServerStart, ServerEnable, Recover, requestVars
<1>7. CASE UNCHANGED allVars
  BY <1>1, <1>7 DEF allVars, requestVars
<1>8. QED
  BY <1>3, <1>4, <1>5, <1>6, <1>7 DEF ReplicationNext

\* A client that has not sent its write has no handlers.
LEMMA NextKeepsUnsent ==
  ASSUME RequestInv, ReplicationTypeOK, ReplicationTypeOK',
         [ReplicationNext]_allVars, NEW c \in Client
  PROVE  outcome'[c] = "unsent" => handlers'[c] = <<>>
<1>1. /\ outcome[c] = "unsent" => handlers[c] = <<>>
      /\ outcome \in [Client -> Response \union {"unsent"}]
      /\ response \in [Client -> Response]
  BY DEF RequestInv, ReplicationTypeOK
<1>2. ASSUME NEW d \in Client, RequestStep(d)
      PROVE  outcome'[c] = "unsent" => handlers'[c] = <<>>
  <2>1. CASE d # c
    <3>1. handlers'[c] = handlers[c]
      BY <1>2, <2>1, OthersAlone
    <3>2. outcome'[c] = outcome[c]
      BY <1>1, <1>2, <2>1 DEF RequestStep, LoopSkipPrimary, LoopLogForDead,
         LoopForward, LoopForwarded, LoopDone, ApplyForwarded, Relay, Relayed,
         Reply
    <3>3. QED
      BY <1>1, <3>1, <3>2
  <2>2. CASE d = c
    <3>1. CASE Reply(c)
      BY <1>1, <3>1 DEF Reply, Response
    <3>2. CASE ~Reply(c)
      <4>1. handlers[c] # <<>> /\ outcome' = outcome
        BY <1>2, <2>2, <3>2 DEF RequestStep, LoopSkipPrimary, LoopLogForDead,
           LoopForward, LoopForwarded, LoopDone, ApplyForwarded, Relay, Relayed,
           Runs
      <4>2. QED
        BY <1>1, <4>1
    <3>3. QED
      BY <3>1, <3>2
  <2>3. QED
    BY <2>1, <2>2
<1>3. ASSUME NEW d \in Client, NEW s \in Server, Request(d, s)
      PROVE  outcome'[c] = "unsent" => handlers'[c] = <<>>
  <2>1. outcome' = [outcome EXCEPT ![d] = "none"]
    BY <1>3 DEF Request
  <2>2. CASE d # c
    BY <1>1, <1>3, <2>1, <2>2, OthersAlone
  <2>3. CASE d = c
    BY <1>1, <2>1, <2>3
  <2>4. QED
    BY <2>2, <2>3
<1>4. ASSUME NEW s \in Server, \/ MembershipStep(s) \/ ServerSuspect(s)
                               \/ ServerStart(s) \/ ServerEnable(s)
      PROVE  outcome'[c] = "unsent" => handlers'[c] = <<>>
  BY <1>1, <1>4 DEF MembershipStep, ServerSuspect, ServerStart, ServerEnable,
     Recover, requestVars
<1>5. ASSUME NEW s \in Server, ServerCrash(s)
      PROVE  outcome'[c] = "unsent" => handlers'[c] = <<>>
  <2>1. Len(handlers'[c]) = Len(handlers[c]) /\ handlers'[c] \in Seq(Handler)
    BY <1>5, ServerCrashEffect
  <2>2. handlers[c] = <<>> => handlers'[c] = <<>>
    BY <2>1
  <2>3. outcome' = outcome
    BY <1>5 DEF ServerCrash
  <2>4. QED
    BY <1>1, <2>2, <2>3
<1>6. CASE UNCHANGED allVars
  BY <1>1, <1>6 DEF allVars, requestVars
<1>7. QED
  BY <1>2, <1>3, <1>4, <1>5, <1>6 DEF ReplicationNext

-----------------------------------------------------------------------------
(* Theorems.                                                               *)

LEMMA InitEstablishesReplicationInv == ReplicationInit => ReplicationInv
<1> SUFFICES ASSUME ReplicationInit
             PROVE  ReplicationInv
  OBVIOUS
<1>1. Inv
  BY InitEstablishesInv DEF ReplicationInit
<1>2. ReplicationTypeOK
  BY <1>1 DEF ReplicationInit, ReplicationTypeOK, Response, Inv
<1>3. RolesInv
  <2>1. ASSUME NEW s \in Server
        PROVE  DownIsBlank(s) /\ ~up[s]
    BY DEF ReplicationInit, Init, DownIsBlank, Unknown
  <2>2. QED
    BY <2>1, BlankFits DEF RolesInv
<1>4. ASSUME NEW c \in Client
      PROVE  /\ outcome[c] = "unsent" => handlers[c] = <<>>
             /\ Nested(c) /\ PassedHold(c) /\ AnsweredHolds(c)
             /\ OkIsApplied(c)
  BY DEF ReplicationInit, Nested, PassedHold, AnsweredHolds, OkIsApplied
<1>5. CommittedIsHeld
  BY DEF ReplicationInit, CommittedIsHeld
<1>6. QED
  BY <1>1, <1>2, <1>3, <1>4, <1>5 DEF ReplicationInv, RequestInv

LEMMA NextKeepsReplicationInv ==
  ReplicationInv /\ [ReplicationNext]_allVars => ReplicationInv'
<1> SUFFICES ASSUME ReplicationInv, [ReplicationNext]_allVars
             PROVE  ReplicationInv'
  OBVIOUS
<1>1. Inv /\ RolesInv /\ RequestInv /\ ReplicationTypeOK
  BY DEF ReplicationInv
<1>2. Inv'
  BY <1>1, StepOfGroup, NextKeepsInv
<1>3. RolesInv'
  BY <1>1, <1>2, NextKeepsRoles
<1>4. ReplicationTypeOK'
  <2>1. TypeOK'
    BY <1>2 DEF Inv
  <2>2. QED
    BY <1>1, <2>1, NextKeepsTypes
<1>5. Kept
  BY <1>1, <1>4, NextKeepsWrites
<1>6. CommittedIsHeld'
  BY <1>1, <1>4, <1>5, NextKeepsCommitted
<1>7. ASSUME NEW c \in Client
      PROVE  /\ (outcome[c] = "unsent" => handlers[c] = <<>>)'
             /\ Nested(c)' /\ PassedHold(c)' /\ AnsweredHolds(c)'
             /\ OkIsApplied(c)'
  <2>1. Nested(c)' /\ PassedHold(c)' /\ AnsweredHolds(c)'
    BY <1>1, <1>4, <1>5, NextKeepsFit DEF Fit
  <2>2. OkIsApplied(c)'
    BY <1>1, <1>4, <1>5, NextKeepsOkIsApplied
  <2>3. QED
    BY <1>1, <1>4, <2>1, <2>2, NextKeepsUnsent
<1>8. QED
  BY <1>2, <1>3, <1>4, <1>6, <1>7 DEF ReplicationInv, RequestInv

\* Every reachable state of the write path satisfies the inductive invariant.
THEOREM ReplicationInvariance == ReplicationSpec => []ReplicationInv
<1>1. ReplicationInit => ReplicationInv
  BY InitEstablishesReplicationInv
<1>2. ReplicationInv /\ [ReplicationNext]_allVars => ReplicationInv'
  BY NextKeepsReplicationInv
<1>3. QED
  BY <1>1, <1>2, PTL DEF ReplicationSpec

\* The handlers, tables and logs keep their types; in particular the iterator
\* of forwardToAllSecondaryServers never runs past the list of servers.
THEOREM ReplicationTypeCorrect == ReplicationSpec => []ReplicationTypeOK
<1>1. ReplicationInv => ReplicationTypeOK
  BY DEF ReplicationInv
<1>2. QED
  BY <1>1, ReplicationInvariance, PTL

\* Of any number of servers, each holds, in its table or in its dead-server
\* log, every write that a primary has carried out that was told of the deaths
\* that matter to it, whatever fails while forwardToAllSecondaryServers runs.
THEOREM CommittedWritesAreHeld == ReplicationSpec => []CommittedIsHeld
<1>1. ReplicationInv => CommittedIsHeld
  BY DEF ReplicationInv, RequestInv
<1>2. QED
  BY <1>1, ReplicationInvariance, PTL

\* A frontend that is told +OK has had its write applied somewhere, unless
\* forwardToPrimary found no primary to connect to.
THEOREM AckedWritesAreApplied == ReplicationSpec => []AckedIsApplied
<1>1. ReplicationInv => AckedIsApplied
  BY DEF ReplicationInv, RequestInv, OkIsApplied, AckedIsApplied
<1>2. QED
  BY <1>1, ReplicationInvariance, PTL

\* Serving requests does not disturb the group: as far as roles and views go,
\* the write path makes the steps of module Membership, so that what is proved
\* of these holds while requests are served.
THEOREM ServingIsMembership == ReplicationSpec => Init /\ [][Next]_vars
<1>1. ReplicationInit => Init
  BY DEF ReplicationInit
<1>2. [ReplicationNext]_allVars => [Next]_vars
  BY StepOfGroup
<1>3. QED
  BY <1>1, <1>2, PTL DEF ReplicationSpec
=============================================================================
