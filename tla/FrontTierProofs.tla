--------------------------- MODULE FrontTierProofs ---------------------------
(***************************************************************************)
(* Proofs about module FrontTier, for any number of frontends and browsers, *)
(* any timeout that leaves room for a late heartbeat, and any number of     *)
(* lost datagrams, requests to the console and frontends that die.          *)
(***************************************************************************)
EXTENDS FrontTier, FiniteSetTheorems, TLAPS

-----------------------------------------------------------------------------
(* The inductive invariant.                                                *)

\* No more processes are being started, and no more DISABLE datagrams are in
\* flight, than there have been events.
EventsBound ==
    /\ events \in 0 .. MaxEvents
    /\ \A f \in Front : starting[f] <= events /\ disable[f] <= events

\* Since checkTimeout last ran, a frontend that counts as alive was heard of
\* within the timeout.
AliveWasHeard ==
    \A f \in Front :
        server_status[f] = 1 => age[f] <= TIMEOUT_SECONDS + sinceCheck

\* A frontend that is gone is not heard of again, except for the reply that
\* was on its way when it went.
GoneIsSilent ==
    \A f \in Front : f \notin up =>
        /\ since[f] <= age[f]
        /\ ping[f] = 0
        /\ pong[f] # NoReply => since[f] = 0

InFlight(f) == ping[f] = 1 \/ pong[f] # NoReply

\* A frontend that was up when the last heartbeats were sent has got one, and
\* has answered unless one of the two datagrams is still in flight.
HeartbeatAnswered ==
    ~lost => \A f \in up : since[f] > sinceSend =>
        InFlight(f) \/ (server_status[f] = 1 /\ age[f] <= sinceSend)

\* One that has been up for a whole period of the heartbeats is offered, and is
\* not about to be given up.
OfferedInTime ==
    ~lost => \A f \in up : since[f] > HEARTBEAT + Lag =>
        server_status[f] = 1 /\ age[f] <= HEARTBEAT + Lag

\* What the console has set going for a frontend it can know of: at most one
\* request, of which the page already shows the outcome.
ConsoleAhead ==
    \A f \in Front \ untold :
        /\ starting[f] <= 1 /\ disable[f] <= 1
        /\ starting[f] = 0 \/ disable[f] = 0
        /\ starting[f] = 1 => ~isDead[f]
        /\ disable[f] = 1 => isDead[f] /\ f \in up

Inv ==
    /\ TypeOK /\ EventsBound
    /\ AliveWasHeard /\ GoneIsSilent
    /\ HeartbeatAnswered /\ OfferedInTime
    /\ ConsoleAhead /\ AdminPageTrue

-----------------------------------------------------------------------------
(* Lemmas about the operators of FrontTier.                                *)

\* The numbers the model is built from are natural, and the timeout leaves
\* room for a heartbeat that is late.
LEMMA Numbers ==
  /\ Cardinality(Browser) \in Nat
  /\ NoReply = Cardinality(Browser) + 1
  /\ Never = TIMEOUT_SECONDS + Lag + 3
  /\ TIMEOUT_SECONDS \in Nat /\ HEARTBEAT \in Nat /\ Lag \in Nat
  /\ MaxEvents \in Nat /\ MAX_CLIENTS \in Nat \ {0}
  /\ HEARTBEAT + Lag <= TIMEOUT_SECONDS
<1>1. Cardinality(Browser) \in Nat
  BY FS_CardinalityType, TierAssumption
<1> QED
  BY <1>1, TierAssumption DEF NoReply, Never

\* A frontend has at most all browsers as its clients, so the number that
\* handleHeartbeat sends is never taken for the absence of a reply.
LEMMA LoadBound ==
  ASSUME NEW f
  PROVE  Load(f) \in 0 .. Cardinality(Browser)
<1> DEFINE clients == {b \in Browser : at[b] = f}
<1>1. IsFiniteSet(Browser)
  BY TierAssumption
<1>2. clients \subseteq Browser
  OBVIOUS
<1>3. IsFiniteSet(clients) /\ Cardinality(clients) <= Cardinality(Browser)
  BY <1>1, <1>2, FS_Subset
<1>4. Cardinality(clients) \in Nat /\ Cardinality(Browser) \in Nat
  BY <1>1, <1>3, FS_CardinalityType
<1> QED
  BY <1>3, <1>4 DEF Load

\* Counting on stops short of Never and keeps the order of two counts.
LEMMA OlderCounts ==
  ASSUME NEW m \in 0 .. Never, NEW n \in 0 .. Never
  PROVE  /\ Older(n) \in 0 .. Never
         /\ Older(n) = n \/ Older(n) = n + 1
         /\ m <= n => Older(m) <= Older(n)
         /\ n < Never => Older(n) < Never
         /\ n < Never - 1 => Older(n) = n + 1
BY Numbers DEF Older

-----------------------------------------------------------------------------
(* Every step keeps the invariant.                                         *)

\* The state in which the balancer and the console are started.
LEMMA InitEstablishesInv == Init => Inv
<1> SUFFICES ASSUME Init PROVE Inv
  OBVIOUS
<1>1. TypeOK
  BY Numbers, TierAssumption DEF Init, TypeOK
<1>2. EventsBound /\ AliveWasHeard /\ GoneIsSilent
  BY Numbers DEF Init, EventsBound, AliveWasHeard, GoneIsSilent, TypeOK
<1>3. HeartbeatAnswered /\ OfferedInTime
  BY Numbers DEF Init, HeartbeatAnswered, OfferedInTime
<1>4. ConsoleAhead
  BY DEF Init, ConsoleAhead
<1>5. AdminPageTrue
  BY Zenon DEF Init, AdminPageTrue
<1> QED
  BY <1>1, <1>2, <1>3, <1>4, <1>5 DEF Inv

\* sendHeartbeat. A new round begins, so nobody has been up since its
\* heartbeats were sent without being sent one.
LEMMA SendHeartbeatKeepsInv ==
  ASSUME Inv, SendHeartbeat
  PROVE  Inv'
<1> USE Numbers
<1>1. TypeOK'
  BY DEF Inv, TypeOK, SendHeartbeat, adminVars, clientVars
<1>2. EventsBound' /\ AliveWasHeard'
  BY DEF Inv, EventsBound, AliveWasHeard, SendHeartbeat, adminVars
<1>3. GoneIsSilent'
  BY DEF Inv, GoneIsSilent, SendHeartbeat
<1>4. HeartbeatAnswered'
  BY DEF Inv, TypeOK, HeartbeatAnswered, InFlight, SendHeartbeat
<1>5. OfferedInTime'
  BY DEF Inv, OfferedInTime, SendHeartbeat
<1>6. ConsoleAhead' /\ AdminPageTrue'
  BY DEF Inv, ConsoleAhead, AdminPageTrue, Pending, SendHeartbeat, adminVars
<1> QED
  BY <1>1, <1>2, <1>3, <1>4, <1>5, <1>6 DEF Inv

\* handleHeartbeat. The reply takes the place of the heartbeat.
LEMMA HandleHeartbeatKeepsInv ==
  ASSUME Inv, NEW f \in Front, HandleHeartbeat(f)
  PROVE  Inv'
<1> USE Numbers
<1>0. Load(f) \in 0 .. Cardinality(Browser)
  BY LoadBound
<1>1. TypeOK'
  BY <1>0 DEF Inv, TypeOK, HandleHeartbeat, lbVars, adminVars, clientVars
<1>2. EventsBound' /\ AliveWasHeard'
  BY DEF Inv, EventsBound, AliveWasHeard, HandleHeartbeat, lbVars, adminVars
<1>3. GoneIsSilent'
  BY DEF Inv, TypeOK, GoneIsSilent, HandleHeartbeat, lbVars
<1>4. HeartbeatAnswered'
  BY <1>0 DEF Inv, TypeOK, HeartbeatAnswered, InFlight, HandleHeartbeat, lbVars
<1>5. OfferedInTime'
  BY DEF Inv, OfferedInTime, HandleHeartbeat, lbVars
<1>6. ConsoleAhead' /\ AdminPageTrue'
  BY DEF Inv, ConsoleAhead, AdminPageTrue, Pending, HandleHeartbeat, adminVars
<1> QED
  BY <1>1, <1>2, <1>3, <1>4, <1>5, <1>6 DEF Inv

\* receiveHeartbeat. The frontend counts as alive from now.
LEMMA ReceiveHeartbeatKeepsInv ==
  ASSUME Inv, NEW f \in Front, ReceiveHeartbeat(f)
  PROVE  Inv'
<1> USE Numbers
<1>1. TypeOK'
  BY DEF Inv, TypeOK, ReceiveHeartbeat, adminVars, clientVars
<1>2. EventsBound' /\ AliveWasHeard'
  BY DEF Inv, TypeOK, EventsBound, AliveWasHeard, ReceiveHeartbeat, adminVars
<1>3. GoneIsSilent'
  BY DEF Inv, TypeOK, GoneIsSilent, ReceiveHeartbeat
<1>4. HeartbeatAnswered'
  BY DEF Inv, TypeOK, HeartbeatAnswered, InFlight, ReceiveHeartbeat
<1>5. OfferedInTime'
  BY DEF Inv, TypeOK, OfferedInTime, ReceiveHeartbeat
<1>6. ConsoleAhead' /\ AdminPageTrue'
  BY DEF Inv, ConsoleAhead, AdminPageTrue, Pending, ReceiveHeartbeat, adminVars
<1> QED
  BY <1>1, <1>2, <1>3, <1>4, <1>5, <1>6 DEF Inv

\* checkTimeout. Whoever it leaves among the live was heard of in time, and it
\* leaves whoever answered the last heartbeat.
LEMMA CheckTimeoutKeepsInv ==
  ASSUME Inv, CheckTimeout
  PROVE  Inv'
<1> USE Numbers
<1>1. TypeOK'
  BY DEF Inv, TypeOK, CheckTimeout, netVars, adminVars, clientVars
<1>2. EventsBound'
  BY DEF Inv, EventsBound, CheckTimeout, netVars, adminVars
<1>3. AliveWasHeard'
  BY DEF Inv, TypeOK, AliveWasHeard, CheckTimeout, Expired
<1>4. GoneIsSilent'
  BY DEF Inv, GoneIsSilent, CheckTimeout, netVars
<1>5. HeartbeatAnswered'
  BY DEF Inv, TypeOK, HeartbeatAnswered, InFlight, CheckTimeout, Expired, netVars
<1>6. OfferedInTime'
  BY DEF Inv, TypeOK, OfferedInTime, CheckTimeout, Expired, netVars
<1>7. ConsoleAhead' /\ AdminPageTrue'
  BY DEF Inv, ConsoleAhead, AdminPageTrue, Pending, CheckTimeout, netVars,
         adminVars
<1> QED
  BY <1>1, <1>2, <1>3, <1>4, <1>5, <1>6, <1>7 DEF Inv
\* A heartbeat or a reply is lost: from now on nothing is claimed of the
\* heartbeats. Or a DISABLE is, of which the console cannot know.
LEMMA LoseKeepsInv ==
  ASSUME Inv, NEW f \in Front, Lose(f)
  PROVE  Inv'
<1> USE Numbers
<1>1. TypeOK'
  BY DEF Inv, TypeOK, Lose, Event, lbVars, clientVars
<1>2. EventsBound'
  BY DEF Inv, TypeOK, EventsBound, Lose, Event
<1>3. AliveWasHeard'
  BY DEF Inv, AliveWasHeard, Lose, lbVars
<1>4. GoneIsSilent'
  BY DEF Inv, TypeOK, GoneIsSilent, Lose, lbVars
<1>5. HeartbeatAnswered' /\ OfferedInTime'
  BY DEF Inv, TypeOK, HeartbeatAnswered, OfferedInTime, InFlight, Lose, lbVars
<1>6. ConsoleAhead'
  BY DEF Inv, TypeOK, ConsoleAhead, Lose
<1>7. AdminPageTrue'
  BY DEF Inv, TypeOK, AdminPageTrue, Pending, Lose
<1> QED
  BY <1>1, <1>2, <1>3, <1>4, <1>5, <1>6, <1>7 DEF Inv

\* A second passes with nothing in flight: a frontend that was sent the last
\* heartbeat has answered it.
LEMMA TickKeepsInv ==
  ASSUME Inv, Tick
  PROVE  Inv'
<1> USE Numbers
<1>1. TypeOK'
  <2>1. age' \in [Front -> 0 .. Never] /\ since' \in [Front -> 0 .. Never]
    BY OlderCounts DEF Inv, TypeOK, Tick
  <2> QED
    BY <2>1 DEF Inv, TypeOK, Tick, netVars, adminVars, clientVars
<1>2. EventsBound'
  BY DEF Inv, EventsBound, Tick, netVars, adminVars
<1>3. \A f \in Front :
        /\ age[f] \in 0 .. Never /\ since[f] \in 0 .. Never
        /\ age'[f] = IF age[f] = Never THEN Never ELSE Older(age[f])
        /\ since'[f] = Older(since[f])
  BY DEF Inv, TypeOK, Tick
<1>4. AliveWasHeard'
  BY <1>3, OlderCounts DEF Inv, TypeOK, AliveWasHeard, Tick
<1>5. GoneIsSilent'
  <2> SUFFICES ASSUME NEW f \in Front, f \notin up
               PROVE  since'[f] <= age'[f]
    BY DEF Inv, GoneIsSilent, Tick, netVars
  <2>1. since[f] <= age[f]
    BY DEF Inv, GoneIsSilent
  <2>2. since'[f] <= Older(age[f])
    BY <1>3, <2>1, OlderCounts
  <2> QED
    BY <1>3, <2>2, OlderCounts
<1>6. HeartbeatAnswered' /\ OfferedInTime'
  <2> SUFFICES ASSUME ~lost, NEW f \in up
               PROVE  /\ since'[f] > sinceSend' =>
                           server_status[f] = 1 /\ age'[f] <= sinceSend'
                      /\ since'[f] > HEARTBEAT + Lag =>
                           server_status[f] = 1 /\ age'[f] <= HEARTBEAT + Lag
    BY DEF HeartbeatAnswered, OfferedInTime, Tick, netVars
  <2>1. f \in Front /\ ~InFlight(f)
    BY DEF Inv, TypeOK, Tick, InFlight
  <2>2. since[f] > sinceSend => server_status[f] = 1 /\ age[f] <= sinceSend
    BY <2>1 DEF Inv, HeartbeatAnswered
  <2>3. /\ sinceSend \in Nat /\ sinceSend' = sinceSend + 1
        /\ sinceSend' <= HEARTBEAT + Lag
    BY DEF Inv, TypeOK, Tick
  <2>4. since'[f] \in Nat /\ since'[f] <= since[f] + 1
    BY <1>3, <2>1, OlderCounts
  <2>5. age[f] < Never - 1 => age'[f] = age[f] + 1
    BY <1>3, <2>1, OlderCounts
  <2> QED
    BY <1>3, <2>1, <2>2, <2>3, <2>4, <2>5
<1>7. ConsoleAhead' /\ AdminPageTrue'
  BY DEF Inv, ConsoleAhead, AdminPageTrue, Pending, Tick, netVars, adminVars
<1> QED
  BY <1>1, <1>2, <1>4, <1>5, <1>6, <1>7 DEF Inv

\* A browser changes where it is, and the balancer's count of clients.
LEMMA BrowserKeepsInv ==
  ASSUME Inv, NEW b \in Browser,
         Connect(b) \/ Accept(b) \/ Redirect(b) \/ Leave(b)
  PROVE  Inv'
<1> USE Numbers
<1>1. /\ num_client' \in 0 .. MAX_CLIENTS
      /\ at' \in [Browser -> Front \union {Away, Queued, Accepted}]
      /\ UNCHANGED <<up, lbVars, netVars, adminVars, events, since>>
  <2>1. CASE Connect(b)
    BY <2>1 DEF Inv, TypeOK, Connect, Moves
  <2>2. CASE Accept(b)
    BY <2>2 DEF Inv, TypeOK, Accept, Moves
  <2>3. CASE Redirect(b)
    <3>1. (IF ChoosePort \in up THEN ChoosePort ELSE Away)
            \in Front \union {Away, Queued, Accepted}
      BY DEF Inv, TypeOK
    <3> QED
      BY <2>3, <3>1 DEF Inv, TypeOK, Redirect, Moves
  <2>4. CASE Leave(b)
    BY <2>4 DEF Inv, TypeOK, Leave, Moves
  <2> QED
    BY <2>1, <2>2, <2>3, <2>4
<1>2. TypeOK'
  BY <1>1 DEF Inv, TypeOK, lbVars, netVars, adminVars
<1>3. EventsBound' /\ AliveWasHeard' /\ GoneIsSilent'
  BY <1>1 DEF Inv, EventsBound, AliveWasHeard, GoneIsSilent, lbVars, netVars,
              adminVars
<1>4. HeartbeatAnswered' /\ OfferedInTime'
  BY <1>1 DEF Inv, HeartbeatAnswered, OfferedInTime, InFlight, lbVars, netVars
<1>5. ConsoleAhead' /\ AdminPageTrue'
  BY <1>1 DEF Inv, ConsoleAhead, AdminPageTrue, Pending, netVars, adminVars
<1> QED
  BY <1>2, <1>3, <1>4, <1>5 DEF Inv

\* The console sends ENABLE or DISABLE and sets the page to what will follow,
\* or cannot tell if an earlier request is under way.
LEMMA AdminRequestKeepsInv ==
  ASSUME Inv, NEW f \in Front, AdminRequest(f)
  PROVE  Inv'
<1> USE Numbers
<1>1. \A g \in Front : /\ starting[g] <= events /\ disable[g] <= events
                       /\ starting[g] \in Nat /\ disable[g] \in Nat
  BY DEF Inv, TypeOK, EventsBound
<1>2. events \in Nat /\ events' = events + 1 /\ events' <= MaxEvents
  BY DEF Inv, EventsBound, AdminRequest, Event
<1>3. /\ starting' \in [Front -> 0 .. events']
      /\ disable' \in [Front -> 0 .. events']
      /\ isDead' \in [Front -> BOOLEAN]
  <2>1. CASE Enable(f)
    BY <1>1, <1>2, <2>1 DEF Inv, TypeOK, Enable
  <2>2. CASE Disable(f)
    BY <1>1, <1>2, <2>2 DEF Inv, TypeOK, Disable
  <2> QED
    BY <2>1, <2>2 DEF AdminRequest
<1>4. TypeOK'
  BY <1>2, <1>3 DEF Inv, TypeOK, AdminRequest, Overlaps, lbVars, clientVars
<1>5. EventsBound'
  BY <1>2, <1>3 DEF EventsBound
<1>6. AliveWasHeard' /\ GoneIsSilent'
  BY DEF Inv, AliveWasHeard, GoneIsSilent, AdminRequest, lbVars
<1>7. HeartbeatAnswered' /\ OfferedInTime'
  BY DEF Inv, HeartbeatAnswered, OfferedInTime, InFlight, AdminRequest, lbVars
<1>8. \A g \in Front : g # f => /\ starting'[g] = starting[g]
                                /\ disable'[g] = disable[g]
                                /\ isDead'[g] = isDead[g]
                                /\ g \in untold' <=> g \in untold
  <2>1. CASE Enable(f)
    BY <2>1 DEF Inv, TypeOK, AdminRequest, Enable, Overlaps
  <2>2. CASE Disable(f)
    BY <2>2 DEF Inv, TypeOK, AdminRequest, Disable, Overlaps
  <2> QED
    BY <2>1, <2>2 DEF AdminRequest
<1>9. f \notin untold' =>
        /\ starting[f] = 0 /\ disable[f] = 0
        /\ \/ /\ starting'[f] = 1 /\ disable'[f] = 0 /\ ~isDead'[f]
           \/ /\ starting'[f] = 0 /\ disable'[f] = (IF f \in up THEN 1 ELSE 0)
              /\ isDead'[f]
  <2> SUFFICES ASSUME f \notin untold'
               PROVE  /\ starting[f] = 0 /\ disable[f] = 0
                      /\ \/ /\ starting'[f] = 1 /\ disable'[f] = 0
                            /\ ~isDead'[f]
                         \/ /\ starting'[f] = 0
                            /\ disable'[f] = (IF f \in up THEN 1 ELSE 0)
                            /\ isDead'[f]
    OBVIOUS
  <2>1. starting[f] = 0 /\ disable[f] = 0
    BY <1>1 DEF AdminRequest, Overlaps, Pending
  <2>2. CASE Enable(f)
    BY <2>1, <2>2 DEF Inv, TypeOK, Enable
  <2>3. CASE Disable(f)
    BY <2>1, <2>3 DEF Inv, TypeOK, Disable
  <2> QED
    BY <2>1, <2>2, <2>3 DEF AdminRequest
<1>10. up' = up
  BY DEF AdminRequest
<1>11. ConsoleAhead'
  <2> SUFFICES ASSUME NEW g \in Front, g \notin untold'
               PROVE  /\ starting'[g] <= 1 /\ disable'[g] <= 1
                      /\ starting'[g] = 0 \/ disable'[g] = 0
                      /\ starting'[g] = 1 => ~isDead'[g]
                      /\ disable'[g] = 1 => isDead'[g] /\ g \in up
    BY <1>10 DEF ConsoleAhead
  <2>1. CASE g = f
    BY <1>9, <2>1
  <2>2. CASE g # f
    BY <1>8, <2>2 DEF Inv, ConsoleAhead
  <2> QED
    BY <2>1, <2>2
<1>12. AdminPageTrue'
  <2> SUFFICES ASSUME NEW g \in Front, g \notin untold',
                      ~(starting'[g] > 0 \/ disable'[g] > 0)
               PROVE  isDead'[g] = (g \notin up)
    BY <1>10 DEF AdminPageTrue, Pending
  <2>1. CASE g = f
    BY <1>3, <1>9, <2>1
  <2>2. CASE g # f
    BY <1>8, <2>2 DEF Inv, AdminPageTrue, Pending
  <2> QED
    BY <2>1, <2>2
<1> QED
  BY <1>4, <1>5, <1>6, <1>7, <1>11, <1>12 DEF Inv

\* What holds when a frontend has gone, by a DISABLE or by itself.
LEMMA DownEffect ==
  ASSUME Inv, NEW f \in Front, Down(f), UNCHANGED <<lbVars, pong, lost>>
  PROVE  /\ GoneIsSilent' /\ HeartbeatAnswered' /\ OfferedInTime'
         /\ AliveWasHeard'
<1> USE Numbers
<1>1. GoneIsSilent'
  BY DEF Inv, TypeOK, GoneIsSilent, Down, lbVars
<1>2. HeartbeatAnswered' /\ OfferedInTime'
  BY DEF Inv, TypeOK, HeartbeatAnswered, OfferedInTime, InFlight, Down, lbVars
<1>3. AliveWasHeard'
  BY DEF Inv, AliveWasHeard, lbVars
<1> QED
  BY <1>1, <1>2, <1>3

\* The types of what changes when a frontend goes.
LEMMA DownType ==
  ASSUME Inv, NEW f \in Front, Down(f)
  PROVE  /\ up' \subseteq Front
         /\ since' \in [Front -> 0 .. Never]
         /\ at' \in [Browser -> Front \union {Away, Queued, Accepted}]
         /\ ping' \in [Front -> 0 .. 1]
         /\ disable' \in [Front -> 0 .. MaxEvents]
         /\ \A g \in Front : disable'[g] = IF g = f THEN 0 ELSE disable[g]
<1> USE Numbers
<1>1. up' \subseteq Front /\ since' \in [Front -> 0 .. Never]
  BY DEF Inv, TypeOK, Down
<1>2. at' \in [Browser -> Front \union {Away, Queued, Accepted}]
  BY DEF Inv, TypeOK, Down
<1>3. /\ ping' \in [Front -> 0 .. 1]
      /\ disable' \in [Front -> 0 .. MaxEvents]
      /\ \A g \in Front : disable'[g] = IF g = f THEN 0 ELSE disable[g]
  BY DEF Inv, TypeOK, Down
<1> QED
  BY <1>1, <1>2, <1>3

\* The SIGINT handler. The page shows the frontend as dead already.
LEMMA HandleDisableKeepsInv ==
  ASSUME Inv, NEW f \in Front, HandleDisable(f)
  PROVE  Inv'
<1> USE Numbers
<1>0. Down(f) /\ up' = up \ {f}
  BY DEF HandleDisable, Down
<1>1. TypeOK'
  BY <1>0, DownType DEF Inv, TypeOK, HandleDisable, lbVars, adminVars
<1>2. EventsBound'
  BY <1>0, DownType DEF Inv, EventsBound, HandleDisable, adminVars
<1>3. GoneIsSilent' /\ HeartbeatAnswered' /\ OfferedInTime' /\ AliveWasHeard'
  BY <1>0, DownEffect DEF HandleDisable
<1>4. ConsoleAhead'
  BY <1>0, DownType DEF Inv, TypeOK, ConsoleAhead, HandleDisable, adminVars
<1>5. AdminPageTrue'
  <2> SUFFICES ASSUME NEW g \in Front, g \notin untold,
                      ~(starting[g] > 0 \/ disable'[g] > 0)
               PROVE  isDead[g] = (g \notin up')
    BY DEF AdminPageTrue, Pending, HandleDisable, adminVars
  <2>1. CASE g = f
    <3>1. disable[f] = 1
      BY <2>1 DEF Inv, TypeOK, ConsoleAhead, HandleDisable
    <3>2. isDead[f]
      BY <2>1, <3>1 DEF Inv, ConsoleAhead
    <3>3. isDead[f] \in BOOLEAN
      BY DEF Inv, TypeOK
    <3> QED
      BY <1>0, <2>1, <3>2, <3>3
  <2>2. CASE g # f
    BY <1>0, <2>2, DownType DEF Inv, AdminPageTrue, Pending
  <2> QED
    BY <2>1, <2>2
<1> QED
  BY <1>1, <1>2, <1>3, <1>4, <1>5 DEF Inv

\* A frontend dies by itself: the console cannot know of it.
LEMMA CrashKeepsInv ==
  ASSUME Inv, NEW f \in Front, Crash(f)
  PROVE  Inv'
<1> USE Numbers
<1>0. Down(f) /\ up' = up \ {f}
  BY DEF Crash, Down
<1>1. TypeOK'
  BY <1>0, DownType DEF Inv, TypeOK, Crash, Event, lbVars
<1>2. EventsBound'
  BY <1>0, DownType DEF Inv, TypeOK, EventsBound, Crash, Event
<1>3. GoneIsSilent' /\ HeartbeatAnswered' /\ OfferedInTime' /\ AliveWasHeard'
  BY <1>0, DownEffect DEF Crash
<1>4. ConsoleAhead'
  BY <1>0, DownType DEF Inv, TypeOK, ConsoleAhead, Crash
<1>5. AdminPageTrue'
  BY <1>0, DownType DEF Inv, TypeOK, AdminPageTrue, Pending, Crash
<1> QED
  BY <1>1, <1>2, <1>3, <1>4, <1>5 DEF Inv

\* A process that was started binds the port, or finds it taken and exits.
LEMMA BindKeepsInv ==
  ASSUME Inv, NEW f \in Front, Bind(f)
  PROVE  Inv'
<1> USE Numbers
<1>0. \A g \in Front : starting'[g] = IF g = f THEN starting[f] - 1
                                      ELSE starting[g]
  BY DEF Inv, TypeOK, Bind
<1>1. TypeOK'
  BY DEF Inv, TypeOK, Bind, lbVars, netVars, clientVars
<1>2. EventsBound'
  BY <1>0 DEF Inv, TypeOK, EventsBound, Bind, netVars
<1>3. AliveWasHeard'
  BY DEF Inv, AliveWasHeard, Bind, lbVars
<1>4. GoneIsSilent'
  BY DEF Inv, TypeOK, GoneIsSilent, Bind, lbVars, netVars
<1>5. HeartbeatAnswered' /\ OfferedInTime'
  BY DEF Inv, TypeOK, HeartbeatAnswered, OfferedInTime, InFlight, Bind,
         lbVars, netVars
<1>6. ConsoleAhead'
  BY <1>0 DEF Inv, TypeOK, ConsoleAhead, Bind, netVars
<1>7. AdminPageTrue'
  <2> SUFFICES ASSUME NEW g \in Front, g \notin untold,
                      ~(starting'[g] > 0 \/ disable[g] > 0)
               PROVE  isDead[g] = (g \notin up')
    BY DEF AdminPageTrue, Pending, Bind, netVars
  <2>1. CASE g = f
    <3>1. starting[f] = 1
      BY <1>0, <2>1 DEF Inv, TypeOK, ConsoleAhead, Bind
    <3>2. ~isDead[f]
      BY <2>1, <3>1 DEF Inv, ConsoleAhead
    <3>3. f \in up' /\ isDead[f] \in BOOLEAN
      BY DEF Inv, TypeOK, Bind
    <3> QED
      BY <2>1, <3>2, <3>3
  <2>2. CASE g # f
    BY <1>0, <2>2 DEF Inv, AdminPageTrue, Pending, Bind
  <2> QED
    BY <2>1, <2>2
<1> QED
  BY <1>1, <1>2, <1>3, <1>4, <1>5, <1>6, <1>7 DEF Inv

\* The facts above, put together for any step.
LEMMA NextKeepsInv == Inv /\ [Next]_vars => Inv'
<1> SUFFICES ASSUME Inv, [Next]_vars
             PROVE  Inv'
  OBVIOUS
<1>1. CASE SendHeartbeat \/ CheckTimeout \/ Tick
  BY <1>1, SendHeartbeatKeepsInv, CheckTimeoutKeepsInv, TickKeepsInv
<1>2. ASSUME NEW f \in Front,
             \/ HandleHeartbeat(f) \/ ReceiveHeartbeat(f) \/ Lose(f)
             \/ AdminRequest(f) \/ HandleDisable(f) \/ Bind(f) \/ Crash(f)
      PROVE  Inv'
  BY <1>2, HandleHeartbeatKeepsInv, ReceiveHeartbeatKeepsInv, LoseKeepsInv,
     AdminRequestKeepsInv, HandleDisableKeepsInv, BindKeepsInv, CrashKeepsInv
<1>3. ASSUME NEW b \in Browser,
             Connect(b) \/ Accept(b) \/ Redirect(b) \/ Leave(b)
      PROVE  Inv'
  BY <1>3, BrowserKeepsInv
<1>4. CASE UNCHANGED vars
  <2> USE <1>4 DEF vars, lbVars, netVars, adminVars, clientVars
  <2>1. TypeOK' /\ EventsBound' /\ AliveWasHeard' /\ GoneIsSilent'
    BY DEF Inv, TypeOK, EventsBound, AliveWasHeard, GoneIsSilent
  <2>2. HeartbeatAnswered' /\ OfferedInTime'
    BY DEF Inv, HeartbeatAnswered, OfferedInTime, InFlight
  <2>3. ConsoleAhead' /\ AdminPageTrue'
    BY DEF Inv, ConsoleAhead, AdminPageTrue, Pending
  <2> QED
    BY <2>1, <2>2, <2>3 DEF Inv
<1> QED
  BY <1>1, <1>2, <1>3, <1>4 DEF Next

-----------------------------------------------------------------------------
(* The theorems.                                                           *)

\* What the balancer and the console believe of the frontends stays
\* consistent with when they last heard of them.
THEOREM Invariance == Spec => []Inv
<1>1. Init => Inv
  BY InitEstablishesInv
<1>2. Inv /\ [Next]_vars => Inv'
  BY NextKeepsInv
<1> QED
  BY <1>1, <1>2, PTL DEF Spec

\* The variables keep their types: the load of a frontend is a number of
\* browsers, and num_client stays within client_socks.
THEOREM TypeCorrect == Spec => []TypeOK
<1>1. Inv => TypeOK
  BY DEF Inv
<1> QED
  BY <1>1, Invariance, PTL

\* checkTimeout catches up with a frontend that is gone, for any timeout and
\* any delay of the threads.
THEOREM GoneIsGivenUp == Spec => []DeadNotOffered
<1>1. Inv => DeadNotOffered
  <2> SUFFICES ASSUME Inv, NEW f \in Front, server_status[f] = 1, f \notin up
               PROVE  since[f] <= TIMEOUT_SECONDS + 1 + Lag
    BY DEF DeadNotOffered
  <2>1. since[f] <= age[f] /\ age[f] <= TIMEOUT_SECONDS + sinceCheck
    BY DEF Inv, GoneIsSilent, AliveWasHeard
  <2>2. /\ since[f] \in Nat /\ age[f] \in Nat /\ sinceCheck \in Nat
        /\ sinceCheck <= 1 + Lag
    BY Numbers DEF Inv, TypeOK
  <2> QED
    BY <2>1, <2>2, Numbers
<1> QED
  BY <1>1, Invariance, PTL

\* checkTimeout gives up no frontend that answers: the timeout is at least as
\* long as the longest time between two heartbeats.
THEOREM AnsweringIsOffered == Spec => []NoFalseAlarm
<1>1. Inv => NoFalseAlarm
  BY DEF Inv, OfferedInTime, NoFalseAlarm
<1> QED
  BY <1>1, Invariance, PTL

\* The status shown by the admin page is that of the frontend, whatever the
\* order of requests, datagrams and starts.
THEOREM PageIsTrue == Spec => []AdminPageTrue
<1>1. Inv => AdminPageTrue
  BY DEF Inv
<1> QED
  BY <1>1, Invariance, PTL
=============================================================================
