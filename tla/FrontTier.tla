------------------------------ MODULE FrontTier ------------------------------
(***************************************************************************)
(* The load balancer (frontend/loadbalancer.cc), the heartbeat side of the  *)
(* frontend servers (frontend/frontendserver.cc) and the admin console's    *)
(* requests to them (frontend/admin.cc). Browsers connect to the balancer,  *)
(* which redirects them to the frontend it believes to have the fewest      *)
(* clients; the admin console starts frontends and stops them with a        *)
(* datagram, and shows which ones it takes for dead.                        *)
(*                                                                         *)
(* Time is counted in seconds. A datagram is lost or arrives within the     *)
(* second in which it was sent, and a thread that sleeps may oversleep by   *)
(* up to Lag seconds.                                                       *)
(***************************************************************************)
EXTENDS Naturals, FiniteSets, FiniteSetsExt

CONSTANTS N,                \* frontends, in the order of their ports
          Browser,
          Away, Queued, Accepted,   \* where a browser is, other than at a frontend
          MAX_CLIENTS,
          TIMEOUT_SECONDS,
          HEARTBEAT,        \* seconds between two heartbeats
          Lag,
          Disturbed,        \* frontends that the events below befall
          MaxEvents         \* bound: datagrams lost, requests to the admin
                            \* console and frontends that die by themselves

ASSUME TierAssumption ==
    /\ Disturbed \subseteq 1 .. N
    /\ IsFiniteSet(Browser)
    /\ {N, MAX_CLIENTS} \subseteq Nat \ {0}
    /\ {TIMEOUT_SECONDS, HEARTBEAT, Lag, MaxEvents} \subseteq Nat
    /\ HEARTBEAT + Lag <= TIMEOUT_SECONDS

Front == 1 .. N

VARIABLES
    up,             \* frontends that are bound to their UDP port
    starting,       \* processes the console has started, which do not yet
    server_status, server_load,
    age,            \* seconds since lastHeartbeat, or Never
    sinceSend, sinceCheck,  \* seconds since the threads of the balancer ran
    ping, pong,     \* heartbeats and replies in flight
    disable,        \* DISABLE datagrams in flight
    isDead,         \* of the console
    num_client,     \* of the balancer
    at,             \* where a browser is
    lost,           \* some heartbeat or reply was lost
    events,
    since,          \* seconds since a frontend went up or down
    untold          \* frontends of which the console cannot know: they died by
                    \* themselves, a datagram was lost, or requests overlapped

lbVars == <<server_status, server_load, age, sinceSend, sinceCheck>>
netVars == <<ping, pong, disable, lost>>
adminVars == <<starting, isDead, untold>>
clientVars == <<num_client, at>>
vars == <<up, lbVars, netVars, adminVars, clientVars, events, since>>

Never == TIMEOUT_SECONDS + Lag + 3
NoReply == Cardinality(Browser) + 1

\* The num_client of a frontend.
Load(f) == Cardinality({b \in Browser : at[b] = f})

TypeOK ==
    /\ up \subseteq Front /\ untold \subseteq Front
    /\ starting \in [Front -> 0 .. MaxEvents]
    /\ server_status \in [Front -> {0, 1}]
    /\ server_load \in [Front -> 0 .. Cardinality(Browser)]
    /\ age \in [Front -> 0 .. Never] /\ since \in [Front -> 0 .. Never]
    /\ ping \in [Front -> 0 .. 1] /\ pong \in [Front -> 0 .. NoReply]
    /\ disable \in [Front -> 0 .. MaxEvents]
    /\ isDead \in [Front -> BOOLEAN]
    /\ num_client \in 0 .. MAX_CLIENTS
    /\ at \in [Browser -> Front \union {Away, Queued, Accepted}]
    /\ sinceSend \in 0 .. HEARTBEAT + Lag /\ sinceCheck \in 0 .. 1 + Lag

\* The console takes every frontend for dead; some may have been started by
\* hand.
Init ==
    /\ up \in SUBSET Front
    /\ starting = [f \in Front |-> 0]
    /\ server_status = [f \in Front |-> 0]
    /\ server_load = [f \in Front |-> 0]
    /\ age = [f \in Front |-> Never]
    /\ sinceSend = HEARTBEAT /\ sinceCheck = 1
    /\ ping = [f \in Front |-> 0]
    /\ pong = [f \in Front |-> NoReply]
    /\ disable = [f \in Front |-> 0]
    /\ isDead = [f \in Front |-> TRUE]
    /\ num_client = 0
    /\ at = [b \in Browser |-> Away]
    /\ lost = FALSE /\ events = 0
    /\ since = [f \in Front |-> 0]
    /\ untold = up

Event(f) == f \in Disturbed /\ events < MaxEvents /\ events' = events + 1

-----------------------------------------------------------------------------
(* Heartbeats.                                                             *)

SendHeartbeat ==
    /\ sinceSend >= HEARTBEAT
    /\ sinceSend' = 0
    /\ ping' = [f \in Front |-> IF f \in up THEN 1 ELSE 0]
    /\ UNCHANGED <<up, server_status, server_load, age, sinceCheck, pong,
                   disable, lost, adminVars, clientVars, events, since>>

\* handleHeartbeat answers with the number of clients of the moment.
HandleHeartbeat(f) ==
    /\ f \in up /\ ping[f] = 1
    /\ ping' = [ping EXCEPT ![f] = 0]
    /\ pong' = [pong EXCEPT ![f] = Load(f)]
    /\ UNCHANGED <<up, lbVars, disable, lost, adminVars, clientVars, events,
                   since>>

\* Faulty variant: the load is taken over from a frontend's first reply only.
ReceiveHeartbeatFirst(f) ==
    /\ pong[f] # NoReply
    /\ age' = [age EXCEPT ![f] = 0]
    /\ server_status' = [server_status EXCEPT ![f] = 1]
    /\ server_load' = IF server_status[f] = 1 THEN server_load
                      ELSE [server_load EXCEPT ![f] = pong[f]]
    /\ pong' = [pong EXCEPT ![f] = NoReply]
    /\ UNCHANGED <<up, sinceSend, sinceCheck, ping, disable, lost, adminVars,
                   clientVars, events, since>>

ReceiveHeartbeat(f) ==
    /\ pong[f] # NoReply
    /\ age' = [age EXCEPT ![f] = 0]
    /\ server_status' = [server_status EXCEPT ![f] = 1]
    /\ server_load' = [server_load EXCEPT ![f] = pong[f]]
    /\ pong' = [pong EXCEPT ![f] = NoReply]
    /\ UNCHANGED <<up, sinceSend, sinceCheck, ping, disable, lost, adminVars,
                   clientVars, events, since>>

\* Faulty variants: the difference is taken the wrong way round; the period of
\* the heartbeats is taken for the timeout.
ExpiredNever(f) == FALSE
ExpiredEarly(f) == age[f] # Never /\ age[f] >= HEARTBEAT

Expired(f) == age[f] # Never /\ age[f] > TIMEOUT_SECONDS

CheckTimeout ==
    /\ sinceCheck >= 1
    /\ sinceCheck' = 0
    /\ server_status' = [f \in Front |-> IF Expired(f) THEN 0 ELSE server_status[f]]
    /\ UNCHANGED <<up, server_load, age, sinceSend, netVars, adminVars,
                   clientVars, events, since>>

Lose(f) ==
    /\ Event(f)
    /\ \/ /\ ping[f] = 1 /\ ping' = [ping EXCEPT ![f] = 0]
          /\ lost' = TRUE /\ UNCHANGED <<pong, disable, untold>>
       \/ /\ pong[f] # NoReply /\ pong' = [pong EXCEPT ![f] = NoReply]
          /\ lost' = TRUE /\ UNCHANGED <<ping, disable, untold>>
       \/ /\ disable[f] > 0 /\ disable' = [disable EXCEPT ![f] = @ - 1]
          /\ untold' = untold \union {f}
          /\ UNCHANGED <<ping, pong, lost>>
    /\ UNCHANGED <<up, lbVars, starting, isDead, clientVars, since>>

Older(n) == IF n < Never - 1 THEN n + 1 ELSE n

\* A second passes. What was in flight has arrived, and no thread has slept for
\* too long.
Tick ==
    /\ \A f \in Front : ping[f] = 0 /\ pong[f] = NoReply /\ disable[f] = 0
    /\ sinceSend < HEARTBEAT + Lag /\ sinceCheck < 1 + Lag
    /\ sinceSend' = sinceSend + 1 /\ sinceCheck' = sinceCheck + 1
    /\ age' = [f \in Front |-> IF age[f] = Never THEN Never ELSE Older(age[f])]
    /\ since' = [f \in Front |-> Older(since[f])]
    /\ UNCHANGED <<up, server_status, server_load, netVars, adminVars,
                   clientVars, events>>

-----------------------------------------------------------------------------
(* Browsers.                                                               *)

Moves(b, from, to) == at[b] = from /\ at' = [at EXCEPT ![b] = to]

Connect(b) ==
    /\ Moves(b, Away, Queued)
    /\ UNCHANGED <<up, lbVars, netVars, adminVars, num_client, events, since>>

\* Faulty variant: the last slot is not used.
AcceptButLast(b) ==
    /\ num_client < MAX_CLIENTS - 1
    /\ num_client' = num_client + 1
    /\ Moves(b, Queued, Accepted)
    /\ UNCHANGED <<up, lbVars, netVars, adminVars, events, since>>

\* The main loop of the balancer. Nothing ever decrements num_client or frees
\* a slot of client_socks: the thread of a browser that has gone goes on
\* reading.
Accept(b) ==
    /\ num_client < MAX_CLIENTS
    /\ num_client' = num_client + 1
    /\ Moves(b, Queued, Accepted)
    /\ UNCHANGED <<up, lbVars, netVars, adminVars, events, since>>

\* choose_port: the least load among the live, the first port among equals and
\* when none is alive.
ChoosePort ==
    LET live == {f \in Front : server_status[f] = 1}
        least == {f \in live : \A g \in live : server_load[f] <= server_load[g]}
    IN  IF live = {} THEN 1 ELSE Min(least)

\* redirectReply; the browser follows it if the frontend accepts connections.
Redirect(b) ==
    /\ Moves(b, Accepted, IF ChoosePort \in up THEN ChoosePort ELSE Away)
    /\ UNCHANGED <<up, lbVars, netVars, adminVars, num_client, events, since>>

Leave(b) ==
    /\ \E f \in Front : Moves(b, f, Away)
    /\ UNCHANGED <<up, lbVars, netVars, adminVars, num_client, events, since>>

-----------------------------------------------------------------------------
(* The admin console, and frontends that come and go.                      *)

\* ENABLE or DISABLE is under way for f.
Pending(f) == starting[f] > 0 \/ disable[f] > 0

Overlaps(f) == untold' = IF Pending(f) THEN untold \union {f} ELSE untold \ {f}

\* Faulty variant: the page is not updated.
EnableUnmarked(f) ==
    /\ starting' = [starting EXCEPT ![f] = @ + 1]
    /\ UNCHANGED <<isDead, disable>>

\* The datagram "ENABLE" has no effect on a frontend; one more process is
\* started, running or not.
Enable(f) ==
    /\ starting' = [starting EXCEPT ![f] = @ + 1]
    /\ isDead' = [isDead EXCEPT ![f] = FALSE]
    /\ UNCHANGED disable

\* The datagram goes nowhere when nobody is bound to the port.
Disable(f) ==
    /\ disable' = IF f \in up THEN [disable EXCEPT ![f] = @ + 1] ELSE disable
    /\ isDead' = [isDead EXCEPT ![f] = TRUE]
    /\ UNCHANGED starting

\* POST /<port of f>.
AdminRequest(f) ==
    /\ Event(f)
    /\ Enable(f) \/ Disable(f)
    /\ Overlaps(f)
    /\ UNCHANGED <<up, lbVars, ping, pong, lost, clientVars, since>>

Down(f) ==
    /\ up' = up \ {f}
    /\ since' = [since EXCEPT ![f] = 0]
    /\ at' = [b \in Browser |-> IF at[b] = f THEN Away ELSE at[b]]
    /\ ping' = [ping EXCEPT ![f] = 0]
    /\ disable' = [disable EXCEPT ![f] = 0]

\* raise(SIGINT): the handler closes the connections and exits.
HandleDisable(f) ==
    /\ f \in up /\ disable[f] > 0
    /\ Down(f)
    /\ UNCHANGED <<lbVars, pong, lost, adminVars, num_client, events>>

\* A process that finds the UDP port taken exits.
Bind(f) ==
    /\ starting[f] > 0
    /\ starting' = [starting EXCEPT ![f] = @ - 1]
    /\ up' = up \union {f}
    /\ since' = IF f \in up THEN since ELSE [since EXCEPT ![f] = 0]
    /\ UNCHANGED <<lbVars, netVars, isDead, untold, clientVars, events>>

Crash(f) ==
    /\ f \in up
    /\ Event(f)
    /\ Down(f)
    /\ untold' = untold \union {f}
    /\ UNCHANGED <<lbVars, pong, lost, starting, isDead, num_client>>

-----------------------------------------------------------------------------

Next ==
    \/ SendHeartbeat \/ CheckTimeout \/ Tick
    \/ \E f \in Front :
          \/ HandleHeartbeat(f) \/ ReceiveHeartbeat(f) \/ Lose(f)
          \/ AdminRequest(f) \/ HandleDisable(f) \/ Bind(f) \/ Crash(f)
    \/ \E b \in Browser : Connect(b) \/ Accept(b) \/ Redirect(b) \/ Leave(b)

\* The threads of the balancer and of the frontends run, a process that was
\* started gets to its bind, and time passes. Nothing is assumed of browsers,
\* administrators, losses and events.
Fairness ==
    /\ WF_vars(SendHeartbeat) /\ WF_vars(CheckTimeout) /\ WF_vars(Tick)
    /\ \A f \in Front : /\ WF_vars(HandleHeartbeat(f))
                        /\ WF_vars(ReceiveHeartbeat(f))
                        /\ WF_vars(HandleDisable(f))
                        /\ WF_vars(Bind(f))
    /\ \A b \in Browser : WF_vars(Accept(b)) /\ WF_vars(Redirect(b))

Spec == Init /\ [][Next]_vars /\ Fairness

-----------------------------------------------------------------------------
(* Properties.                                                             *)

\* The balancer does not go on offering a frontend that is gone (checkTimeout
\* against the last reply): after the timeout and one round of the checker it
\* is no longer among those choose_port looks at.
DeadNotOffered ==
    \A f \in Front : server_status[f] = 1 /\ f \notin up =>
        since[f] <= TIMEOUT_SECONDS + 1 + Lag

\* While no datagram is lost, a frontend is offered one heartbeat after it has
\* come up, and as long as it stays up (sendHeartbeat, handleHeartbeat and
\* receiveHeartbeat keep ahead of checkTimeout).
NoFalseAlarm ==
    ~lost => \A f \in up : since[f] > HEARTBEAT + Lag => server_status[f] = 1

\* The admin page shows a frontend as dead exactly when it is, once what the
\* console has set going is over, unless the frontend died by itself or was
\* started by hand, the datagram was lost, or ENABLE and DISABLE overlapped.
AdminPageTrue ==
    \A f \in Front \ untold : ~Pending(f) => isDead[f] = (f \notin up)

\* The load by which choose_port decides is eventually that of the frontend,
\* if it stays up and its clients stay the same.
TracksLoad ==
    \A f \in Front, n \in 0 .. Cardinality(Browser) :
        <>[](f \in up /\ Load(f) = n)
            => <>[](server_status[f] = 1 /\ server_load[f] = n)

\* A browser that connects to the balancer gets away from it, redirected, as
\* long as fewer than MAX_CLIENTS connections have been made since it started.
ServedUntilFull ==
    \A b \in Browser :
        at[b] \in {Queued, Accepted} ~>
            at[b] \notin {Queued, Accepted} \/ num_client = MAX_CLIENTS
=============================================================================
