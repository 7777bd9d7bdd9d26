------------------------------ MODULE Frontend ------------------------------
(***************************************************************************)
(* A frontend server (frontend/frontendserver.cc): the main loop that       *)
(* accepts browsers, one thread per connection, and the connections to the  *)
(* key-value store that the threads look up by number (readingHelper.cc).   *)
(* What a request asks of the store is in Drive.                            *)
(*                                                                         *)
(* A thread takes its number from num_client while the main loop counts it, *)
(* and nothing is locked: two threads may get the same number, and with it  *)
(* the same connection to the store.                                        *)
(***************************************************************************)
EXTENDS Drive, Integers, FiniteSets

CONSTANTS Conn,         \* connections of browsers
          MAX_CLIENTS,
          Setup         \* what the browsers ask for, what is stored, and the
                        \* bounds: how many writes the store may answer with
                        \* -ERR, and how often its server may fail;
                        \* and whether the browser sends the sid of the
                        \* connection (it has one cookie for all of them)

ASSUME FrontendAssumption ==
    /\ IsFiniteSet(Conn)
    /\ MAX_CLIENTS \in Nat \ {0}
    /\ \A x \in Setup : IsFiniteSet(DOMAIN x.store)

VARIABLES
    setup,
    running,        \* the process is
    client_socks, num_client,
    main,           \* the main loop: where it is, the connection, and the
                    \* value of num_client it has read
    pc, fd, seen,   \* of a thread: where it is, its socket, the value it read
    number,         \* currentClientNumber
    username, logged_in,
    requests,       \* what the browser has still to ask; the first is under way
    todo,           \* commands to come
    awaiting,       \* the command whose reply the thread waits for
    response,       \* the last reply, and the thread whose command it answers
    backend_socks,  \* by number, the connection to the store
    sockets,        \* the connections: commands and replies in flight
    store,
    refusals, deaths,
    raced,          \* an update of num_client was lost
    collided,       \* numbers that two threads have had at a time
    overlapped,     \* two requests that write were under way at a time
    given_up        \* values a request was to delete or to overwrite

loopVars == <<client_socks, num_client, main, fd, seen, raced>>
threadVars == <<number, username, logged_in, requests, todo, awaiting, response,
                overlapped, given_up>>
storeVars == <<backend_socks, sockets, store, refusals, deaths>>
vars == <<setup, running, loopVars, pc, threadVars, storeVars, collided>>

Slot == 1 .. MAX_CLIENTS
\* The vector has MAX_CLIENTS elements; a number may lie outside.
Index == -Cardinality(Conn) .. MAX_CLIENTS
InRange(c) == number[c] \in 0 .. MAX_CLIENTS - 1
NoConnection == 0           \* the socket of a Node is not initialised
Idle == Command("", <<>>, "")
Silence == [value |-> "", keys |-> <<>>, of |-> "none"]

Live(c) == pc[c] \in {"created", "running"}
\* Connections whose descriptor is in use, or still in a slot.
Open(c) == pc[c] \in {"accepted", "created", "running"}
Recorded(c) == pc[c] \in {"created", "running", "closed"}

TypeOK ==
    /\ setup \in Setup
    /\ client_socks \in [Slot -> 0 .. Cardinality(Conn)]
    /\ num_client \in Index
    /\ number \in [Conn -> Index]
    /\ backend_socks \in [Index -> 0 .. Len(sockets)]
    /\ \A c \in Conn : Open(c) => fd[c] \in 1 .. Cardinality(Conn)

Init ==
    /\ setup \in Setup
    /\ running = TRUE
    /\ client_socks = [i \in Slot |-> 0] /\ num_client = 0
    /\ main = [at |-> "full", conn |-> 0, seen |-> 0]
    /\ pc = [c \in Conn |-> IF c \in DOMAIN setup.requests THEN "queued" ELSE "gone"]
    /\ fd = [c \in Conn |-> 0] /\ seen = [c \in Conn |-> 0]
    /\ number = [c \in Conn |-> 0]
    /\ username = [c \in Conn |-> ""] /\ logged_in = [c \in Conn |-> FALSE]
    /\ requests = [c \in Conn |->
          IF c \in DOMAIN setup.requests THEN setup.requests[c] ELSE <<>>]
    /\ todo = [c \in Conn |-> <<>>]
    /\ awaiting = [c \in Conn |-> Idle]
    /\ response = [c \in Conn |-> Silence]
    /\ backend_socks = [i \in Index |-> NoConnection]
    /\ sockets = <<>>
    /\ store = setup.store
    /\ refusals = 0 /\ deaths = 0
    /\ raced = FALSE /\ collided = {} /\ overlapped = FALSE
    /\ given_up = {}

-----------------------------------------------------------------------------
(* The main loop.                                                          *)

Room == num_client < MAX_CLIENTS

Accept(c) ==
    /\ running /\ main.at = "full" /\ Room
    /\ pc[c] = "queued" /\ pc' = [pc EXCEPT ![c] = "accepted"]
    /\ fd' = [fd EXCEPT ![c] = Min({f \in 1 .. Cardinality(Conn) :
                                      \A d \in Conn : Open(d) => fd[d] # f})]
    /\ main' = [main EXCEPT !.at = "record", !.conn = c]
    /\ UNCHANGED <<setup, running, client_socks, num_client, seen, raced,
                   threadVars, storeVars, collided>>

\* The first free slot, and the thread. Without one the connection is left.
RecordSlot ==
    /\ running /\ main.at = "record"
    /\ LET free == {i \in Slot : client_socks[i] = 0}
           c == main.conn
       IN  IF free = {}
           THEN pc' = [pc EXCEPT ![c] = "left"] /\ UNCHANGED client_socks
           ELSE /\ pc' = [pc EXCEPT ![c] = "created"]
                /\ client_socks' = [client_socks EXCEPT ![Min(free)] = fd[c]]
    /\ main' = [main EXCEPT !.at = "read"]
    /\ UNCHANGED <<setup, running, num_client, fd, seen, raced, threadVars,
                   storeVars, collided>>

CountRead ==
    /\ running /\ main.at = "read"
    /\ main' = [main EXCEPT !.at = "write", !.seen = num_client]
    /\ UNCHANGED <<setup, running, client_socks, num_client, pc, fd, seen, raced,
                   threadVars, storeVars, collided>>

CountWrite ==
    /\ running /\ main.at = "write"
    /\ num_client' = main.seen + 1
    /\ raced' = (raced \/ num_client # main.seen)
    /\ main' = [at |-> "full", conn |-> 0, seen |-> 0]
    /\ UNCHANGED <<setup, running, client_socks, pc, fd, seen, threadVars,
                   storeVars, collided>>

-----------------------------------------------------------------------------
(* A thread begins and ends.                                               *)

Goes(c, from, to) ==
    /\ running
    /\ pc[c] = from
    /\ pc' = [pc EXCEPT ![c] = to]

ThreadStart(c) ==
    /\ Goes(c, "created", "running")
    /\ number' = [number EXCEPT ![c] = num_client]
    /\ collided' = IF \E d \in Conn : pc[d] = "running" /\ number[d] = num_client
                   THEN collided \union {num_client} ELSE collided
    /\ UNCHANGED <<setup, running, loopVars, username, logged_in, requests, todo,
                   awaiting, response, overlapped, given_up, storeVars>>

Resting(c) == pc[c] = "running" /\ todo[c] = <<>> /\ awaiting[c] = Idle

\* The browser has hung up. The descriptor is free before the slot is.
Close(c) ==
    /\ Resting(c) /\ requests[c] = <<>>
    /\ Goes(c, "running", "closed")
    /\ UNCHANGED <<setup, running, loopVars, threadVars, storeVars, collided>>

\* Faulty variant: the loop over the slots goes on after the first.
ClearSlots(c) ==
    /\ Goes(c, "closed", "cleared")
    /\ client_socks' = [i \in Slot |->
          IF client_socks[i] = fd[c] THEN 0 ELSE client_socks[i]]
    /\ UNCHANGED <<setup, running, num_client, main, fd, seen, raced, threadVars,
                   storeVars, collided>>

ClearSlot(c) ==
    /\ Goes(c, "closed", "cleared")
    /\ LET held == {i \in Slot : client_socks[i] = fd[c]}
       IN  client_socks' = IF held = {} THEN client_socks
                           ELSE [client_socks EXCEPT ![Min(held)] = 0]
    /\ UNCHANGED <<setup, running, num_client, main, fd, seen, raced, threadVars,
                   storeVars, collided>>

UncountRead(c) ==
    /\ Goes(c, "cleared", "uncounting")
    /\ seen' = [seen EXCEPT ![c] = num_client]
    /\ UNCHANGED <<setup, running, client_socks, num_client, main, fd, raced,
                   threadVars, storeVars, collided>>

UncountWrite(c) ==
    /\ Goes(c, "uncounting", "gone")
    /\ num_client' = seen[c] - 1
    /\ raced' = (raced \/ num_client # seen[c])
    /\ UNCHANGED <<setup, running, client_socks, main, fd, seen, threadVars,
                   storeVars, collided>>

-----------------------------------------------------------------------------
(* Requests.                                                               *)

\* A request of c that may change the drive is under way.
Changing(c) == /\ pc[c] = "running" /\ ~Resting(c)
               /\ Head(requests[c]).op \in Changes

\* The values that request r of user u is to delete or to overwrite. The files
\* of a folder that is moved are among them, and a file moved to its own place.
GivesUp(r, u) ==
    LET from == Content(u, Path(r.item, r.name))
        to == Content(u, IF r.op = "RENAME" THEN Path(r.item, r.to)
                         ELSE IF r.op = "MOVE" THEN Target(r)
                         ELSE Path(r.item, r.name))
        keys == CASE r.op = "DELETE" -> Matching(store, from)
                  [] r.op = "MOVE" /\ r.folder -> Matching(store, from)
                  [] r.op = "DELETEMAIL" -> {r.name}
                  [] r.op \in {"SIGNUP", "NEWPASS"} -> {Password(r.user)}
                  [] OTHER -> IF r.op \in Changes THEN {to} ELSE {}
    IN  {store[k] : k \in keys \intersect DOMAIN store}

\* The comparison of the cookie and the sid is made after the request has been
\* carried out, and decides about the page only.
Allowed(c) == logged_in[c] /\ setup.cookie

\* The request has been read.
Begin(c) ==
    /\ running /\ Resting(c) /\ requests[c] # <<>>
    /\ LET r == Head(requests[c])
           u == IF r.op \in {"MENU", "SIGNUP"} THEN r.user ELSE username[c]
           script == Operation(r, u) \o IF Allowed(c) THEN Page(r, u) ELSE <<>>
       IN  /\ username' = [username EXCEPT ![c] = u]
           /\ todo' = [todo EXCEPT ![c] = script]
           /\ requests' = IF script = <<>>
                          THEN [requests EXCEPT ![c] = Tail(@)] ELSE requests
           /\ overlapped' = (overlapped \/
                 (r.op \in Changes /\ \E d \in Conn : Changing(d)))
           /\ given_up' = given_up \union GivesUp(r, u)
    /\ UNCHANGED <<setup, running, loopVars, pc, number, logged_in, awaiting,
                   response, storeVars, collided>>

\* Faulty variants: one connection for all threads; the first is always replaced.
ConnectedForAll(n) ==
    /\ sockets' = Append(sockets, [commands |-> <<>>, replies |-> <<>>,
                                   dead |-> FALSE])
    /\ backend_socks' = [i \in Index |-> Len(sockets) + 1]

ConnectedFirst(n) ==
    /\ sockets' = Append(sockets, [commands |-> <<>>, replies |-> <<>>,
                                   dead |-> FALSE])
    /\ backend_socks' = [backend_socks EXCEPT ![0] = Len(sockets) + 1]

\* connectToBackend: a new connection in the place of the old one.
Connected(n) ==
    /\ sockets' = Append(sockets, [commands |-> <<>>, replies |-> <<>>,
                                   dead |-> FALSE])
    /\ backend_socks' = [backend_socks EXCEPT ![n] = Len(sockets) + 1]

\* It fails when the server that the master names is gone, and the old one stays.
NotConnected == deaths > 0 /\ UNCHANGED <<sockets, backend_socks>>

Upcoming(c) == Head(todo[c])

ConnectToBackend(c) ==
    /\ running /\ awaiting[c] = Idle /\ todo[c] # <<>> /\ Upcoming(c) = Connect
    /\ Connected(number[c]) \/ NotConnected
    /\ todo' = [todo EXCEPT ![c] = Tail(@)]
    /\ UNCHANGED <<setup, running, loopVars, pc, number, username, logged_in,
                   requests, awaiting, response, overlapped, given_up, store,
                   refusals, deaths, collided>>

Message(c) ==
    [c |-> IF Upcoming(c).value = Reply
           THEN [Upcoming(c) EXCEPT !.value = response[c].value] ELSE Upcoming(c),
     of |-> c]

\* sendToBackendSocket. On a socket that was never set the send fails; then a
\* new connection is made, and the command is sent on the old one, or not at
\* all. On a connection whose other end is gone it is lost.
SendCommand(c) ==
    /\ running /\ awaiting[c] = Idle /\ todo[c] # <<>> /\ Upcoming(c) # Connect
    /\ LET k == backend_socks[number[c]]
       IN  IF k = NoConnection
           THEN Connected(number[c]) \/ NotConnected
           ELSE /\ sockets' = IF sockets[k].dead THEN sockets
                     ELSE [sockets EXCEPT ![k].commands = Append(@, Message(c))]
                /\ UNCHANGED backend_socks
    /\ awaiting' = [awaiting EXCEPT ![c] = Upcoming(c)]
    /\ todo' = [todo EXCEPT ![c] = Tail(@)]
    /\ UNCHANGED <<setup, running, loopVars, pc, number, username, logged_in,
                   requests, response, overlapped, given_up, store, refusals,
                   deaths, collided>>

\* The thread goes on with reply a, and to the next request after the last
\* command. The reply to MENU is compared with the password (authenticate).
GoesOn(c, a) ==
    LET r == Head(requests[c])
        rest == IF awaiting[c].value = "each" /\ a # Silence
                THEN Each(r, username[c], a.keys) \o todo[c] ELSE todo[c]
        ok == r.op = "MENU" /\ a.value = r.value
    IN  /\ awaiting' = [awaiting EXCEPT ![c] = Idle]
        /\ response' = [response EXCEPT ![c] = a]
        /\ todo' = [todo EXCEPT ![c] = rest]
        /\ IF rest # <<>> THEN UNCHANGED <<requests, username, logged_in>>
           ELSE /\ requests' = [requests EXCEPT ![c] = Tail(@)]
                /\ username' = IF r.op = "SIGNUP" \/ (r.op = "MENU" /\ ~ok)
                               THEN [username EXCEPT ![c] = ""] ELSE username
                /\ logged_in' = [logged_in EXCEPT ![c] = @ \/ ok]

\* readFromBackendSocket looks the connection up again. A recv may return
\* several replies that have arrived.
ReadResponse(c, n) ==
    /\ running /\ awaiting[c] # Idle
    /\ backend_socks[number[c]] # NoConnection
    /\ LET k == backend_socks[number[c]]
           arrived == sockets[k].replies
       IN  /\ n \in 1 .. Len(arrived)
           /\ GoesOn(c, IF n = 1 THEN arrived[1]
                        ELSE [arrived[1] EXCEPT !.value = Junk])
           /\ sockets' = [sockets EXCEPT ![k].replies =
                             SubSeq(@, n + 1, Len(@))]
    /\ UNCHANGED <<setup, running, loopVars, pc, number, overlapped, given_up,
                   backend_socks, store, refusals, deaths, collided>>

\* recv fails: a new connection is made, which counts as a failure, and the
\* reply is empty. Without one, or when recv returns 0, the thread tries again
\* for ever. A GET with an empty reply ends the process (substr).
ReadFails(c) ==
    /\ running /\ awaiting[c] # Idle
    /\ LET k == backend_socks[number[c]]
       IN  k # NoConnection => sockets[k].dead /\ sockets[k].replies = <<>>
    /\ Connected(number[c])
    /\ IF awaiting[c].op = "GET"
       THEN /\ running' = FALSE
            /\ UNCHANGED <<awaiting, response, todo, requests, username, logged_in>>
       ELSE GoesOn(c, Silence) /\ UNCHANGED running
    /\ UNCHANGED <<setup, loopVars, pc, number, overlapped, given_up, store,
                   refusals, deaths, collided>>

\* A write to a connection that was reset raises SIGPIPE, and an access outside
\* of the vector may end the process as well.
Die(c) ==
    /\ running /\ awaiting[c] = Idle /\ todo[c] # <<>>
    /\ \/ ~InRange(c)
       \/ /\ Upcoming(c) # Connect /\ backend_socks[number[c]] # NoConnection
          /\ sockets[backend_socks[number[c]]].dead
    /\ running' = FALSE
    /\ UNCHANGED <<setup, loopVars, pc, threadVars, storeVars, collided>>

-----------------------------------------------------------------------------
(* The store at the other end of connection k.                             *)

Serve(k, refused) ==
    /\ sockets[k].commands # <<>>
    /\ LET m == Head(sockets[k].commands)
           a == Answer(store, m.c)
       IN  /\ refused => m.c.op \in Writes /\ refusals < setup.refusals
           /\ store' = IF refused THEN store ELSE Executed(store, m.c)
           /\ sockets' = [sockets EXCEPT
                 ![k].commands = Tail(@),
                 ![k].replies = Append(@, [value |-> a.value, keys |-> a.keys,
                                           of |-> m.of])]
    /\ refusals' = IF refused THEN refusals + 1 ELSE refusals
    /\ UNCHANGED <<setup, running, loopVars, pc, threadVars, backend_socks,
                   deaths, collided>>

ServerDies ==
    /\ deaths < setup.deaths /\ deaths' = deaths + 1
    /\ sockets' = [k \in 1 .. Len(sockets) |->
                      [sockets[k] EXCEPT !.dead = TRUE, !.commands = <<>>]]
    /\ UNCHANGED <<setup, running, loopVars, pc, threadVars, backend_socks,
                   store, refusals, collided>>

-----------------------------------------------------------------------------

MainStep == RecordSlot \/ CountRead \/ CountWrite \/ \E c \in Conn : Accept(c)

RequestStep(c) ==
    \/ Begin(c) \/ ConnectToBackend(c) \/ SendCommand(c)
    \/ \E n \in 1 .. 2 : ReadResponse(c, n)

ThreadStep(c) ==
    \/ ThreadStart(c) \/ ClearSlot(c) \/ UncountRead(c) \/ UncountWrite(c)
    \/ RequestStep(c)

StoreStep == \E k \in 1 .. Len(sockets), refused \in BOOLEAN : Serve(k, refused)

Next ==
    \/ MainStep \/ StoreStep \/ ServerDies
    \/ \E c \in Conn : ThreadStep(c) \/ Close(c) \/ ReadFails(c) \/ Die(c)

\* The threads of the frontend run and the store answers; browsers may stay.
Fairness ==
    WF_vars(MainStep) /\ WF_vars(StoreStep) /\ \A c \in Conn : WF_vars(ThreadStep(c))

Spec == Init /\ [][Next]_vars /\ Fairness

-----------------------------------------------------------------------------
(* Properties.                                                             *)

\* Every connection that is served is in a slot of its own, and there is one
\* for every connection the main loop accepts, unless an update of num_client
\* was lost. (A descriptor is used again before its slot is cleared, and the
\* thread clears the first slot that holds it.)
SlotHeld ==
    /\ \A f \in 1 .. Cardinality(Conn) :
          Cardinality({i \in Slot : client_socks[i] = f})
             = Cardinality({c \in Conn : Recorded(c) /\ fd[c] = f})
    /\ ~raced => \A c \in Conn : pc[c] # "left"

\* A thread reads the replies to its own commands, as long as no other thread
\* has its number (backend_socks[currentClientNumber]).
OwnReplies ==
    \A c \in Conn : response[c].of \in {c, "none"} \/ number[c] \in collided

\* A file stays in the drive, under one key or another, if no request was to
\* delete or overwrite it: through the GET, PUT and DELETE of a renaming or a
\* move, and with other requests of the user before and after. It is lost when
\* the store refuses the PUT, when its server fails, when threads share a
\* connection, and when requests overlap: no reply is looked at.
ContentKept ==
    refusals = 0 /\ deaths = 0 /\ collided = {} /\ ~overlapped =>
        {setup.store[k] : k \in DOMAIN setup.store} \ given_up
            \subseteq {store[k] : k \in DOMAIN store}

\* The connections whose first request makes one to the store.
Connecting ==
    {c \in DOMAIN setup.requests :
        \E i \in 1 .. Len(setup.requests[c]) :
           i = 1 /\ setup.requests[c][i].op \in {"MENU", "SIGNUP", "NEWPASS"}}

\* A request comes to its end while the server of the store stays up, if the
\* browser has logged in, and no other thread has the number.
RequestEnds ==
    \A c \in Conn :
        pc[c] = "running" /\ ~Resting(c) ~>
            \/ Resting(c)
            \/ ~running \/ deaths > 0
            \/ number[c] \in collided \/ ~InRange(c)
            \/ c \notin Connecting
=============================================================================
