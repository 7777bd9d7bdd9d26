-------------------------------- MODULE Mail --------------------------------
(***************************************************************************)
(* Mail from the browser to the mailbox. The threads of a frontend share    *)
(* one connection to the SMTP server (mail_sock) and run the SMTP dialogue  *)
(* on it (mailMessage, frontend/loginHelper.cc); the server has one thread  *)
(* per connection (handle_connection, smtp/smtpServer.cc), which stores     *)
(* local mail in the key-value store and queues the rest (MailQueue). A     *)
(* connection may also be that of any other SMTP client.                    *)
(*                                                                         *)
(* Connections are byte streams: a recv returns one message or several that *)
(* have arrived together. Messages are records, addresses are reduced to    *)
(* what the server decides from them.                                       *)
(***************************************************************************)
EXTENDS MailQueue

CONSTANTS Thread,       \* threads of frontends, one mail each
          Setup,        \* which thread uses which connection and writes to
                        \* whom, and who the connections belong to
          MaxCommands,  \* bound: messages of a client that is no frontend
          MaxSecond     \* bound: seconds that pass

VARIABLES
    setup,      \* the member of Setup this behaviour has
    toServer, toClient,     \* what has been sent and not received
    hungUp,     \* connections closed by the client
    buffer,     \* messages the session has received and not yet handled
    session,    \* its state, mailFrom, rcptTo and rcptToRelay
    reading,    \* "command", "data", "deliver" or "closed"
    content,    \* email_content
    todo,       \* recipients the mail has not been written for
    success,
    alive,      \* the SMTP server runs
    now,        \* the second
    mailbox,    \* the mails in the key-value store, by recipient, sender, second
    sent,       \* messages of its dialogue a thread has sent
    awaiting,   \* it waits for a reply
    budget,     \* messages another client may still send
    accepted,   \* mails answered with 250
    refused,    \* mails the key-value store has not taken
    merged,     \* connections where one recv has returned several messages
    shared      \* connections that two threads have used at a time

sessionVars == <<toServer, toClient, hungUp, buffer, session, reading, content,
                 todo, success, alive, now, mailbox, accepted, refused, merged>>
threadVars == <<sent, awaiting, budget, shared>>
vars == <<queueVars, sessionVars, threadVars, setup>>

\* What the server decides from a recipient's address: the mailbox of a user;
\* another domain; an address it refuses without ending the line of its
\* reply; one at which substr throws, which ends the process.
Recipient == {"local", "remote", "refused", "fatal"}

ASSUME MailAssumption ==
    /\ MaxCommands \in Nat /\ MaxSecond \in Nat
    /\ Setup \subseteq [frontend : SUBSET Session, other : SUBSET Session,
                       greeted : BOOLEAN, sock : [Thread -> Session],
                       mailTo : [Thread -> Recipient]]
    /\ \A u \in Setup : u.frontend \intersect u.other = {}

Fresh(state) ==
    [state |-> state, mailFrom |-> "", rcptTo |-> {}, rcptToRelay |-> {}]

Message(cmd, arg, from) == [cmd |-> cmd, arg |-> arg, from |-> from]

SessionState == {"Initial", "HeloReceived", "MailFromReceived", "RcptToReceived"}

TypeOK ==
    /\ setup \in Setup
    /\ reading \in [Session -> {"command", "data", "deliver", "closed"}]
    /\ \A s \in Session :
          /\ session[s].state \in SessionState
          /\ session[s].rcptTo \subseteq {"local"}
          /\ session[s].rcptToRelay \subseteq {"remote"}
          /\ stage[s] \in Stage
          /\ toClient[s] \in Seq({"line", "fragment"})
    /\ sent \in [Thread -> 0 .. 4] /\ awaiting \in [Thread -> BOOLEAN]
    /\ lock \in Session \union {NoSession}
    /\ success \in [Session -> BOOLEAN]

\* connectToMail has sent HELO and received the greeting, alone or together
\* with the reply to HELO. Other clients have only connected.
Init ==
    /\ QueueInit
    /\ setup \in Setup
    /\ toServer = [s \in Session |->
          IF s \in setup.frontend /\ ~setup.greeted
          THEN <<Message("HELO", "ok", "frontend")>> ELSE <<>>]
    /\ session = [s \in Session |->
          Fresh(IF s \in setup.frontend /\ setup.greeted THEN "HeloReceived"
                                                         ELSE "Initial")]
    /\ toClient = [s \in Session |-> <<>>]
    /\ hungUp = {} /\ merged = {} /\ shared = {}
    /\ buffer = [s \in Session |-> <<>>]
    /\ reading = [s \in Session |-> "command"]
    /\ content = [s \in Session |-> <<>>]
    /\ todo = [s \in Session |-> {}]
    /\ success = [s \in Session |-> FALSE]
    /\ alive = TRUE
    /\ now = 0
    /\ mailbox = {}
    /\ sent = [t \in Thread |-> 0]
    /\ awaiting = [t \in Thread |-> FALSE]
    /\ budget = MaxCommands
    /\ accepted = {} /\ refused = {}

-----------------------------------------------------------------------------
(* Commands.                                                               *)

Replies(s, kind) == toClient' = [toClient EXCEPT ![s] = Append(@, kind)]

Becomes(s, new) == session' = [session EXCEPT ![s] = new]

Answer(s, kind, new) == Replies(s, kind) /\ Becomes(s, new)

\* 503, 501 or 500, and the session is as it was.
Reject(s) == Answer(s, "line", session[s])

DoHelo(s, arg) ==
    IF session[s].state \in {"Initial", "HeloReceived"} /\ arg = "ok"
    THEN Answer(s, "line", [session[s] EXCEPT !.state = "HeloReceived"])
    ELSE Reject(s)

\* An address in brackets is assigned to mailFrom before it is examined. The
\* reply about an empty local part has no line end.
DoMailFrom(s, m) ==
    IF session[s].state # "HeloReceived" \/ m.arg = "malformed" THEN Reject(s)
    ELSE IF m.arg = "invalid"
    THEN Answer(s, "fragment", [session[s] EXCEPT !.mailFrom = "invalid"])
    ELSE Answer(s, "line", [session[s] EXCEPT !.mailFrom = m.from,
                                              !.state = "MailFromReceived"])

\* Faulty variant: addresses of other domains are listed with the local ones.
DoRcptToOneList(s, arg) ==
    IF session[s].state \notin {"MailFromReceived", "RcptToReceived"}
    THEN Reject(s)
    ELSE IF arg \in {"local", "remote"}
    THEN Answer(s, "line", [session[s] EXCEPT !.rcptTo = @ \union {arg},
                                              !.state = "RcptToReceived"])
    ELSE Answer(s, "fragment", session[s])

DoRcptTo(s, arg) ==
    IF session[s].state \notin {"MailFromReceived", "RcptToReceived"}
    THEN Reject(s)
    ELSE CASE arg = "local" ->
                Answer(s, "line", [session[s] EXCEPT !.rcptTo = @ \union {arg},
                                                     !.state = "RcptToReceived"])
           [] arg = "remote" ->
                Answer(s, "line", [session[s] EXCEPT !.rcptToRelay = @ \union {arg},
                                                     !.state = "RcptToReceived"])
           [] OTHER -> Answer(s, "fragment", session[s])

\* Faulty variant: the recipients outlive the RSET.
DoRsetKeepsRecipients(s) ==
    IF session[s].state = "Initial" THEN Reject(s)
    ELSE /\ Becomes(s, [session[s] EXCEPT !.mailFrom = "", !.state = "HeloReceived"])
         /\ UNCHANGED toClient

\* RSET is not answered.
DoRset(s) ==
    IF session[s].state = "Initial" THEN Reject(s)
    ELSE Becomes(s, Fresh("HeloReceived")) /\ UNCHANGED toClient

-----------------------------------------------------------------------------
(* handle_connection.                                                      *)

\* A recv that returns the first n messages that have arrived.
Take(s, n) ==
    /\ toServer' = [toServer EXCEPT ![s] = SubSeq(@, n + 1, Len(@))]
    /\ merged' = IF n > 1 THEN merged \union {s} ELSE merged

RecvCommands(s, n) ==
    /\ alive /\ reading[s] = "command" /\ buffer[s] = <<>>
    /\ Take(s, n)
    /\ buffer' = [buffer EXCEPT ![s] = SubSeq(toServer[s], 1, n)]
    /\ UNCHANGED <<queueVars, threadVars, setup, toClient, hungUp, session,
                   reading, content, todo, success, alive, now, mailbox,
                   accepted, refused>>

\* The first line of the buffer, all commands but DATA and QUIT.
Handle(s) ==
    /\ alive /\ reading[s] = "command" /\ buffer[s] # <<>>
    /\ LET m == Head(buffer[s])
           c == m.cmd
       IN  \/ c = "HELO" /\ DoHelo(s, m.arg)
           \/ c = "MAIL" /\ DoMailFrom(s, m)
           \/ c = "RCPT" /\ m.arg # "fatal" /\ DoRcptTo(s, m.arg)
           \/ c = "RSET" /\ DoRset(s)
           \/ c = "NOOP" /\ Reject(s)
           \/ c = "BODY" /\ Reject(s)      \* text in the place of a command
           \/ c = "DATA" /\ session[s].state # "RcptToReceived" /\ Reject(s)
    /\ buffer' = [buffer EXCEPT ![s] = Tail(@)]
    /\ UNCHANGED <<queueVars, threadVars, setup, toServer, hungUp, reading,
                   content, todo, success, alive, now, mailbox, accepted,
                   refused, merged>>

\* DATA: the text is read from the socket, what is left in the buffer is not
\* looked at.
BeginData(s) ==
    /\ alive /\ reading[s] = "command" /\ buffer[s] # <<>>
    /\ Head(buffer[s]).cmd = "DATA" /\ session[s].state = "RcptToReceived"
    /\ Replies(s, "line")
    /\ buffer' = [buffer EXCEPT ![s] = Tail(@)]
    /\ reading' = [reading EXCEPT ![s] = "data"]
    /\ content' = [content EXCEPT ![s] = <<>>]
    /\ success' = [success EXCEPT ![s] = FALSE]
    /\ UNCHANGED <<queueVars, threadVars, setup, toServer, hungUp, session,
                   todo, alive, now, mailbox, accepted, refused, merged>>

\* The text is complete when what a recv returns ends in a line with a dot.
RecvData(s, n) ==
    /\ alive /\ reading[s] = "data"
    /\ Take(s, n)
    /\ content' = [content EXCEPT ![s] = @ \o SubSeq(toServer[s], 1, n)]
    /\ IF toServer[s][n].cmd = "BODY"
       THEN /\ reading' = [reading EXCEPT ![s] = "deliver"]
            /\ todo' = [todo EXCEPT ![s] = session[s].rcptTo
                                             \union session[s].rcptToRelay]
       ELSE UNCHANGED <<reading, todo>>
    /\ UNCHANGED <<queueVars, threadVars, setup, toClient, hungUp, buffer,
                   session, success, alive, now, mailbox, accepted, refused>>

\* A client that hangs up ends the text as well, and the mail is delivered.
HangUpInData(s) ==
    /\ alive /\ reading[s] = "data" /\ s \in hungUp /\ toServer[s] = <<>>
    /\ reading' = [reading EXCEPT ![s] = "deliver"]
    /\ todo' = [todo EXCEPT ![s] = session[s].rcptTo \union session[s].rcptToRelay]
    /\ UNCHANGED <<queueVars, threadVars, setup, toServer, toClient, hungUp,
                   buffer, session, content, success, alive, now, mailbox,
                   accepted, refused, merged>>

Item(s, r) == [to |-> r, mailFrom |-> session[s].mailFrom, text |-> content[s],
               second |-> IF r = "local" THEN now ELSE 0, serial |-> 0]

\* Local delivery: PUT username,/emails/mailFrom/time. A second mail of the
\* same sender in the same second replaces the first; the reply is ignored.
PutEmail(s, stored) ==
    /\ alive /\ reading[s] = "deliver" /\ "local" \in todo[s]
    /\ LET e == Item(s, "local")
       IN  /\ mailbox' = IF stored
                 THEN {m \in mailbox : m.mailFrom # e.mailFrom \/ m.second # e.second}
                        \union {e}
                 ELSE mailbox
           /\ refused' = IF stored THEN refused ELSE refused \union {e}
           /\ accepted' = accepted \union {e}
    /\ todo' = [todo EXCEPT ![s] = @ \ {"local"}]
    /\ success' = [success EXCEPT ![s] = TRUE]
    /\ UNCHANGED <<queueVars, threadVars, setup, toServer, toClient, hungUp,
                   buffer, session, reading, content, alive, now, merged>>

RelayEmail(s) ==
    /\ alive /\ reading[s] = "deliver" /\ todo[s] = {"remote"}
    /\ Enqueue(s, Item(s, "remote"))
    /\ UNCHANGED <<sessionVars, threadVars, setup>>

RelayDone(s, ok) ==
    /\ alive /\ reading[s] = "deliver"
    /\ Queued(s, ok)
    /\ todo' = [todo EXCEPT ![s] = @ \ {"remote"}]
    /\ success' = [success EXCEPT ![s] = @ \/ ok]
    /\ accepted' = IF ok THEN accepted \union {entry[s]} ELSE accepted
    /\ UNCHANGED <<threadVars, setup, toServer, toClient, hungUp, buffer,
                   session, reading, content, alive, now, mailbox, refused,
                   merged>>

\* Faulty variant: the envelope is kept for the next mail.
FinishDataKeepsEnvelope(s) ==
    /\ alive /\ reading[s] = "deliver" /\ todo[s] = {} /\ stage[s] = "none"
    /\ Answer(s, "line", [session[s] EXCEPT !.state = "HeloReceived"])
    /\ reading' = [reading EXCEPT ![s] = "command"]
    /\ content' = [content EXCEPT ![s] = <<>>]
    /\ UNCHANGED <<queueVars, threadVars, setup, toServer, hungUp, buffer, todo,
                   success, alive, now, mailbox, accepted, refused, merged>>

\* Faulty variant: the end of the text is not answered.
FinishDataSilent(s) ==
    /\ alive /\ reading[s] = "deliver" /\ todo[s] = {} /\ stage[s] = "none"
    /\ Becomes(s, Fresh("HeloReceived"))
    /\ reading' = [reading EXCEPT ![s] = "command"]
    /\ content' = [content EXCEPT ![s] = <<>>]
    /\ UNCHANGED <<queueVars, threadVars, setup, toServer, toClient, hungUp,
                   buffer, todo, success, alive, now, mailbox, accepted,
                   refused, merged>>

\* 250 or 554, and the session is ready for the next mail.
FinishData(s) ==
    /\ alive /\ reading[s] = "deliver" /\ todo[s] = {} /\ stage[s] = "none"
    /\ Answer(s, "line", Fresh("HeloReceived"))
    /\ reading' = [reading EXCEPT ![s] = "command"]
    /\ content' = [content EXCEPT ![s] = <<>>]
    /\ UNCHANGED <<queueVars, threadVars, setup, toServer, hungUp, buffer, todo,
                   success, alive, now, mailbox, accepted, refused, merged>>

CloseSession(s) ==
    /\ alive /\ reading[s] = "command"
    /\ \/ buffer[s] # <<>> /\ Head(buffer[s]).cmd = "QUIT"
       \/ buffer[s] = <<>> /\ s \in hungUp /\ toServer[s] = <<>>
    /\ reading' = [reading EXCEPT ![s] = "closed"]
    /\ UNCHANGED <<queueVars, threadVars, setup, toServer, toClient, hungUp,
                   buffer, session, content, todo, success, alive, now, mailbox,
                   accepted, refused, merged>>

\* An exception nobody catches ends the process: substr past the end of
\* mailFrom (RCPT TO), or stoi of a reply of the master that names no server.
Abort(s) ==
    /\ alive
    /\ \/ /\ reading[s] = "command" /\ buffer[s] # <<>>
          /\ Head(buffer[s]).arg = "fatal"
          /\ session[s].state \in {"MailFromReceived", "RcptToReceived"}
       \/ reading[s] = "deliver" /\ "local" \in todo[s]
    /\ alive' = FALSE
    /\ UNCHANGED <<queueVars, threadVars, setup, toServer, toClient, hungUp,
                   buffer, session, reading, content, todo, success, now,
                   mailbox, accepted, refused, merged>>

-----------------------------------------------------------------------------
(* The clients.                                                            *)

Sock(t) == setup.sock[t]

\* mailMessage.
Dialogue(t) == <<Message("MAIL", "ok", "user"), Message("RCPT", setup.mailTo[t], t),
                 Message("DATA", "", t), Message("BODY", "", t)>>

Busy(t) == sent[t] > 0 /\ (sent[t] < 4 \/ awaiting[t])

Sends(s, m) == toServer' = [toServer EXCEPT ![s] = Append(@, m)]

\* sendToSocket. No lock is taken on the connection.
SendNext(t) ==
    /\ alive /\ sent[t] < 4 /\ ~awaiting[t] /\ Sock(t) \in setup.frontend
    /\ Sends(Sock(t), Dialogue(t)[sent[t] + 1])
    /\ sent' = [sent EXCEPT ![t] = @ + 1]
    /\ awaiting' = [awaiting EXCEPT ![t] = TRUE]
    /\ shared' = IF \E u \in Thread \ {t} : Busy(u) /\ Sock(u) = Sock(t)
                 THEN shared \union {Sock(t)} ELSE shared
    /\ UNCHANGED <<queueVars, setup, toClient, hungUp, buffer, session, reading,
                   content, todo, success, alive, now, mailbox, accepted,
                   refused, merged, budget>>

\* readFromSocket: until there is a line end in what has been received. The
\* reply itself is not looked at.
ReadReply(t, n) ==
    /\ awaiting[t]
    /\ n <= Len(toClient[Sock(t)])
    /\ \E i \in 1 .. n : toClient[Sock(t)][i] = "line"
    /\ toClient' = [toClient EXCEPT ![Sock(t)] = SubSeq(@, n + 1, Len(@))]
    /\ awaiting' = [awaiting EXCEPT ![t] = FALSE]
    /\ UNCHANGED <<queueVars, setup, toServer, hungUp, buffer, session, reading,
                   content, todo, success, alive, now, mailbox, accepted,
                   refused, merged, sent, budget, shared>>

OtherMessages ==
    {Message("HELO", a, "other") : a \in {"ok", "empty"}}
    \union {Message("MAIL", a, "other") : a \in {"ok", "invalid", "malformed"}}
    \union {Message("RCPT", a, "other") : a \in Recipient \ {"fatal"}}
    \union {Message(c, "", "other") : c \in {"DATA", "RSET", "NOOP", "QUIT"}}
    \union {Message("BODY", "", "other")}

\* Another client sends what it likes, one message at a time, and does not
\* look at the replies.
OtherSends(s, m) ==
    /\ alive /\ s \in setup.other /\ s \notin hungUp /\ budget > 0
    /\ toServer[s] = <<>>
    /\ Sends(s, m)
    /\ budget' = budget - 1
    /\ toClient' = [toClient EXCEPT ![s] = <<>>]
    /\ UNCHANGED <<queueVars, setup, hungUp, buffer, session, reading, content,
                   todo, success, alive, now, mailbox, accepted, refused,
                   merged, sent, awaiting, shared>>

HangUp(s) ==
    /\ s \in setup.other \ hungUp
    /\ hungUp' = hungUp \union {s}
    /\ UNCHANGED <<queueVars, threadVars, setup, toServer, toClient, buffer,
                   session, reading, content, todo, success, alive, now,
                   mailbox, accepted, refused, merged>>

Tick ==
    /\ now < MaxSecond /\ mailbox # {}
    /\ now' = now + 1
    /\ UNCHANGED <<queueVars, threadVars, setup, toServer, toClient, hungUp,
                   buffer, session, reading, content, todo, success, alive,
                   mailbox, accepted, refused, merged>>

-----------------------------------------------------------------------------

ServerStep(s) ==
    \/ \E n \in 1 .. Len(toServer[s]) : RecvCommands(s, n) \/ RecvData(s, n)
    \/ Handle(s) \/ BeginData(s) \/ HangUpInData(s)
    \/ \E stored \in BOOLEAN : PutEmail(s, stored)
    \/ RelayEmail(s)
    \/ \E ok \in BOOLEAN : RelayDone(s, ok)
    \/ FinishData(s) \/ CloseSession(s) \/ Abort(s)
    \/ RelayStep(s) /\ UNCHANGED <<sessionVars, threadVars, setup>>

ThreadStep(t) ==
    \/ SendNext(t)
    \/ \E n \in 1 .. Len(toClient[Sock(t)]) : ReadReply(t, n)

Next ==
    \/ \E s \in Session :
          ServerStep(s) \/ HangUp(s) \/ \E m \in OtherMessages : OtherSends(s, m)
    \/ \E t \in Thread : ThreadStep(t)
    \/ Tick

\* The threads of the server and smtpec run. A thread of a frontend that has
\* begun a dialogue goes on with it.
Fairness ==
    /\ \A s \in Session : WF_vars(ServerStep(s))
    /\ \A t \in Thread : WF_vars(sent[t] > 0 /\ ThreadStep(t))

Spec == Init /\ [][Next]_vars /\ Fairness

-----------------------------------------------------------------------------
(* Properties.                                                             *)

\* The envelope of a session is that of one mail (handle_connection): between
\* mails there is no recipient, and whoever may send DATA has named a sender
\* that was found valid and a recipient.
EnvelopeFresh ==
    \A s \in Session :
        LET e == session[s] IN
        /\ e.state \in {"Initial", "HeloReceived", "MailFromReceived"} =>
              e.rcptTo \union e.rcptToRelay = {}
        /\ e.state = "RcptToReceived" =>
              e.rcptTo \union e.rcptToRelay # {} /\ e.mailFrom \notin {"", "invalid"}

StoredOrReplaced(e) ==
    \E m \in mailbox : m.mailFrom = e.mailFrom /\ m.second = e.second

QueuedOrRelayed(e) ==
    \/ e \in ToSet(mqueue) \union overwritten \union dropped
    \/ \E i \in 1 .. Len(received) : received[i].mail = e
    \/ \E s \in Session : stage[s] = "truncated"
                           /\ e \in {u.mail : u \in ToSet(Unsent(s))}

\* A mail that the server has taken (success, answered with 250) is where it
\* belongs. A local one is in the store, or one of the same sender and second
\* is, unless the store has not taken it. A relayed one is in the queue, with
\* an smtpec, or with the server of its domain, unless it was flushed while an
\* smtpec held the file, or an smtpec died with the file emptied.
AcceptedIsKept ==
    \A e \in accepted :
        \/ e.to = "local" /\ (e \in refused \/ StoredOrReplaced(e))
        \/ e.to = "remote" /\ QueuedOrRelayed(e)

\* A mail reaches another domain once (smtpec takes it from the queue when it
\* was sent), unless an smtpec died or the reply to an earlier attempt was
\* lost.
RelayedOnce ==
    \A i, j \in 1 .. Len(received) :
        i < j /\ received[i].mail = received[j].mail =>
            deaths > 0 \/ ~received[i].known

\* As long as a frontend uses its connection for one mail at a time and no two
\* messages arrive together, what is stored and queued is what was written in
\* the browser: the text of one mail, for the recipient of that mail. (The
\* replies run behind by one, so nothing but luck keeps messages apart.)
MailIsIntact ==
    setup.frontend \intersect (merged \union shared) = {} =>
        \A e \in mailbox \union ToSet(mqueue)
                 \union {received[i].mail : i \in 1 .. Len(received)} :
            e.mailFrom = "user" =>
                \E t \in Thread : /\ e.text = <<Message("BODY", "", t)>>
                                  /\ e.to = setup.mailTo[t]

\* Under the same conditions a thread that sends a mail to a valid address
\* gets its replies and returns, or the server has died.
WebmailReturns ==
    \A t \in Thread :
        sent[t] > 0 ~>
            \/ ~Busy(t)
            \/ ~alive
            \/ Sock(t) \in merged \union shared
            \/ \E u \in Thread : Sock(u) = Sock(t) /\ setup.mailTo[u] = "refused"
=============================================================================
