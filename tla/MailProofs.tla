----------------------------- MODULE MailProofs -----------------------------
(***************************************************************************)
(* Proofs about modules MailQueue and Mail, for any number of sessions,     *)
(* threads and clients. Three invariants: QueueInv follows a mail through   *)
(* the file mqueue and the processes that empty it, SessionInv is about the *)
(* envelopes of the SMTP sessions and the mails they accept, and WebmailInv *)
(* about the dialogues of the frontends.                                   *)
(***************************************************************************)
EXTENDS Mail, SequenceTheorems, WellFoundedInduction, TLAPS

-----------------------------------------------------------------------------
(* Types.                                                                  *)

Sender == {"user", "other"}

Commands == {"HELO", "MAIL", "RCPT", "DATA", "BODY", "RSET", "NOOP", "QUIT"}

Arguments == {"", "ok", "empty", "invalid", "malformed"} \union Recipient

Messages ==
    {m \in [cmd : Commands, arg : Arguments, from : Thread \union {"frontend"} \union Sender] :
        /\ m.cmd = "MAIL" => m.from \in Sender
        /\ m.cmd = "RCPT" => m.arg \in Recipient}

Envelopes == [state : SessionState, mailFrom : {"", "invalid"} \union Sender,
              rcptTo : SUBSET {"local"}, rcptToRelay : SUBSET {"remote"}]

Mails == [to : {"local", "remote"}, mailFrom : {"", "invalid"} \union Sender,
          text : Seq(Messages), second : Nat, serial : Nat]

QueueTypes ==
    /\ mqueue \in Seq(Mails)
    /\ lock \in Session \union {NoSession}
    /\ stage \in [Session -> Stage]
    /\ entry \in [Session -> Mails \union {<<>>}]
    /\ \A s \in Session : stage[s] # "none" => entry[s] \in Mails /\ entry[s].to = "remote"
    /\ queued \in Nat
    /\ emails \in [Session -> Seq([mail : Mails, tried : BOOLEAN, sent : BOOLEAN])]
    /\ received \in Seq([mail : Mails, known : BOOLEAN])
    /\ deaths \in Nat

SessionTypes ==
    /\ toServer \in [Session -> Seq(Messages)]
    /\ toClient \in [Session -> Seq({"line", "fragment"})]
    /\ hungUp \subseteq setup.other
    /\ buffer \in [Session -> Seq(Messages)]
    /\ session \in [Session -> Envelopes]
    /\ reading \in [Session -> {"command", "data", "deliver", "closed"}]
    /\ content \in [Session -> Seq(Messages)]
    /\ todo \in [Session -> SUBSET {"local", "remote"}]
    /\ success \in [Session -> BOOLEAN]
    /\ alive \in BOOLEAN
    /\ now \in Nat

ThreadTypes ==
    /\ sent \in [Thread -> 0 .. 4]
    /\ awaiting \in [Thread -> BOOLEAN]
    /\ budget \in Nat

-----------------------------------------------------------------------------
(* The queue.                                                              *)

\* The lock is held while a session prints, and by its smtpec.
LockIsHeld ==
    \A s \in Session : lock = s <=> stage[s] \in {"written", "sending", "truncated"}

\* What an smtpec has read is the beginning of the file, until it empties it;
\* what it has marked as sent has arrived.
ReadIsPrefix ==
    \A s \in Session :
        /\ stage[s] \notin {"sending", "truncated"} => emails[s] = <<>>
        /\ stage[s] = "sending" =>
              /\ Len(emails[s]) <= Len(mqueue)
              /\ \A i \in 1 .. Len(emails[s]) : emails[s][i].mail = mqueue[i]
        /\ \A i \in 1 .. Len(emails[s]) :
              emails[s][i].sent =>
                  /\ emails[s][i].tried
                  /\ \E j \in 1 .. Len(received) : received[j].mail = emails[s][i].mail

\* A mail that has been flushed is not lost sight of.
FlushedIsKept ==
    \A s \in Session :
        stage[s] \in {"system", "sending", "truncated", "successful"} =>
            QueuedOrRelayed(entry[s])

\* Sessions that have not flushed their mail.
Unflushed == {s \in Session : stage[s] \in {"open", "written", "unlocked"}}

\* The serial numbers of mails that are somewhere else.
SerialsBounded ==
    /\ \A s \in Unflushed : entry[s].serial <= queued
    /\ \A i \in 1 .. Len(mqueue) : mqueue[i].serial <= queued
    /\ \A s \in Session : \A i \in 1 .. Len(emails[s]) : emails[s][i].mail.serial <= queued
    /\ \A i \in 1 .. Len(received) : received[i].mail.serial <= queued

\* The number of a mail that is not flushed yet is nowhere else.
UnflushedIsNew ==
    \A s \in Unflushed :
        /\ \A u \in Unflushed : entry[u].serial = entry[s].serial => u = s
        /\ \A i \in 1 .. Len(mqueue) : mqueue[i].serial # entry[s].serial
        /\ \A u \in Session : \A i \in 1 .. Len(emails[u]) :
              emails[u][i].mail.serial # entry[s].serial
        /\ \A i \in 1 .. Len(received) : received[i].mail.serial # entry[s].serial

\* A mail is in the file once, and in the list of an smtpec once; and in one
\* of the two only, when the file has been emptied.
OncePerPlace ==
    /\ \A i, j \in 1 .. Len(mqueue) : mqueue[i].serial = mqueue[j].serial => i = j
    /\ \A s \in Session : \A i, j \in 1 .. Len(emails[s]) :
          emails[s][i].mail.serial = emails[s][j].mail.serial => i = j
    /\ \A s \in Session : stage[s] = "truncated" =>
          \A i \in 1 .. Len(emails[s]), j \in 1 .. Len(mqueue) :
              emails[s][i].mail.serial # mqueue[j].serial

\* As long as no smtpec has died: a mail that is known to have arrived is
\* marked as sent wherever it still is.
KnownIsMarked ==
    deaths = 0 =>
        \A k \in 1 .. Len(received) : received[k].known =>
            /\ \A s \in Session : \A i \in 1 .. Len(emails[s]) :
                  emails[s][i].mail.serial = received[k].mail.serial => emails[s][i].sent
            /\ \A j \in 1 .. Len(mqueue) : mqueue[j].serial = received[k].mail.serial =>
                  \E s \in Session : stage[s] = "sending" /\ j <= Len(emails[s])

\* The invariant of the queue (smtp/smtpServer.cc, smtp/smtpec.cc).
QueueInv ==
    /\ QueueTypes
    /\ LockIsHeld
    /\ ReadIsPrefix
    /\ FlushedIsKept
    /\ SerialsBounded
    /\ UnflushedIsNew
    /\ OncePerPlace
    /\ KnownIsMarked
    /\ RelayedOnce

-----------------------------------------------------------------------------
(* The sessions.                                                           *)

\* Whoever has named a sender has named a valid one.
SenderIsValid ==
    \A s \in Session :
        session[s].state \in {"MailFromReceived", "RcptToReceived"} =>
            session[s].mailFrom \in Sender

\* The invariant of the sessions (handle_connection).
SessionInv ==
    /\ setup \in Setup
    /\ SessionTypes
    /\ ThreadTypes
    /\ SenderIsValid
    /\ EnvelopeFresh
    /\ AcceptedIsKept

-----------------------------------------------------------------------------
(* The dialogues of the frontends.                                         *)

\* The condition of MailIsIntact: one mail at a time, one message per recv.
Clean == setup.frontend \intersect (merged \union shared) = {}

\* The messages of a dialogue (mailMessage).
Opening == Message("MAIL", "ok", "user")
Rcpt(t) == Message("RCPT", setup.mailTo[t], t)
Data(t) == Message("DATA", "", t)
Body(t) == Message("BODY", "", t)

\* It is the text of one mail, for the recipient of that mail.
Intact(e) ==
    e.mailFrom = "user" => \E t \in Thread : e.text = <<Body(t)>> /\ e.to = setup.mailTo[t]

\* Only frontends name the sender "user".
UserIsOfFrontend ==
    \A s \in Session \ setup.frontend :
        /\ session[s].mailFrom # "user"
        /\ \A i \in 1 .. Len(buffer[s]) : buffer[s][i].from # "user"
        /\ \A i \in 1 .. Len(toServer[s]) : toServer[s][i].from # "user"

\* Two messages in a row on the connection of a frontend.
Follows(m, k) ==
    \/ m.cmd \in {"HELO", "BODY"} /\ k = Opening
    \/ m = Opening /\ \E t \in Thread : k = Rcpt(t)
    \/ \E t \in Thread : \/ m = Rcpt(t) /\ k = Data(t)
                         \/ m = Data(t) /\ k = Body(t)

\* The envelope of a session, with the recipients in to.
EnvelopeIs(s, state, from, to) ==
    /\ session[s].state = state /\ session[s].mailFrom = from
    /\ session[s].rcptTo = to \intersect {"local"}
    /\ session[s].rcptToRelay = to \intersect {"remote"}

\* The envelope before and after HELO, between MAIL and RCPT, and after the RCPT
\* of a thread.
Unknown(s) == EnvelopeIs(s, "Initial", "", {})
Greeted(s) == EnvelopeIs(s, "HeloReceived", "", {})
Opened(s) == EnvelopeIs(s, "MailFromReceived", "user", {})
Addressed(s, t) == EnvelopeIs(s, "RcptToReceived", "user", {setup.mailTo[t]})
\* Its recipient was not taken: the rest of its dialogue is rejected.
TurnedDown(s, t) ==
    reading[s] = "command" /\ Opened(s) /\ setup.mailTo[t] = "refused"

\* What a session may handle next.
Expects(s, m) ==
    \/ m.cmd = "HELO" /\ m.arg = "ok"
       /\ reading[s] = "command" /\ Unknown(s)
    \/ m = Opening /\ reading[s] = "command"
       /\ (Greeted(s) \/ Opened(s))
    \/ m = Opening /\ reading[s] = "deliver"
    \/ \E t \in Thread :
          \/ m = Rcpt(t) /\ reading[s] = "command" /\ Opened(s)
          \/ m = Data(t) /\ reading[s] = "command" /\ Addressed(s, t)
          \/ m = Body(t) /\ reading[s] = "data" /\ Addressed(s, t)
          \/ m \in {Data(t), Body(t)} /\ TurnedDown(s, t)

\* What may come next on its connection, and be sent next.
Ready(s, m) == IF buffer[s] # <<>> THEN Follows(buffer[s][1], m) ELSE Expects(s, m)
Continues(s, m) ==
    IF toServer[s] # <<>> THEN Follows(toServer[s][Len(toServer[s])], m) ELSE Ready(s, m)

Amid(t) == sent[t] \in 1 .. 3

\* What the threads on it send next.
NextIsDue(s) ==
    /\ \A t \in Thread : Sock(t) = s /\ Amid(t) => Continues(s, Dialogue(t)[sent[t] + 1])
    /\ (\A t \in Thread : Sock(t) = s => ~Amid(t)) => Continues(s, Opening)

\* The buffer and the connection hold the messages of dialogues in their order,
\* from the one the session expects to the one that is due to be sent.
InOrder(s) ==
    /\ Len(buffer[s]) <= 1
    /\ reading[s] # "command" => buffer[s] = <<>>
    /\ buffer[s] # <<>> => Expects(s, buffer[s][1])
    /\ toServer[s] # <<>> => Ready(s, toServer[s][1])
    /\ \A i \in 1 .. Len(toServer[s]) - 1 : Follows(toServer[s][i], toServer[s][i + 1])
    /\ NextIsDue(s)

\* One thread at a time is in its dialogue.
OneAtATime(s) ==
    \A t, u \in Thread : Sock(t) = s /\ Sock(u) = s /\ Busy(t) /\ Busy(u) => t = u

\* The text under way is that of the thread that named the recipient.
TextIsOwn(s) ==
    /\ reading[s] = "data" => content[s] = <<>>
    /\ reading[s] = "deliver" =>
          \E t \in Thread : /\ content[s] = <<Body(t)>>
                            /\ Addressed(s, t)
                            /\ todo[s] \subseteq {setup.mailTo[t]}

Orderly(s) == InOrder(s) /\ OneAtATime(s) /\ TextIsOwn(s)

\* The mails in the store, in the queue, with an smtpec and with other servers.
MailsIntact ==
    /\ \A e \in mailbox : Intact(e)
    /\ \A i \in 1 .. Len(mqueue) : Intact(mqueue[i])
    /\ \A i \in 1 .. Len(received) : Intact(received[i].mail)
    /\ \A s \in Session : \A i \in 1 .. Len(emails[s]) : Intact(emails[s][i].mail)
    /\ \A s \in Session : stage[s] # "none" => Intact(entry[s])

\* The invariant of the dialogues (mailMessage, handle_connection).
WebmailInv ==
    /\ UserIsOfFrontend
    /\ Clean =>
          /\ \A s \in setup.frontend : Orderly(s)
          /\ MailsIntact
-----------------------------------------------------------------------------
(* What the operators on the queue compute.                                *)

\* A nonempty set of numbers has a least element.
LEMMA LeastNumber ==
  ASSUME NEW S, S \subseteq Nat, S # {}
  PROVE  \E m \in S : \A u \in S : m <= u
<1>1. PICK m \in S : \A u \in S : ~(<<u, m>> \in OpToRel(<, Nat))
  BY NatLessThanWellFounded, WFMin, Zenon
<1>2. \A u \in S : ~(u < m)
  BY <1>1 DEF OpToRel
<1>3. \A u \in S : m <= u
  BY <1>2
<1> QED
  BY <1>3

\* The recursive function in Unsent: the unsent ones among the first i.
FirstOf(n, q, f) ==
    f = [i \in 0 .. n |->
            IF i = 0 THEN <<>>
            ELSE IF q[i].sent THEN f[i - 1]
            ELSE Append(f[i - 1], q[i])]

LEMMA FirstExists ==
  ASSUME NEW n \in Nat, NEW q
  PROVE  \E f : FirstOf(n, q, f)
<1> DEFINE bad == {m \in Nat : \A f : ~FirstOf(m, q, f)}
<1> SUFFICES ASSUME n \in bad
             PROVE  FALSE
  OBVIOUS
<1>1. bad \subseteq Nat /\ bad # {}
  OBVIOUS
<1>2. PICK m \in bad : \A u \in bad : m <= u
  BY <1>1, LeastNumber
<1>3. CASE m = 0
  <2> DEFINE f == [i \in 0 .. 0 |-> <<>>]
  <2>1. \A i \in 0 .. 0 : i = 0
    OBVIOUS
  <2>2. FirstOf(0, q, f)
    BY <2>1 DEF FirstOf
  <2> QED
    BY <1>2, <1>3, <2>2
<1>4. CASE m # 0
  <2>1. m - 1 \in Nat /\ m - 1 \notin bad /\ m \in Nat
    BY <1>2, <1>4
  <2>2. PICK f : FirstOf(m - 1, q, f)
    BY <2>1
  <2> DEFINE g == [i \in 0 .. m |->
                     IF i # m THEN f[i]
                     ELSE IF q[m].sent THEN f[m - 1]
                     ELSE Append(f[m - 1], q[m])]
  <2>3. ASSUME NEW i \in 0 .. m
        PROVE  g[i] = IF i = 0 THEN <<>>
                      ELSE IF q[i].sent THEN g[i - 1]
                      ELSE Append(g[i - 1], q[i])
    <3>1. CASE i = m
      <4>1. m - 1 \in 0 .. m /\ m - 1 # m
        BY <2>1
      <4> QED
        BY <1>4, <3>1, <4>1
    <3>2. CASE i # m
      <4>1. i \in 0 .. m - 1 /\ (i # 0 => i - 1 \in 0 .. m /\ i - 1 # m)
        BY <2>1, <3>2
      <4>2. f[i] = IF i = 0 THEN <<>>
                   ELSE IF q[i].sent THEN f[i - 1]
                   ELSE Append(f[i - 1], q[i])
        BY <2>2, <4>1 DEF FirstOf
      <4> QED
        BY <3>2, <4>1, <4>2
    <3> QED
      BY <3>1, <3>2
  <2> HIDE DEF g
  <2>4. g = [i \in 0 .. m |-> g[i]]
    BY DEF g
  <2>5. FirstOf(m, q, g)
    BY <2>3, <2>4 DEF FirstOf
  <2> QED
    BY <1>2, <2>5
<1> QED
  BY <1>3, <1>4

\* r lists the unsent ones among the first n of q, at the places pos.
Lists(r, q, n, pos) ==
    /\ pos \in [1 .. Len(r) -> 1 .. n]
    /\ \A k \in 1 .. Len(r) : r[k] = q[pos[k]] /\ ~q[pos[k]].sent
    /\ \A j, k \in 1 .. Len(r) : pos[j] = pos[k] => j = k
    /\ \A i \in 1 .. n : ~q[i].sent => \E k \in 1 .. Len(r) : pos[k] = i

LEMMA ListsMore ==
  ASSUME NEW S, NEW q \in Seq(S), NEW i \in 1 .. Len(q),
         NEW r \in Seq(S), \E pos : Lists(r, q, i - 1, pos)
  PROVE  LET e == IF q[i].sent THEN r ELSE Append(r, q[i])
         IN  e \in Seq(S) /\ \E pos : Lists(e, q, i, pos)
<1>1. PICK pos : Lists(r, q, i - 1, pos)
  OBVIOUS
<1>2. i \in Nat /\ i - 1 \in Nat /\ q[i] \in S /\ Len(r) \in Nat
  BY LenProperties, ElementOfSeq
<1>3. CASE q[i].sent
  <2>1. Lists(r, q, i, pos)
    <3>1. pos \in [1 .. Len(r) -> 1 .. i]
      BY <1>1, <1>2 DEF Lists
    <3>2. \A j \in 1 .. i : ~q[j].sent => \E k \in 1 .. Len(r) : pos[k] = j
      BY <1>1, <1>2, <1>3 DEF Lists
    <3> QED
      BY <1>1, <3>1, <3>2 DEF Lists
  <2> QED
    BY <1>3, <2>1
<1>4. CASE ~q[i].sent
  <2> DEFINE e == Append(r, q[i])
             n == Len(r)
             new == [k \in 1 .. n + 1 |-> IF k = n + 1 THEN i ELSE pos[k]]
  <2>1. e \in Seq(S) /\ Len(e) = n + 1 /\ e[n + 1] = q[i] /\ \A k \in 1 .. n : e[k] = r[k]
    BY <1>2, AppendProperties
  <2> HIDE DEF e
  <2>2. \A k \in 1 .. n + 1 : k = n + 1 \/ k \in 1 .. n
    BY <1>2
  <2>3. new[n + 1] = i /\ \A k \in 1 .. n : new[k] = pos[k]
    BY <1>2
  <2>4. \A k \in 1 .. n : pos[k] \in 1 .. i - 1 /\ pos[k] \in 1 .. i /\ pos[k] # i
    BY <1>1, <1>2 DEF Lists
  <2>5. new \in [1 .. n + 1 -> 1 .. i]
    BY <1>2, <2>2, <2>4
  <2> HIDE DEF new
  <2>6. Lists(e, q, i, new)
    <3>1. \A k \in 1 .. n + 1 : e[k] = q[new[k]] /\ ~q[new[k]].sent
      BY <1>1, <1>4, <2>1, <2>2, <2>3 DEF Lists
    <3>2. \A j, k \in 1 .. n + 1 : new[j] = new[k] => j = k
      BY <1>1, <2>2, <2>3, <2>4 DEF Lists
    <3>3. \A j \in 1 .. i : ~q[j].sent => \E k \in 1 .. n + 1 : new[k] = j
      <4> SUFFICES ASSUME NEW j \in 1 .. i, ~q[j].sent
                   PROVE  \E k \in 1 .. n + 1 : new[k] = j
        OBVIOUS
      <4>1. CASE j = i
        BY <1>2, <2>3, <4>1
      <4>2. CASE j # i
        <5>1. j \in 1 .. i - 1
          BY <1>2, <4>2
        <5>2. PICK k \in 1 .. n : pos[k] = j
          BY <1>1, <5>1 DEF Lists
        <5>3. k \in 1 .. n + 1
          BY <1>2
        <5> QED
          BY <2>3, <5>2, <5>3
      <4> QED
        BY <4>1, <4>2
    <3> QED
      BY <2>1, <2>5, <3>1, <3>2, <3>3 DEF Lists
  <2> QED
    BY <1>4, <2>1, <2>6 DEF e
<1> QED
  BY <1>3, <1>4

\* What Unsent is.
LEMMA UnsentLists ==
  ASSUME NEW S, NEW s, emails[s] \in Seq(S)
  PROVE  /\ Unsent(s) \in Seq(S)
         /\ \E pos : Lists(Unsent(s), emails[s], Len(emails[s]), pos)
<1> DEFINE q == emails[s]
           n == Len(q)
           g == CHOOSE f : f = [i \in 0 .. n |->
                                  IF i = 0 THEN <<>>
                                  ELSE IF q[i].sent THEN f[i - 1]
                                  ELSE Append(f[i - 1], q[i])]
<1>1. Unsent(s) = g[n]
  BY DEF Unsent
<1>2. n \in Nat /\ q \in Seq(S)
  BY LenProperties
<1>3. PICK f : FirstOf(n, q, f)
  BY <1>2, FirstExists
<1>4. f = [i \in 0 .. n |-> IF i = 0 THEN <<>>
                            ELSE IF q[i].sent THEN f[i - 1]
                            ELSE Append(f[i - 1], q[i])]
  BY <1>3 DEF FirstOf
<1>5. g = [i \in 0 .. n |-> IF i = 0 THEN <<>>
                            ELSE IF q[i].sent THEN g[i - 1]
                            ELSE Append(g[i - 1], q[i])]
  BY <1>4, Zenon
<1> HIDE DEF g, q, n
<1>6. ASSUME NEW i \in 0 .. n
      PROVE  g[i] = IF i = 0 THEN <<>>
                    ELSE IF q[i].sent THEN g[i - 1]
                    ELSE Append(g[i - 1], q[i])
  BY <1>5
<1> DEFINE bad == {i \in 0 .. n : ~(g[i] \in Seq(S) /\ \E pos : Lists(g[i], q, i, pos))}
<1>7. bad = {}
  <2> SUFFICES ASSUME bad # {}
               PROVE  FALSE
    OBVIOUS
  <2>1. bad \subseteq Nat
    BY <1>2
  <2>2. PICK i \in bad : \A u \in bad : i <= u
    BY <2>1, LeastNumber
  <2>5. i \in 0 .. n /\ ~(g[i] \in Seq(S) /\ \E pos : Lists(g[i], q, i, pos))
    OBVIOUS
  <2>3. CASE i = 0
    <3>1. g[0] = <<>> /\ <<>> \in Seq(S)
      BY <1>2, <1>6, <2>3, <2>5
    <3>2. Lists(<<>>, q, 0, <<>>)
      BY DEF Lists
    <3> QED
      BY <2>3, <2>5, <3>1, <3>2
  <2>4. CASE i # 0
    <3>1. i \in 1 .. n /\ i - 1 \in 0 .. n /\ ~(i <= i - 1)
      BY <1>2, <2>4, <2>5
    <3>5. i - 1 \notin bad
      BY <2>2, <3>1
    <3>2. g[i - 1] \in Seq(S) /\ \E pos : Lists(g[i - 1], q, i - 1, pos)
      BY <3>1, <3>5
    <3>3. g[i] = IF q[i].sent THEN g[i - 1] ELSE Append(g[i - 1], q[i])
      BY <1>6, <2>4, <2>5
    <3>4. g[i] \in Seq(S) /\ \E pos : Lists(g[i], q, i, pos)
      BY <1>2, <3>1, <3>2, <3>3, ListsMore DEF n
    <3> QED
      BY <2>5, <3>4
  <2> QED
    BY <2>3, <2>4
<1>8. n \in 0 .. n
  BY <1>2
<1> QED
  BY <1>1, <1>7, <1>8 DEF q, n

\* The first mail that has not been tried, if there is one.
LEMMA UntriedIsNext ==
  ASSUME NEW S, NEW s, emails[s] \in Seq(S)
  PROVE  /\ Untried(s) # 0 =>
               Untried(s) \in 1 .. Len(emails[s]) /\ ~emails[s][Untried(s)].tried
         /\ Untried(s) = 0 => \A i \in 1 .. Len(emails[s]) : emails[s][i].tried
<1> DEFINE left == {i \in 1 .. Len(emails[s]) : ~emails[s][i].tried}
<1>1. Untried(s) = IF left # {} THEN Min(left) ELSE 0
  BY DEF Untried, SelectInSeq
<1>2. ASSUME left # {}
      PROVE  Min(left) \in left
  <2> HIDE DEF left
  <2>2. left \subseteq Nat
    BY DEF left
  <2>1. PICK i \in left : \A u \in left : i <= u
    BY <1>2, <2>2, LeastNumber, Zenon
  <2> QED
    BY <2>1, Zenon DEF Min
<1> QED
  BY <1>1, <1>2

LEMMA SetOf ==
  ASSUME NEW S, NEW q \in Seq(S)
  PROVE  ToSet(q) = {q[i] : i \in 1 .. Len(q)}
BY LenProperties DEF ToSet

\* The elements of the lists of mails.
LEMMA AreMails ==
  ASSUME QueueTypes
  PROVE  /\ Len(mqueue) \in Nat /\ \A i \in 1 .. Len(mqueue) : mqueue[i] \in Mails
         /\ \A u \in Session :
               /\ Len(emails[u]) \in Nat
               /\ \A i \in 1 .. Len(emails[u]) :
                     /\ emails[u][i] \in [mail : Mails, tried : BOOLEAN, sent : BOOLEAN]
                     /\ emails[u][i].mail \in Mails
         /\ Len(received) \in Nat
         /\ \A i \in 1 .. Len(received) : received[i] \in [mail : Mails, known : BOOLEAN]
                                         /\ received[i].mail \in Mails
         /\ \A e \in Mails : e.serial \in Nat
<1>1. mqueue \in Seq(Mails)
  BY DEF QueueTypes
<1>2. received \in Seq([mail : Mails, known : BOOLEAN])
  BY DEF QueueTypes
<1>3. \A u \in Session : emails[u] \in Seq([mail : Mails, tried : BOOLEAN, sent : BOOLEAN])
  BY DEF QueueTypes
<1>4. \A e \in Mails : e.serial \in Nat
  BY DEF Mails
<1> HIDE DEF Mails
<1>5. Len(mqueue) \in Nat /\ \A i \in 1 .. Len(mqueue) : mqueue[i] \in Mails
  BY <1>1, ElementOfSeq, LenProperties
<1>6. ASSUME NEW u \in Session
      PROVE  /\ Len(emails[u]) \in Nat
             /\ \A i \in 1 .. Len(emails[u]) :
                   /\ emails[u][i] \in [mail : Mails, tried : BOOLEAN, sent : BOOLEAN]
                   /\ emails[u][i].mail \in Mails
  <2>1. emails[u] \in Seq([mail : Mails, tried : BOOLEAN, sent : BOOLEAN])
    BY <1>3
  <2>2. Len(emails[u]) \in Nat
    BY <2>1, LenProperties
  <2>3. \A i \in 1 .. Len(emails[u]) :
           emails[u][i] \in [mail : Mails, tried : BOOLEAN, sent : BOOLEAN]
    BY <2>1, ElementOfSeq
  <2> QED
    BY <2>2, <2>3
<1>7. Len(received) \in Nat
      /\ \A i \in 1 .. Len(received) : received[i] \in [mail : Mails, known : BOOLEAN]
  BY <1>2, ElementOfSeq, LenProperties
<1>8. \A i \in 1 .. Len(received) : received[i].mail \in Mails
  BY <1>7
<1> QED
  BY <1>4, <1>5, <1>6, <1>7, <1>8

\* A mail that is given a number.
LEMMA Numbered ==
  ASSUME NEW e \in Mails, NEW n \in Nat
  PROVE  LET m == [e EXCEPT !.serial = n]
         IN  /\ m \in Mails /\ m.to = e.to /\ m.serial = n
             /\ m.mailFrom = e.mailFrom /\ m.text = e.text
<1> DEFINE Senders == {"", "invalid"} \union Sender
           Texts == Seq(Messages)
<1> HIDE DEF Senders, Texts
<1>1. Mails = [to : {"local", "remote"}, mailFrom : Senders, text : Texts,
               second : Nat, serial : Nat]
  BY DEF Mails, Senders, Texts
<1>2. [e EXCEPT !.serial = n] \in Mails
  BY <1>1
<1> QED
  BY <1>1, <1>2

-----------------------------------------------------------------------------
(* The steps of a session and its smtpec keep QueueInv, and no mail is lost *)
(* sight of.                                                               *)

NoneLost == \A e : QueuedOrRelayed(e) => QueuedOrRelayed(e)'

\* A step that moves no mail.
LEMMA NoMailMoves ==
  ASSUME QueueInv,
         UNCHANGED <<mqueue, emails, received, deaths, overwritten, dropped>>,
         \A u \in Session :
            stage'[u] = stage[u]
              \/ {stage[u], stage'[u]} \intersect {"sending", "truncated"} = {}
  PROVE  NoneLost /\ ReadIsPrefix' /\ OncePerPlace' /\ KnownIsMarked' /\ RelayedOnce'
<1>1. \A u \in Session : /\ stage'[u] = "truncated" <=> stage[u] = "truncated"
                         /\ stage'[u] = "sending" <=> stage[u] = "sending"
  OBVIOUS
<1>2. \A u : Unsent(u)' = Unsent(u)
  BY DEF Unsent
<1>3. NoneLost
  BY <1>1, <1>2 DEF NoneLost, QueuedOrRelayed
<1>4. ReadIsPrefix'
  BY <1>1 DEF QueueInv, ReadIsPrefix
<1>5. OncePerPlace'
  BY <1>1 DEF QueueInv, OncePerPlace
<1>6. KnownIsMarked'
  BY <1>1 DEF QueueInv, KnownIsMarked
<1>7. RelayedOnce'
  BY DEF QueueInv, RelayedOnce
<1> QED
  BY <1>3, <1>4, <1>5, <1>6, <1>7

LEMMA EnqueueKeepsQueueInv ==
  ASSUME QueueInv, NEW s \in Session, NEW e \in Mails, e.to = "remote", Enqueue(s, e)
  PROVE  QueueInv' /\ NoneLost
<1>1. /\ stage \in [Session -> Stage] /\ stage[s] = "none"
      /\ stage' = [stage EXCEPT ![s] = "open"]
      /\ queued \in Nat /\ queued' = queued + 1
      /\ entry' = [entry EXCEPT ![s] = [e EXCEPT !.serial = queued']]
      /\ UNCHANGED <<mqueue, lock, emails, received, deaths, overwritten, dropped>>
  BY DEF Enqueue, At, QueueInv, QueueTypes
<1>2. /\ stage'[s] = "open"
      /\ \A u \in Session : u # s => stage'[u] = stage[u]
  BY <1>1
<1>3. NoneLost /\ ReadIsPrefix' /\ OncePerPlace' /\ KnownIsMarked' /\ RelayedOnce'
  <2>1. \A u \in Session :
            stage'[u] = stage[u]
              \/ {stage[u], stage'[u]} \intersect {"sending", "truncated"} = {}
    BY <1>1, <1>2
  <2> QED
    BY <1>1, <2>1, NoMailMoves
<1>4. /\ entry'[s] \in Mails /\ entry'[s].to = "remote" /\ entry'[s].serial = queued'
      /\ \A u \in Session : u # s => entry'[u] = entry[u]
      /\ entry' \in [Session -> Mails \union {<<>>}]
  <2>1. [e EXCEPT !.serial = queued'] \in Mails /\ [e EXCEPT !.serial = queued'].to = "remote"
        /\ [e EXCEPT !.serial = queued'].serial = queued'
    BY <1>1, Numbered
  <2>2. entry \in [Session -> Mails \union {<<>>}]
    BY DEF QueueInv, QueueTypes
  <2> QED
    BY <1>1, <2>1, <2>2
<1>5. QueueTypes'
  <2>1. \A u \in Session : stage'[u] # "none" =>
           entry'[u] \in Mails /\ entry'[u].to = "remote"
    BY <1>1, <1>2, <1>4 DEF QueueInv, QueueTypes
  <2>2. stage' \in [Session -> Stage] /\ queued' \in Nat
    BY <1>1 DEF Stage
  <2> QED
    BY <1>1, <1>4, <2>1, <2>2 DEF QueueInv, QueueTypes
<1>6. LockIsHeld'
  BY <1>1, <1>2 DEF QueueInv, LockIsHeld
<1>7. FlushedIsKept'
  BY <1>2, <1>3, <1>4 DEF QueueInv, FlushedIsKept, NoneLost
<1>8. Unflushed' = Unflushed \union {s}
  BY <1>1, <1>2 DEF Unflushed
<1>9. /\ \A u \in Unflushed : u # s /\ entry'[u] = entry[u] /\ entry[u].serial <= queued
                              /\ entry[u].serial \in Nat
      /\ \A i \in 1 .. Len(mqueue) : mqueue[i].serial <= queued /\ mqueue[i].serial \in Nat
      /\ \A u \in Session : \A i \in 1 .. Len(emails[u]) :
            emails[u][i].mail.serial <= queued /\ emails[u][i].mail.serial \in Nat
      /\ \A i \in 1 .. Len(received) :
            received[i].mail.serial <= queued /\ received[i].mail.serial \in Nat
  <2>1. \A u \in Unflushed : u # s /\ entry'[u] = entry[u] /\ entry[u].serial <= queued
                              /\ entry[u].serial \in Nat
    BY <1>1, <1>4 DEF Unflushed, QueueInv, QueueTypes, SerialsBounded, Mails
  <2>2. \A i \in 1 .. Len(mqueue) : mqueue[i].serial <= queued /\ mqueue[i].serial \in Nat
    BY AreMails DEF QueueInv, SerialsBounded
  <2>3. \A u \in Session : \A i \in 1 .. Len(emails[u]) :
            emails[u][i].mail.serial <= queued /\ emails[u][i].mail.serial \in Nat
    BY AreMails DEF QueueInv, SerialsBounded
  <2>4. \A i \in 1 .. Len(received) :
            received[i].mail.serial <= queued /\ received[i].mail.serial \in Nat
    BY AreMails DEF QueueInv, SerialsBounded
  <2> QED
    BY <2>1, <2>2, <2>3, <2>4
<1>10. SerialsBounded'
  BY <1>1, <1>4, <1>8, <1>9 DEF SerialsBounded
<1>11. UnflushedIsNew'
  BY <1>1, <1>4, <1>8, <1>9 DEF QueueInv, UnflushedIsNew
<1> QED
  BY <1>3, <1>5, <1>6, <1>7, <1>10, <1>11 DEF QueueInv

\* A session goes on before the mail is flushed, or after all is done.
LEMMA LightSteps ==
  ASSUME QueueInv, NEW s \in Session, NEW y \in {"unsuccessful", "written", "unlocked", "none"},
         stage' = [stage EXCEPT ![s] = y],
         stage[s] \notin {"none", "sending", "truncated"},
         y \in {"written", "unlocked"} => s \in Unflushed,
         lock' \in Session \union {NoSession}, LockIsHeld',
         entry' = entry \/ (y = "none" /\ entry' = [entry EXCEPT ![s] = <<>>]),
         UNCHANGED <<queued, mqueue, emails, received, deaths, overwritten, dropped>>
  PROVE  QueueInv' /\ NoneLost
<1>1. stage \in [Session -> Stage] /\ entry \in [Session -> Mails \union {<<>>}]
  BY DEF QueueInv, QueueTypes
<1>2. stage'[s] = y /\ \A u \in Session : u # s => stage'[u] = stage[u]
  BY <1>1
<1>3. \A u \in Session : u # s \/ y # "none" => entry'[u] = entry[u]
  BY <1>1
<1>4. NoneLost /\ ReadIsPrefix' /\ OncePerPlace' /\ KnownIsMarked' /\ RelayedOnce'
  <2>1. \A u \in Session :
            stage'[u] = stage[u]
              \/ {stage[u], stage'[u]} \intersect {"sending", "truncated"} = {}
    BY <1>2
  <2> QED
    BY <2>1, NoMailMoves
<1>5. QueueTypes'
  <2>1. stage' \in [Session -> Stage]
    BY <1>1 DEF Stage
  <2>2. entry' \in [Session -> Mails \union {<<>>}]
    BY <1>1
  <2>3. \A u \in Session : stage'[u] # "none" =>
           entry'[u] \in Mails /\ entry'[u].to = "remote"
    BY <1>2, <1>3 DEF QueueInv, QueueTypes
  <2> QED
    BY <2>1, <2>2, <2>3 DEF QueueInv, QueueTypes
<1>6. FlushedIsKept'
  BY <1>2, <1>3, <1>4 DEF QueueInv, FlushedIsKept, NoneLost
<1>7. \A u \in Unflushed' : u \in Unflushed /\ entry'[u] = entry[u]
  BY <1>2, <1>3 DEF Unflushed
<1>8. SerialsBounded'
  BY <1>7 DEF QueueInv, SerialsBounded
<1>9. UnflushedIsNew'
  BY <1>7 DEF QueueInv, UnflushedIsNew
<1> QED
  BY <1>4, <1>5, <1>6, <1>8, <1>9 DEF QueueInv

LEMMA OpenFailsKeepsQueueInv ==
  ASSUME QueueInv, NEW s \in Session, OpenFails(s)
  PROVE  QueueInv' /\ NoneLost
<1>1. /\ stage \in [Session -> Stage] /\ stage[s] = "open"
      /\ stage' = [stage EXCEPT ![s] = "unsuccessful"]
      /\ UNCHANGED <<lock, entry, queued, mqueue, emails, received, deaths, overwritten, dropped>>
      /\ lock \in Session \union {NoSession}
  BY DEF OpenFails, At, QueueInv, QueueTypes
<1>2. LockIsHeld'
  BY <1>1 DEF QueueInv, LockIsHeld
<1> QED
  <2>1. /\ entry' = entry \/ entry' = [entry EXCEPT ![s] = <<>>]
        /\ UNCHANGED <<queued, mqueue, emails, received, deaths, overwritten, dropped>>
    BY <1>1
  <2> QED
    BY <2>1, <1>1, <1>2, LightSteps

LEMMA LockAndPrintKeepsQueueInv ==
  ASSUME QueueInv, NEW s \in Session, LockAndPrint(s)
  PROVE  QueueInv' /\ NoneLost
<1>1. /\ stage \in [Session -> Stage] /\ stage[s] = "open"
      /\ stage' = [stage EXCEPT ![s] = "written"]
      /\ lock = NoSession /\ lock' = s
      /\ UNCHANGED <<entry, queued, mqueue, emails, received, deaths, overwritten, dropped>>
  BY DEF LockAndPrint, At, QueueInv, QueueTypes
<1>2. LockIsHeld'
  <2>1. \A u \in Session : u # lock
    BY <1>1, QueueAssumption
  <2> QED
    BY <1>1, <2>1 DEF QueueInv, LockIsHeld
<1>3. s \in Unflushed
  BY <1>1 DEF Unflushed
<1> QED
  <2>1. /\ entry' = entry \/ entry' = [entry EXCEPT ![s] = <<>>]
        /\ UNCHANGED <<queued, mqueue, emails, received, deaths, overwritten, dropped>>
    BY <1>1
  <2> QED
    BY <2>1, <1>1, <1>2, <1>3, LightSteps

LEMMA UnlockKeepsQueueInv ==
  ASSUME QueueInv, NEW s \in Session, Unlock(s)
  PROVE  QueueInv' /\ NoneLost
<1>1. /\ stage \in [Session -> Stage] /\ stage[s] = "written"
      /\ stage' = [stage EXCEPT ![s] = "unlocked"]
      /\ lock' = NoSession
      /\ UNCHANGED <<entry, queued, mqueue, emails, received, deaths, overwritten, dropped>>
  BY DEF Unlock, At, QueueInv, QueueTypes
<1>2. LockIsHeld'
  <2>1. \A u \in Session : u # NoSession
    BY QueueAssumption
  <2>2. lock = s
    BY <1>1 DEF QueueInv, LockIsHeld
  <2> QED
    BY <1>1, <2>1, <2>2 DEF QueueInv, LockIsHeld
<1>3. s \in Unflushed
  BY <1>1 DEF Unflushed
<1> QED
  <2>1. /\ entry' = entry \/ entry' = [entry EXCEPT ![s] = <<>>]
        /\ UNCHANGED <<queued, mqueue, emails, received, deaths, overwritten, dropped>>
    BY <1>1
  <2> QED
    BY <2>1, <1>1, <1>2, <1>3, LightSteps

LEMMA QueuedKeepsQueueInv ==
  ASSUME QueueInv, NEW s \in Session, NEW ok \in BOOLEAN, Queued(s, ok)
  PROVE  QueueInv' /\ NoneLost
<1>1. /\ stage \in [Session -> Stage] /\ stage[s] \in {"successful", "unsuccessful"}
      /\ stage' = [stage EXCEPT ![s] = "none"]
      /\ entry' = [entry EXCEPT ![s] = <<>>]
      /\ lock \in Session \union {NoSession}
      /\ UNCHANGED <<lock, queued, mqueue, emails, received, deaths, overwritten, dropped>>
  BY DEF Queued, At, QueueInv, QueueTypes
<1>2. LockIsHeld'
  BY <1>1 DEF QueueInv, LockIsHeld
<1> QED
  <2>1. /\ entry' = entry \/ entry' = [entry EXCEPT ![s] = <<>>]
        /\ UNCHANGED <<queued, mqueue, emails, received, deaths, overwritten, dropped>>
    BY <1>1
  <2> QED
    BY <2>1, <1>1, <1>2, LightSteps

LEMMA FlushKeepsQueueInv ==
  ASSUME QueueInv, NEW s \in Session, Flush(s)
  PROVE  QueueInv' /\ NoneLost
<1> DEFINE n == Len(mqueue)
<1>1. /\ stage \in [Session -> Stage] /\ stage[s] = "unlocked"
      /\ stage' = [stage EXCEPT ![s] = "system"]
      /\ mqueue' = Append(mqueue, entry[s])
      /\ UNCHANGED <<lock, entry, queued, emails, received, deaths, overwritten, dropped>>
  BY DEF Flush, At, QueueInv, QueueTypes
<1>2. stage'[s] = "system" /\ \A u \in Session : u # s => stage'[u] = stage[u]
  BY <1>1
<1>3. entry[s] \in Mails /\ mqueue \in Seq(Mails)
  BY <1>1 DEF QueueInv, QueueTypes
<1>4. /\ mqueue' \in Seq(Mails) /\ Len(mqueue') = n + 1 /\ n \in Nat
      /\ mqueue'[n + 1] = entry[s]
      /\ \A i \in 1 .. n : mqueue'[i] = mqueue[i]
  BY <1>1, <1>3, AppendProperties, LenProperties
<1>5. \A i \in 1 .. n + 1 : i = n + 1 \/ i \in 1 .. n
  BY <1>4
<1>6. \A i \in 1 .. n : i \in 1 .. n + 1 /\ i # n + 1
  BY <1>4
<1>7. n + 1 \in 1 .. n + 1
  BY <1>4
<1> HIDE DEF n
<1>8. ToSet(mqueue') = ToSet(mqueue) \union {entry[s]}
  <2>1. ToSet(mqueue) = {mqueue[i] : i \in 1 .. n}
    BY <1>3, SetOf DEF n
  <2>2. ToSet(mqueue') = {mqueue'[i] : i \in 1 .. n + 1}
    BY <1>4, SetOf
  <2> QED
    BY <2>1, <2>2, <1>4, <1>5, <1>6, <1>7
<1>9. \A u : Unsent(u)' = Unsent(u)
  BY <1>1 DEF Unsent
<1>10. \A u \in Session : stage'[u] = "truncated" <=> stage[u] = "truncated"
  BY <1>1, <1>2
<1>11. NoneLost
  BY <1>1, <1>8, <1>9, <1>10 DEF NoneLost, QueuedOrRelayed
<1>12. QueueTypes'
  <2>1. stage' \in [Session -> Stage]
    BY <1>1 DEF Stage
  <2>2. \A u \in Session : stage'[u] # "none" =>
           entry'[u] \in Mails /\ entry'[u].to = "remote"
    BY <1>1, <1>2 DEF QueueInv, QueueTypes
  <2> QED
    BY <1>1, <1>4, <2>1, <2>2 DEF QueueInv, QueueTypes
<1>13. LockIsHeld'
  BY <1>1, <1>2 DEF QueueInv, LockIsHeld
<1>14. ReadIsPrefix'
  <2>1. \A u \in Session : stage'[u] \notin {"sending", "truncated"} => emails'[u] = <<>>
    BY <1>1, <1>2 DEF QueueInv, ReadIsPrefix
  <2>2. ASSUME NEW u \in Session, stage'[u] = "sending"
        PROVE  /\ Len(emails'[u]) <= Len(mqueue')
               /\ \A i \in 1 .. Len(emails'[u]) : emails'[u][i].mail = mqueue'[i]
    <3>1. /\ Len(emails[u]) <= n
          /\ \A i \in 1 .. Len(emails[u]) : emails[u][i].mail = mqueue[i]
      BY <1>1, <1>2, <2>2 DEF QueueInv, ReadIsPrefix, n
    <3>2. Len(emails[u]) \in Nat
      BY AreMails DEF QueueInv
    <3>3. \A i \in 1 .. Len(emails[u]) : i \in 1 .. n
      BY <1>4, <3>1, <3>2
    <3> QED
      BY <1>1, <1>4, <3>1, <3>2, <3>3
  <2>3. \A u \in Session : \A i \in 1 .. Len(emails'[u]) :
           emails'[u][i].sent =>
              /\ emails'[u][i].tried
              /\ \E j \in 1 .. Len(received') : received'[j].mail = emails'[u][i].mail
    BY <1>1 DEF QueueInv, ReadIsPrefix
  <2> QED
    BY <2>1, <2>2, <2>3 DEF ReadIsPrefix
<1>15. FlushedIsKept'
  <2>1. QueuedOrRelayed(entry[s])'
    BY <1>1, <1>8 DEF QueuedOrRelayed
  <2> QED
    BY <1>1, <1>2, <1>11, <2>1 DEF QueueInv, FlushedIsKept, NoneLost
<1>16. Unflushed' = Unflushed \ {s} /\ s \in Unflushed
  BY <1>1, <1>2 DEF Unflushed
<1>17. SerialsBounded'
  BY <1>1, <1>4, <1>5, <1>16 DEF QueueInv, SerialsBounded, n
<1>18. UnflushedIsNew'
  <2>1. \A u \in Unflushed' : \A i \in 1 .. Len(mqueue') : mqueue'[i].serial # entry'[u].serial
    BY <1>1, <1>4, <1>5, <1>16 DEF QueueInv, UnflushedIsNew, n
  <2> QED
    BY <1>1, <1>16, <2>1 DEF QueueInv, UnflushedIsNew
<1>19. OncePerPlace'
  <2>1. \A i \in 1 .. n : mqueue[i].serial # entry[s].serial
    BY <1>16 DEF QueueInv, UnflushedIsNew, n
  <2>2. \A i, j \in 1 .. n : mqueue[i].serial = mqueue[j].serial => i = j
    BY DEF QueueInv, OncePerPlace, n
  <2>3. \A i, j \in 1 .. n + 1 : mqueue'[i].serial = mqueue'[j].serial => i = j
    BY <1>4, <1>5, <2>1, <2>2
  <2>4. ASSUME NEW u \in Session, stage'[u] = "truncated",
               NEW i \in 1 .. Len(emails[u]), NEW j \in 1 .. n + 1
        PROVE  emails[u][i].mail.serial # mqueue'[j].serial
    <3>1. emails[u][i].mail.serial # entry[s].serial
      BY <1>16 DEF QueueInv, UnflushedIsNew
    <3>2. j \in 1 .. n => emails[u][i].mail.serial # mqueue[j].serial
      BY <1>10, <2>4 DEF QueueInv, OncePerPlace, n
    <3> QED
      BY <1>4, <1>5, <3>1, <3>2
  <2> QED
    BY <1>1, <1>4, <2>3, <2>4 DEF QueueInv, OncePerPlace
<1>20. KnownIsMarked'
  <2> SUFFICES ASSUME deaths = 0, NEW k \in 1 .. Len(received), received[k].known
               PROVE  /\ \A u \in Session : \A i \in 1 .. Len(emails[u]) :
                            emails[u][i].mail.serial = received[k].mail.serial
                               => emails[u][i].sent
                      /\ \A j \in 1 .. Len(mqueue') :
                            mqueue'[j].serial = received[k].mail.serial =>
                               \E u \in Session : stage'[u] = "sending" /\ j <= Len(emails[u])
    BY <1>1 DEF KnownIsMarked
  <2>1. entry[s].serial # received[k].mail.serial
    BY <1>16 DEF QueueInv, UnflushedIsNew
  <2>2. \A j \in 1 .. n : mqueue[j].serial = received[k].mail.serial =>
           \E u \in Session : stage[u] = "sending" /\ j <= Len(emails[u])
    BY DEF QueueInv, KnownIsMarked, n
  <2>3. \A u \in Session : stage[u] = "sending" => stage'[u] = "sending"
    BY <1>1, <1>2
  <2> QED
    BY <1>4, <1>5, <2>1, <2>2, <2>3 DEF QueueInv, KnownIsMarked
<1>21. RelayedOnce'
  BY <1>1 DEF QueueInv, RelayedOnce
<1> QED
  BY <1>11, <1>12, <1>13, <1>14, <1>15, <1>17, <1>18, <1>19, <1>20, <1>21 DEF QueueInv

\* One session at a time prints, or has an smtpec that works.
LEMMA OneWorks ==
  ASSUME QueueInv, NEW s \in Session, NEW u \in Session,
         stage[s] \in {"written", "sending", "truncated"},
         stage[u] \in {"written", "sending", "truncated"}
  PROVE  s = u
BY DEF QueueInv, LockIsHeld

LEMMA ReadQueueKeepsQueueInv ==
  ASSUME QueueInv, NEW s \in Session, ReadQueue(s)
  PROVE  QueueInv' /\ NoneLost
<1> DEFINE Track == [mail : Mails, tried : BOOLEAN, sent : BOOLEAN]
           n == Len(mqueue)
           read == [i \in 1 .. n |-> [mail |-> mqueue[i], tried |-> FALSE, sent |-> FALSE]]
<1>1. /\ stage \in [Session -> Stage] /\ stage[s] = "system"
      /\ stage' = [stage EXCEPT ![s] = "sending"]
      /\ lock = NoSession /\ lock' = s
      /\ emails \in [Session -> Seq(Track)]
      /\ emails' = [emails EXCEPT ![s] = read]
      /\ UNCHANGED <<mqueue, entry, queued, received, deaths, overwritten, dropped>>
  BY DEF ReadQueue, At, QueueInv, QueueTypes
<1>2. /\ n \in Nat /\ \A i \in 1 .. n : mqueue[i] \in Mails
  BY AreMails DEF QueueInv
<1>3. read \in Seq(Track) /\ Len(read) = n
  <2>1. read \in [1 .. n -> Track]
    BY <1>2
  <2> QED
    BY <1>2, <2>1, IsASeq, LenProperties
<1>4. \A i \in 1 .. n : read[i].mail = mqueue[i] /\ ~read[i].sent
  OBVIOUS
<1> HIDE DEF read, n, Track
<1>5. /\ stage'[s] = "sending" /\ \A u \in Session : u # s => stage'[u] = stage[u]
      /\ emails'[s] = read /\ \A u \in Session : u # s => emails'[u] = emails[u]
  BY <1>1
<1>6. \A u \in Session : /\ stage[u] \notin {"written", "sending", "truncated"}
                         /\ emails[u] = <<>>
  <2>1. \A u \in Session : u # NoSession
    BY QueueAssumption
  <2> QED
    BY <1>1, <2>1 DEF QueueInv, LockIsHeld, ReadIsPrefix
<1>7. \A u \in Session : u # s => emails'[u] = <<>>
  BY <1>5, <1>6
<1>8. NoneLost
  BY <1>1, <1>6 DEF NoneLost, QueuedOrRelayed
<1>9. QueueTypes'
  <2>1. stage' \in [Session -> Stage]
    BY <1>1 DEF Stage
  <2>2. \A u \in Session : stage'[u] # "none" =>
           entry'[u] \in Mails /\ entry'[u].to = "remote"
    BY <1>1, <1>5 DEF QueueInv, QueueTypes
  <2>3. emails' \in [Session -> Seq(Track)]
    BY <1>1, <1>3
  <2> QED
    BY <1>1, <2>1, <2>2, <2>3 DEF QueueInv, QueueTypes, Track
<1>10. LockIsHeld'
  BY <1>1, <1>5, <1>6 DEF LockIsHeld
<1>11. ReadIsPrefix'
  <2>1. /\ Len(emails'[s]) <= Len(mqueue')
        /\ \A i \in 1 .. Len(emails'[s]) : emails'[s][i].mail = mqueue'[i] /\ ~emails'[s][i].sent
    BY <1>1, <1>2, <1>3, <1>4, <1>5 DEF n
  <2>2. \A u \in Session : u # s => stage'[u] # "sending" /\ Len(emails'[u]) = 0
    BY <1>5, <1>6
  <2> QED
    BY <1>5, <1>7, <2>1, <2>2 DEF ReadIsPrefix
<1>12. FlushedIsKept'
  BY <1>1, <1>5, <1>8 DEF QueueInv, FlushedIsKept, NoneLost
<1>13. Unflushed' = Unflushed /\ s \notin Unflushed
  BY <1>1, <1>5 DEF Unflushed
<1>14. \A u \in Session : \A i \in 1 .. Len(emails'[u]) :
          u = s /\ i \in 1 .. n /\ emails'[u][i].mail = mqueue[i]
  BY <1>3, <1>4, <1>5, <1>7
<1>15. SerialsBounded'
  BY <1>1, <1>13, <1>14 DEF QueueInv, SerialsBounded, n
<1>16. UnflushedIsNew'
  BY <1>1, <1>13, <1>14 DEF QueueInv, UnflushedIsNew, n
<1>17. OncePerPlace'
  <2>1. \A u \in Session : stage'[u] # "truncated"
    BY <1>5, <1>6
  <2>2. \A i, j \in 1 .. n : mqueue[i].serial = mqueue[j].serial => i = j
    BY DEF QueueInv, OncePerPlace, n
  <2>3. \A u \in Session : \A i, j \in 1 .. Len(emails'[u]) :
           emails'[u][i].mail.serial = emails'[u][j].mail.serial => i = j
    BY <1>14, <2>2
  <2> QED
    BY <1>1, <2>1, <2>2, <2>3 DEF OncePerPlace, n
<1>18. KnownIsMarked'
  <2>1. \A k \in 1 .. Len(received) : deaths = 0 /\ received[k].known =>
           \A j \in 1 .. n : mqueue[j].serial # received[k].mail.serial
    BY <1>6 DEF QueueInv, KnownIsMarked, n
  <2>2. \A k \in 1 .. Len(received) : deaths = 0 /\ received[k].known =>
           \A u \in Session : \A i \in 1 .. Len(emails'[u]) :
              emails'[u][i].mail.serial # received[k].mail.serial
    BY <1>14, <2>1
  <2> QED
    BY <1>1, <2>1, <2>2 DEF KnownIsMarked, n
<1>19. RelayedOnce'
  BY <1>1 DEF QueueInv, RelayedOnce
<1> QED
  BY <1>8, <1>9, <1>10, <1>11, <1>12, <1>15, <1>16, <1>17, <1>18, <1>19 DEF QueueInv

LEMMA AttemptDeliveryKeepsQueueInv ==
  ASSUME QueueInv, NEW s \in Session, NEW taken \in BOOLEAN, NEW told \in BOOLEAN,
         told => taken, AttemptDelivery(s, taken, told)
  PROVE  QueueInv' /\ NoneLost
<1> DEFINE Track == [mail : Mails, tried : BOOLEAN, sent : BOOLEAN]
           Got == [mail : Mails, known : BOOLEAN]
           u == Untried(s)
           m == emails[s][u].mail
           r == [mail |-> m, known |-> told]
           n == Len(received)
           tracked == [emails[s][u] EXCEPT !.tried = TRUE, !.sent = told]
<1>1. /\ stage[s] = "sending" /\ u # 0
      /\ emails \in [Session -> Seq(Track)]
      /\ emails' = [emails EXCEPT ![s][u].tried = TRUE, ![s][u].sent = told]
      /\ received' = IF taken THEN Append(received, r) ELSE received
      /\ received \in Seq(Got)
      /\ UNCHANGED <<mqueue, lock, stage, entry, queued, deaths, overwritten, dropped>>
  BY DEF AttemptDelivery, QueueInv, QueueTypes
<1>2. u \in 1 .. Len(emails[s]) /\ ~emails[s][u].tried
  BY <1>1, UntriedIsNext
<1>3. emails[s] \in Seq(Track) /\ emails[s][u] \in Track
  BY <1>1, <1>2, ElementOfSeq
<1>4. m \in Mails /\ r \in Got
  BY <1>3
<1>5. emails' = [emails EXCEPT ![s] = [emails[s] EXCEPT ![u] = tracked]]
  BY <1>1, <1>2, <1>3
<1>6. tracked \in Track /\ tracked.mail = m /\ tracked.tried /\ tracked.sent = told
  BY <1>3
<1> HIDE DEF u, tracked
<1>7. /\ emails'[s] \in Seq(Track) /\ Len(emails'[s]) = Len(emails[s])
      /\ emails'[s][u] = tracked
      /\ \A i \in 1 .. Len(emails[s]) : i # u => emails'[s][i] = emails[s][i]
  <2>1. emails'[s] = [emails[s] EXCEPT ![u] = tracked]
    BY <1>1, <1>5
  <2> QED
    BY <1>2, <1>3, <1>6, <2>1, ExceptSeq
<1>8. \A v \in Session : v # s => emails'[v] = emails[v]
  BY <1>5, <1>1
<1>9. \A v \in Session : /\ Len(emails'[v]) = Len(emails[v])
                         /\ \A i \in 1 .. Len(emails[v]) : emails'[v][i].mail = emails[v][i].mail
  BY <1>6, <1>7, <1>8
<1>10. /\ n \in Nat /\ received' \in Seq(Got)
       /\ \A k \in 1 .. n : k \in 1 .. Len(received') /\ received'[k] = received[k]
       /\ \A k \in 1 .. Len(received') :
             k \in 1 .. n \/ (k = n + 1 /\ taken /\ received'[k] = r)
       /\ taken => n + 1 \in 1 .. Len(received') /\ received'[n + 1] = r
  <2>1. n \in Nat
    BY <1>1, LenProperties
  <2>2. CASE taken
    <3>1. received' \in Seq(Got) /\ Len(received') = n + 1 /\ received'[n + 1] = r
          /\ \A k \in 1 .. n : received'[k] = received[k]
      BY <1>1, <1>4, <2>2, AppendProperties
    <3> HIDE DEF n, r
    <3> QED
      BY <2>1, <2>2, <3>1
  <2>3. CASE ~taken
    BY <1>1, <2>1, <2>3
  <2> QED
    BY <2>1, <2>2, <2>3
<1> HIDE DEF n, r, Track, Got
<1>11. \A v \in Session : stage[v] # "truncated" /\ (stage[v] = "sending" => v = s)
  BY <1>1, OneWorks
<1>12. NoneLost
  BY <1>1, <1>10, <1>11 DEF NoneLost, QueuedOrRelayed, n
<1>13. QueueTypes'
  <2>1. emails' \in [Session -> Seq(Track)]
    BY <1>1, <1>5, <1>7
  <2> QED
    BY <1>1, <1>10, <2>1 DEF QueueInv, QueueTypes, Track, Got
<1>14. LockIsHeld'
  BY <1>1 DEF QueueInv, LockIsHeld
<1>15. ReadIsPrefix'
  <2>1. \A v \in Session : stage'[v] \notin {"sending", "truncated"} => emails'[v] = <<>>
    BY <1>1, <1>8 DEF QueueInv, ReadIsPrefix
  <2>2. \A v \in Session : stage'[v] = "sending" =>
           /\ Len(emails'[v]) <= Len(mqueue')
           /\ \A i \in 1 .. Len(emails'[v]) : emails'[v][i].mail = mqueue'[i]
    BY <1>1, <1>9 DEF QueueInv, ReadIsPrefix
  <2>3. ASSUME NEW v \in Session, NEW i \in 1 .. Len(emails'[v]), emails'[v][i].sent
        PROVE  /\ emails'[v][i].tried
               /\ \E j \in 1 .. Len(received') : received'[j].mail = emails'[v][i].mail
    <3>1. CASE v = s /\ i = u
      <4>1. told /\ taken /\ emails'[v][i].tried /\ emails'[v][i].mail = m
        BY <1>6, <1>7, <2>3, <3>1
      <4>2. received'[n + 1].mail = m /\ n + 1 \in 1 .. Len(received')
        BY <1>10, <4>1 DEF r
      <4> QED
        BY <4>1, <4>2
    <3>2. CASE ~(v = s /\ i = u)
      <4>1. emails'[v][i] = emails[v][i] /\ i \in 1 .. Len(emails[v])
        BY <1>7, <1>8, <2>3, <3>2
      <4>2. /\ emails[v][i].tried
            /\ \E j \in 1 .. Len(received) : received[j].mail = emails[v][i].mail
        BY <2>3, <4>1 DEF QueueInv, ReadIsPrefix
      <4> QED
        BY <1>10, <4>1, <4>2 DEF n
    <3> QED
      BY <3>1, <3>2
  <2> QED
    BY <2>1, <2>2, <2>3 DEF ReadIsPrefix
<1>16. FlushedIsKept'
  BY <1>1, <1>12 DEF QueueInv, FlushedIsKept, NoneLost
<1>17. Unflushed' = Unflushed
  BY <1>1 DEF Unflushed
<1>18. SerialsBounded'
  <2>1. m.serial <= queued
    BY <1>2 DEF QueueInv, SerialsBounded
  <2>2. \A k \in 1 .. Len(received') : received'[k].mail.serial <= queued
    BY <1>10, <2>1 DEF QueueInv, SerialsBounded, n, r
  <2> QED
    BY <1>1, <1>9, <1>17, <2>2 DEF QueueInv, SerialsBounded
<1>19. UnflushedIsNew'
  <2>1. \A v \in Unflushed : m.serial # entry[v].serial
    BY <1>2 DEF QueueInv, UnflushedIsNew
  <2>2. \A v \in Unflushed : \A k \in 1 .. Len(received') :
           received'[k].mail.serial # entry[v].serial
    BY <1>10, <2>1 DEF QueueInv, UnflushedIsNew, n, r
  <2> QED
    BY <1>1, <1>9, <1>17, <2>2 DEF QueueInv, UnflushedIsNew
<1>20. OncePerPlace'
  <2>1. \A v \in Session : \A i, j \in 1 .. Len(emails'[v]) :
           emails'[v][i].mail.serial = emails'[v][j].mail.serial => i = j
    BY <1>9 DEF QueueInv, OncePerPlace
  <2> QED
    BY <1>1, <1>11, <2>1 DEF QueueInv, OncePerPlace
\* The mail has not arrived before to the knowledge of any smtpec.
<1>21. ASSUME deaths = 0, NEW k \in 1 .. n, received[k].mail.serial = m.serial
       PROVE  ~received[k].known
  <2>1. ~emails[s][u].sent
    BY <1>2 DEF QueueInv, ReadIsPrefix
  <2> QED
    BY <1>2, <1>21, <2>1 DEF QueueInv, KnownIsMarked, n
<1>22. KnownIsMarked'
  <2> SUFFICES ASSUME deaths = 0, NEW k \in 1 .. Len(received'), received'[k].known
               PROVE  /\ \A v \in Session : \A i \in 1 .. Len(emails'[v]) :
                            emails'[v][i].mail.serial = received'[k].mail.serial
                               => emails'[v][i].sent
                      /\ \A j \in 1 .. Len(mqueue) :
                            mqueue[j].serial = received'[k].mail.serial =>
                               \E v \in Session : stage[v] = "sending" /\ j <= Len(emails'[v])
    BY <1>1 DEF KnownIsMarked
  <2>1. CASE k \in 1 .. n
    <3>1. received'[k] = received[k] /\ received[k].known
      BY <1>10, <2>1
    <3>2. received[k].mail.serial # m.serial
      BY <1>21, <2>1, <3>1
    <3>3. ASSUME NEW v \in Session, NEW i \in 1 .. Len(emails'[v]),
                 emails'[v][i].mail.serial = received[k].mail.serial
          PROVE  emails'[v][i].sent
      <4>1. i \in 1 .. Len(emails[v]) /\ emails[v][i].mail.serial = received[k].mail.serial
        BY <1>9, <3>3
      <4>2. ~(v = s /\ i = u)
        BY <3>2, <4>1
      <4>3. emails'[v][i] = emails[v][i]
        BY <1>7, <1>8, <4>1, <4>2
      <4> QED
        BY <2>1, <3>1, <4>1, <4>3 DEF QueueInv, KnownIsMarked, n
    <3>4. \A j \in 1 .. Len(mqueue) : mqueue[j].serial = received[k].mail.serial =>
             \E v \in Session : stage[v] = "sending" /\ j <= Len(emails'[v])
      BY <1>9, <2>1, <3>1 DEF QueueInv, KnownIsMarked, n
    <3> QED
      BY <3>1, <3>3, <3>4
  <2>2. CASE k \notin 1 .. n
    <3>1. received'[k] = r /\ told
      BY <1>10, <2>2 DEF r
    <3>2. received'[k].mail = m
      BY <3>1 DEF r
    <3>3. ASSUME NEW v \in Session, NEW i \in 1 .. Len(emails'[v]),
                 emails'[v][i].mail.serial = m.serial
          PROVE  emails'[v][i].sent
      <4>1. i \in 1 .. Len(emails[v]) /\ emails[v][i].mail.serial = m.serial
        BY <1>9, <3>3
      <4>2. v = s
        <5>1. emails[v] # <<>>
          BY <4>1
        <5> QED
          BY <1>11, <5>1 DEF QueueInv, ReadIsPrefix
      <4>3. i = u
        BY <1>2, <4>1, <4>2 DEF QueueInv, OncePerPlace
      <4> QED
        BY <1>6, <1>7, <3>1, <4>2, <4>3
    <3>4. ASSUME NEW j \in 1 .. Len(mqueue), mqueue[j].serial = m.serial
          PROVE  j <= Len(emails'[s])
      <4>1. /\ Len(emails[s]) <= Len(mqueue)
            /\ mqueue[u] = m
        BY <1>1, <1>2 DEF QueueInv, ReadIsPrefix
      <4>2. u \in 1 .. Len(mqueue)
        <5>1. Len(mqueue) \in Nat /\ Len(emails[s]) \in Nat
          BY AreMails DEF QueueInv
        <5> QED
          BY <1>2, <4>1, <5>1
      <4>3. j = u
        BY <3>4, <4>1, <4>2 DEF QueueInv, OncePerPlace
      <4>4. Len(emails[s]) \in Nat
        BY AreMails DEF QueueInv
      <4> QED
        BY <1>2, <1>7, <4>3, <4>4
    <3> QED
      BY <1>1, <3>2, <3>3, <3>4
  <2> QED
    BY <2>1, <2>2
<1>23. RelayedOnce'
  <2> SUFFICES ASSUME NEW i \in 1 .. Len(received'), NEW j \in 1 .. Len(received'),
                      i < j, received'[i].mail = received'[j].mail, ~(deaths > 0)
               PROVE  ~received'[i].known
    BY <1>1 DEF RelayedOnce
  <2>0. deaths = 0
    BY DEF QueueInv, QueueTypes
  <2>1. i \in 1 .. n /\ received'[i] = received[i]
    BY <1>10
  <2>2. CASE j \in 1 .. n
    BY <1>10, <2>1, <2>2 DEF QueueInv, RelayedOnce, n
  <2>3. CASE j \notin 1 .. n
    <3>1. received'[j].mail = m
      BY <1>10, <2>3 DEF r
    <3> QED
      BY <1>21, <2>0, <2>1, <3>1
  <2> QED
    BY <2>2, <2>3
<1> QED
  BY <1>12, <1>13, <1>14, <1>15, <1>16, <1>18, <1>19, <1>20, <1>22, <1>23 DEF QueueInv

\* The mails that would be written back, by their places in what was read.
LEMMA UnsentMails ==
  ASSUME QueueInv, NEW s \in Session
  PROVE  /\ Len(Unsent(s)) \in Nat
         /\ {e.mail : e \in ToSet(Unsent(s))} = {Unsent(s)[k].mail : k \in 1 .. Len(Unsent(s))}
         /\ \E pos \in [1 .. Len(Unsent(s)) -> 1 .. Len(emails[s])] :
               /\ \A k \in 1 .. Len(Unsent(s)) :
                     Unsent(s)[k] = emails[s][pos[k]] /\ ~emails[s][pos[k]].sent
               /\ \A j, k \in 1 .. Len(Unsent(s)) : pos[j] = pos[k] => j = k
               /\ \A i \in 1 .. Len(emails[s]) : ~emails[s][i].sent =>
                     \E k \in 1 .. Len(Unsent(s)) : pos[k] = i
<1> DEFINE Track == [mail : Mails, tried : BOOLEAN, sent : BOOLEAN]
<1>1. emails[s] \in Seq(Track)
  BY DEF QueueInv, QueueTypes
<1> HIDE DEF Track
<1>2. Unsent(s) \in Seq(Track)
  BY <1>1, UnsentLists
<1>3. PICK pos : Lists(Unsent(s), emails[s], Len(emails[s]), pos)
  BY <1>1, UnsentLists
<1>4. Len(Unsent(s)) \in Nat /\ ToSet(Unsent(s)) = {Unsent(s)[k] : k \in 1 .. Len(Unsent(s))}
  BY <1>2, SetOf, LenProperties
<1> QED
  BY <1>3, <1>4 DEF Lists

LEMMA TruncateKeepsQueueInv ==
  ASSUME QueueInv, NEW s \in Session, Truncate(s)
  PROVE  QueueInv' /\ NoneLost
<1> DEFINE n == Len(mqueue)
           l == Len(emails[s])
<1>1. /\ stage \in [Session -> Stage] /\ stage[s] = "sending"
      /\ stage' = [stage EXCEPT ![s] = "truncated"]
      /\ Untried(s) = 0
      /\ mqueue' = <<>>
      /\ overwritten' = overwritten \union {mqueue[i] : i \in l + 1 .. n}
      /\ UNCHANGED <<lock, entry, queued, emails, received, deaths, dropped>>
  BY DEF Truncate, At, QueueInv, QueueTypes
<1>2. stage'[s] = "truncated" /\ \A u \in Session : u # s => stage'[u] = stage[u]
  BY <1>1
<1>3. \A u \in Session : u # s => stage[u] \notin {"written", "sending", "truncated"}
  BY <1>1, OneWorks
<1>4. /\ n \in Nat /\ l \in Nat /\ l <= n
      /\ \A i \in 1 .. l : emails[s][i].mail = mqueue[i]
  BY <1>1, AreMails DEF QueueInv, ReadIsPrefix
<1>5. Len(mqueue') = 0 /\ mqueue' \in Seq(Mails) /\ ToSet(mqueue') = {}
  BY <1>1, EmptySeq DEF ToSet
<1>6. Unsent(s)' = Unsent(s)
  BY <1>1 DEF Unsent
<1>7. NoneLost
  <2> SUFFICES ASSUME NEW e, QueuedOrRelayed(e)
               PROVE  QueuedOrRelayed(e)'
    BY DEF NoneLost
  <2>1. CASE e \in overwritten \union dropped
    BY <1>1, <2>1 DEF QueuedOrRelayed
  <2>2. CASE \E i \in 1 .. Len(received) : received[i].mail = e
    BY <1>1, <2>2 DEF QueuedOrRelayed
  <2>3. CASE e \in ToSet(mqueue)
    <3>1. PICK i \in 1 .. n : mqueue[i] = e
      <4>1. ToSet(mqueue) = {mqueue[i] : i \in 1 .. n}
        BY SetOf DEF QueueInv, QueueTypes
      <4> QED
        BY <2>3, <4>1
    <3>2. CASE i > l
      <4>1. i \in l + 1 .. n
        BY <1>4, <3>2
      <4> QED
        BY <1>1, <3>1, <4>1 DEF QueuedOrRelayed
    <3>3. CASE ~(i > l)
      <4>1. i \in 1 .. l /\ emails[s][i].mail = e
        BY <1>4, <3>1, <3>3
      <4>2. CASE emails[s][i].sent
        <5>1. \E j \in 1 .. Len(received) : received[j].mail = e
          BY <4>1, <4>2 DEF QueueInv, ReadIsPrefix
        <5> QED
          BY <1>1, <5>1 DEF QueuedOrRelayed
      <4>3. CASE ~emails[s][i].sent
        <5>1. PICK pos \in [1 .. Len(Unsent(s)) -> 1 .. Len(emails[s])] :
               /\ \A k \in 1 .. Len(Unsent(s)) :
                     Unsent(s)[k] = emails[s][pos[k]] /\ ~emails[s][pos[k]].sent
               /\ \A j \in 1 .. Len(emails[s]) : ~emails[s][j].sent =>
                     \E k \in 1 .. Len(Unsent(s)) : pos[k] = j
          BY UnsentMails
        <5>2. PICK k \in 1 .. Len(Unsent(s)) : pos[k] = i
          BY <4>1, <4>3, <5>1
        <5>3. Unsent(s)[k].mail = e
          BY <4>1, <5>1, <5>2
        <5>4. {u.mail : u \in ToSet(Unsent(s))}
                = {Unsent(s)[j].mail : j \in 1 .. Len(Unsent(s))}
          BY UnsentMails
        <5>5. e \in {u.mail : u \in ToSet(Unsent(s))}
          BY <5>2, <5>3, <5>4
        <5> QED
          BY <1>2, <1>6, <5>5 DEF QueuedOrRelayed
      <4> QED
        BY <4>2, <4>3
    <3> QED
      BY <3>2, <3>3
  <2> QED
    BY <1>1, <1>3, <2>1, <2>2, <2>3 DEF QueuedOrRelayed
<1>8. QueueTypes'
  <2>1. stage' \in [Session -> Stage]
    BY <1>1 DEF Stage
  <2>2. \A u \in Session : stage'[u] # "none" =>
           entry'[u] \in Mails /\ entry'[u].to = "remote"
    BY <1>1, <1>2 DEF QueueInv, QueueTypes
  <2> QED
    BY <1>1, <1>5, <2>1, <2>2 DEF QueueInv, QueueTypes
<1>9. LockIsHeld'
  BY <1>1, <1>2 DEF QueueInv, LockIsHeld
<1>10. ReadIsPrefix'
  BY <1>1, <1>2, <1>3 DEF QueueInv, ReadIsPrefix
<1>11. FlushedIsKept'
  BY <1>1, <1>2, <1>7 DEF QueueInv, FlushedIsKept, NoneLost
<1>12. Unflushed' = Unflushed
  BY <1>1, <1>2 DEF Unflushed
<1>13. SerialsBounded'
  BY <1>1, <1>5, <1>12 DEF QueueInv, SerialsBounded
<1>14. UnflushedIsNew'
  BY <1>1, <1>5, <1>12 DEF QueueInv, UnflushedIsNew
<1>15. OncePerPlace'
  BY <1>1, <1>5 DEF QueueInv, OncePerPlace
<1>16. KnownIsMarked'
  BY <1>1, <1>5 DEF QueueInv, KnownIsMarked
<1>17. RelayedOnce'
  BY <1>1 DEF QueueInv, RelayedOnce
<1> QED
  BY <1>7, <1>8, <1>9, <1>10, <1>11, <1>13, <1>14, <1>15, <1>16, <1>17 DEF QueueInv

\* An smtpec ends, and the lock is free.
LEMMA EndOfSmtpec ==
  ASSUME QueueInv, NEW s \in Session, stage[s] \in {"sending", "truncated"},
         stage' = [stage EXCEPT ![s] = "successful"], lock' = NoSession,
         emails' = [emails EXCEPT ![s] = <<>>], UNCHANGED <<entry, queued, received>>,
         mqueue' \in Seq(Mails), deaths' \in Nat
  PROVE  /\ stage'[s] = "successful" /\ \A u \in Session : u # s => stage'[u] = stage[u]
         /\ \A u \in Session : /\ emails'[u] = <<>> /\ Len(emails'[u]) = 0
                               /\ stage'[u] \notin {"written", "sending", "truncated"}
         /\ Unflushed' = Unflushed
         /\ QueueTypes' /\ LockIsHeld' /\ ReadIsPrefix'
         /\ NoneLost => FlushedIsKept'
<1> DEFINE Track == [mail : Mails, tried : BOOLEAN, sent : BOOLEAN]
<1>1. stage \in [Session -> Stage] /\ emails \in [Session -> Seq(Track)]
  BY DEF QueueInv, QueueTypes
<1> HIDE DEF Track
<1>2. stage'[s] = "successful" /\ \A u \in Session : u # s => stage'[u] = stage[u]
  BY <1>1
<1>3. \A u \in Session : u # s => stage[u] \notin {"written", "sending", "truncated"}
  BY OneWorks
<1>4. \A u \in Session : /\ emails'[u] = <<>>
                         /\ stage'[u] \notin {"written", "sending", "truncated"}
  BY <1>1, <1>2, <1>3 DEF QueueInv, ReadIsPrefix
<1>5. Len(<<>>) = 0 /\ <<>> \in Seq(Track)
  BY EmptySeq
<1>6. Unflushed' = Unflushed
  BY <1>2 DEF Unflushed
<1>7. QueueTypes'
  <2>1. stage' \in [Session -> Stage]
    BY <1>1 DEF Stage
  <2>2. \A u \in Session : stage'[u] # "none" =>
           entry'[u] \in Mails /\ entry'[u].to = "remote"
    BY <1>2 DEF QueueInv, QueueTypes
  <2>3. emails' \in [Session -> Seq(Track)]
    BY <1>1, <1>5
  <2> QED
    BY <2>1, <2>2, <2>3 DEF QueueInv, QueueTypes, Track
<1>8. LockIsHeld'
  <2>1. \A u \in Session : u # NoSession
    BY QueueAssumption
  <2> QED
    BY <1>4, <2>1 DEF LockIsHeld
<1>9. ReadIsPrefix'
  BY <1>4, <1>5 DEF ReadIsPrefix
<1>10. NoneLost => FlushedIsKept'
  BY <1>2 DEF QueueInv, FlushedIsKept, NoneLost
<1> QED
  BY <1>2, <1>4, <1>5, <1>6, <1>7, <1>8, <1>9, <1>10

LEMMA WriteBackKeepsQueueInv ==
  ASSUME QueueInv, NEW s \in Session, WriteBack(s)
  PROVE  QueueInv' /\ NoneLost
<1> DEFINE rest == Unsent(s)
           n == Len(rest)
<1>1. /\ stage[s] = "truncated"
      /\ stage' = [stage EXCEPT ![s] = "successful"] /\ lock' = NoSession
      /\ mqueue' = [i \in 1 .. n |-> rest[i].mail]
      /\ overwritten' = overwritten \union ToSet(mqueue)
      /\ emails' = [emails EXCEPT ![s] = <<>>]
      /\ UNCHANGED <<entry, queued, received, deaths, dropped>>
  BY DEF WriteBack, At
<1>2. n \in Nat /\ {e.mail : e \in ToSet(rest)} = {rest[k].mail : k \in 1 .. n}
  BY UnsentMails
<1>3. PICK pos \in [1 .. n -> 1 .. Len(emails[s])] :
         /\ \A k \in 1 .. n : rest[k] = emails[s][pos[k]] /\ ~emails[s][pos[k]].sent
         /\ \A j, k \in 1 .. n : pos[j] = pos[k] => j = k
  BY UnsentMails
<1> HIDE DEF rest, n
<1>4. /\ mqueue' \in Seq(Mails) /\ Len(mqueue') = n
      /\ \A k \in 1 .. n : pos[k] \in 1 .. Len(emails[s])
                           /\ mqueue'[k] = emails[s][pos[k]].mail
  <2>1. \A k \in 1 .. n : rest[k].mail \in Mails
    BY <1>3, AreMails DEF QueueInv
  <2>2. mqueue' \in [1 .. n -> Mails]
    BY <1>1, <2>1
  <2>3. mqueue' \in Seq(Mails) /\ DOMAIN mqueue' = 1 .. n
    BY <1>2, <2>2
  <2>4. Len(mqueue') = n
    BY <1>2, <2>3, LenProperties
  <2> QED
    BY <1>1, <1>3, <2>3, <2>4
<1>5. deaths' \in Nat
  BY <1>1 DEF QueueInv, QueueTypes
<1>6. /\ \A u \in Session : /\ emails'[u] = <<>> /\ Len(emails'[u]) = 0
                            /\ stage'[u] \notin {"written", "sending", "truncated"}
      /\ Unflushed' = Unflushed
      /\ QueueTypes' /\ LockIsHeld' /\ ReadIsPrefix'
      /\ NoneLost => FlushedIsKept'
  BY <1>1, <1>4, <1>5, EndOfSmtpec
<1>7. NoneLost
  <2> SUFFICES ASSUME NEW e, QueuedOrRelayed(e)
               PROVE  QueuedOrRelayed(e)'
    BY DEF NoneLost
  <2>1. CASE e \in ToSet(mqueue) \union overwritten \union dropped
    BY <1>1, <2>1 DEF QueuedOrRelayed
  <2>2. CASE \E i \in 1 .. Len(received) : received[i].mail = e
    BY <1>1, <2>2 DEF QueuedOrRelayed
  <2>3. CASE \E u \in Session : stage[u] = "truncated"
                                /\ e \in {v.mail : v \in ToSet(Unsent(u))}
    <3>1. e \in {v.mail : v \in ToSet(rest)}
      BY <1>1, <2>3, OneWorks DEF rest
    <3>2. PICK k \in 1 .. n : rest[k].mail = e
      BY <1>2, <3>1
    <3>3. mqueue'[k] = e
      BY <1>1, <3>2
    <3>4. e \in ToSet(mqueue')
      BY <1>4, <3>2, <3>3, SetOf
    <3> QED
      BY <3>4 DEF QueuedOrRelayed
  <2> QED
    BY <2>1, <2>2, <2>3 DEF QueuedOrRelayed
<1>8. UNCHANGED <<entry, queued, received, deaths>>
  BY <1>1
<1>9. \A i \in 1 .. n : \E u \in 1 .. Len(emails[s]) :
          u = pos[i] /\ mqueue'[i].serial = emails[s][u].mail.serial /\ ~emails[s][u].sent
  BY <1>3, <1>4
<1>10. SerialsBounded'
  <2>1. \A i \in 1 .. Len(mqueue') : mqueue'[i].serial <= queued
    BY <1>4, <1>9 DEF QueueInv, SerialsBounded
  <2> QED
    BY <1>6, <1>8, <2>1 DEF QueueInv, SerialsBounded
<1>11. UnflushedIsNew'
  <2>1. ASSUME NEW u \in Unflushed, NEW i \in 1 .. Len(mqueue')
        PROVE  mqueue'[i].serial # entry[u].serial
    <3>1. PICK v \in 1 .. Len(emails[s]) : mqueue'[i].serial = emails[s][v].mail.serial
      BY <1>4, <1>9
    <3> QED
      BY <3>1 DEF QueueInv, UnflushedIsNew
  <2> QED
    BY <1>6, <1>8, <2>1 DEF QueueInv, UnflushedIsNew
<1>12. OncePerPlace'
  <2>1. ASSUME NEW i \in 1 .. n, NEW j \in 1 .. n, mqueue'[i].serial = mqueue'[j].serial
        PROVE  i = j
    <3>1. pos[i] = pos[j]
      BY <1>9, <2>1 DEF QueueInv, OncePerPlace
    <3> QED
      BY <1>3, <3>1
  <2>2. \A i, j \in 1 .. Len(mqueue') : mqueue'[i].serial = mqueue'[j].serial => i = j
    BY <1>4, <2>1
  <2> QED
    BY <1>6, <2>2 DEF OncePerPlace
<1>13. KnownIsMarked'
  <2>1. ASSUME deaths = 0, NEW k \in 1 .. Len(received), received[k].known,
               NEW j \in 1 .. n, mqueue'[j].serial = received[k].mail.serial
        PROVE  FALSE
    BY <1>9, <2>1 DEF QueueInv, KnownIsMarked
  <2> QED
    BY <1>4, <1>6, <1>8, <2>1 DEF KnownIsMarked
<1>14. RelayedOnce'
  BY <1>8 DEF QueueInv, RelayedOnce
<1> QED
  BY <1>6, <1>7, <1>10, <1>11, <1>12, <1>13, <1>14 DEF QueueInv

LEMMA NothingToSendKeepsQueueInv ==
  ASSUME QueueInv, NEW s \in Session, NothingToSend(s)
  PROVE  QueueInv' /\ NoneLost
<1>1. /\ stage[s] = "sending" /\ emails[s] = <<>>
      /\ stage' = [stage EXCEPT ![s] = "successful"] /\ lock' = NoSession
      /\ UNCHANGED <<mqueue, entry, queued, emails, received, deaths, overwritten, dropped>>
  BY DEF NothingToSend, At
<1>2. emails' = [emails EXCEPT ![s] = <<>>]
  BY <1>1 DEF QueueInv, QueueTypes
<1>3. mqueue' \in Seq(Mails) /\ deaths' \in Nat
  BY <1>1 DEF QueueInv, QueueTypes
<1>4. /\ \A u \in Session : /\ emails'[u] = <<>> /\ Len(emails'[u]) = 0
                            /\ stage'[u] \notin {"written", "sending", "truncated"}
      /\ Unflushed' = Unflushed
      /\ QueueTypes' /\ LockIsHeld' /\ ReadIsPrefix'
      /\ NoneLost => FlushedIsKept'
  BY <1>1, <1>2, <1>3, EndOfSmtpec
<1>5. NoneLost
  <2>1. \A u \in Session : stage[u] # "truncated"
    BY <1>1, OneWorks
  <2> QED
    BY <1>1, <2>1 DEF NoneLost, QueuedOrRelayed
<1>6. SerialsBounded'
  BY <1>1, <1>4 DEF QueueInv, SerialsBounded
<1>7. UnflushedIsNew'
  BY <1>1, <1>4 DEF QueueInv, UnflushedIsNew
<1>8. OncePerPlace'
  BY <1>1, <1>4 DEF QueueInv, OncePerPlace
<1>9. KnownIsMarked'
  <2>1. \A u \in Session : Len(emails[u]) = 0
    BY <1>1, <1>4
  <2> QED
    BY <1>1, <1>4, <2>1 DEF QueueInv, KnownIsMarked
<1>10. RelayedOnce'
  BY <1>1 DEF QueueInv, RelayedOnce
<1> QED
  BY <1>4, <1>5, <1>6, <1>7, <1>8, <1>9, <1>10 DEF QueueInv

LEMMA RelayDiesKeepsQueueInv ==
  ASSUME QueueInv, NEW s \in Session, RelayDies(s)
  PROVE  QueueInv' /\ NoneLost
<1>1. /\ stage[s] \in {"sending", "truncated"}
      /\ stage' = [stage EXCEPT ![s] = "successful"] /\ lock' = NoSession
      /\ deaths' = deaths + 1
      /\ dropped' = IF stage[s] = "truncated"
                    THEN dropped \union {e.mail : e \in ToSet(Unsent(s))}
                    ELSE dropped
      /\ emails' = [emails EXCEPT ![s] = <<>>]
      /\ UNCHANGED <<mqueue, entry, queued, received, overwritten>>
  BY DEF RelayDies
<1>2. mqueue' \in Seq(Mails) /\ deaths' \in Nat /\ deaths' > 0
  BY <1>1 DEF QueueInv, QueueTypes
<1>3. /\ \A u \in Session : /\ emails'[u] = <<>> /\ Len(emails'[u]) = 0
                            /\ stage'[u] \notin {"written", "sending", "truncated"}
      /\ Unflushed' = Unflushed
      /\ QueueTypes' /\ LockIsHeld' /\ ReadIsPrefix'
      /\ NoneLost => FlushedIsKept'
  BY <1>1, <1>2, EndOfSmtpec
<1>4. NoneLost
  <2> SUFFICES ASSUME NEW e, QueuedOrRelayed(e)
               PROVE  QueuedOrRelayed(e)'
    BY DEF NoneLost
  <2>1. CASE e \in ToSet(mqueue) \union overwritten \union dropped
    BY <1>1, <2>1 DEF QueuedOrRelayed
  <2>2. CASE \E i \in 1 .. Len(received) : received[i].mail = e
    BY <1>1, <2>2 DEF QueuedOrRelayed
  <2>3. CASE \E u \in Session : stage[u] = "truncated"
                                /\ e \in {v.mail : v \in ToSet(Unsent(u))}
    <3>1. stage[s] = "truncated" /\ e \in {v.mail : v \in ToSet(Unsent(s))}
      BY <1>1, <2>3, OneWorks
    <3> QED
      BY <1>1, <3>1 DEF QueuedOrRelayed
  <2> QED
    BY <2>1, <2>2, <2>3 DEF QueuedOrRelayed
<1>5. SerialsBounded'
  BY <1>1, <1>3 DEF QueueInv, SerialsBounded
<1>6. UnflushedIsNew'
  BY <1>1, <1>3 DEF QueueInv, UnflushedIsNew
<1>7. OncePerPlace'
  BY <1>1, <1>3 DEF QueueInv, OncePerPlace
<1>8. KnownIsMarked' /\ RelayedOnce'
  BY <1>2 DEF KnownIsMarked, RelayedOnce
<1> QED
  BY <1>3, <1>4, <1>5, <1>6, <1>7, <1>8 DEF QueueInv

LEMMA RelayStepKeepsQueueInv ==
  ASSUME QueueInv, NEW s \in Session, RelayStep(s)
  PROVE  QueueInv' /\ NoneLost
<1>1. CASE \E told \in BOOLEAN, taken \in BOOLEAN :
              (told => taken) /\ AttemptDelivery(s, taken, told)
  BY <1>1, AttemptDeliveryKeepsQueueInv
<1> QED
  BY <1>1, OpenFailsKeepsQueueInv, LockAndPrintKeepsQueueInv, UnlockKeepsQueueInv,
     FlushKeepsQueueInv, ReadQueueKeepsQueueInv, TruncateKeepsQueueInv,
     WriteBackKeepsQueueInv, NothingToSendKeepsQueueInv, RelayDiesKeepsQueueInv
     DEF RelayStep

\* Steps that are none of the queue.
LEMMA RestKeepsQueueInv ==
  ASSUME QueueInv, UNCHANGED queueVars
  PROVE  QueueInv' /\ NoneLost
<1>1. UNCHANGED <<mqueue, lock, stage, entry, queued, emails, received, deaths,
                  overwritten, dropped>>
  BY DEF queueVars
<1>2. NoneLost /\ ReadIsPrefix' /\ OncePerPlace' /\ KnownIsMarked' /\ RelayedOnce'
  BY <1>1, NoMailMoves
<1>3. QueueTypes'
  BY <1>1 DEF QueueInv, QueueTypes
<1>4. LockIsHeld'
  BY <1>1 DEF QueueInv, LockIsHeld
<1>5. FlushedIsKept'
  BY <1>1, <1>2 DEF QueueInv, FlushedIsKept, NoneLost
<1>6. Unflushed' = Unflushed
  BY <1>1 DEF Unflushed
<1>7. SerialsBounded' /\ UnflushedIsNew'
  BY <1>1, <1>6 DEF QueueInv, SerialsBounded, UnflushedIsNew
<1> QED
  BY <1>2, <1>3, <1>4, <1>5, <1>7 DEF QueueInv

-----------------------------------------------------------------------------
(* Messages and envelopes.                                                 *)

LEMMA SetupTypes ==
  ASSUME setup \in Setup
  PROVE  /\ setup.frontend \subseteq Session /\ setup.other \subseteq Session
         /\ setup.frontend \intersect setup.other = {}
         /\ setup.sock \in [Thread -> Session]
         /\ setup.mailTo \in [Thread -> Recipient]
         /\ \A t \in Thread : Sock(t) \in Session /\ setup.mailTo[t] \in Recipient
<1>1. setup \in [frontend : SUBSET Session, other : SUBSET Session,
                 greeted : BOOLEAN, sock : [Thread -> Session],
                 mailTo : [Thread -> Recipient]]
  BY MailAssumption
<1> HIDE DEF Recipient
<1> QED
  BY <1>1, MailAssumption DEF Sock

LEMMA DialogueSteps ==
  ASSUME NEW t \in Thread
  PROVE  /\ Dialogue(t)[1] = Opening
         /\ Dialogue(t)[2] = Rcpt(t)
         /\ Dialogue(t)[3] = Data(t)
         /\ Dialogue(t)[4] = Body(t)
BY DEF Dialogue, Opening, Rcpt, Data, Body

LEMMA MessageParts ==
  \A c, a, f : /\ Message(c, a, f).cmd = c /\ Message(c, a, f).arg = a
               /\ Message(c, a, f).from = f
BY DEF Message

LEMMA MessageTypes ==
  ASSUME NEW c \in Commands, NEW a \in Arguments,
         NEW f \in Thread \union {"frontend"} \union Sender,
         c = "MAIL" => f \in Sender, c = "RCPT" => a \in Recipient
  PROVE  Message(c, a, f) \in Messages
<1>1. Message(c, a, f)
        \in [cmd : Commands, arg : Arguments, from : Thread \union {"frontend"} \union Sender]
  BY DEF Message
<1> QED
  BY <1>1, MessageParts DEF Messages

LEMMA DialogueTypes ==
  ASSUME setup \in Setup, NEW t \in Thread, NEW i \in 1 .. 4
  PROVE  Dialogue(t)[i] \in Messages
<1>1. setup.mailTo[t] \in Recipient
  BY SetupTypes
<1>2. setup.mailTo[t] \in Arguments /\ "ok" \in Arguments /\ "" \in Arguments
  BY <1>1 DEF Arguments
<1>3. /\ "user" \in Thread \union {"frontend"} \union Sender /\ "user" \in Sender
      /\ t \in Thread \union {"frontend"} \union Sender
  BY DEF Sender
<1>4. {"MAIL", "RCPT", "DATA", "BODY"} \subseteq Commands
  BY DEF Commands
<1> HIDE DEF Recipient, Sender
<1>5. Opening \in Messages
  BY <1>2, <1>3, <1>4, MessageTypes DEF Opening
<1>6. Rcpt(t) \in Messages
  BY <1>1, <1>2, <1>3, <1>4, MessageTypes DEF Rcpt
<1>7. Data(t) \in Messages /\ Body(t) \in Messages
  BY <1>2, <1>3, <1>4, MessageTypes DEF Data, Body
<1>8. i = 1 \/ i = 2 \/ i = 3 \/ i = 4
  OBVIOUS
<1> QED
  BY <1>5, <1>6, <1>7, <1>8, DialogueSteps

LEMMA OtherTypes ==
  ASSUME NEW m \in OtherMessages
  PROVE  m \in Messages /\ m.from = "other"
<1>1. ASSUME NEW c \in {"HELO", "MAIL", "DATA", "RSET", "NOOP", "QUIT", "BODY"},
             NEW a \in {"", "ok", "empty", "invalid", "malformed"},
             m = Message(c, a, "other")
      PROVE  m \in Messages /\ m.from = "other"
  <2>1. c \in Commands /\ a \in Arguments /\ c # "RCPT" /\ "other" \in Sender
    BY DEF Sender, Commands, Arguments
  <2>2. "other" \in Thread \union {"frontend"} \union Sender
    BY <2>1
  <2>3. Message(c, a, "other") \in Messages
    BY <2>1, <2>2, MessageTypes, Zenon
  <2>4. Message(c, a, "other").from = "other"
    BY DEF Message
  <2> QED
    BY <1>1, <2>3, <2>4
<1>2. ASSUME NEW a \in Recipient, m = Message("RCPT", a, "other")
      PROVE  m \in Messages /\ m.from = "other"
  <2>1. a \in Arguments /\ "RCPT" \in Commands /\ "RCPT" # "MAIL" /\ "other" \in Sender
    BY DEF Sender, Commands, Arguments
  <2> QED
    BY <1>2, <2>1, MessageTypes, MessageParts
<1>3. CASE m \in {Message("HELO", a, "other") : a \in {"ok", "empty"}}
  BY <1>1, <1>3
<1>4. CASE m \in {Message("MAIL", a, "other") : a \in {"ok", "invalid", "malformed"}}
  BY <1>1, <1>4
<1>5. CASE m \in {Message("RCPT", a, "other") : a \in Recipient \ {"fatal"}}
  BY <1>2, <1>5
<1>6. CASE m \in {Message(c, "", "other") : c \in {"DATA", "RSET", "NOOP", "QUIT"}}
  BY <1>1, <1>6
<1>7. CASE m = Message("BODY", "", "other")
  BY <1>1, <1>7
<1> QED
  BY <1>3, <1>4, <1>5, <1>6, <1>7 DEF OtherMessages

\* The envelope of one session, as EnvelopeFresh and SenderIsValid want it.
GoodEnvelope(e) ==
    /\ e.state \in {"Initial", "HeloReceived", "MailFromReceived"} =>
          e.rcptTo \union e.rcptToRelay = {}
    /\ e.state \in {"MailFromReceived", "RcptToReceived"} => e.mailFrom \in Sender
    /\ e.state = "RcptToReceived" => e.rcptTo \union e.rcptToRelay # {}

LEMMA GoodEnvelopes ==
  (EnvelopeFresh /\ SenderIsValid) <=> (\A s \in Session : GoodEnvelope(session[s]))
BY DEF EnvelopeFresh, SenderIsValid, GoodEnvelope, Sender

LEMMA FreshEnvelope ==
  ASSUME NEW state \in {"Initial", "HeloReceived"}
  PROVE  Fresh(state) \in Envelopes /\ GoodEnvelope(Fresh(state))
BY DEF Fresh, Envelopes, GoodEnvelope, SessionState

\* What a command may do to an envelope and to what is sent back.
Replied(s, m) ==
    LET c == m.cmd
    IN  \/ c = "HELO" /\ DoHelo(s, m.arg)
        \/ c = "MAIL" /\ DoMailFrom(s, m)
        \/ c = "RCPT" /\ m.arg # "fatal" /\ DoRcptTo(s, m.arg)
        \/ c = "RSET" /\ DoRset(s)
        \/ c = "NOOP" /\ Reject(s)
        \/ c = "BODY" /\ Reject(s)
        \/ c = "DATA" /\ session[s].state # "RcptToReceived" /\ Reject(s)

LEMMA CommandsKeepEnvelopes ==
  ASSUME NEW s \in Session, NEW m \in Messages, Replied(s, m),
         session \in [Session -> Envelopes], GoodEnvelope(session[s]),
         toClient \in [Session -> Seq({"line", "fragment"})]
  PROVE  /\ toClient' \in [Session -> Seq({"line", "fragment"})]
         /\ \E new \in Envelopes :
               GoodEnvelope(new) /\ session' = [session EXCEPT ![s] = new]
<1> DEFINE Kinds == {"line", "fragment"}
           Good(new) == new \in Envelopes /\ GoodEnvelope(new)
<1>1. session[s] \in Envelopes /\ toClient[s] \in Seq(Kinds)
  OBVIOUS
<1>2. ASSUME NEW kind \in Kinds, Replies(s, kind)
      PROVE  toClient' \in [Session -> Seq(Kinds)]
  <2>1. Append(toClient[s], kind) \in Seq(Kinds)
    BY <1>1, AppendProperties
  <2> QED
    BY <1>2, <2>1 DEF Replies
<1>3. ASSUME UNCHANGED toClient
      PROVE  toClient' \in [Session -> Seq(Kinds)]
  BY <1>3
<1>4. ASSUME NEW kind \in Kinds, NEW new, Good(new), Answer(s, kind, new)
      PROVE  /\ toClient' \in [Session -> Seq(Kinds)]
             /\ \E e \in Envelopes : GoodEnvelope(e) /\ session' = [session EXCEPT ![s] = e]
  BY <1>2, <1>4 DEF Answer, Becomes
<1> DEFINE Result == /\ toClient' \in [Session -> Seq(Kinds)]
                     /\ \E e \in Envelopes :
                           GoodEnvelope(e) /\ session' = [session EXCEPT ![s] = e]
<1>5. Reject(s) => Result
  BY <1>1, <1>4 DEF Reject
<1>6. ASSUME DoHelo(s, m.arg)
      PROVE  Result
  <2>1. CASE session[s].state \in {"Initial", "HeloReceived"} /\ m.arg = "ok"
    <3>1. Good([session[s] EXCEPT !.state = "HeloReceived"])
      BY <1>1, <2>1 DEF Envelopes, GoodEnvelope, SessionState
    <3> QED
      BY <1>4, <1>6, <2>1, <3>1 DEF DoHelo
  <2>2. CASE ~(session[s].state \in {"Initial", "HeloReceived"} /\ m.arg = "ok")
    BY <1>5, <1>6, <2>2 DEF DoHelo
  <2> QED
    BY <2>1, <2>2
<1>7. ASSUME m.cmd = "MAIL", DoMailFrom(s, m)
      PROVE  Result
  <2>1. m.from \in Sender
    BY <1>7 DEF Messages
  <2>2. CASE session[s].state # "HeloReceived" \/ m.arg = "malformed"
    BY <1>5, <1>7, <2>2 DEF DoMailFrom
  <2>3. CASE ~(session[s].state # "HeloReceived" \/ m.arg = "malformed") /\ m.arg = "invalid"
    <3>1. Good([session[s] EXCEPT !.mailFrom = "invalid"])
      BY <1>1, <2>3 DEF Envelopes, GoodEnvelope, SessionState
    <3> QED
      BY <1>4, <1>7, <2>3, <3>1 DEF DoMailFrom
  <2>4. CASE ~(session[s].state # "HeloReceived" \/ m.arg = "malformed") /\ m.arg # "invalid"
    <3>1. Good([session[s] EXCEPT !.mailFrom = m.from, !.state = "MailFromReceived"])
      BY <1>1, <2>1, <2>4 DEF Envelopes, GoodEnvelope, SessionState
    <3> QED
      BY <1>4, <1>7, <2>4, <3>1 DEF DoMailFrom
  <2> QED
    BY <2>2, <2>3, <2>4
<1>8. ASSUME DoRcptTo(s, m.arg)
      PROVE  Result
  <2>1. CASE session[s].state \notin {"MailFromReceived", "RcptToReceived"}
    BY <1>5, <1>8, <2>1 DEF DoRcptTo
  <2>2. CASE session[s].state \in {"MailFromReceived", "RcptToReceived"}
    <3>1. CASE m.arg = "local"
      <4>1. Good([session[s] EXCEPT !.rcptTo = @ \union {m.arg}, !.state = "RcptToReceived"])
        BY <1>1, <2>2, <3>1 DEF Envelopes, GoodEnvelope, SessionState
      <4>2. Answer(s, "line", [session[s] EXCEPT !.rcptTo = @ \union {m.arg},
                                                 !.state = "RcptToReceived"])
        BY <1>8, <2>2, <3>1, Zenon DEF DoRcptTo
      <4> QED
        BY <1>4, <4>1, <4>2
    <3>2. CASE m.arg = "remote"
      <4>1. Good([session[s] EXCEPT !.rcptToRelay = @ \union {m.arg},
                                    !.state = "RcptToReceived"])
        BY <1>1, <2>2, <3>2 DEF Envelopes, GoodEnvelope, SessionState
      <4>2. Answer(s, "line", [session[s] EXCEPT !.rcptToRelay = @ \union {m.arg},
                                                 !.state = "RcptToReceived"])
        BY <1>8, <2>2, <3>2 DEF DoRcptTo
      <4> QED
        BY <1>4, <4>1, <4>2
    <3>3. CASE m.arg \notin {"local", "remote"}
      <4>1. Answer(s, "fragment", session[s])
        BY <1>8, <2>2, <3>3 DEF DoRcptTo
      <4> QED
        BY <1>1, <1>4, <4>1
    <3> QED
      BY <3>1, <3>2, <3>3
  <2> QED
    BY <2>1, <2>2
<1>9. ASSUME DoRset(s)
      PROVE  Result
  <2>1. CASE session[s].state = "Initial"
    BY <1>5, <1>9, <2>1 DEF DoRset
  <2>2. CASE session[s].state # "Initial"
    <3>1. Good(Fresh("HeloReceived"))
      BY FreshEnvelope
    <3>2. Becomes(s, Fresh("HeloReceived")) /\ UNCHANGED toClient
      BY <1>9, <2>2 DEF DoRset
    <3> QED
      BY <1>3, <3>1, <3>2 DEF Becomes
  <2> QED
    BY <2>1, <2>2
<1> QED
  BY <1>5, <1>6, <1>7, <1>8, <1>9 DEF Replied

-----------------------------------------------------------------------------
(* The streams of messages.                                                *)

LEMMA TakeFirst ==
  ASSUME SessionTypes, NEW s \in Session, NEW n \in 1 .. Len(toServer[s]), Take(s, n)
  PROVE  /\ toServer' \in [Session -> Seq(Messages)]
         /\ \A u \in Session : u # s => toServer'[u] = toServer[u]
         /\ Len(toServer[s]) \in Nat
         /\ Len(toServer'[s]) = Len(toServer[s]) - n
         /\ \A i \in 1 .. Len(toServer[s]) - n : toServer'[s][i] = toServer[s][n + i]
         /\ SubSeq(toServer[s], 1, n) \in Seq(Messages)
         /\ Len(SubSeq(toServer[s], 1, n)) = n
         /\ \A i \in 1 .. n : SubSeq(toServer[s], 1, n)[i] = toServer[s][i]
<1> DEFINE q == toServer[s]
           l == Len(q)
           rest == SubSeq(q, n + 1, l)
           first == SubSeq(q, 1, n)
<1>1. q \in Seq(Messages) /\ toServer \in [Session -> Seq(Messages)]
  BY DEF SessionTypes
<1>2. toServer' = [toServer EXCEPT ![s] = rest]
  BY DEF Take
<1>3. l \in Nat
  BY <1>1, LenProperties
<1>4. n \in 1 .. l
  OBVIOUS
<1> HIDE DEF q, l
<1>5. /\ n \in Int /\ n + 1 \in Int /\ l \in Int /\ 1 \in Int
      /\ \A i \in n + 1 .. l : i \in 1 .. l
      /\ \A i \in 1 .. n : i \in 1 .. l
  BY <1>3, <1>4
<1>6. /\ \A i \in n + 1 .. l : q[i] \in Messages
      /\ \A i \in 1 .. n : q[i] \in Messages
  BY <1>1, <1>5, ElementOfSeq DEF l
<1>7. /\ rest \in Seq(Messages) /\ Len(rest) = (IF n + 1 <= l THEN l - (n + 1) + 1 ELSE 0)
      /\ \A i \in 1 .. l - (n + 1) + 1 : rest[i] = q[n + 1 + i - 1]
  BY <1>5, <1>6, SubSeqProperties
<1>8. /\ first \in Seq(Messages) /\ Len(first) = (IF 1 <= n THEN n - 1 + 1 ELSE 0)
      /\ \A i \in 1 .. n - 1 + 1 : first[i] = q[1 + i - 1]
  BY <1>5, <1>6, SubSeqProperties
<1> HIDE DEF rest, first
<1>9. Len(rest) = l - n /\ Len(first) = n
  BY <1>3, <1>4, <1>7, <1>8
<1>10. ASSUME NEW i \in 1 .. l - n
       PROVE  rest[i] = q[n + i]
  <2>1. i \in 1 .. l - (n + 1) + 1 /\ n + 1 + i - 1 = n + i
    BY <1>3, <1>4
  <2> QED
    BY <1>7, <2>1
<1>11. ASSUME NEW i \in 1 .. n
       PROVE  first[i] = q[i]
  <2>1. i \in 1 .. n - 1 + 1 /\ 1 + i - 1 = i
    BY <1>3, <1>4
  <2> QED
    BY <1>8, <2>1
<1> QED
  BY <1>1, <1>2, <1>3, <1>7, <1>8, <1>9, <1>10, <1>11 DEF q, l, rest, first

LEMMA SendLast ==
  ASSUME SessionTypes, NEW s \in Session, NEW m \in Messages, Sends(s, m)
  PROVE  /\ toServer' \in [Session -> Seq(Messages)]
         /\ \A u \in Session : u # s => toServer'[u] = toServer[u]
         /\ Len(toServer[s]) \in Nat
         /\ Len(toServer'[s]) = Len(toServer[s]) + 1
         /\ toServer'[s][Len(toServer[s]) + 1] = m
         /\ \A i \in 1 .. Len(toServer[s]) : toServer'[s][i] = toServer[s][i]
<1>1. toServer[s] \in Seq(Messages) /\ toServer \in [Session -> Seq(Messages)]
  BY DEF SessionTypes
<1>2. toServer' = [toServer EXCEPT ![s] = Append(toServer[s], m)]
  BY DEF Sends
<1>3. /\ Append(toServer[s], m) \in Seq(Messages)
      /\ Len(Append(toServer[s], m)) = Len(toServer[s]) + 1
      /\ Append(toServer[s], m)[Len(toServer[s]) + 1] = m
      /\ \A i \in 1 .. Len(toServer[s]) : Append(toServer[s], m)[i] = toServer[s][i]
  BY <1>1, AppendProperties
<1>4. Len(toServer[s]) \in Nat
  BY <1>1, LenProperties
<1> QED
  BY <1>1, <1>2, <1>3, <1>4

LEMMA HandleFirst ==
  ASSUME SessionTypes, NEW s \in Session, buffer[s] # <<>>,
         buffer' = [buffer EXCEPT ![s] = Tail(@)]
  PROVE  /\ buffer' \in [Session -> Seq(Messages)]
         /\ \A u \in Session : u # s => buffer'[u] = buffer[u]
         /\ Head(buffer[s]) \in Messages /\ Head(buffer[s]) = buffer[s][1]
         /\ Len(buffer[s]) \in Nat \ {0}
         /\ Len(buffer'[s]) = Len(buffer[s]) - 1
         /\ \A i \in 1 .. Len(buffer[s]) - 1 : buffer'[s][i] = buffer[s][i + 1]
<1>1. buffer[s] \in Seq(Messages) /\ buffer \in [Session -> Seq(Messages)]
  BY DEF SessionTypes
<1>2. /\ Head(buffer[s]) \in Messages /\ Tail(buffer[s]) \in Seq(Messages)
      /\ Len(Tail(buffer[s])) = Len(buffer[s]) - 1
      /\ \A i \in 1 .. Len(Tail(buffer[s])) : Tail(buffer[s])[i] = buffer[s][i + 1]
  BY <1>1, HeadTailProperties
<1>3. Len(buffer[s]) \in Nat \ {0}
  BY <1>1, EmptySeq
<1>4. Head(buffer[s]) = buffer[s][1]
  BY <1>1
<1> QED
  BY <1>1, <1>2, <1>3, <1>4

-----------------------------------------------------------------------------
(* SessionInv is invariant.                                                *)

\* No mail is accepted, and none moves in the store.
LEMMA SameMailIsKept ==
  ASSUME SessionInv, NoneLost, UNCHANGED <<accepted, refused, mailbox>>
  PROVE  AcceptedIsKept'
<1> SUFFICES ASSUME NEW e \in accepted
             PROVE  \/ e.to = "local" /\ (e \in refused \/ StoredOrReplaced(e)')
                    \/ e.to = "remote" /\ QueuedOrRelayed(e)'
  BY DEF AcceptedIsKept
<1>1. StoredOrReplaced(e) => StoredOrReplaced(e)'
  BY DEF StoredOrReplaced
<1>2. QueuedOrRelayed(e) => QueuedOrRelayed(e)'
  BY DEF NoneLost
<1> QED
  BY <1>1, <1>2 DEF SessionInv, AcceptedIsKept

\* One envelope changes, to a good one.
LEMMA EnvelopeIsKept ==
  ASSUME SessionInv, NEW s \in Session, NEW new \in Envelopes, GoodEnvelope(new),
         session' = [session EXCEPT ![s] = new]
  PROVE  session' \in [Session -> Envelopes] /\ SenderIsValid' /\ EnvelopeFresh'
<1>1. session \in [Session -> Envelopes]
  BY DEF SessionInv, SessionTypes
<1>2. \A u \in Session : GoodEnvelope(session[u])
  BY GoodEnvelopes DEF SessionInv
<1>3. session' \in [Session -> Envelopes]
  BY <1>1
<1>4. \A u \in Session : session'[u] = IF u = s THEN new ELSE session[u]
  BY <1>1
<1>5. \A u \in Session : GoodEnvelope(session'[u])
  BY <1>2, <1>4
<1> QED
  BY <1>3, <1>5 DEF EnvelopeFresh, SenderIsValid, GoodEnvelope, Sender

LEMMA SameEnvelopes ==
  ASSUME SessionInv, UNCHANGED session
  PROVE  session' \in [Session -> Envelopes] /\ SenderIsValid' /\ EnvelopeFresh'
BY DEF SessionInv, SessionTypes, SenderIsValid, EnvelopeFresh

LEMMA RecvCommandsKeepsSessionInv ==
  ASSUME SessionInv, NoneLost, NEW s \in Session, NEW n \in 1 .. Len(toServer[s]),
         RecvCommands(s, n)
  PROVE  SessionInv'
<1>1. SessionTypes /\ setup \in Setup /\ ThreadTypes
  BY DEF SessionInv
<1>2. Take(s, n) /\ buffer' = [buffer EXCEPT ![s] = SubSeq(toServer[s], 1, n)]
      /\ UNCHANGED <<setup, toClient, hungUp, session, reading, content, todo,
                     success, alive, now, mailbox, accepted, refused>>
      /\ UNCHANGED <<sent, awaiting, budget>>
  BY DEF RecvCommands, threadVars
<1>3. /\ toServer' \in [Session -> Seq(Messages)]
      /\ SubSeq(toServer[s], 1, n) \in Seq(Messages)
  BY <1>1, <1>2, TakeFirst
<1>4. SessionTypes' /\ ThreadTypes'
  BY <1>1, <1>2, <1>3 DEF SessionTypes, ThreadTypes
<1> QED
  BY <1>1, <1>2, <1>4, SameMailIsKept, SameEnvelopes DEF SessionInv

LEMMA HandleKeepsSessionInv ==
  ASSUME SessionInv, NoneLost, NEW s \in Session, Handle(s)
  PROVE  SessionInv'
<1>1. SessionTypes /\ setup \in Setup /\ ThreadTypes
  BY DEF SessionInv
<1>2. /\ buffer[s] # <<>> /\ Replied(s, Head(buffer[s]))
      /\ buffer' = [buffer EXCEPT ![s] = Tail(@)]
      /\ UNCHANGED <<setup, toServer, hungUp, reading, content, todo, success,
                     alive, now, mailbox, accepted, refused>>
      /\ UNCHANGED <<sent, awaiting, budget>>
  BY DEF Handle, Replied, threadVars
<1>3. buffer' \in [Session -> Seq(Messages)] /\ Head(buffer[s]) \in Messages
  BY <1>1, <1>2, HandleFirst
<1>4. GoodEnvelope(session[s])
  BY GoodEnvelopes DEF SessionInv
<1>5. /\ session \in [Session -> Envelopes]
      /\ toClient \in [Session -> Seq({"line", "fragment"})]
  BY <1>1 DEF SessionTypes
<1>6. /\ toClient' \in [Session -> Seq({"line", "fragment"})]
      /\ \E new \in Envelopes :
            GoodEnvelope(new) /\ session' = [session EXCEPT ![s] = new]
  BY <1>2, <1>3, <1>4, <1>5, CommandsKeepEnvelopes
<1>7. session' \in [Session -> Envelopes] /\ SenderIsValid' /\ EnvelopeFresh'
  BY <1>6, EnvelopeIsKept
<1>8. SessionTypes' /\ ThreadTypes'
  BY <1>1, <1>2, <1>3, <1>6, <1>7 DEF SessionTypes, ThreadTypes
<1> QED
  BY <1>1, <1>2, <1>7, <1>8, SameMailIsKept DEF SessionInv

LEMMA BeginDataKeepsSessionInv ==
  ASSUME SessionInv, NoneLost, NEW s \in Session, BeginData(s)
  PROVE  SessionInv'
<1>1. SessionTypes /\ setup \in Setup /\ ThreadTypes
  BY DEF SessionInv
<1>2. /\ buffer[s] # <<>> /\ Replies(s, "line")
      /\ buffer' = [buffer EXCEPT ![s] = Tail(@)]
      /\ reading' = [reading EXCEPT ![s] = "data"]
      /\ content' = [content EXCEPT ![s] = <<>>]
      /\ success' = [success EXCEPT ![s] = FALSE]
      /\ UNCHANGED <<setup, toServer, hungUp, session, todo, alive, now, mailbox,
                     accepted, refused>>
      /\ UNCHANGED <<sent, awaiting, budget>>
  BY DEF BeginData, threadVars
<1>3. buffer' \in [Session -> Seq(Messages)]
  BY <1>1, <1>2, HandleFirst
<1>4. toClient' \in [Session -> Seq({"line", "fragment"})]
  <2>1. Append(toClient[s], "line") \in Seq({"line", "fragment"})
    BY <1>1, AppendProperties DEF SessionTypes
  <2> QED
    BY <1>1, <1>2, <2>1 DEF Replies, SessionTypes
<1>5. <<>> \in Seq(Messages)
  OBVIOUS
<1>6. SessionTypes' /\ ThreadTypes'
  BY <1>1, <1>2, <1>3, <1>4, <1>5 DEF SessionTypes, ThreadTypes
<1> QED
  BY <1>1, <1>2, <1>6, SameMailIsKept, SameEnvelopes DEF SessionInv

LEMMA RecvDataKeepsSessionInv ==
  ASSUME SessionInv, NoneLost, NEW s \in Session, NEW n \in 1 .. Len(toServer[s]),
         RecvData(s, n)
  PROVE  SessionInv'
<1>1. SessionTypes /\ setup \in Setup /\ ThreadTypes
  BY DEF SessionInv
<1>2. /\ Take(s, n)
      /\ content' = [content EXCEPT ![s] = @ \o SubSeq(toServer[s], 1, n)]
      /\ UNCHANGED <<setup, toClient, hungUp, buffer, session, success, alive, now,
                     mailbox, accepted, refused>>
      /\ UNCHANGED <<sent, awaiting, budget>>
  BY DEF RecvData, threadVars
<1>3. \/ /\ reading' = [reading EXCEPT ![s] = "deliver"]
         /\ todo' = [todo EXCEPT ![s] = session[s].rcptTo \union session[s].rcptToRelay]
      \/ UNCHANGED <<reading, todo>>
  BY DEF RecvData
<1>4. /\ toServer' \in [Session -> Seq(Messages)]
      /\ SubSeq(toServer[s], 1, n) \in Seq(Messages)
  BY <1>1, <1>2, TakeFirst
<1>5. content[s] \o SubSeq(toServer[s], 1, n) \in Seq(Messages)
  BY <1>1, <1>4, ConcatProperties DEF SessionTypes
<1>6. session[s].rcptTo \union session[s].rcptToRelay \in SUBSET {"local", "remote"}
  BY <1>1 DEF SessionTypes, Envelopes
<1>7. /\ reading' \in [Session -> {"command", "data", "deliver", "closed"}]
      /\ todo' \in [Session -> SUBSET {"local", "remote"}]
  <2>1. /\ reading \in [Session -> {"command", "data", "deliver", "closed"}]
        /\ todo \in [Session -> SUBSET {"local", "remote"}]
    BY <1>1 DEF SessionTypes
  <2>2. [reading EXCEPT ![s] = "deliver"]
          \in [Session -> {"command", "data", "deliver", "closed"}]
    BY <2>1
  <2>3. [todo EXCEPT ![s] = session[s].rcptTo \union session[s].rcptToRelay]
          \in [Session -> SUBSET {"local", "remote"}]
    BY <1>6, <2>1
  <2> QED
    BY <1>3, <2>1, <2>2, <2>3
<1>8. content' \in [Session -> Seq(Messages)]
  BY <1>1, <1>2, <1>5 DEF SessionTypes
<1>9. SessionTypes' /\ ThreadTypes'
  BY <1>1, <1>2, <1>4, <1>7, <1>8 DEF SessionTypes, ThreadTypes
<1> QED
  BY <1>1, <1>2, <1>9, SameMailIsKept, SameEnvelopes DEF SessionInv

LEMMA HangUpInDataKeepsSessionInv ==
  ASSUME SessionInv, NoneLost, NEW s \in Session, HangUpInData(s)
  PROVE  SessionInv'
<1>1. SessionTypes /\ setup \in Setup /\ ThreadTypes
  BY DEF SessionInv
<1>2. /\ reading' = [reading EXCEPT ![s] = "deliver"]
      /\ todo' = [todo EXCEPT ![s] = session[s].rcptTo \union session[s].rcptToRelay]
      /\ UNCHANGED <<setup, toServer, toClient, hungUp, buffer, session, content,
                     success, alive, now, mailbox, accepted, refused>>
      /\ UNCHANGED <<sent, awaiting, budget>>
  BY DEF HangUpInData, threadVars
<1>3. session[s].rcptTo \union session[s].rcptToRelay \in SUBSET {"local", "remote"}
  BY <1>1 DEF SessionTypes, Envelopes
<1>4. SessionTypes' /\ ThreadTypes'
  BY <1>1, <1>2, <1>3 DEF SessionTypes, ThreadTypes
<1> QED
  BY <1>1, <1>2, <1>4, SameMailIsKept, SameEnvelopes DEF SessionInv

\* A mail of session s that is not queued yet.
LEMMA ItemIsMail ==
  ASSUME SessionTypes, NEW s \in Session, NEW r \in {"local", "remote"}
  PROVE  /\ Item(s, r) \in Mails /\ Item(s, r).to = r
         /\ Item(s, r).mailFrom = session[s].mailFrom /\ Item(s, r).text = content[s]
<1> DEFINE Texts == Seq(Messages)
           Senders == {"", "invalid"} \union Sender
<1>1. session[s].mailFrom \in Senders /\ content[s] \in Texts
  BY DEF SessionTypes, Envelopes
<1>2. now \in Nat /\ 0 \in Nat
  BY DEF SessionTypes
<1> HIDE DEF Texts, Senders
<1>3. Item(s, r) = [to |-> r, mailFrom |-> session[s].mailFrom, text |-> content[s],
                    second |-> IF r = "local" THEN now ELSE 0, serial |-> 0]
  BY DEF Item
<1>4. Item(s, r) \in [to : {"local", "remote"}, mailFrom : Senders, text : Texts,
                      second : Nat, serial : Nat]
  BY <1>1, <1>2, <1>3
<1>5. Item(s, r) \in Mails
  BY <1>4 DEF Mails, Texts, Senders
<1> QED
  BY <1>3, <1>5

LEMMA PutEmailKeepsSessionInv ==
  ASSUME SessionInv, NoneLost, NEW s \in Session, NEW stored \in BOOLEAN, PutEmail(s, stored)
  PROVE  SessionInv'
<1> DEFINE e == Item(s, "local")
<1>1. SessionTypes /\ setup \in Setup /\ ThreadTypes
  BY DEF SessionInv
<1>2. /\ mailbox' = IF stored
            THEN {m \in mailbox : m.mailFrom # e.mailFrom \/ m.second # e.second}
                   \union {e}
            ELSE mailbox
      /\ refused' = IF stored THEN refused ELSE refused \union {e}
      /\ accepted' = accepted \union {e}
      /\ todo' = [todo EXCEPT ![s] = @ \ {"local"}]
      /\ success' = [success EXCEPT ![s] = TRUE]
      /\ UNCHANGED <<setup, toServer, toClient, hungUp, buffer, session, reading,
                     content, alive, now>>
      /\ UNCHANGED <<sent, awaiting, budget>>
  BY DEF PutEmail, threadVars
<1>3. e \in Mails /\ e.to = "local"
  BY <1>1, ItemIsMail
<1> HIDE DEF e
<1>4. SessionTypes' /\ ThreadTypes'
  BY <1>1, <1>2 DEF SessionTypes, ThreadTypes
<1>5. AcceptedIsKept'
  <2> SUFFICES ASSUME NEW a \in accepted'
               PROVE  \/ a.to = "local" /\ (a \in refused' \/ StoredOrReplaced(a)')
                      \/ a.to = "remote" /\ QueuedOrRelayed(a)'
    BY DEF AcceptedIsKept
  <2>1. ASSUME StoredOrReplaced(a)
        PROVE  StoredOrReplaced(a)'
    <3>1. PICK m \in mailbox : m.mailFrom = a.mailFrom /\ m.second = a.second
      BY <2>1 DEF StoredOrReplaced
    <3>2. CASE m \in mailbox'
      BY <3>1, <3>2 DEF StoredOrReplaced
    <3>3. CASE m \notin mailbox'
      <4>1. m.mailFrom = e.mailFrom /\ m.second = e.second /\ e \in mailbox'
        BY <1>2, <3>3
      <4> QED
        BY <3>1, <4>1 DEF StoredOrReplaced
    <3> QED
      BY <3>2, <3>3
  <2>2. QueuedOrRelayed(a) => QueuedOrRelayed(a)'
    BY DEF NoneLost
  <2>3. CASE a \in accepted
    <3>1. \/ a.to = "local" /\ (a \in refused \/ StoredOrReplaced(a))
          \/ a.to = "remote" /\ QueuedOrRelayed(a)
      BY <2>3 DEF SessionInv, AcceptedIsKept
    <3>2. refused \subseteq refused'
      BY <1>2
    <3> QED
      BY <2>1, <2>2, <3>1, <3>2
  <2>4. CASE a = e
    <3>1. CASE stored
      <4>1. e \in mailbox'
        BY <1>2, <3>1
      <4> QED
        BY <1>3, <2>4, <4>1 DEF StoredOrReplaced
    <3>2. CASE ~stored
      BY <1>2, <1>3, <2>4, <3>2
    <3> QED
      BY <3>1, <3>2
  <2> QED
    BY <1>2, <2>3, <2>4
<1> QED
  BY <1>1, <1>2, <1>4, <1>5, SameEnvelopes DEF SessionInv

LEMMA RelayDoneKeepsSessionInv ==
  ASSUME SessionInv, QueueInv, NoneLost, NEW s \in Session, NEW ok \in BOOLEAN,
         RelayDone(s, ok)
  PROVE  SessionInv'
<1>1. SessionTypes /\ setup \in Setup /\ ThreadTypes
  BY DEF SessionInv
<1>2. /\ todo' = [todo EXCEPT ![s] = @ \ {"remote"}]
      /\ success' = [success EXCEPT ![s] = @ \/ ok]
      /\ accepted' = IF ok THEN accepted \union {entry[s]} ELSE accepted
      /\ UNCHANGED <<setup, toServer, toClient, hungUp, buffer, session, reading,
                     content, alive, now, mailbox, refused>>
      /\ UNCHANGED <<sent, awaiting, budget>>
  BY DEF RelayDone, threadVars
<1>3. ok => stage[s] = "successful"
  BY DEF RelayDone, Queued, At
<1>4. SessionTypes' /\ ThreadTypes'
  <2>1. success' \in [Session -> BOOLEAN]
    BY <1>1, <1>2 DEF SessionTypes
  <2> QED
    BY <1>1, <1>2, <2>1 DEF SessionTypes, ThreadTypes
<1>5. AcceptedIsKept'
  <2> SUFFICES ASSUME NEW a \in accepted'
               PROVE  \/ a.to = "local" /\ (a \in refused' \/ StoredOrReplaced(a)')
                      \/ a.to = "remote" /\ QueuedOrRelayed(a)'
    BY DEF AcceptedIsKept
  <2>1. StoredOrReplaced(a) => StoredOrReplaced(a)'
    BY <1>2 DEF StoredOrReplaced
  <2>2. QueuedOrRelayed(a) => QueuedOrRelayed(a)'
    BY DEF NoneLost
  <2>3. CASE a \in accepted
    BY <1>2, <2>1, <2>2, <2>3 DEF SessionInv, AcceptedIsKept
  <2>4. CASE ok /\ a = entry[s]
    <3>1. entry[s].to = "remote" /\ QueuedOrRelayed(entry[s])
      BY <1>3, <2>4 DEF QueueInv, QueueTypes, FlushedIsKept
    <3> QED
      BY <2>2, <2>4, <3>1
  <2> QED
    BY <1>2, <2>3, <2>4
<1> QED
  BY <1>1, <1>2, <1>4, <1>5, SameEnvelopes DEF SessionInv

LEMMA FinishDataKeepsSessionInv ==
  ASSUME SessionInv, NoneLost, NEW s \in Session, FinishData(s)
  PROVE  SessionInv'
<1>1. SessionTypes /\ setup \in Setup /\ ThreadTypes
  BY DEF SessionInv
<1>2. /\ Replies(s, "line") /\ session' = [session EXCEPT ![s] = Fresh("HeloReceived")]
      /\ reading' = [reading EXCEPT ![s] = "command"]
      /\ content' = [content EXCEPT ![s] = <<>>]
      /\ UNCHANGED <<setup, toServer, hungUp, buffer, todo, success, alive, now,
                     mailbox, accepted, refused>>
      /\ UNCHANGED <<sent, awaiting, budget>>
  BY DEF FinishData, Answer, Becomes, threadVars
<1>3. toClient' \in [Session -> Seq({"line", "fragment"})]
  <2>1. Append(toClient[s], "line") \in Seq({"line", "fragment"})
    BY <1>1, AppendProperties DEF SessionTypes
  <2> QED
    BY <1>1, <1>2, <2>1 DEF Replies, SessionTypes
<1>4. session' \in [Session -> Envelopes] /\ SenderIsValid' /\ EnvelopeFresh'
  BY <1>2, FreshEnvelope, EnvelopeIsKept
<1>5. <<>> \in Seq(Messages)
  OBVIOUS
<1>6. SessionTypes' /\ ThreadTypes'
  BY <1>1, <1>2, <1>3, <1>4, <1>5 DEF SessionTypes, ThreadTypes
<1> QED
  BY <1>1, <1>2, <1>4, <1>6, SameMailIsKept DEF SessionInv

LEMMA SendNextKeepsSessionInv ==
  ASSUME SessionInv, NoneLost, NEW t \in Thread, SendNext(t)
  PROVE  SessionInv'
<1>1. SessionTypes /\ setup \in Setup /\ ThreadTypes
  BY DEF SessionInv
<1>2. /\ sent[t] < 4 /\ Sends(Sock(t), Dialogue(t)[sent[t] + 1])
      /\ sent' = [sent EXCEPT ![t] = @ + 1]
      /\ awaiting' = [awaiting EXCEPT ![t] = TRUE]
      /\ UNCHANGED <<setup, toClient, hungUp, buffer, session, reading, content, todo,
                     success, alive, now, mailbox, accepted, refused, budget>>
  BY DEF SendNext
<1>3. Sock(t) \in Session
  BY <1>1, SetupTypes
<1>4. sent[t] + 1 \in 1 .. 4 /\ sent[t] + 1 \in 0 .. 4
  BY <1>1, <1>2 DEF ThreadTypes
<1>5. Dialogue(t)[sent[t] + 1] \in Messages
  BY <1>1, <1>4, DialogueTypes
<1>6. toServer' \in [Session -> Seq(Messages)]
  BY <1>1, <1>2, <1>3, <1>5, SendLast
<1>7. ThreadTypes'
  BY <1>1, <1>2, <1>4 DEF ThreadTypes
<1>8. SessionTypes'
  BY <1>1, <1>2, <1>6 DEF SessionTypes
<1> QED
  BY <1>1, <1>2, <1>7, <1>8, SameMailIsKept, SameEnvelopes DEF SessionInv

LEMMA ReadReplyKeepsSessionInv ==
  ASSUME SessionInv, NoneLost, NEW t \in Thread, NEW n \in 1 .. Len(toClient[Sock(t)]),
         ReadReply(t, n)
  PROVE  SessionInv'
<1> DEFINE q == toClient[Sock(t)]
           Kinds == {"line", "fragment"}
           rest == SubSeq(q, n + 1, Len(q))
<1>1. SessionTypes /\ setup \in Setup /\ ThreadTypes
  BY DEF SessionInv
<1>2. /\ toClient' = [toClient EXCEPT ![Sock(t)] = rest]
      /\ awaiting' = [awaiting EXCEPT ![t] = FALSE]
      /\ UNCHANGED <<setup, toServer, hungUp, buffer, session, reading, content, todo,
                     success, alive, now, mailbox, accepted, refused, sent, budget>>
  BY DEF ReadReply
<1>3. Sock(t) \in Session
  BY <1>1, SetupTypes
<1>4. toClient \in [Session -> Seq(Kinds)] /\ q \in Seq(Kinds)
  BY <1>1, <1>3 DEF SessionTypes
<1> HIDE DEF q, Kinds
<1>5. Len(q) \in Nat
  BY <1>4, LenProperties
<1>6. n \in 1 .. Len(q)
  BY DEF q
<1>7. n + 1 \in Int /\ Len(q) \in Int /\ \A i \in n + 1 .. Len(q) : i \in 1 .. Len(q)
  BY <1>5, <1>6
<1>8. \A i \in n + 1 .. Len(q) : q[i] \in Kinds
  BY <1>4, <1>7, ElementOfSeq
<1>9. rest \in Seq(Kinds)
  BY <1>7, <1>8, SubSeqProperties
<1>10. toClient' \in [Session -> Seq(Kinds)]
  BY <1>2, <1>4, <1>9
<1>11. SessionTypes' /\ ThreadTypes'
  BY <1>1, <1>2, <1>10 DEF SessionTypes, ThreadTypes, Kinds
<1> QED
  BY <1>1, <1>2, <1>11, SameMailIsKept, SameEnvelopes DEF SessionInv

LEMMA OtherSendsKeepsSessionInv ==
  ASSUME SessionInv, NoneLost, NEW s \in Session, NEW m \in OtherMessages, OtherSends(s, m)
  PROVE  SessionInv'
<1>1. SessionTypes /\ setup \in Setup /\ ThreadTypes
  BY DEF SessionInv
<1>2. /\ Sends(s, m) /\ budget > 0 /\ budget' = budget - 1
      /\ toClient' = [toClient EXCEPT ![s] = <<>>]
      /\ UNCHANGED <<setup, hungUp, buffer, session, reading, content, todo, success,
                     alive, now, mailbox, accepted, refused, sent, awaiting>>
  BY DEF OtherSends
<1>3. m \in Messages
  BY OtherTypes
<1>4. toServer' \in [Session -> Seq(Messages)]
  BY <1>1, <1>2, <1>3, SendLast
<1>5. <<>> \in Seq({"line", "fragment"})
  OBVIOUS
<1>6. ThreadTypes'
  BY <1>1, <1>2 DEF ThreadTypes
<1>7. toClient' \in [Session -> Seq({"line", "fragment"})]
  BY <1>1, <1>2, <1>5 DEF SessionTypes
<1>8. SessionTypes'
  BY <1>1, <1>2, <1>4, <1>7 DEF SessionTypes
<1> QED
  BY <1>1, <1>2, <1>6, <1>8, SameMailIsKept, SameEnvelopes DEF SessionInv

\* What is left of the session's state when nothing above happens.
LEMMA RestKeepsSessionInv ==
  ASSUME SessionInv, NoneLost, hungUp' \subseteq setup.other,
         reading' = reading \/ \E s \in Session : reading' = [reading EXCEPT ![s] = "closed"],
         alive' \in BOOLEAN, now' \in Nat,
         UNCHANGED <<setup, toServer, toClient, buffer, session, content, todo, success,
                     mailbox, accepted, refused>>,
         UNCHANGED <<sent, awaiting, budget>>
  PROVE  SessionInv'
<1>1. SessionTypes /\ setup \in Setup /\ ThreadTypes
  BY DEF SessionInv
<1>2. reading' \in [Session -> {"command", "data", "deliver", "closed"}]
  BY <1>1 DEF SessionTypes
<1>3. SessionTypes' /\ ThreadTypes'
  BY <1>1, <1>2 DEF SessionTypes, ThreadTypes
<1> QED
  BY <1>1, <1>3, SameMailIsKept, SameEnvelopes DEF SessionInv

LEMMA NextKeepsQueueAndSessions ==
  ASSUME QueueInv, SessionInv, [Next]_vars
  PROVE  QueueInv' /\ SessionInv'
<1> SUFFICES ASSUME UNCHANGED queueVars => QueueInv' /\ NoneLost
             PROVE  QueueInv' /\ SessionInv'
  BY RestKeepsQueueInv
<1>1. SessionTypes /\ setup \in Setup
  BY DEF SessionInv
<1>2. ASSUME UNCHANGED <<setup, sessionVars>>, UNCHANGED threadVars, NoneLost
      PROVE  SessionInv'
  <2>1. /\ UNCHANGED <<setup, toServer, toClient, buffer, session, content, todo,
                       success, mailbox, accepted, refused>>
        /\ UNCHANGED <<hungUp, reading, alive, now>> /\ UNCHANGED <<sent, awaiting, budget>>
    BY <1>2 DEF sessionVars, threadVars
  <2>2. hungUp' \subseteq setup.other /\ alive' \in BOOLEAN /\ now' \in Nat
    BY <1>1, <2>1 DEF SessionTypes
  <2> QED
    BY <1>2, <2>1, <2>2, RestKeepsSessionInv
<1>3. ASSUME UNCHANGED vars
      PROVE  QueueInv' /\ SessionInv'
  <2>1. UNCHANGED queueVars /\ UNCHANGED <<setup, sessionVars>> /\ UNCHANGED threadVars
    BY <1>3 DEF vars
  <2> QED
    BY <1>2, <2>1
<1>4. ASSUME NEW s \in Session, NEW n \in 1 .. Len(toServer[s]), RecvCommands(s, n)
      PROVE  QueueInv' /\ SessionInv'
  BY <1>4, RecvCommandsKeepsSessionInv DEF RecvCommands
<1>5. ASSUME NEW s \in Session, NEW n \in 1 .. Len(toServer[s]), RecvData(s, n)
      PROVE  QueueInv' /\ SessionInv'
  BY <1>5, RecvDataKeepsSessionInv DEF RecvData
<1>6. ASSUME NEW s \in Session, Handle(s)
      PROVE  QueueInv' /\ SessionInv'
  <2>1. UNCHANGED queueVars
    BY <1>6 DEF Handle
  <2> QED
    BY <1>6, <2>1, HandleKeepsSessionInv
<1>7. ASSUME NEW s \in Session, BeginData(s)
      PROVE  QueueInv' /\ SessionInv'
  BY <1>7, BeginDataKeepsSessionInv DEF BeginData
<1>8. ASSUME NEW s \in Session, HangUpInData(s)
      PROVE  QueueInv' /\ SessionInv'
  BY <1>8, HangUpInDataKeepsSessionInv DEF HangUpInData
<1>9. ASSUME NEW s \in Session, NEW stored \in BOOLEAN, PutEmail(s, stored)
      PROVE  QueueInv' /\ SessionInv'
  BY <1>9, PutEmailKeepsSessionInv DEF PutEmail
<1>10. ASSUME NEW s \in Session, RelayEmail(s)
       PROVE  QueueInv' /\ SessionInv'
  <2>1. Enqueue(s, Item(s, "remote")) /\ UNCHANGED <<sessionVars, threadVars, setup>>
    BY <1>10 DEF RelayEmail
  <2>2. Item(s, "remote") \in Mails /\ Item(s, "remote").to = "remote"
    BY <1>1, ItemIsMail
  <2>3. QueueInv' /\ NoneLost
    BY <2>1, <2>2, EnqueueKeepsQueueInv
  <2> QED
    BY <1>2, <2>1, <2>3
<1>11. ASSUME NEW s \in Session, NEW ok \in BOOLEAN, RelayDone(s, ok)
       PROVE  QueueInv' /\ SessionInv'
  <2>1. QueueInv' /\ NoneLost
    BY <1>11, QueuedKeepsQueueInv DEF RelayDone
  <2> QED
    BY <1>11, <2>1, RelayDoneKeepsSessionInv
<1>12. ASSUME NEW s \in Session, FinishData(s)
       PROVE  QueueInv' /\ SessionInv'
  BY <1>12, FinishDataKeepsSessionInv DEF FinishData
<1>13. ASSUME NEW s \in Session, CloseSession(s)
       PROVE  QueueInv' /\ SessionInv'
  <2>1. /\ reading' = [reading EXCEPT ![s] = "closed"]
        /\ UNCHANGED queueVars
        /\ UNCHANGED <<setup, toServer, toClient, hungUp, buffer, session, content, todo,
                       success, alive, now, mailbox, accepted, refused>>
        /\ UNCHANGED <<sent, awaiting, budget>>
    BY <1>13 DEF CloseSession, threadVars
  <2>2. hungUp' \subseteq setup.other /\ alive' \in BOOLEAN /\ now' \in Nat
    BY <1>1, <2>1 DEF SessionTypes
  <2> QED
    BY <2>1, <2>2, RestKeepsSessionInv
<1>14. ASSUME NEW s \in Session, Abort(s)
       PROVE  QueueInv' /\ SessionInv'
  <2>1. /\ alive' = FALSE /\ UNCHANGED queueVars
        /\ UNCHANGED <<setup, toServer, toClient, hungUp, reading, buffer, session, content,
                       todo, success, now, mailbox, accepted, refused>>
        /\ UNCHANGED <<sent, awaiting, budget>>
    BY <1>14 DEF Abort, threadVars
  <2>2. hungUp' \subseteq setup.other /\ alive' \in BOOLEAN /\ now' \in Nat
    BY <1>1, <2>1 DEF SessionTypes
  <2> QED
    BY <2>1, <2>2, RestKeepsSessionInv
<1>15. ASSUME NEW s \in Session, RelayStep(s), UNCHANGED <<sessionVars, threadVars, setup>>
       PROVE  QueueInv' /\ SessionInv'
  <2>1. QueueInv' /\ NoneLost
    BY <1>15, RelayStepKeepsQueueInv
  <2> QED
    BY <1>2, <1>15, <2>1
<1>16. ASSUME NEW s \in Session, HangUp(s)
       PROVE  QueueInv' /\ SessionInv'
  <2>1. /\ s \in setup.other /\ hungUp' = hungUp \union {s} /\ UNCHANGED queueVars
        /\ UNCHANGED <<setup, toServer, toClient, reading, buffer, session, content, todo,
                       success, alive, now, mailbox, accepted, refused>>
        /\ UNCHANGED <<sent, awaiting, budget>>
    BY <1>16 DEF HangUp, threadVars
  <2>2. hungUp' \subseteq setup.other /\ alive' \in BOOLEAN /\ now' \in Nat
    BY <1>1, <2>1 DEF SessionTypes
  <2> QED
    BY <2>1, <2>2, RestKeepsSessionInv
<1>17. ASSUME NEW s \in Session, NEW m \in OtherMessages, OtherSends(s, m)
       PROVE  QueueInv' /\ SessionInv'
  BY <1>17, OtherSendsKeepsSessionInv DEF OtherSends
<1>18. ASSUME NEW t \in Thread, SendNext(t)
       PROVE  QueueInv' /\ SessionInv'
  BY <1>18, SendNextKeepsSessionInv DEF SendNext
<1>19. ASSUME NEW t \in Thread, NEW n \in 1 .. Len(toClient[Sock(t)]), ReadReply(t, n)
       PROVE  QueueInv' /\ SessionInv'
  BY <1>19, ReadReplyKeepsSessionInv DEF ReadReply
<1>20. ASSUME Tick
       PROVE  QueueInv' /\ SessionInv'
  <2>1. /\ now' = now + 1 /\ UNCHANGED queueVars
        /\ UNCHANGED <<setup, toServer, toClient, hungUp, reading, buffer, session, content,
                       todo, success, alive, mailbox, accepted, refused>>
        /\ UNCHANGED <<sent, awaiting, budget>>
    BY <1>20 DEF Tick, threadVars
  <2>2. hungUp' \subseteq setup.other /\ alive' \in BOOLEAN /\ now' \in Nat
    BY <1>1, <2>1 DEF SessionTypes
  <2> QED
    BY <2>1, <2>2, RestKeepsSessionInv
<1>21. ASSUME NEW s \in Session, ServerStep(s)
       PROVE  QueueInv' /\ SessionInv'
  BY <1>4, <1>5, <1>6, <1>7, <1>8, <1>9, <1>10, <1>11, <1>12, <1>13, <1>14, <1>15, <1>21
     DEF ServerStep
<1>22. ASSUME NEW t \in Thread, ThreadStep(t)
       PROVE  QueueInv' /\ SessionInv'
  BY <1>18, <1>19, <1>22 DEF ThreadStep
<1> QED
  BY <1>3, <1>16, <1>17, <1>20, <1>21, <1>22 DEF Next

LEMMA InitEstablishesQueueInv ==
  Init => QueueInv
<1> SUFFICES ASSUME Init
             PROVE  QueueInv
  OBVIOUS
<1>1. /\ mqueue = <<>> /\ lock = NoSession /\ queued = 0 /\ received = <<>> /\ deaths = 0
      /\ stage = [s \in Session |-> "none"] /\ entry = [s \in Session |-> <<>>]
      /\ emails = [s \in Session |-> <<>>]
  BY DEF Init, QueueInit
<1>2. Len(mqueue) = 0 /\ Len(received) = 0 /\ \A s \in Session : Len(emails[s]) = 0
  BY <1>1
<1>3. \A i : i \notin 1 .. 0
  OBVIOUS
<1>4. QueueTypes
  <2>1. \A S : <<>> \in Seq(S)
    BY EmptySeq
  <2>2. /\ stage \in [Session -> Stage] /\ entry \in [Session -> Mails \union {<<>>}]
        /\ \A s \in Session : stage[s] = "none"
    BY <1>1 DEF Stage
  <2>3. emails \in [Session -> Seq([mail : Mails, tried : BOOLEAN, sent : BOOLEAN])]
    BY <1>1, <2>1
  <2> QED
    BY <1>1, <2>1, <2>2, <2>3 DEF QueueTypes
<1>5. LockIsHeld
  BY <1>1, QueueAssumption DEF LockIsHeld
<1>6. ReadIsPrefix /\ FlushedIsKept
  BY <1>1, <1>2, <1>3 DEF ReadIsPrefix, FlushedIsKept
<1>7. Unflushed = {}
  BY <1>1 DEF Unflushed
<1>8. SerialsBounded /\ UnflushedIsNew
  BY <1>2, <1>3, <1>7 DEF SerialsBounded, UnflushedIsNew
<1>9. OncePerPlace /\ KnownIsMarked /\ RelayedOnce
  BY <1>2, <1>3 DEF OncePerPlace, KnownIsMarked, RelayedOnce
<1> QED
  BY <1>4, <1>5, <1>6, <1>8, <1>9 DEF QueueInv

LEMMA InitEstablishesSessionInv ==
  Init => SessionInv
<1> SUFFICES ASSUME Init
             PROVE  SessionInv
  OBVIOUS
<1>1. setup \in Setup /\ accepted = {}
  BY DEF Init
<1>2. \A S : <<>> \in Seq(S)
  BY EmptySeq
<1>3. \A s \in Session : session[s] \in Envelopes /\ GoodEnvelope(session[s])
  BY FreshEnvelope DEF Init
<1>4. session \in [Session -> Envelopes]
  BY <1>3 DEF Init
<1>5. toServer \in [Session -> Seq(Messages)]
  <2>1. Message("HELO", "ok", "frontend") \in Messages
    BY MessageTypes DEF Commands, Arguments
  <2>2. <<Message("HELO", "ok", "frontend")>> \in Seq(Messages)
    BY <2>1
  <2> QED
    BY <1>2, <2>2 DEF Init
<1>6. /\ toClient \in [Session -> Seq({"line", "fragment"})]
      /\ buffer \in [Session -> Seq(Messages)] /\ content \in [Session -> Seq(Messages)]
  BY <1>2 DEF Init
<1>7. /\ todo \in [Session -> SUBSET {"local", "remote"}]
      /\ reading \in [Session -> {"command", "data", "deliver", "closed"}]
      /\ success \in [Session -> BOOLEAN] /\ alive \in BOOLEAN /\ now \in Nat
      /\ hungUp \subseteq setup.other
  BY DEF Init
<1>8. SessionTypes
  BY <1>4, <1>5, <1>6, <1>7 DEF SessionTypes
<1>9. ThreadTypes
  BY MailAssumption DEF Init, ThreadTypes
<1>10. EnvelopeFresh /\ SenderIsValid
  BY <1>3, GoodEnvelopes
<1>11. AcceptedIsKept
  BY <1>1 DEF AcceptedIsKept
<1> QED
  BY <1>1, <1>8, <1>9, <1>10, <1>11 DEF SessionInv

-----------------------------------------------------------------------------
(* What may come next on a connection of a frontend.                       *)

LEMMA OpeningParts ==
  Opening.cmd = "MAIL" /\ Opening.arg = "ok" /\ Opening.from = "user"
BY MessageParts DEF Opening

LEMMA DialogueParts ==
  ASSUME NEW t \in Thread
  PROVE  /\ Rcpt(t).cmd = "RCPT" /\ Rcpt(t).arg = setup.mailTo[t] /\ Rcpt(t).from = t
         /\ Data(t).cmd = "DATA" /\ Data(t).from = t
         /\ Body(t).cmd = "BODY" /\ Body(t).from = t
<1>1. Rcpt(t).cmd = "RCPT" /\ Rcpt(t).arg = setup.mailTo[t]
  BY MessageParts DEF Rcpt
<1>2. Data(t).cmd = "DATA" /\ Body(t).cmd = "BODY"
  BY MessageParts DEF Data, Body
<1>3. Rcpt(t).from = t
  BY DEF Rcpt, Message
<1>4. Data(t).from = t /\ Body(t).from = t
  BY DEF Data, Body, Message
<1> QED
  BY <1>1, <1>2, <1>3, <1>4

\* What comes after a message.
LEMMA FollowsWhat ==
  ASSUME NEW m, NEW k, Follows(m, k)
  PROVE  /\ m.cmd \in {"HELO", "BODY"} => k = Opening
         /\ m = Opening => \E t \in Thread : k = Rcpt(t)
         /\ \A t \in Thread : m = Rcpt(t) => k = Data(t)
         /\ \A t \in Thread : m = Data(t) => k = Body(t)
<1>1. CASE m.cmd \in {"HELO", "BODY"} /\ k = Opening
  <2>1. m # Opening /\ \A t \in Thread : m # Rcpt(t) /\ m # Data(t)
    BY <1>1, OpeningParts, DialogueParts
  <2> QED
    BY <1>1, <2>1
<1>2. CASE m = Opening /\ \E t \in Thread : k = Rcpt(t)
  <2>1. m.cmd \notin {"HELO", "BODY"} /\ \A t \in Thread : m # Rcpt(t) /\ m # Data(t)
    BY <1>2, OpeningParts, DialogueParts
  <2> QED
    BY <1>2, <2>1
<1>3. ASSUME NEW t \in Thread, m = Rcpt(t), k = Data(t)
      PROVE  /\ m.cmd \in {"HELO", "BODY"} => k = Opening
             /\ m = Opening => \E u \in Thread : k = Rcpt(u)
             /\ \A u \in Thread : m = Rcpt(u) => k = Data(u)
             /\ \A u \in Thread : m = Data(u) => k = Body(u)
  <2>1. m.cmd \notin {"HELO", "BODY"} /\ m # Opening
    BY <1>3, OpeningParts, DialogueParts
  <2>2. \A u \in Thread : m # Data(u) /\ (m = Rcpt(u) => u = t)
    BY <1>3, DialogueParts
  <2> QED
    BY <1>3, <2>1, <2>2
<1>4. ASSUME NEW t \in Thread, m = Data(t), k = Body(t)
      PROVE  /\ m.cmd \in {"HELO", "BODY"} => k = Opening
             /\ m = Opening => \E u \in Thread : k = Rcpt(u)
             /\ \A u \in Thread : m = Rcpt(u) => k = Data(u)
             /\ \A u \in Thread : m = Data(u) => k = Body(u)
  <2>1. m.cmd \notin {"HELO", "BODY"} /\ m # Opening
    BY <1>4, OpeningParts, DialogueParts
  <2>2. \A u \in Thread : m # Rcpt(u) /\ (m = Data(u) => u = t)
    BY <1>4, DialogueParts
  <2> QED
    BY <1>4, <2>1, <2>2
<1> QED
  BY <1>1, <1>2, <1>3, <1>4 DEF Follows

LEMMA DialogueIsSame ==
  ASSUME UNCHANGED setup
  PROVE  /\ \A t \in Thread : /\ Rcpt(t)' = Rcpt(t) /\ Dialogue(t)' = Dialogue(t)
                              /\ Sock(t)' = Sock(t)
         /\ \A m, k : Follows(m, k)' <=> Follows(m, k)
<1>1. \A t \in Thread : /\ Rcpt(t)' = Rcpt(t) /\ Dialogue(t)' = Dialogue(t)
                        /\ Sock(t)' = Sock(t)
  BY DEF Rcpt, Dialogue, Sock
<1> QED
  BY <1>1 DEF Follows

LEMMA ExpectsIsSame ==
  ASSUME UNCHANGED setup, NEW s \in Session, reading'[s] = reading[s],
         session'[s] = session[s]
  PROVE  \A k : Expects(s, k) => Expects(s, k)'
<1>1. Opened(s)' <=> Opened(s)
  BY DEF Opened, EnvelopeIs
<1>2. \A t \in Thread : Rcpt(t)' = Rcpt(t)
  BY DialogueIsSame
<1>3. \A t \in Thread : /\ Addressed(s, t)' <=> Addressed(s, t)
                        /\ TurnedDown(s, t)' <=> TurnedDown(s, t)
  BY <1>1 DEF Addressed, TurnedDown, EnvelopeIs
<1>4. (Unknown(s)' <=> Unknown(s)) /\ (Greeted(s)' <=> Greeted(s))
  BY DEF Unknown, Greeted, EnvelopeIs
<1> SUFFICES ASSUME NEW k, Expects(s, k)
             PROVE  Expects(s, k)'
  OBVIOUS
<1> QED
  BY <1>1, <1>2, <1>3, <1>4 DEF Expects

\* What a change does to the parts of an envelope.
LEMMA EnvelopeParts ==
  ASSUME NEW e \in Envelopes, NEW x
  PROVE  /\ LET n == [e EXCEPT !.state = x]
            IN  /\ n.state = x /\ n.mailFrom = e.mailFrom /\ n.rcptTo = e.rcptTo
                /\ n.rcptToRelay = e.rcptToRelay
         /\ LET n == [e EXCEPT !.mailFrom = x, !.state = "MailFromReceived"]
            IN  /\ n.state = "MailFromReceived" /\ n.mailFrom = x /\ n.rcptTo = e.rcptTo
                /\ n.rcptToRelay = e.rcptToRelay
         /\ LET n == [e EXCEPT !.rcptTo = e.rcptTo \union {x}, !.state = "RcptToReceived"]
            IN  /\ n.state = "RcptToReceived" /\ n.mailFrom = e.mailFrom
                /\ n.rcptTo = e.rcptTo \union {x} /\ n.rcptToRelay = e.rcptToRelay
         /\ LET n == [e EXCEPT !.rcptToRelay = e.rcptToRelay \union {x},
                               !.state = "RcptToReceived"]
            IN  /\ n.state = "RcptToReceived" /\ n.mailFrom = e.mailFrom
                /\ n.rcptTo = e.rcptTo /\ n.rcptToRelay = e.rcptToRelay \union {x}
BY DEF Envelopes

\* What a session does with the messages it expects.
LEMMA HandleAdvances ==
  ASSUME SessionInv, NEW s \in Session, NEW m, reading[s] = "command", Expects(s, m),
         Replied(s, m), UNCHANGED <<setup, reading>>
  PROVE  \A k : Follows(m, k) => Expects(s, k)'
<1> SUFFICES ASSUME NEW k, Follows(m, k)
             PROVE  Expects(s, k)'
  OBVIOUS
<1>1. session \in [Session -> Envelopes] /\ reading'[s] = "command" /\ session[s] \in Envelopes
  BY DEF SessionInv, SessionTypes
<1>2. \A new : Becomes(s, new) => session'[s] = new
  BY <1>1 DEF Becomes
<1>3. Reject(s) => session'[s] = session[s]
  BY <1>2 DEF Reject, Answer
<1>4. \A t \in Thread : Rcpt(t)' = Rcpt(t)
  BY DialogueIsSame
<1>5. ASSUME m.cmd = "HELO", m.arg = "ok", Unknown(s)
      PROVE  Expects(s, k)'
  <2>1. DoHelo(s, "ok")
    BY <1>5 DEF Replied
  <2>2. session'[s] = [session[s] EXCEPT !.state = "HeloReceived"]
    BY <1>2, <1>5, <2>1 DEF DoHelo, Answer, Unknown, EnvelopeIs
  <2>3. Greeted(s)'
    <3>2. /\ session[s].mailFrom = "" /\ session[s].rcptTo = {}
          /\ session[s].rcptToRelay = {}
      BY <1>5 DEF Unknown, EnvelopeIs
    <3>1. /\ session'[s].state = "HeloReceived" /\ session'[s].mailFrom = ""
          /\ session'[s].rcptTo = {} /\ session'[s].rcptToRelay = {}
      BY <1>1, <2>2, <3>2 DEF Envelopes
    <3> QED
      BY <3>1 DEF Greeted, EnvelopeIs
  <2>4. k = Opening
    BY <1>5, FollowsWhat
  <2> QED
    BY <1>1, <2>3, <2>4 DEF Expects
<1>6. ASSUME m = Opening, Greeted(s) \/ Opened(s)
      PROVE  Expects(s, k)'
  <2>1. m.cmd = "MAIL" /\ m.arg = "ok" /\ m.from = "user"
    BY <1>6, OpeningParts
  <2>2. DoMailFrom(s, m)
    BY <2>1 DEF Replied
  <2>3. ASSUME Greeted(s)
        PROVE  Opened(s)'
    <3>1. Answer(s, "line", [session[s] EXCEPT !.mailFrom = m.from,
                                               !.state = "MailFromReceived"])
      BY <2>1, <2>2, <2>3 DEF DoMailFrom, Greeted, EnvelopeIs
    <3>2. session'[s] = [session[s] EXCEPT !.mailFrom = "user", !.state = "MailFromReceived"]
      BY <1>2, <2>1, <3>1 DEF Answer
    <3>3. /\ session'[s].state = "MailFromReceived" /\ session'[s].mailFrom = "user"
          /\ session'[s].rcptTo = {} /\ session'[s].rcptToRelay = {}
      <4>1. session[s].rcptTo = {} /\ session[s].rcptToRelay = {}
        BY <2>3 DEF Greeted, EnvelopeIs
      <4> QED
        BY <1>1, <3>2, <4>1, EnvelopeParts
    <3> QED
      BY <3>3 DEF Opened, EnvelopeIs
  <2>4. ASSUME Opened(s)
        PROVE  Opened(s)'
    <3>1. session[s].state # "HeloReceived"
      BY <2>4 DEF Opened, EnvelopeIs
    <3>2. session'[s] = session[s]
      BY <1>3, <2>2, <3>1 DEF DoMailFrom
    <3> QED
      BY <2>4, <3>2 DEF Opened, EnvelopeIs
  <2>5. Opened(s)'
    BY <1>6, <2>3, <2>4
  <2>6. PICK t \in Thread : k = Rcpt(t)
    BY <1>6, FollowsWhat
  <2>7. k = Rcpt(t)'
    BY <1>4, <2>6
  <2> QED
    BY <1>1, <2>5, <2>7 DEF Expects
<1>7. ASSUME NEW t \in Thread, m = Rcpt(t), Opened(s)
      PROVE  Expects(s, k)'
  <2>1. m.cmd = "RCPT" /\ m.arg = setup.mailTo[t]
    BY <1>7, DialogueParts
  <2>2. DoRcptTo(s, setup.mailTo[t]) /\ setup.mailTo[t] # "fatal"
    BY <2>1 DEF Replied
  <2>3. session[s].state = "MailFromReceived"
    BY <1>7 DEF Opened, EnvelopeIs
  <2>4. k = Data(t) /\ k = Data(t)'
    BY <1>7, FollowsWhat DEF Data
  <2>5. setup.mailTo[t] \in {"local", "remote", "refused"}
    BY <2>2, SetupTypes DEF SessionInv, Recipient
  <2>6. CASE setup.mailTo[t] = "local"
    <3>1. session'[s] = [session[s] EXCEPT !.rcptTo = session[s].rcptTo \union {"local"},
                                           !.state = "RcptToReceived"]
      BY <1>2, <2>2, <2>3, <2>6 DEF DoRcptTo, Answer
    <3>2. /\ session'[s].state = "RcptToReceived" /\ session'[s].mailFrom = "user"
          /\ session'[s].rcptTo = {"local"} /\ session'[s].rcptToRelay = {}
      BY <1>1, <1>7, <3>1, EnvelopeParts DEF Opened, EnvelopeIs
    <3>3. Addressed(s, t)'
      BY <2>6, <3>2 DEF Addressed, EnvelopeIs
    <3> QED
      BY <1>1, <2>4, <3>3 DEF Expects
  <2>7. CASE setup.mailTo[t] = "remote"
    <3>1. session'[s] = [session[s] EXCEPT !.rcptToRelay = session[s].rcptToRelay
                                                             \union {"remote"},
                                           !.state = "RcptToReceived"]
      BY <1>2, <2>2, <2>3, <2>7 DEF DoRcptTo, Answer
    <3>2. /\ session'[s].state = "RcptToReceived" /\ session'[s].mailFrom = "user"
          /\ session'[s].rcptTo = {} /\ session'[s].rcptToRelay = {"remote"}
      BY <1>1, <1>7, <3>1, EnvelopeParts DEF Opened, EnvelopeIs
    <3>3. Addressed(s, t)'
      BY <2>7, <3>2 DEF Addressed, EnvelopeIs
    <3> QED
      BY <1>1, <2>4, <3>3 DEF Expects
  <2>8. CASE setup.mailTo[t] = "refused"
    <3>1. session'[s] = session[s]
      BY <1>2, <2>2, <2>3, <2>8 DEF DoRcptTo, Answer
    <3>2. TurnedDown(s, t)'
      BY <1>1, <1>7, <2>8, <3>1 DEF TurnedDown, Opened, EnvelopeIs
    <3> QED
      BY <2>4, <3>2 DEF Expects
  <2> QED
    BY <2>5, <2>6, <2>7, <2>8
<1>8. ASSUME NEW t \in Thread, m = Data(t), Addressed(s, t)
      PROVE  FALSE
  <2>1. m.cmd = "DATA" /\ session[s].state = "RcptToReceived"
    BY <1>8, DialogueParts DEF Addressed, EnvelopeIs
  <2> QED
    BY <2>1 DEF Replied
<1>9. ASSUME NEW t \in Thread, m \in {Data(t), Body(t)}, TurnedDown(s, t)
      PROVE  Expects(s, k)'
  <2>1. m.cmd = "DATA" \/ m.cmd = "BODY"
    BY <1>9, DialogueParts
  <2>2. session'[s] = session[s]
    BY <1>3, <2>1 DEF Replied
  <2>3. TurnedDown(s, t)' /\ Opened(s)'
    BY <1>1, <1>9, <2>2 DEF TurnedDown, Opened, EnvelopeIs
  <2>4. CASE m = Data(t)
    <3>1. k = Body(t)
      BY <2>4, FollowsWhat
    <3> QED
      BY <2>3, <3>1 DEF Expects
  <2>5. CASE m = Body(t)
    <3>1. k = Opening
      BY <2>5, DialogueParts, FollowsWhat
    <3> QED
      BY <1>1, <2>3, <3>1 DEF Expects
  <2> QED
    BY <1>9, <2>4, <2>5
<1> QED
  BY <1>5, <1>6, <1>7, <1>8, <1>9 DEF Expects

\* A sequence is empty when it has no element.
LEMMA EmptyIsZero ==
  ASSUME NEW S, NEW q \in Seq(S)
  PROVE  Len(q) \in Nat /\ (q = <<>> <=> Len(q) = 0)
BY EmptySeq, LenProperties

\* The threads of a connection do not move, and what may come still may.
LEMMA SameIsDue ==
  ASSUME NEW s \in Session, NextIsDue(s), UNCHANGED setup,
         \A t \in Thread : Sock(t) = s => sent'[t] = sent[t],
         \A k : Continues(s, k) => Continues(s, k)'
  PROVE  NextIsDue(s)'
<1>1. \A t \in Thread : Dialogue(t)' = Dialogue(t) /\ Sock(t)' = Sock(t)
  BY DialogueIsSame
<1>2. \A t \in Thread : Sock(t) = s => (Amid(t)' <=> Amid(t))
  BY DEF Amid
<1>3. ASSUME NEW t \in Thread, Sock(t) = s, Amid(t)'
      PROVE  Continues(s, Dialogue(t)[sent[t] + 1])'
  <2>1. Continues(s, Dialogue(t)[sent[t] + 1])
    BY <1>2, <1>3 DEF NextIsDue
  <2>2. Continues(s, (Dialogue(t)[sent[t] + 1])')
    BY <1>1, <1>3, <2>1
  <2> QED
    BY <2>2
<1>4. (\A t \in Thread : Sock(t) = s => ~Amid(t)') => Continues(s, Opening)'
  <2>1. (\A t \in Thread : Sock(t) = s => ~Amid(t)) => Continues(s, Opening)
    BY DEF NextIsDue
  <2> QED
    BY <1>2, <2>1
<1> QED
  BY <1>1, <1>3, <1>4 DEF NextIsDue

\* The stream of a connection is as it was.
LEMMA StillInOrder ==
  ASSUME NEW s \in Session, InOrder(s), UNCHANGED setup,
         \A t \in Thread : Sock(t) = s => sent'[t] = sent[t],
         buffer'[s] = buffer[s], toServer'[s] = toServer[s],
         reading'[s] # "command" => reading[s] # "command",
         \A k : Expects(s, k) => Expects(s, k)'
  PROVE  InOrder(s)'
<1>1. \A m, k : Follows(m, k)' <=> Follows(m, k)
  BY DialogueIsSame
<1>2. \A k : Ready(s, k) => Ready(s, k)'
  BY <1>1 DEF Ready
<1>3. \A k : Continues(s, k) => Continues(s, k)'
  BY <1>1, <1>2 DEF Continues
<1>4. NextIsDue(s)'
  BY <1>3, SameIsDue DEF InOrder
<1>5. /\ Len(buffer[s]) <= 1
      /\ reading[s] # "command" => buffer[s] = <<>>
      /\ buffer[s] # <<>> => Expects(s, buffer[s][1])
      /\ toServer[s] # <<>> => Ready(s, toServer[s][1])
      /\ \A i \in 1 .. Len(toServer[s]) - 1 : Follows(toServer[s][i], toServer[s][i + 1])
  BY DEF InOrder
<1>6. /\ buffer'[s] # <<>> => Expects(s, buffer[s][1])'
      /\ toServer'[s] # <<>> => Ready(s, toServer[s][1])'
  BY <1>2, <1>5
<1>7. \A i \in 1 .. Len(toServer'[s]) - 1 : Follows(toServer[s][i], toServer[s][i + 1])'
  BY <1>1, <1>5
<1> QED
  BY <1>4, <1>5, <1>6, <1>7 DEF InOrder

\* The message in the buffer is handled.
LEMMA HeadHandled ==
  ASSUME SessionTypes, NEW s \in Session, InOrder(s), UNCHANGED setup,
         \A t \in Thread : Sock(t) = s => sent'[t] = sent[t],
         buffer[s] # <<>>, buffer' = [buffer EXCEPT ![s] = Tail(@)],
         toServer'[s] = toServer[s],
         \A k : Follows(buffer[s][1], k) => Expects(s, k)'
  PROVE  InOrder(s)'
<1>1. \A m, k : Follows(m, k)' <=> Follows(m, k)
  BY DialogueIsSame
<1>2. buffer'[s] = <<>> /\ Len(buffer'[s]) = 0
  <2>1. Len(buffer[s]) <= 1
    BY DEF InOrder
  <2>2. /\ buffer' \in [Session -> Seq(Messages)] /\ Len(buffer[s]) \in Nat \ {0}
        /\ Len(buffer'[s]) = Len(buffer[s]) - 1
    BY HandleFirst
  <2>3. Len(buffer'[s]) = 0 /\ buffer'[s] \in Seq(Messages)
    BY <2>1, <2>2
  <2> QED
    BY <2>3, EmptyIsZero
<1>3. \A k : Ready(s, k) => Ready(s, k)'
  BY <1>2 DEF Ready
<1>4. \A k : Continues(s, k) => Continues(s, k)'
  BY <1>1, <1>3 DEF Continues
<1>5. NextIsDue(s)'
  BY <1>4, SameIsDue DEF InOrder
<1>6. /\ toServer[s] # <<>> => Ready(s, toServer[s][1])
      /\ \A i \in 1 .. Len(toServer[s]) - 1 : Follows(toServer[s][i], toServer[s][i + 1])
  BY DEF InOrder
<1>7. toServer'[s] # <<>> => Ready(s, toServer[s][1])'
  BY <1>3, <1>6
<1>8. \A i \in 1 .. Len(toServer'[s]) - 1 : Follows(toServer[s][i], toServer[s][i + 1])'
  BY <1>1, <1>6
<1>9. Len(buffer'[s]) <= 1
  <2>1. 0 <= 1
    OBVIOUS
  <2> QED
    BY <1>2, <2>1, Zenon
<1> QED
  BY <1>2, <1>5, <1>7, <1>8, <1>9 DEF InOrder

\* One message is taken from the connection; the ones behind it move up.
LEMMA HeadTaken ==
  ASSUME SessionTypes, NEW s \in Session, InOrder(s), UNCHANGED setup,
         \A t \in Thread : Sock(t) = s => sent'[t] = sent[t],
         1 \in 1 .. Len(toServer[s]), Take(s, 1), buffer[s] = <<>>,
         \A k : Follows(toServer[s][1], k) => Ready(s, k)'
  PROVE  /\ toServer'[s] # <<>> => Ready(s, toServer[s][1])'
         /\ \A i \in 1 .. Len(toServer'[s]) - 1 :
               Follows(toServer[s][i], toServer[s][i + 1])'
         /\ NextIsDue(s)'
<1> DEFINE q == toServer[s]
           p == toServer'[s]
           n == Len(q)
<1>1. \A m, k : Follows(m, k)' <=> Follows(m, k)
  BY DialogueIsSame
<1>2. /\ toServer' \in [Session -> Seq(Messages)]
      /\ n \in Nat /\ Len(p) = n - 1 /\ \A i \in 1 .. n - 1 : p[i] = q[1 + i]
  BY TakeFirst
<1>3. q # <<>> /\ (p = <<>> <=> n = 1)
  <2>1. q \in Seq(Messages) /\ p \in Seq(Messages)
    BY <1>2 DEF SessionTypes
  <2>2. (q = <<>> <=> n = 0) /\ (p = <<>> <=> Len(p) = 0)
    BY <2>1, EmptyIsZero
  <2>3. n \in Nat /\ n # 0 /\ Len(p) = n - 1
    BY <1>2
  <2> HIDE DEF q, p, n
  <2> QED
    BY <2>2, <2>3
<1>4. \A i \in 1 .. n - 1 : Follows(q[i], q[i + 1])
  BY DEF InOrder
<1>5. \A k : Follows(q[1], k) => Ready(s, k)'
  OBVIOUS
<1>6. \A k : Continues(s, k) <=> Follows(q[n], k)
  BY <1>3 DEF Continues
<1>7. \A k : Continues(s, k)' <=> IF n = 1 THEN Ready(s, k)' ELSE Follows(p[n - 1], k)
  BY <1>1, <1>2, <1>3 DEF Continues
<1>8. n \in Nat /\ 1 <= n
  BY <1>2
<1> HIDE DEF q, p, n
<1>9. n # 1 => p[n - 1] = q[n] /\ p[1] = q[2]
  <2>1. n # 1 => n - 1 \in 1 .. n - 1 /\ 1 \in 1 .. n - 1 /\ 1 + (n - 1) = n /\ 1 + 1 = 2
    BY <1>8
  <2> QED
    BY <1>2, <2>1
<1>10. \A k : Continues(s, k) => Continues(s, k)'
  BY <1>5, <1>6, <1>7, <1>9
<1>11. NextIsDue(s)'
  BY <1>10, SameIsDue DEF InOrder
<1>12. n # 1 => Follows(q[1], q[2])
  <2>1. n # 1 => 1 \in 1 .. n - 1 /\ 1 + 1 = 2
    BY <1>8
  <2> QED
    BY <1>4, <2>1
<1>13. p # <<>> => Follows(q[1], p[1])
  BY <1>3, <1>9, <1>12
<1>14. toServer'[s] # <<>> => Ready(s, toServer[s][1])'
  BY <1>5, <1>13 DEF p
<1>15. \A i \in 1 .. Len(p) - 1 : Follows(p[i], p[i + 1])
  <2> SUFFICES ASSUME NEW i \in 1 .. Len(p) - 1
               PROVE  Follows(p[i], p[i + 1])
    OBVIOUS
  <2>1. /\ i \in 1 .. n - 1 /\ i + 1 \in 1 .. n - 1
        /\ 1 + i = i + 1 /\ 1 + (i + 1) = (i + 1) + 1
    BY <1>2, <1>8
  <2>2. p[i] = q[i + 1] /\ p[i + 1] = q[(i + 1) + 1]
    BY <1>2, <2>1
  <2> QED
    BY <1>4, <2>1, <2>2
<1>16. \A i \in 1 .. Len(toServer'[s]) - 1 : Follows(toServer[s][i], toServer[s][i + 1])'
  BY <1>1, <1>15 DEF p
<1> QED
  BY <1>11, <1>14, <1>16

-----------------------------------------------------------------------------
(* WebmailInv is invariant.                                                *)

LEMMA WebmailIsKept ==
  ASSUME WebmailInv, UNCHANGED setup, merged \subseteq merged', shared \subseteq shared',
         UserIsOfFrontend',
         ASSUME Clean', Clean, \A s \in setup.frontend : Orderly(s), MailsIntact
         PROVE  MailsIntact' /\ \A s \in setup.frontend : Orderly(s)'
  PROVE  WebmailInv'
<1>1. Clean' => Clean
  BY DEF Clean
<1> QED
  BY <1>1 DEF WebmailInv

LEMMA SameOneAtATime ==
  ASSUME NEW s \in Session, OneAtATime(s), UNCHANGED setup,
         \A t \in Thread : Sock(t) = s =>
            sent'[t] = sent[t] /\ (awaiting'[t] => awaiting[t])
  PROVE  OneAtATime(s)'
<1>1. \A t \in Thread : Sock(t)' = Sock(t)
  BY DialogueIsSame
<1>2. \A t \in Thread : Sock(t) = s /\ Busy(t)' => Busy(t)
  BY DEF Busy
<1> QED
  BY <1>1, <1>2 DEF OneAtATime

\* A session at which nothing happens, or something that is not a message.
LEMMA StillOrderly ==
  ASSUME NEW s \in Session, Orderly(s), UNCHANGED setup,
         \A t \in Thread : Sock(t) = s =>
            sent'[t] = sent[t] /\ (awaiting'[t] => awaiting[t]),
         buffer'[s] = buffer[s], toServer'[s] = toServer[s], session'[s] = session[s],
         reading'[s] = reading[s], content'[s] = content[s], todo'[s] \subseteq todo[s]
  PROVE  Orderly(s)'
<1>1. InOrder(s)'
  <2>1. \A k : Expects(s, k) => Expects(s, k)'
    BY ExpectsIsSame
  <2>2. InOrder(s)
    BY DEF Orderly
  <2> QED
    BY <2>1, <2>2, StillInOrder
<1>2. OneAtATime(s)'
  BY SameOneAtATime DEF Orderly
<1>3. TextIsOwn(s)'
  <2>1. \A t \in Thread : Addressed(s, t)' <=> Addressed(s, t)
    BY DEF Addressed, EnvelopeIs
  <2> QED
    BY <2>1 DEF Orderly, TextIsOwn, Body
<1> QED
  BY <1>1, <1>2, <1>3 DEF Orderly

LEMMA IntactIsSame ==
  ASSUME UNCHANGED setup
  PROVE  \A e : Intact(e)' <=> Intact(e)
BY DEF Intact, Body

LEMMA SameMailsIntact ==
  ASSUME MailsIntact, UNCHANGED <<setup, mailbox>>, UNCHANGED queueVars
  PROVE  MailsIntact'
<1>1. \A e : Intact(e)' <=> Intact(e)
  BY IntactIsSame
<1>2. UNCHANGED <<mailbox, mqueue, received, emails, stage, entry>>
  BY DEF queueVars
<1> QED
  BY <1>1, <1>2 DEF MailsIntact

\* What is taken from a connection is not of a frontend unless the rest is.
LEMMA TakenIsOfFrontend ==
  ASSUME SessionTypes, UserIsOfFrontend, NEW s \in Session, NEW n \in 1 .. Len(toServer[s]),
         Take(s, n), NEW u \in Session \ setup.frontend
  PROVE  /\ \A i \in 1 .. Len(toServer'[u]) : toServer'[u][i].from # "user"
         /\ u = s => \A i \in 1 .. n : toServer[s][i].from # "user"
<1> DEFINE q == toServer[s]
<1>1. /\ u # s => toServer'[u] = toServer[u]
      /\ Len(q) \in Nat /\ Len(toServer'[s]) = Len(q) - n
      /\ \A i \in 1 .. Len(q) - n : toServer'[s][i] = q[n + i]
  BY TakeFirst
<1>2. \A i \in 1 .. Len(toServer[u]) : toServer[u][i].from # "user"
  BY DEF UserIsOfFrontend
<1>3. CASE u # s
  BY <1>1, <1>2, <1>3
<1>4. CASE u = s
  <2>1. n \in 1 .. Len(q)
    OBVIOUS
  <2>2. \A i \in 1 .. Len(q) : q[i].from # "user"
    BY <1>2, <1>4
  <2> HIDE DEF q
  <2>3. \A i \in 1 .. Len(q) - n : n + i \in 1 .. Len(q)
    BY <1>1, <2>1
  <2>4. \A i \in 1 .. n : q[i].from # "user"
    BY <1>1, <2>1, <2>2
  <2>5. \A i \in 1 .. Len(q) - n : toServer'[s][i].from # "user"
    BY <1>1, <2>2, <2>3
  <2> QED
    BY <1>1, <1>4, <2>4, <2>5 DEF q
<1> QED
  BY <1>3, <1>4

LEMMA RecvCommandsKeepsWebmailInv ==
  ASSUME SessionInv, WebmailInv, NEW s \in Session, NEW n \in 1 .. Len(toServer[s]),
         RecvCommands(s, n)
  PROVE  WebmailInv'
<1> DEFINE q == toServer[s]
           first == SubSeq(q, 1, n)
<1>1. SessionTypes /\ setup \in Setup
  BY DEF SessionInv
<1>2. /\ reading[s] = "command" /\ buffer[s] = <<>> /\ Take(s, n)
      /\ buffer' = [buffer EXCEPT ![s] = first]
      /\ UNCHANGED <<setup, session, reading, content, todo, mailbox, sent, awaiting, shared>>
      /\ UNCHANGED queueVars
  BY DEF RecvCommands, threadVars
<1>3. /\ \A u \in Session : u # s => toServer'[u] = toServer[u]
      /\ Len(q) \in Nat /\ Len(toServer'[s]) = Len(q) - n
      /\ \A i \in 1 .. Len(q) - n : toServer'[s][i] = q[n + i]
      /\ first \in Seq(Messages) /\ Len(first) = n
      /\ \A i \in 1 .. n : first[i] = q[i]
  BY <1>1, <1>2, TakeFirst
<1>4. /\ buffer'[s] = first
      /\ \A u \in Session : u # s => buffer'[u] = buffer[u]
  BY <1>1, <1>2 DEF SessionTypes
<1>5. merged \subseteq merged' /\ (n > 1 => s \in merged')
  BY <1>2 DEF Take
<1>6. UserIsOfFrontend'
  <2> SUFFICES ASSUME NEW u \in Session \ setup.frontend
               PROVE  /\ session[u].mailFrom # "user"
                      /\ \A i \in 1 .. Len(buffer'[u]) : buffer'[u][i].from # "user"
                      /\ \A i \in 1 .. Len(toServer'[u]) : toServer'[u][i].from # "user"
    BY <1>2 DEF UserIsOfFrontend
  <2>1. /\ session[u].mailFrom # "user"
        /\ \A i \in 1 .. Len(buffer[u]) : buffer[u][i].from # "user"
    BY DEF WebmailInv, UserIsOfFrontend
  <2>2. /\ \A i \in 1 .. Len(toServer'[u]) : toServer'[u][i].from # "user"
        /\ u = s => \A i \in 1 .. n : q[i].from # "user"
    BY <1>1, <1>2, TakenIsOfFrontend DEF WebmailInv
  <2>3. u = s => \A i \in 1 .. Len(buffer'[u]) : buffer'[u][i].from # "user"
    BY <1>3, <1>4, <2>2
  <2> QED
    BY <1>4, <2>1, <2>2, <2>3
<1>7. ASSUME Clean', Clean, \A u \in setup.frontend : Orderly(u), MailsIntact
      PROVE  MailsIntact' /\ \A u \in setup.frontend : Orderly(u)'
  <2>1. MailsIntact'
    BY <1>2, <1>7, SameMailsIntact
  <2> SUFFICES ASSUME NEW u \in setup.frontend
               PROVE  Orderly(u)'
    BY <2>1
  <2>2. u \in Session /\ Orderly(u)
    BY <1>1, <1>7, SetupTypes
  <2>3. CASE u # s
    <3>1. /\ buffer'[u] = buffer[u] /\ toServer'[u] = toServer[u] /\ session'[u] = session[u]
          /\ reading'[u] = reading[u] /\ content'[u] = content[u] /\ todo'[u] \subseteq todo[u]
          /\ \A t \in Thread : sent'[t] = sent[t] /\ awaiting'[t] = awaiting[t]
      BY <1>2, <1>3, <1>4, <2>2, <2>3
    <3> QED
      BY <1>2, <2>2, <3>1, StillOrderly
  <2>4. CASE u = s
    <3>1. n = 1
      <4>1. s \notin merged'
        BY <1>2, <1>7, <2>4 DEF Clean
      <4> QED
        BY <1>3, <1>5, <4>1
    <3>2. 1 \in 1 .. Len(q) /\ first[1] = q[1] /\ Len(first) = 1
      BY <1>3, <3>1
    <3>3. buffer'[s] # <<>> /\ Len(buffer'[s]) = 1 /\ buffer'[s][1] = q[1]
      BY <1>3, <1>4, <3>2, EmptyIsZero
    <3>4. q # <<>>
      <4>1. q \in Seq(Messages)
        BY <1>1 DEF SessionTypes
      <4> QED
        BY <3>2, <4>1, EmptyIsZero
    <3>5. \A k : Follows(q[1], k) => Ready(s, k)'
      <4>1. \A m, k : Follows(m, k)' <=> Follows(m, k)
        BY <1>2, DialogueIsSame
      <4> QED
        BY <3>3, <4>1 DEF Ready
    <3>6. InOrder(s)
      BY <2>2, <2>4 DEF Orderly
    <3>7. Expects(s, q[1])
      BY <1>2, <3>4, <3>6 DEF InOrder, Ready
    <3>8. Expects(s, buffer[s][1])'
      <4>1. \A k : Expects(s, k) => Expects(s, k)'
        BY <1>2, ExpectsIsSame
      <4> QED
        BY <3>3, <3>7, <4>1
    <3>9. /\ toServer'[s] # <<>> => Ready(s, toServer[s][1])'
          /\ \A i \in 1 .. Len(toServer'[s]) - 1 :
                Follows(toServer[s][i], toServer[s][i + 1])'
          /\ NextIsDue(s)'
      <4>1. \A t \in Thread : Sock(t) = s => sent'[t] = sent[t]
        BY <1>2
      <4>2. Take(s, 1) /\ buffer[s] = <<>> /\ UNCHANGED setup
        BY <1>2, <3>1
      <4> QED
        BY <1>1, <3>2, <3>5, <3>6, <4>1, <4>2, HeadTaken
    <3>10. InOrder(s)'
      <4>1. Len(buffer'[s]) <= 1
        <5>1. 1 <= 1
          OBVIOUS
        <5> QED
          BY <3>3, <5>1, Zenon
      <4>2. reading'[s] = "command"
        BY <1>2
      <4> QED
        BY <3>8, <3>9, <4>1, <4>2 DEF InOrder
    <3>11. OneAtATime(s)'
      <4>1. \A t \in Thread : sent'[t] = sent[t] /\ awaiting'[t] = awaiting[t]
        BY <1>2
      <4> QED
        BY <1>2, <2>2, <2>4, <4>1, SameOneAtATime DEF Orderly
    <3>12. TextIsOwn(s)'
      BY <1>2 DEF TextIsOwn
    <3> QED
      BY <2>4, <3>10, <3>11, <3>12 DEF Orderly
  <2> QED
    BY <2>3, <2>4
<1> QED
  BY <1>2, <1>5, <1>6, <1>7, WebmailIsKept

\* No command of another client names the sender "user".
LEMMA SenderOfOthers ==
  ASSUME SessionTypes, NEW s \in Session, NEW m, Replied(s, m), m.from # "user",
         session[s].mailFrom # "user"
  PROVE  session'[s].mailFrom # "user"
<1>1. session \in [Session -> Envelopes] /\ session[s] \in Envelopes
  BY DEF SessionTypes
<1>2. \A new : Becomes(s, new) => session'[s] = new
  BY <1>1 DEF Becomes
<1>3. \A x : [session[s] EXCEPT !.state = x].mailFrom = session[s].mailFrom
  BY <1>1, EnvelopeParts
<1>4. Reject(s) => session'[s].mailFrom # "user"
  BY <1>2 DEF Reject, Answer
<1>5. DoHelo(s, m.arg) => session'[s].mailFrom # "user"
  BY <1>2, <1>3, <1>4 DEF DoHelo, Answer
<1>6. DoMailFrom(s, m) => session'[s].mailFrom # "user"
  <2>1. /\ [session[s] EXCEPT !.mailFrom = m.from, !.state = "MailFromReceived"].mailFrom = m.from
        /\ [session[s] EXCEPT !.mailFrom = "invalid"].mailFrom = "invalid"
    BY <1>1, EnvelopeParts DEF Envelopes
  <2> QED
    BY <1>2, <1>4, <2>1 DEF DoMailFrom, Answer
<1>7. DoRcptTo(s, m.arg) => session'[s].mailFrom # "user"
  <2>1. /\ [session[s] EXCEPT !.rcptTo = session[s].rcptTo \union {m.arg},
                              !.state = "RcptToReceived"].mailFrom = session[s].mailFrom
        /\ [session[s] EXCEPT !.rcptToRelay = session[s].rcptToRelay \union {m.arg},
                              !.state = "RcptToReceived"].mailFrom = session[s].mailFrom
    BY <1>1, EnvelopeParts
  <2>2. ASSUME DoRcptTo(s, m.arg), m.arg = "local",
               session[s].state \in {"MailFromReceived", "RcptToReceived"}
        PROVE  session'[s].mailFrom # "user"
    <3>1. session'[s] = [session[s] EXCEPT !.rcptTo = session[s].rcptTo \union {m.arg},
                                           !.state = "RcptToReceived"]
      BY <1>2, <2>2 DEF DoRcptTo, Answer
    <3> QED
      BY <2>1, <3>1
  <2>3. ASSUME DoRcptTo(s, m.arg), m.arg = "remote",
               session[s].state \in {"MailFromReceived", "RcptToReceived"}
        PROVE  session'[s].mailFrom # "user"
    <3>1. session'[s] = [session[s] EXCEPT !.rcptToRelay = session[s].rcptToRelay
                                                             \union {m.arg},
                                           !.state = "RcptToReceived"]
      BY <1>2, <2>3 DEF DoRcptTo, Answer
    <3> QED
      BY <2>1, <3>1
  <2>4. ASSUME DoRcptTo(s, m.arg), m.arg \notin {"local", "remote"},
               session[s].state \in {"MailFromReceived", "RcptToReceived"}
        PROVE  session'[s].mailFrom # "user"
    BY <1>2, <2>4 DEF DoRcptTo, Answer
  <2> QED
    BY <1>4, <2>2, <2>3, <2>4 DEF DoRcptTo
<1>8. DoRset(s) => session'[s].mailFrom # "user"
  <2>1. Fresh("HeloReceived").mailFrom = ""
    BY DEF Fresh
  <2> QED
    BY <1>2, <1>4, <2>1 DEF DoRset
<1> QED
  BY <1>4, <1>5, <1>6, <1>7, <1>8 DEF Replied

LEMMA HandleKeepsWebmailInv ==
  ASSUME SessionInv, WebmailInv, NEW s \in Session, Handle(s)
  PROVE  WebmailInv'
<1>1. SessionTypes /\ setup \in Setup
  BY DEF SessionInv
<1>2. /\ reading[s] = "command" /\ buffer[s] # <<>> /\ Replied(s, Head(buffer[s]))
      /\ buffer' = [buffer EXCEPT ![s] = Tail(@)]
      /\ UNCHANGED <<setup, toServer, reading, content, todo, mailbox, merged, shared>>
      /\ UNCHANGED <<sent, awaiting>>
      /\ UNCHANGED queueVars
  BY DEF Handle, Replied, threadVars
<1>3. /\ \A u \in Session : u # s => buffer'[u] = buffer[u]
      /\ Head(buffer[s]) \in Messages /\ Head(buffer[s]) = buffer[s][1]
      /\ Len(buffer[s]) \in Nat \ {0} /\ Len(buffer'[s]) = Len(buffer[s]) - 1
      /\ \A i \in 1 .. Len(buffer[s]) - 1 : buffer'[s][i] = buffer[s][i + 1]
  BY <1>1, <1>2, HandleFirst
<1>4. \A u \in Session : u # s => session'[u] = session[u]
  <2>1. GoodEnvelope(session[s])
    BY GoodEnvelopes DEF SessionInv
  <2>2. /\ session \in [Session -> Envelopes]
        /\ toClient \in [Session -> Seq({"line", "fragment"})]
    BY <1>1 DEF SessionTypes
  <2>3. \E new \in Envelopes : session' = [session EXCEPT ![s] = new]
    BY <1>2, <1>3, <2>1, <2>2, CommandsKeepEnvelopes
  <2> QED
    BY <2>2, <2>3
<1>5. UserIsOfFrontend'
  <2> SUFFICES ASSUME NEW u \in Session \ setup.frontend
               PROVE  /\ session'[u].mailFrom # "user"
                      /\ \A i \in 1 .. Len(buffer'[u]) : buffer'[u][i].from # "user"
                      /\ \A i \in 1 .. Len(toServer[u]) : toServer[u][i].from # "user"
    BY <1>2 DEF UserIsOfFrontend
  <2>1. /\ session[u].mailFrom # "user"
        /\ \A i \in 1 .. Len(buffer[u]) : buffer[u][i].from # "user"
        /\ \A i \in 1 .. Len(toServer[u]) : toServer[u][i].from # "user"
    BY DEF WebmailInv, UserIsOfFrontend
  <2>2. CASE u # s
    BY <1>3, <1>4, <2>1, <2>2
  <2>3. CASE u = s
    <3>1. 1 \in 1 .. Len(buffer[s])
          /\ \A i \in 1 .. Len(buffer[s]) - 1 : i + 1 \in 1 .. Len(buffer[s])
      BY <1>3
    <3>2. Head(buffer[s]).from # "user"
      BY <1>3, <2>1, <2>3, <3>1
    <3>3. session'[s].mailFrom # "user"
      BY <1>1, <1>2, <2>1, <2>3, <3>2, SenderOfOthers
    <3>4. \A i \in 1 .. Len(buffer'[s]) : buffer'[s][i].from # "user"
      BY <1>3, <2>1, <2>3, <3>1
    <3> QED
      BY <2>1, <2>3, <3>3, <3>4
  <2> QED
    BY <2>2, <2>3
<1>6. ASSUME Clean', Clean, \A u \in setup.frontend : Orderly(u), MailsIntact
      PROVE  MailsIntact' /\ \A u \in setup.frontend : Orderly(u)'
  <2>1. MailsIntact'
    BY <1>2, <1>6, SameMailsIntact
  <2> SUFFICES ASSUME NEW u \in setup.frontend
               PROVE  Orderly(u)'
    BY <2>1
  <2>2. u \in Session /\ Orderly(u)
    BY <1>1, <1>6, SetupTypes
  <2>3. CASE u # s
    <3>1. /\ buffer'[u] = buffer[u] /\ toServer'[u] = toServer[u] /\ session'[u] = session[u]
          /\ reading'[u] = reading[u] /\ content'[u] = content[u] /\ todo'[u] \subseteq todo[u]
          /\ \A t \in Thread : sent'[t] = sent[t] /\ awaiting'[t] = awaiting[t]
      BY <1>2, <1>3, <1>4, <2>2, <2>3
    <3> QED
      BY <1>2, <2>2, <3>1, StillOrderly
  <2>4. CASE u = s
    <3>1. InOrder(s)
      BY <2>2, <2>4 DEF Orderly
    <3>2. Expects(s, buffer[s][1])
      BY <1>2, <3>1 DEF InOrder
    <3>3. \A k : Follows(buffer[s][1], k) => Expects(s, k)'
      <4>1. UNCHANGED <<setup, reading>> /\ Replied(s, buffer[s][1])
        BY <1>2, <1>3
      <4> QED
        BY <1>2, <3>2, <4>1, HandleAdvances
    <3>4. InOrder(s)'
      BY <1>1, <1>2, <3>1, <3>3, HeadHandled
    <3>5. OneAtATime(s)'
      BY <1>2, <2>2, <2>4, SameOneAtATime DEF Orderly
    <3>6. TextIsOwn(s)'
      BY <1>2 DEF TextIsOwn
    <3> QED
      BY <2>4, <3>4, <3>5, <3>6 DEF Orderly
  <2> QED
    BY <2>3, <2>4
<1> QED
  BY <1>2, <1>5, <1>6, WebmailIsKept

LEMMA BeginDataKeepsWebmailInv ==
  ASSUME SessionInv, WebmailInv, NEW s \in Session, BeginData(s)
  PROVE  WebmailInv'
<1>1. SessionTypes /\ setup \in Setup
  BY DEF SessionInv
<1>2. /\ reading[s] = "command" /\ buffer[s] # <<>>
      /\ Head(buffer[s]).cmd = "DATA" /\ session[s].state = "RcptToReceived"
      /\ buffer' = [buffer EXCEPT ![s] = Tail(@)]
      /\ reading' = [reading EXCEPT ![s] = "data"] /\ content' = [content EXCEPT ![s] = <<>>]
      /\ UNCHANGED <<setup, toServer, session, todo, mailbox, merged, shared>>
      /\ UNCHANGED <<sent, awaiting>>
      /\ UNCHANGED queueVars
  BY DEF BeginData, threadVars
<1>3. /\ \A u \in Session : u # s => buffer'[u] = buffer[u]
      /\ Head(buffer[s]) = buffer[s][1]
      /\ Len(buffer[s]) \in Nat \ {0} /\ Len(buffer'[s]) = Len(buffer[s]) - 1
      /\ \A i \in 1 .. Len(buffer[s]) - 1 : buffer'[s][i] = buffer[s][i + 1]
  BY <1>1, <1>2, HandleFirst
<1>4. /\ reading'[s] = "data" /\ content'[s] = <<>>
      /\ \A u \in Session : u # s => reading'[u] = reading[u] /\ content'[u] = content[u]
  BY <1>1, <1>2 DEF SessionTypes
<1>5. UserIsOfFrontend'
  <2> SUFFICES ASSUME NEW u \in Session \ setup.frontend
               PROVE  \A i \in 1 .. Len(buffer'[u]) : buffer'[u][i].from # "user"
    BY <1>2 DEF WebmailInv, UserIsOfFrontend
  <2>1. \A i \in 1 .. Len(buffer[u]) : buffer[u][i].from # "user"
    BY DEF WebmailInv, UserIsOfFrontend
  <2>2. \A i \in 1 .. Len(buffer[s]) - 1 : i + 1 \in 1 .. Len(buffer[s])
    BY <1>3
  <2> QED
    BY <1>3, <2>1, <2>2
<1>6. ASSUME Clean', Clean, \A u \in setup.frontend : Orderly(u), MailsIntact
      PROVE  MailsIntact' /\ \A u \in setup.frontend : Orderly(u)'
  <2>1. MailsIntact'
    BY <1>2, <1>6, SameMailsIntact
  <2> SUFFICES ASSUME NEW u \in setup.frontend
               PROVE  Orderly(u)'
    BY <2>1
  <2>2. u \in Session /\ Orderly(u)
    BY <1>1, <1>6, SetupTypes
  <2>3. CASE u # s
    <3>1. /\ buffer'[u] = buffer[u] /\ toServer'[u] = toServer[u] /\ session'[u] = session[u]
          /\ reading'[u] = reading[u] /\ content'[u] = content[u] /\ todo'[u] \subseteq todo[u]
          /\ \A t \in Thread : sent'[t] = sent[t] /\ awaiting'[t] = awaiting[t]
      BY <1>2, <1>3, <1>4, <2>2, <2>3
    <3> QED
      BY <1>2, <2>2, <3>1, StillOrderly
  <2>4. CASE u = s
    <3>1. InOrder(s)
      BY <2>2, <2>4 DEF Orderly
    <3>2. Expects(s, buffer[s][1]) /\ buffer[s][1].cmd = "DATA"
      BY <1>2, <1>3, <3>1 DEF InOrder
    <3>3. PICK t \in Thread : buffer[s][1] = Data(t) /\ Addressed(s, t)
      <4>1. buffer[s][1] # Opening /\ \A t \in Thread : buffer[s][1] # Rcpt(t)
                                                        /\ buffer[s][1] # Body(t)
        BY <3>2, OpeningParts, DialogueParts
      <4>2. \A t \in Thread : ~TurnedDown(s, t)
        BY <1>2 DEF TurnedDown, Opened, EnvelopeIs
      <4> QED
        BY <3>2, <4>1, <4>2 DEF Expects
    <3>4. ASSUME NEW k, Follows(buffer[s][1], k)
          PROVE  Expects(s, k)'
      <4>1. k = Body(t)
        BY <3>3, <3>4, FollowsWhat
      <4>2. Addressed(s, t)'
        BY <1>2, <3>3 DEF Addressed, EnvelopeIs
      <4> QED
        BY <1>4, <4>1, <4>2 DEF Expects
    <3>5. InOrder(s)'
      BY <1>1, <1>2, <3>1, <3>4, HeadHandled
    <3>6. OneAtATime(s)'
      BY <1>2, <2>2, <2>4, SameOneAtATime DEF Orderly
    <3>7. TextIsOwn(s)'
      BY <1>4 DEF TextIsOwn
    <3> QED
      BY <2>4, <3>5, <3>6, <3>7 DEF Orderly
  <2> QED
    BY <2>3, <2>4
<1> QED
  BY <1>2, <1>5, <1>6, WebmailIsKept

LEMMA RecvDataKeepsWebmailInv ==
  ASSUME SessionInv, WebmailInv, NEW s \in Session, NEW n \in 1 .. Len(toServer[s]),
         RecvData(s, n)
  PROVE  WebmailInv'
<1> DEFINE q == toServer[s]
           first == SubSeq(q, 1, n)
<1>1. SessionTypes /\ setup \in Setup
  BY DEF SessionInv
<1>2. /\ reading[s] = "data" /\ Take(s, n)
      /\ content' = [content EXCEPT ![s] = @ \o first]
      /\ UNCHANGED <<setup, session, buffer, mailbox, sent, awaiting, shared>>
      /\ UNCHANGED queueVars
  BY DEF RecvData, threadVars
<1>3. /\ q[n].cmd = "BODY" =>
            /\ reading' = [reading EXCEPT ![s] = "deliver"]
            /\ todo' = [todo EXCEPT ![s] = session[s].rcptTo \union session[s].rcptToRelay]
      /\ q[n].cmd # "BODY" => UNCHANGED <<reading, todo>>
  BY DEF RecvData
<1>4. /\ \A u \in Session : u # s => toServer'[u] = toServer[u]
      /\ Len(q) \in Nat
      /\ first \in Seq(Messages) /\ Len(first) = n
      /\ \A i \in 1 .. n : first[i] = q[i]
  BY <1>1, <1>2, TakeFirst
<1>5. /\ \A u \in Session : u # s => /\ content'[u] = content[u] /\ reading'[u] = reading[u]
                                     /\ todo'[u] = todo[u]
      /\ content'[s] = content[s] \o first
      /\ q[n].cmd = "BODY" => /\ reading'[s] = "deliver"
                              /\ todo'[s] = session[s].rcptTo \union session[s].rcptToRelay
  BY <1>1, <1>2, <1>3 DEF SessionTypes
<1>6. merged \subseteq merged' /\ (n > 1 => s \in merged')
  BY <1>2 DEF Take
<1>7. UserIsOfFrontend'
  BY <1>1, <1>2, TakenIsOfFrontend DEF WebmailInv, UserIsOfFrontend
<1>8. ASSUME Clean', Clean, \A u \in setup.frontend : Orderly(u), MailsIntact
      PROVE  MailsIntact' /\ \A u \in setup.frontend : Orderly(u)'
  <2>1. MailsIntact'
    BY <1>2, <1>8, SameMailsIntact
  <2> SUFFICES ASSUME NEW u \in setup.frontend
               PROVE  Orderly(u)'
    BY <2>1
  <2>2. u \in Session /\ Orderly(u)
    BY <1>1, <1>8, SetupTypes
  <2>3. CASE u # s
    <3>1. /\ buffer'[u] = buffer[u] /\ toServer'[u] = toServer[u] /\ session'[u] = session[u]
          /\ reading'[u] = reading[u] /\ content'[u] = content[u] /\ todo'[u] \subseteq todo[u]
          /\ \A t \in Thread : sent'[t] = sent[t] /\ awaiting'[t] = awaiting[t]
      BY <1>2, <1>4, <1>5, <2>2, <2>3
    <3> QED
      BY <1>2, <2>2, <3>1, StillOrderly
  <2>4. CASE u = s
    <3>1. n = 1
      <4>1. s \notin merged'
        BY <1>2, <1>8, <2>4 DEF Clean
      <4> QED
        BY <1>4, <1>6, <4>1
    <3>2. 1 \in 1 .. Len(q) /\ first[1] = q[1] /\ Len(first) = 1
      BY <1>4, <3>1
    <3>3. q # <<>>
      <4>1. q \in Seq(Messages)
        BY <1>1 DEF SessionTypes
      <4> QED
        BY <3>2, <4>1, EmptyIsZero
    <3>4. InOrder(s) /\ buffer[s] = <<>> /\ buffer'[s] = <<>> /\ content[s] = <<>>
      BY <1>2, <2>2, <2>4 DEF Orderly, InOrder, TextIsOwn
    <3>5. Expects(s, q[1])
      BY <3>3, <3>4 DEF InOrder, Ready
    <3>6. PICK t \in Thread : q[1] = Body(t) /\ Addressed(s, t)
      BY <1>2, <3>5 DEF Expects, TurnedDown
    <3>7. q[1].cmd = "BODY"
      BY <3>6, DialogueParts
    <3>8. /\ reading'[s] = "deliver"
          /\ todo'[s] = session[s].rcptTo \union session[s].rcptToRelay
      BY <1>5, <3>1, <3>7
    <3>9. \A k : Follows(q[1], k) => Ready(s, k)'
      <4> SUFFICES ASSUME NEW k, Follows(q[1], k)
                   PROVE  Ready(s, k)'
        OBVIOUS
      <4>1. k = Opening
        BY <3>7, FollowsWhat
      <4>2. Expects(s, k)'
        BY <3>8, <4>1 DEF Expects
      <4> QED
        BY <3>4, <4>2 DEF Ready
    <3>10. /\ toServer'[s] # <<>> => Ready(s, toServer[s][1])'
           /\ \A i \in 1 .. Len(toServer'[s]) - 1 :
                 Follows(toServer[s][i], toServer[s][i + 1])'
           /\ NextIsDue(s)'
      <4>1. \A v \in Thread : Sock(v) = s => sent'[v] = sent[v]
        BY <1>2
      <4>2. Take(s, 1) /\ UNCHANGED setup
        BY <1>2, <3>1
      <4> QED
        BY <1>1, <3>2, <3>4, <3>9, <4>1, <4>2, HeadTaken
    <3>11. InOrder(s)'
      <4>1. Len(buffer'[s]) <= 1
        BY <1>2, <3>4 DEF InOrder
      <4> QED
        BY <3>4, <3>10, <4>1 DEF InOrder
    <3>12. OneAtATime(s)'
      <4>1. \A v \in Thread : sent'[v] = sent[v] /\ awaiting'[v] = awaiting[v]
        BY <1>2
      <4> QED
        BY <1>2, <2>2, <2>4, <4>1, SameOneAtATime DEF Orderly
    <3>13. content'[s] = <<Body(t)>>
      <4> DEFINE b == Body(t)
      <4> HIDE DEF first, b
      <4>1. Len(first) = 1 /\ first \in Seq(Messages) /\ 1 \in 1 .. Len(first) /\ first[1] = b
        <5>1. 1 \in 1 .. 1
          OBVIOUS
        <5>2. Len(first) = 1 /\ first \in Seq(Messages)
          BY <1>4, <3>1
        <5>3. first[1] = b
          BY <3>2, <3>6 DEF b
        <5> QED
          BY <5>1, <5>2, <5>3
      <4>2. first[1] \in Messages
        BY <4>1, ElementOfSeq
      <4>3. first = <<b>>
        <5>1. b \in Messages
          BY <4>1, <4>2
        <5> HIDE DEF Messages
        <5>2. first = <<first[1]>>
          BY <4>1
        <5> QED
          BY <4>1, <5>2
      <4>4. content'[s] = <<>> \o first
        BY <1>5, <3>4
      <4>5. content'[s] = first
        BY <4>1, <4>4, ConcatEmptySeq
      <4> QED
        BY <4>3, <4>5 DEF b
    <3>14. Addressed(s, t)' /\ todo'[s] \subseteq {setup.mailTo[t]}
      <4>1. Addressed(s, t)'
        BY <1>2, <3>6 DEF Addressed, EnvelopeIs
      <4>2. todo'[s] \subseteq {setup.mailTo[t]}
        BY <3>6, <3>8 DEF Addressed, EnvelopeIs
      <4> QED
        BY <4>1, <4>2
    <3>15. TextIsOwn(s)'
      BY <1>2, <3>8, <3>13, <3>14 DEF TextIsOwn, Body
    <3> QED
      BY <2>4, <3>11, <3>12, <3>15 DEF Orderly
  <2> QED
    BY <2>3, <2>4
<1> QED
  BY <1>2, <1>6, <1>7, <1>8, WebmailIsKept

LEMMA FinishDataKeepsWebmailInv ==
  ASSUME SessionInv, WebmailInv, NEW s \in Session, FinishData(s)
  PROVE  WebmailInv'
<1>1. SessionTypes /\ setup \in Setup
  BY DEF SessionInv
<1>2. /\ reading[s] = "deliver"
      /\ session' = [session EXCEPT ![s] = Fresh("HeloReceived")]
      /\ reading' = [reading EXCEPT ![s] = "command"]
      /\ content' = [content EXCEPT ![s] = <<>>]
      /\ UNCHANGED <<setup, toServer, buffer, todo, mailbox, merged, shared>>
      /\ UNCHANGED <<sent, awaiting>>
      /\ UNCHANGED queueVars
  BY DEF FinishData, Answer, Becomes, threadVars
<1>3. /\ session'[s] = Fresh("HeloReceived") /\ reading'[s] = "command"
      /\ \A u \in Session : u # s => /\ session'[u] = session[u] /\ reading'[u] = reading[u]
                                     /\ content'[u] = content[u]
  BY <1>1, <1>2 DEF SessionTypes
<1>4. Greeted(s)' /\ session'[s].mailFrom # "user"
  <2>1. /\ Fresh("HeloReceived").state = "HeloReceived" /\ Fresh("HeloReceived").mailFrom = ""
        /\ Fresh("HeloReceived").rcptTo = {} /\ Fresh("HeloReceived").rcptToRelay = {}
    BY DEF Fresh
  <2>2. /\ session'[s].state = "HeloReceived" /\ session'[s].mailFrom = ""
        /\ session'[s].rcptTo = {} /\ session'[s].rcptToRelay = {}
    BY <1>3, <2>1
  <2> QED
    BY <2>2 DEF Greeted, EnvelopeIs
<1>5. UserIsOfFrontend'
  <2> QED
    BY <1>2, <1>3, <1>4 DEF WebmailInv, UserIsOfFrontend
<1>6. ASSUME Clean', Clean, \A u \in setup.frontend : Orderly(u), MailsIntact
      PROVE  MailsIntact' /\ \A u \in setup.frontend : Orderly(u)'
  <2>1. MailsIntact'
    BY <1>2, <1>6, SameMailsIntact
  <2> SUFFICES ASSUME NEW u \in setup.frontend
               PROVE  Orderly(u)'
    BY <2>1
  <2>2. u \in Session /\ Orderly(u)
    BY <1>1, <1>6, SetupTypes
  <2>3. CASE u # s
    <3>1. /\ buffer'[u] = buffer[u] /\ toServer'[u] = toServer[u] /\ session'[u] = session[u]
          /\ reading'[u] = reading[u] /\ content'[u] = content[u] /\ todo'[u] \subseteq todo[u]
          /\ \A t \in Thread : sent'[t] = sent[t] /\ awaiting'[t] = awaiting[t]
      BY <1>2, <1>3, <2>2, <2>3
    <3> QED
      BY <1>2, <2>2, <3>1, StillOrderly
  <2>4. CASE u = s
    <3>1. ASSUME NEW k, Expects(s, k)
          PROVE  Expects(s, k)'
      <4>1. k = Opening
        BY <1>2, <3>1 DEF Expects, TurnedDown
      <4> QED
        BY <1>3, <1>4, <4>1 DEF Expects
    <3>2. InOrder(s)'
      <4>1. InOrder(s)
        BY <2>2, <2>4 DEF Orderly
      <4> QED
        BY <1>2, <1>3, <3>1, <4>1, StillInOrder
    <3>3. OneAtATime(s)'
      BY <1>2, <2>2, <2>4, SameOneAtATime DEF Orderly
    <3>4. TextIsOwn(s)'
      BY <1>3 DEF TextIsOwn
    <3> QED
      BY <2>4, <3>2, <3>3, <3>4 DEF Orderly
  <2> QED
    BY <2>3, <2>4
<1> QED
  BY <1>2, <1>5, <1>6, WebmailIsKept

\* A step that is none of a frontend's dialogue.
LEMMA ElsewhereKeepsWebmailInv ==
  ASSUME SessionInv, WebmailInv,
         UNCHANGED <<setup, session, buffer, toServer, sent, merged, shared>>,
         \A t \in Thread : awaiting'[t] => awaiting[t],
         \A u \in setup.frontend : Orderly(u) =>
            reading'[u] = reading[u] /\ content'[u] = content[u] /\ todo'[u] \subseteq todo[u],
         Clean /\ (\A u \in setup.frontend : Orderly(u)) /\ MailsIntact => MailsIntact'
  PROVE  WebmailInv'
<1>1. setup \in Setup
  BY DEF SessionInv
<1>2. UserIsOfFrontend'
  BY DEF WebmailInv, UserIsOfFrontend
<1>3. ASSUME Clean', Clean, \A u \in setup.frontend : Orderly(u), MailsIntact
      PROVE  MailsIntact' /\ \A u \in setup.frontend : Orderly(u)'
  <2>1. ASSUME NEW u \in setup.frontend
        PROVE  Orderly(u)'
    <3>1. u \in Session /\ Orderly(u)
      BY <1>1, <1>3, SetupTypes
    <3>2. reading'[u] = reading[u] /\ content'[u] = content[u] /\ todo'[u] \subseteq todo[u]
      BY <3>1
    <3>3. \A t \in Thread : Sock(t) = u => sent'[t] = sent[t] /\ (awaiting'[t] => awaiting[t])
      OBVIOUS
    <3> QED
      BY <3>1, <3>2, <3>3, StillOrderly
  <2> QED
    BY <1>3, <2>1
<1> QED
  BY <1>2, <1>3, WebmailIsKept

\* What a session is about to store or queue is the text of one mail.
LEMMA ItemIsIntact ==
  ASSUME SessionInv, UserIsOfFrontend, NEW s \in Session, NEW r \in todo[s],
         reading[s] = "deliver", s \in setup.frontend => Orderly(s)
  PROVE  Intact(Item(s, r))
<1>1. SessionTypes
  BY DEF SessionInv
<1>2. r \in {"local", "remote"}
  BY <1>1 DEF SessionTypes
<1>3. /\ Item(s, r).to = r /\ Item(s, r).mailFrom = session[s].mailFrom
      /\ Item(s, r).text = content[s]
  BY <1>1, <1>2, ItemIsMail
<1>4. CASE s \in setup.frontend
  <2>1. PICK t \in Thread : content[s] = <<Body(t)>> /\ todo[s] \subseteq {setup.mailTo[t]}
    BY <1>4 DEF Orderly, TextIsOwn
  <2> QED
    BY <1>3, <2>1 DEF Intact
<1>5. CASE s \notin setup.frontend
  BY <1>3, <1>5 DEF UserIsOfFrontend, Intact
<1> QED
  BY <1>4, <1>5

\* The mails that a step of a session or of smtpec moves are moved as they are.
LEMMA RelayStepKeepsMailsIntact ==
  ASSUME QueueInv, MailsIntact, NEW s \in Session, RelayStep(s), UNCHANGED <<setup, mailbox>>
  PROVE  MailsIntact'
<1>1. \A e : Intact(e)' <=> Intact(e)
  BY IntactIsSame
<1>2. /\ stage \in [Session -> Stage] /\ mqueue \in Seq(Mails)
      /\ emails \in [Session -> Seq([mail : Mails, tried : BOOLEAN, sent : BOOLEAN])]
      /\ received \in Seq([mail : Mails, known : BOOLEAN])
      /\ stage[s] # "none" => entry[s] \in Mails
  BY DEF QueueInv, QueueTypes
<1>3. /\ \A e \in mailbox : Intact(e)
      /\ \A i \in 1 .. Len(mqueue) : Intact(mqueue[i])
      /\ \A i \in 1 .. Len(received) : Intact(received[i].mail)
      /\ \A u \in Session : \A i \in 1 .. Len(emails[u]) : Intact(emails[u][i].mail)
      /\ \A u \in Session : stage[u] # "none" => Intact(entry[u])
  BY DEF MailsIntact
<1>4. ASSUME UNCHANGED <<mqueue, entry, received, emails>>,
             \A u \in Session : stage'[u] # "none" => stage[u] # "none"
      PROVE  MailsIntact'
  BY <1>1, <1>3, <1>4 DEF MailsIntact
<1>5. ASSUME OpenFails(s) \/ LockAndPrint(s) \/ Unlock(s) \/ NothingToSend(s)
      PROVE  MailsIntact'
  <2>1. UNCHANGED <<mqueue, entry, received, emails>>
    BY <1>5 DEF OpenFails, LockAndPrint, Unlock, NothingToSend
  <2>2. \A u \in Session : stage'[u] # "none" => stage[u] # "none"
    BY <1>2, <1>5 DEF OpenFails, LockAndPrint, Unlock, NothingToSend, At
  <2> QED
    BY <1>4, <2>1, <2>2
<1>6. ASSUME Flush(s)
      PROVE  MailsIntact'
  <2>1. /\ stage[s] = "unlocked" /\ mqueue' = Append(mqueue, entry[s])
        /\ UNCHANGED <<entry, received, emails>>
        /\ \A u \in Session : stage'[u] # "none" => stage[u] # "none"
    BY <1>2, <1>6 DEF Flush, At
  <2> DEFINE n == Len(mqueue)
  <2>2. /\ n \in Nat /\ Len(mqueue') = n + 1 /\ mqueue'[n + 1] = entry[s]
        /\ \A i \in 1 .. n : mqueue'[i] = mqueue[i]
    BY <1>2, <2>1, AppendProperties, LenProperties
  <2> HIDE DEF n
  <2>3. \A i \in 1 .. n + 1 : i = n + 1 \/ i \in 1 .. n
    BY <2>2
  <2>4. \A i \in 1 .. Len(mqueue') : Intact(mqueue'[i])
    BY <1>3, <2>1, <2>2, <2>3 DEF n
  <2> QED
    BY <1>1, <1>3, <2>1, <2>4 DEF MailsIntact
<1>7. ASSUME ReadQueue(s)
      PROVE  MailsIntact'
  <2> DEFINE n == Len(mqueue)
             read == [i \in 1 .. n |-> [mail |-> mqueue[i], tried |-> FALSE, sent |-> FALSE]]
  <2>1. /\ emails' = [emails EXCEPT ![s] = read] /\ UNCHANGED <<mqueue, entry, received>>
        /\ \A u \in Session : stage'[u] # "none" => stage[u] # "none"
    BY <1>2, <1>7 DEF ReadQueue, At
  <2>2. n \in Nat /\ Len(read) = n /\ \A i \in 1 .. n : read[i].mail = mqueue[i]
    BY <1>2, LenProperties
  <2> HIDE DEF read, n
  <2>3. emails'[s] = read /\ \A u \in Session : u # s => emails'[u] = emails[u]
    BY <1>2, <2>1
  <2>4. \A u \in Session : \A i \in 1 .. Len(emails'[u]) : Intact(emails'[u][i].mail)
    BY <1>3, <2>2, <2>3 DEF n
  <2> QED
    BY <1>1, <1>3, <2>1, <2>4 DEF MailsIntact
<1>8. ASSUME NEW taken \in BOOLEAN, NEW told \in BOOLEAN, AttemptDelivery(s, taken, told)
      PROVE  MailsIntact'
  <2> DEFINE Track == [mail : Mails, tried : BOOLEAN, sent : BOOLEAN]
             u == Untried(s)
             m == emails[s][u].mail
             r == [mail |-> m, known |-> told]
             n == Len(received)
             tracked == [emails[s][u] EXCEPT !.tried = TRUE, !.sent = told]
  <2>1. /\ u # 0
        /\ emails' = [emails EXCEPT ![s][u].tried = TRUE, ![s][u].sent = told]
        /\ received' = IF taken THEN Append(received, r) ELSE received
        /\ UNCHANGED <<mqueue, stage, entry>>
    BY <1>8 DEF AttemptDelivery
  <2>2. u \in 1 .. Len(emails[s])
    BY <1>2, <2>1, UntriedIsNext
  <2>3. emails[s] \in Seq(Track) /\ emails[s][u] \in Track
    BY <1>2, <2>2, ElementOfSeq
  <2>4. emails' = [emails EXCEPT ![s] = [emails[s] EXCEPT ![u] = tracked]]
    BY <1>2, <2>1, <2>2, <2>3
  <2>5. tracked \in Track /\ tracked.mail = m /\ m \in Mails /\ r.mail = m
    BY <2>3
  <2> HIDE DEF u, tracked
  <2>6. /\ Len(emails'[s]) = Len(emails[s]) /\ emails'[s][u] = tracked
        /\ \A i \in 1 .. Len(emails[s]) : i # u => emails'[s][i] = emails[s][i]
    <3>1. emails'[s] = [emails[s] EXCEPT ![u] = tracked]
      BY <1>2, <2>4
    <3> QED
      BY <2>2, <2>3, <2>5, <3>1, ExceptSeq
  <2>7. \A v \in Session : v # s => emails'[v] = emails[v]
    BY <1>2, <2>4
  <2>8. \A v \in Session : \A i \in 1 .. Len(emails'[v]) : Intact(emails'[v][i].mail)
    <3>1. \A v \in Session : /\ Len(emails'[v]) = Len(emails[v])
                             /\ \A i \in 1 .. Len(emails[v]) :
                                   emails'[v][i].mail = emails[v][i].mail
      BY <2>5, <2>6, <2>7
    <3> QED
      BY <1>3, <3>1
  <2>9. Intact(m)
    BY <1>3, <2>2
  <2>10. \A i \in 1 .. Len(received') : Intact(received'[i].mail)
    <3>1. r \in [mail : Mails, known : BOOLEAN]
      BY <2>5
    <3>2. CASE taken
      <4>1. /\ n \in Nat /\ Len(received') = n + 1 /\ received'[n + 1] = r
            /\ \A i \in 1 .. n : received'[i] = received[i]
        BY <1>2, <2>1, <3>1, <3>2, AppendProperties, LenProperties
      <4> HIDE DEF r, m, n
      <4>2. \A i \in 1 .. n + 1 : i = n + 1 \/ i \in 1 .. n
        BY <4>1
      <4>3. \A i \in 1 .. n : Intact(received[i].mail)
        BY <1>3 DEF n
      <4> QED
        BY <2>5, <2>9, <4>1, <4>2, <4>3
    <3>3. CASE ~taken
      BY <1>3, <2>1, <3>3
    <3> QED
      BY <3>2, <3>3
  <2> QED
    BY <1>1, <1>3, <2>1, <2>8, <2>10 DEF MailsIntact
<1>9. ASSUME Truncate(s)
      PROVE  MailsIntact'
  <2>1. /\ mqueue' = <<>> /\ UNCHANGED <<entry, received, emails>>
        /\ \A u \in Session : stage'[u] # "none" => stage[u] # "none"
    BY <1>2, <1>9 DEF Truncate, At
  <2>2. Len(mqueue') = 0 /\ \A i : i \notin 1 .. 0
    BY <2>1
  <2>3. \A i \in 1 .. Len(mqueue') : Intact(mqueue'[i])
    BY <2>2
  <2> QED
    BY <1>1, <1>3, <2>1, <2>3 DEF MailsIntact
<1>10. ASSUME emails' = [emails EXCEPT ![s] = <<>>], stage' = [stage EXCEPT ![s] = "successful"],
              stage[s] # "none", UNCHANGED <<entry, received>>,
              \A i \in 1 .. Len(mqueue') : Intact(mqueue'[i])
       PROVE  MailsIntact'
  <2>1. \A u \in Session : stage'[u] # "none" => stage[u] # "none"
    BY <1>2, <1>10
  <2>2. emails'[s] = <<>> /\ \A u \in Session : u # s => emails'[u] = emails[u]
    BY <1>2, <1>10
  <2>3. Len(emails'[s]) = 0 /\ \A i : i \notin 1 .. 0
    BY <2>2
  <2>4. \A u \in Session : \A i \in 1 .. Len(emails'[u]) : Intact(emails'[u][i].mail)
    BY <1>3, <2>2, <2>3
  <2> QED
    BY <1>1, <1>3, <1>10, <2>1, <2>4 DEF MailsIntact
<1>11. ASSUME WriteBack(s)
       PROVE  MailsIntact'
  <2> DEFINE rest == Unsent(s)
             n == Len(rest)
  <2>1. /\ emails' = [emails EXCEPT ![s] = <<>>] /\ stage' = [stage EXCEPT ![s] = "successful"]
        /\ stage[s] # "none" /\ UNCHANGED <<entry, received>>
        /\ mqueue' = [i \in 1 .. n |-> rest[i].mail]
    BY <1>11 DEF WriteBack, At
  <2>2. n \in Nat
    BY UnsentMails
  <2>3. PICK pos \in [1 .. n -> 1 .. Len(emails[s])] :
           \A k \in 1 .. n : rest[k] = emails[s][pos[k]]
    BY UnsentMails
  <2> HIDE DEF rest, n
  <2>4. Len(mqueue') = n
    BY <2>1, <2>2
  <2>5. \A k \in 1 .. n : mqueue'[k] = emails[s][pos[k]].mail /\ pos[k] \in 1 .. Len(emails[s])
    BY <2>1, <2>3
  <2>6. \A i \in 1 .. Len(mqueue') : Intact(mqueue'[i])
    BY <1>3, <2>4, <2>5
  <2> QED
    BY <1>10, <2>1, <2>6
<1>12. ASSUME RelayDies(s)
       PROVE  MailsIntact'
  <2>1. /\ emails' = [emails EXCEPT ![s] = <<>>] /\ stage' = [stage EXCEPT ![s] = "successful"]
        /\ stage[s] # "none" /\ UNCHANGED <<entry, received, mqueue>>
    BY <1>12 DEF RelayDies
  <2> QED
    BY <1>3, <1>10, <2>1
<1> QED
  BY <1>5, <1>6, <1>7, <1>8, <1>9, <1>11, <1>12 DEF RelayStep

LEMMA HangUpInDataKeepsWebmailInv ==
  ASSUME SessionInv, WebmailInv, NEW s \in Session, HangUpInData(s)
  PROVE  WebmailInv'
<1>1. SessionTypes /\ setup \in Setup
  BY DEF SessionInv
<1>2. /\ reading' = [reading EXCEPT ![s] = "deliver"] /\ s \in hungUp
      /\ todo' = [todo EXCEPT ![s] = session[s].rcptTo \union session[s].rcptToRelay]
      /\ UNCHANGED <<setup, session, buffer, toServer, sent, merged, shared>>
      /\ UNCHANGED <<content, awaiting, mailbox>>
      /\ UNCHANGED queueVars
  BY DEF HangUpInData, threadVars
<1>3. s \notin setup.frontend
  BY <1>1, <1>2, SetupTypes DEF SessionTypes
<1>4. \A u \in setup.frontend :
         reading'[u] = reading[u] /\ content'[u] = content[u] /\ todo'[u] \subseteq todo[u]
  <2>1. \A u \in setup.frontend : u \in Session /\ u # s
    BY <1>1, <1>3, SetupTypes
  <2> QED
    BY <1>1, <1>2, <2>1 DEF SessionTypes
<1>5. MailsIntact => MailsIntact'
  BY <1>2, SameMailsIntact
<1> QED
  BY <1>2, <1>4, <1>5, ElsewhereKeepsWebmailInv

LEMMA PutEmailKeepsWebmailInv ==
  ASSUME SessionInv, WebmailInv, NEW s \in Session, NEW stored \in BOOLEAN, PutEmail(s, stored)
  PROVE  WebmailInv'
<1> DEFINE e == Item(s, "local")
<1>1. SessionTypes /\ setup \in Setup
  BY DEF SessionInv
<1>2. /\ reading[s] = "deliver" /\ "local" \in todo[s]
      /\ mailbox' \subseteq mailbox \union {e}
      /\ todo' = [todo EXCEPT ![s] = @ \ {"local"}]
      /\ UNCHANGED <<setup, session, buffer, toServer, sent, merged, shared>>
      /\ UNCHANGED <<reading, content, awaiting>>
      /\ UNCHANGED queueVars
  BY DEF PutEmail, threadVars
<1>3. \A u \in setup.frontend :
         reading'[u] = reading[u] /\ content'[u] = content[u] /\ todo'[u] \subseteq todo[u]
  <2>1. \A u \in setup.frontend : u \in Session
    BY <1>1, SetupTypes
  <2> QED
    BY <1>1, <1>2, <2>1 DEF SessionTypes
<1>4. ASSUME Clean, \A u \in setup.frontend : Orderly(u), MailsIntact
      PROVE  MailsIntact'
  <2>1. Intact(e)
    BY <1>2, <1>4, ItemIsIntact DEF WebmailInv
  <2>2. \A x : Intact(x)' <=> Intact(x)
    BY <1>2, IntactIsSame
  <2>3. UNCHANGED <<mqueue, received, emails, stage, entry>>
    BY <1>2 DEF queueVars
  <2> HIDE DEF e
  <2> QED
    BY <1>2, <1>4, <2>1, <2>2, <2>3 DEF MailsIntact
<1> QED
  BY <1>2, <1>3, <1>4, ElsewhereKeepsWebmailInv

LEMMA RelayEmailKeepsWebmailInv ==
  ASSUME QueueInv, SessionInv, WebmailInv, NEW s \in Session, RelayEmail(s)
  PROVE  WebmailInv'
<1> DEFINE e == Item(s, "remote")
<1>1. SessionTypes /\ setup \in Setup
  BY DEF SessionInv
<1>2. /\ reading[s] = "deliver" /\ "remote" \in todo[s] /\ Enqueue(s, e)
      /\ UNCHANGED <<setup, session, buffer, toServer, sent, merged, shared>>
      /\ UNCHANGED <<reading, content, todo, awaiting, mailbox>>
  BY DEF RelayEmail, sessionVars, threadVars
<1>3. e \in Mails
  BY <1>1, ItemIsMail
<1> HIDE DEF e
<1>4. /\ queued' \in Nat /\ entry' = [entry EXCEPT ![s] = [e EXCEPT !.serial = queued']]
      /\ stage' = [stage EXCEPT ![s] = "open"]
      /\ stage \in [Session -> Stage] /\ entry \in [Session -> Mails \union {<<>>}]
      /\ UNCHANGED <<mqueue, emails, received>>
  BY <1>2 DEF Enqueue, At, QueueInv, QueueTypes
<1>5. /\ entry'[s].mailFrom = e.mailFrom /\ entry'[s].text = e.text /\ entry'[s].to = e.to
      /\ \A u \in Session : u # s => entry'[u] = entry[u] /\ stage'[u] = stage[u]
  <2>1. entry'[s] = [e EXCEPT !.serial = queued']
    BY <1>4
  <2> QED
    BY <1>3, <1>4, <2>1, Numbered
<1>6. ASSUME Clean, \A u \in setup.frontend : Orderly(u), MailsIntact
      PROVE  MailsIntact'
  <2>1. Intact(e)
    BY <1>2, <1>6, ItemIsIntact DEF WebmailInv, e
  <2>2. Intact(entry'[s])
    BY <1>5, <2>1 DEF Intact
  <2>3. \A x : Intact(x)' <=> Intact(x)
    BY <1>2, IntactIsSame
  <2> QED
    BY <1>2, <1>4, <1>5, <1>6, <2>2, <2>3 DEF MailsIntact
<1> QED
  BY <1>2, <1>6, ElsewhereKeepsWebmailInv

LEMMA RelayDoneKeepsWebmailInv ==
  ASSUME QueueInv, SessionInv, WebmailInv, NEW s \in Session, NEW ok \in BOOLEAN,
         RelayDone(s, ok)
  PROVE  WebmailInv'
<1>1. SessionTypes /\ setup \in Setup
  BY DEF SessionInv
<1>2. /\ Queued(s, ok) /\ todo' = [todo EXCEPT ![s] = @ \ {"remote"}]
      /\ UNCHANGED <<setup, session, buffer, toServer, sent, merged, shared>>
      /\ UNCHANGED <<reading, content, awaiting, mailbox>>
  BY DEF RelayDone, threadVars
<1>3. /\ stage' = [stage EXCEPT ![s] = "none"] /\ entry' = [entry EXCEPT ![s] = <<>>]
      /\ stage \in [Session -> Stage] /\ entry \in [Session -> Mails \union {<<>>}]
      /\ UNCHANGED <<mqueue, emails, received>>
  BY <1>2 DEF Queued, At, QueueInv, QueueTypes
<1>4. \A u \in setup.frontend :
         reading'[u] = reading[u] /\ content'[u] = content[u] /\ todo'[u] \subseteq todo[u]
  <2>1. \A u \in setup.frontend : u \in Session
    BY <1>1, SetupTypes
  <2> QED
    BY <1>1, <1>2, <2>1 DEF SessionTypes
<1>5. ASSUME MailsIntact
      PROVE  MailsIntact'
  <2>1. \A x : Intact(x)' <=> Intact(x)
    BY <1>2, IntactIsSame
  <2>2. \A u \in Session : stage'[u] # "none" => stage[u] # "none" /\ entry'[u] = entry[u]
    BY <1>3
  <2> QED
    BY <1>2, <1>3, <1>5, <2>1, <2>2 DEF MailsIntact
<1> QED
  BY <1>2, <1>4, <1>5, ElsewhereKeepsWebmailInv

\* A frontend does not send QUIT.
LEMMA CloseSessionKeepsWebmailInv ==
  ASSUME SessionInv, WebmailInv, NEW s \in Session, CloseSession(s)
  PROVE  WebmailInv'
<1>1. SessionTypes /\ setup \in Setup
  BY DEF SessionInv
<1>2. /\ \/ buffer[s] # <<>> /\ Head(buffer[s]).cmd = "QUIT"
         \/ s \in hungUp
      /\ reading' = [reading EXCEPT ![s] = "closed"]
      /\ UNCHANGED <<setup, session, buffer, toServer, sent, merged, shared>>
      /\ UNCHANGED <<content, todo, awaiting, mailbox>>
      /\ UNCHANGED queueVars
  BY DEF CloseSession, threadVars
<1>3. ASSUME s \in setup.frontend, Orderly(s)
      PROVE  FALSE
  <2>1. s \notin hungUp
    BY <1>1, <1>3, SetupTypes DEF SessionTypes
  <2>2. buffer[s] # <<>> /\ Expects(s, buffer[s][1])
    BY <1>2, <1>3, <2>1 DEF Orderly, InOrder
  <2>3. \A m : Expects(s, m) => m.cmd # "QUIT"
    BY OpeningParts, DialogueParts DEF Expects
  <2>4. buffer[s] \in Seq(Messages)
    BY <1>1 DEF SessionTypes
  <2>5. Head(buffer[s]) = buffer[s][1]
    BY <2>2, <2>4
  <2> QED
    BY <1>2, <2>1, <2>2, <2>3, <2>5
<1>4. \A u \in setup.frontend : Orderly(u) =>
         reading'[u] = reading[u] /\ content'[u] = content[u] /\ todo'[u] \subseteq todo[u]
  <2>1. \A u \in setup.frontend : u \in Session
    BY <1>1, SetupTypes
  <2>2. \A u \in Session : u # s => reading'[u] = reading[u]
    BY <1>1, <1>2 DEF SessionTypes
  <2> QED
    BY <1>2, <1>3, <2>1, <2>2
<1>5. MailsIntact => MailsIntact'
  BY <1>2, SameMailsIntact
<1> QED
  BY <1>2, <1>4, <1>5, ElsewhereKeepsWebmailInv

\* What is left when nothing of the dialogues and the mails changes.
LEMMA RestKeepsWebmailInv ==
  ASSUME SessionInv, WebmailInv,
         UNCHANGED <<setup, session, buffer, toServer, sent, merged, shared>>,
         UNCHANGED <<reading, content, todo, mailbox>>,
         \A t \in Thread : awaiting'[t] => awaiting[t],
         UNCHANGED queueVars
  PROVE  WebmailInv'
<1>1. MailsIntact => MailsIntact'
  BY SameMailsIntact
<1> QED
  BY <1>1, ElsewhereKeepsWebmailInv

LEMMA ReadReplyKeepsWebmailInv ==
  ASSUME SessionInv, WebmailInv, NEW t \in Thread, NEW n, ReadReply(t, n)
  PROVE  WebmailInv'
<1>1. /\ awaiting' = [awaiting EXCEPT ![t] = FALSE]
      /\ UNCHANGED <<setup, session, buffer, toServer, sent, merged, shared>>
      /\ UNCHANGED <<reading, content, todo, mailbox>>
      /\ UNCHANGED queueVars
  BY DEF ReadReply
<1>2. awaiting \in [Thread -> BOOLEAN]
  BY DEF SessionInv, ThreadTypes
<1>3. \A u \in Thread : awaiting'[u] => awaiting[u]
  BY <1>1, <1>2
<1> QED
  BY <1>1, <1>3, RestKeepsWebmailInv

\* The messages of a dialogue follow each other, and a dialogue the one before.
LEMMA DialogueGoesOn ==
  ASSUME NEW t \in Thread
  PROVE  /\ \A i \in 1 .. 3 : Follows(Dialogue(t)[i], Dialogue(t)[i + 1])
         /\ Follows(Dialogue(t)[4], Opening)
<1>1. Follows(Opening, Rcpt(t))
  BY DEF Follows
<1>4. Follows(Rcpt(t), Data(t)) /\ Follows(Data(t), Body(t))
  <2>1. \A m, k : (m = Rcpt(t) /\ k = Data(t)) \/ (m = Data(t) /\ k = Body(t)) => Follows(m, k)
    BY DEF Follows
  <2> QED
    BY <2>1, Zenon
<1>2. Follows(Body(t), Opening)
  BY DialogueParts DEF Follows
<1>3. \A i \in 1 .. 3 : (i = 1 /\ i + 1 = 2) \/ (i = 2 /\ i + 1 = 3) \/ (i = 3 /\ i + 1 = 4)
  OBVIOUS
<1> QED
  BY <1>1, <1>2, <1>3, <1>4, DialogueSteps

\* A message is sent that may come next.
LEMMA LastSent ==
  ASSUME SessionTypes, NEW s \in Session, NEW m \in Messages, InOrder(s), Sends(s, m),
         Continues(s, m), UNCHANGED <<setup, buffer, reading, session>>
  PROVE  /\ toServer'[s] # <<>> /\ Ready(s, toServer[s][1])'
         /\ \A i \in 1 .. Len(toServer'[s]) - 1 :
               Follows(toServer[s][i], toServer[s][i + 1])'
         /\ \A k : Follows(m, k) => Continues(s, k)'
<1> DEFINE q == toServer[s]
           p == toServer'[s]
           n == Len(q)
<1>1. /\ toServer' \in [Session -> Seq(Messages)]
      /\ n \in Nat /\ Len(p) = n + 1 /\ p[n + 1] = m
      /\ \A i \in 1 .. n : p[i] = q[i]
  BY SendLast
<1>2. p # <<>> /\ (q = <<>> <=> n = 0)
  <2>1. q \in Seq(Messages) /\ p \in Seq(Messages)
    BY <1>1 DEF SessionTypes
  <2>2. (q = <<>> <=> n = 0) /\ (p = <<>> <=> Len(p) = 0)
    BY <2>1, EmptyIsZero
  <2>3. Len(p) # 0
    BY <1>1
  <2> QED
    BY <2>2, <2>3
<1>3. \A x, k : Follows(x, k)' <=> Follows(x, k)
  BY DialogueIsSame
<1>4. \A k : Ready(s, k) => Ready(s, k)'
  <2>1. \A k : Expects(s, k) => Expects(s, k)'
    BY ExpectsIsSame
  <2> QED
    BY <1>3, <2>1 DEF Ready
<1>5. IF q # <<>> THEN Follows(q[n], m) ELSE Ready(s, m)
  BY DEF Continues
<1>6. q # <<>> => Ready(s, q[1])
  BY DEF InOrder
<1>7. \A i \in 1 .. n - 1 : Follows(q[i], q[i + 1])
  BY DEF InOrder
<1>8. \A k : Continues(s, k)' <=> Follows(p[n + 1], k)
  <2>1. Len(p) = n + 1
    BY <1>1
  <2> QED
    BY <1>2, <1>3, <2>1 DEF Continues
<1> HIDE DEF q, p, n
<1>9. Ready(s, p[1])
  <2>1. CASE n = 0
    BY <1>1, <1>2, <1>5, <2>1
  <2>2. CASE n # 0
    <3>1. 1 \in 1 .. n
      BY <1>1, <2>2
    <3> QED
      BY <1>1, <1>2, <1>6, <2>2, <3>1
  <2> QED
    BY <2>1, <2>2
<1>10. \A i \in 1 .. Len(p) - 1 : Follows(p[i], p[i + 1])
  <2> SUFFICES ASSUME NEW i \in 1 .. n
               PROVE  Follows(p[i], p[i + 1])
    BY <1>1
  <2>1. CASE i = n
    BY <1>1, <1>2, <1>5, <2>1
  <2>2. CASE i # n
    <3>1. i \in 1 .. n - 1 /\ i + 1 \in 1 .. n
      BY <1>1, <2>2
    <3> QED
      BY <1>1, <1>7, <3>1
  <2> QED
    BY <2>1, <2>2
<1>11. Ready(s, toServer[s][1])'
  BY <1>4, <1>9 DEF p
<1>12. \A i \in 1 .. Len(toServer'[s]) - 1 : Follows(toServer[s][i], toServer[s][i + 1])'
  BY <1>3, <1>10 DEF p
<1> QED
  BY <1>1, <1>2, <1>8, <1>11, <1>12 DEF p

LEMMA SendNextKeepsWebmailInv ==
  ASSUME SessionInv, WebmailInv, NEW t \in Thread, SendNext(t)
  PROVE  WebmailInv'
<1> SUFFICES ASSUME NEW s, s = Sock(t), NEW m, m = Dialogue(t)[sent[t] + 1]
             PROVE  WebmailInv'
  OBVIOUS
<1>1. SessionTypes /\ ThreadTypes /\ setup \in Setup
  BY DEF SessionInv
<1>2. /\ sent[t] < 4 /\ s \in setup.frontend /\ Sends(s, m)
      /\ sent' = [sent EXCEPT ![t] = @ + 1] /\ awaiting' = [awaiting EXCEPT ![t] = TRUE]
      /\ shared' = IF \E v \in Thread \ {t} : Busy(v) /\ Sock(v) = s
                   THEN shared \union {s} ELSE shared
      /\ UNCHANGED <<setup, buffer, session, reading, content, todo, mailbox, merged>>
      /\ UNCHANGED queueVars
  BY DEF SendNext
<1>3. sent[t] \in 0 .. 3 /\ sent[t] + 1 \in 1 .. 4
  BY <1>1, <1>2 DEF ThreadTypes
<1>4. s \in Session /\ m \in Messages /\ setup.frontend \subseteq Session
  BY <1>1, <1>3, SetupTypes, DialogueTypes
<1>5. /\ toServer' \in [Session -> Seq(Messages)]
      /\ \A u \in Session : u # s => toServer'[u] = toServer[u]
  BY <1>1, <1>2, <1>4, SendLast
<1>6. /\ sent'[t] = sent[t] + 1
      /\ \A v \in Thread : v # t => sent'[v] = sent[v] /\ awaiting'[v] = awaiting[v]
  BY <1>1, <1>2 DEF ThreadTypes
<1>7. UserIsOfFrontend'
  BY <1>2, <1>5 DEF WebmailInv, UserIsOfFrontend
<1>8. ASSUME Clean', Clean, \A u \in setup.frontend : Orderly(u), MailsIntact
      PROVE  MailsIntact' /\ \A u \in setup.frontend : Orderly(u)'
  <2>1. MailsIntact'
    BY <1>2, <1>8, SameMailsIntact
  <2> SUFFICES ASSUME NEW u \in setup.frontend
               PROVE  Orderly(u)'
    BY <2>1
  <2>2. u \in Session /\ Orderly(u)
    BY <1>4, <1>8
  <2>3. CASE u # s
    <3>1. /\ buffer'[u] = buffer[u] /\ toServer'[u] = toServer[u] /\ session'[u] = session[u]
          /\ reading'[u] = reading[u] /\ content'[u] = content[u] /\ todo'[u] \subseteq todo[u]
      BY <1>2, <1>5, <2>2, <2>3
    <3>2. \A v \in Thread : Sock(v) = u => sent'[v] = sent[v] /\ awaiting'[v] = awaiting[v]
      BY <1>6, <2>3
    <3> QED
      BY <1>2, <2>2, <3>1, <3>2, StillOrderly
  <2>4. CASE u = s
    <3>1. \A v \in Thread : v # t /\ Sock(v) = s => ~Busy(v) /\ ~Amid(v)
      <4>1. s \notin shared'
        BY <1>2, <1>8 DEF Clean
      <4>2. \A v \in Thread : v # t /\ Sock(v) = s => ~Busy(v)
        BY <1>2, <4>1
      <4>3. \A v \in Thread : Amid(v) => Busy(v)
        BY DEF Amid, Busy
      <4> QED
        BY <4>2, <4>3
    <3>2. InOrder(s)
      BY <2>2, <2>4 DEF Orderly
    <3>3. Continues(s, m)
      <4>1. CASE sent[t] = 0
        <5>1. ~Amid(t) /\ sent[t] + 1 = 1
          BY <4>1 DEF Amid
        <5>2. Continues(s, Opening)
          BY <3>1, <3>2, <5>1 DEF InOrder, NextIsDue
        <5>3. m = Opening
          BY <5>1, DialogueSteps
        <5> QED
          BY <5>2, <5>3
      <4>2. CASE sent[t] # 0
        <5>1. Amid(t) /\ Sock(t) = s
          BY <1>3, <4>2 DEF Amid
        <5> QED
          BY <3>2, <5>1 DEF InOrder, NextIsDue
      <4> QED
        BY <4>1, <4>2
    <3>4. /\ toServer'[s] # <<>> /\ Ready(s, toServer[s][1])'
          /\ \A i \in 1 .. Len(toServer'[s]) - 1 :
                Follows(toServer[s][i], toServer[s][i + 1])'
          /\ \A k : Follows(m, k) => Continues(s, k)'
      BY <1>1, <1>2, <1>4, <3>2, <3>3, LastSent
    <3>5. \A v \in Thread : /\ Sock(v)' = Sock(v) /\ Dialogue(v)' = Dialogue(v)
                            /\ v # t /\ Sock(v) = s => ~Busy(v)' /\ ~Amid(v)'
      <4>1. \A v \in Thread : Sock(v)' = Sock(v) /\ Dialogue(v)' = Dialogue(v)
        BY <1>2, DialogueIsSame
      <4>2. \A v \in Thread : v # t => (Busy(v)' <=> Busy(v)) /\ (Amid(v)' <=> Amid(v))
        BY <1>6 DEF Busy, Amid
      <4> QED
        BY <3>1, <4>1, <4>2
    <3>6. NextIsDue(s)'
      <4>1. ASSUME Amid(t)'
            PROVE  Continues(s, Dialogue(t)[sent[t] + 1])'
        <5>1. sent[t] + 1 \in 1 .. 3 /\ (sent[t] + 1) + 1 \in 1 .. 4
          BY <1>3, <1>6, <4>1 DEF Amid
        <5>2. Follows(m, Dialogue(t)[(sent[t] + 1) + 1])
          BY <5>1, DialogueGoesOn
        <5>3. PICK k : k = Dialogue(t)[(sent[t] + 1) + 1]
          OBVIOUS
        <5>4. (Dialogue(t)[sent[t] + 1])' = k
          BY <1>6, <3>5, <5>3
        <5>5. Continues(s, k)'
          BY <3>4, <5>2, <5>3
        <5> QED
          BY <5>4, <5>5
      <4>2. ASSUME ~Amid(t)'
            PROVE  Continues(s, Opening)'
        <5>1. sent[t] + 1 = 4
          BY <1>3, <1>6, <4>2 DEF Amid
        <5>2. Follows(m, Opening)
          BY <5>1, DialogueGoesOn
        <5> QED
          BY <3>4, <5>2
      <4> QED
        BY <3>5, <4>1, <4>2 DEF NextIsDue
    <3>7. InOrder(s)'
      <4>1. /\ Len(buffer'[s]) <= 1
            /\ reading'[s] # "command" => buffer'[s] = <<>>
        BY <1>2, <3>2 DEF InOrder
      <4>2. buffer'[s] # <<>> => Expects(s, buffer[s][1])'
        <5>1. \A k : Expects(s, k) => Expects(s, k)'
          BY <1>2, <1>4, ExpectsIsSame
        <5>2. buffer[s] # <<>> => Expects(s, buffer[s][1])
          BY <3>2 DEF InOrder
        <5> QED
          BY <1>2, <5>1, <5>2
      <4> QED
        BY <3>4, <3>6, <4>1, <4>2 DEF InOrder
    <3>8. OneAtATime(s)'
      BY <3>5 DEF OneAtATime
    <3>9. TextIsOwn(s)'
      <4>1. TextIsOwn(s)
        BY <2>2, <2>4 DEF Orderly
      <4>2. \A v \in Thread : Addressed(s, v)' <=> Addressed(s, v)
        BY <1>2 DEF Addressed, EnvelopeIs
      <4> QED
        BY <1>2, <4>1, <4>2 DEF TextIsOwn, Body
    <3> QED
      BY <2>4, <3>7, <3>8, <3>9 DEF Orderly
  <2> QED
    BY <2>3, <2>4
<1>9. shared \subseteq shared'
  BY <1>2
<1> QED
  BY <1>2, <1>7, <1>8, <1>9, WebmailIsKept

LEMMA OtherSendsKeepsWebmailInv ==
  ASSUME SessionInv, WebmailInv, NEW s \in Session, NEW m \in OtherMessages, OtherSends(s, m)
  PROVE  WebmailInv'
<1>1. SessionTypes /\ setup \in Setup
  BY DEF SessionInv
<1>2. /\ s \in setup.other /\ Sends(s, m)
      /\ UNCHANGED <<setup, buffer, session, reading, content, todo, mailbox, merged, shared>>
      /\ UNCHANGED <<sent, awaiting>>
      /\ UNCHANGED queueVars
  BY DEF OtherSends
<1>3. m \in Messages /\ m.from = "other"
  BY OtherTypes
<1>4. /\ \A u \in Session : u # s => toServer'[u] = toServer[u]
      /\ Len(toServer[s]) \in Nat
      /\ Len(toServer'[s]) = Len(toServer[s]) + 1
      /\ toServer'[s][Len(toServer[s]) + 1] = m
      /\ \A i \in 1 .. Len(toServer[s]) : toServer'[s][i] = toServer[s][i]
  BY <1>1, <1>2, <1>3, SendLast
<1>5. UserIsOfFrontend'
  <2>1. ASSUME s \notin setup.frontend
        PROVE  \A i \in 1 .. Len(toServer'[s]) : toServer'[s][i].from # "user"
    <3>1. \A i \in 1 .. Len(toServer[s]) : toServer[s][i].from # "user"
      BY <2>1 DEF WebmailInv, UserIsOfFrontend
    <3>2. \A i \in 1 .. Len(toServer[s]) + 1 :
             i = Len(toServer[s]) + 1 \/ i \in 1 .. Len(toServer[s])
      BY <1>4
    <3> QED
      BY <1>3, <1>4, <3>1, <3>2
  <2> QED
    BY <1>2, <1>4, <2>1 DEF WebmailInv, UserIsOfFrontend
<1>6. ASSUME Clean', Clean, \A u \in setup.frontend : Orderly(u), MailsIntact
      PROVE  MailsIntact' /\ \A u \in setup.frontend : Orderly(u)'
  <2>1. MailsIntact'
    BY <1>2, <1>6, SameMailsIntact
  <2>2. ASSUME NEW u \in setup.frontend
        PROVE  Orderly(u)'
    <3>1. u \in Session /\ u # s /\ Orderly(u)
      BY <1>1, <1>2, <1>6, SetupTypes
    <3>2. /\ buffer'[u] = buffer[u] /\ toServer'[u] = toServer[u] /\ session'[u] = session[u]
          /\ reading'[u] = reading[u] /\ content'[u] = content[u] /\ todo'[u] \subseteq todo[u]
          /\ \A t \in Thread : sent'[t] = sent[t] /\ awaiting'[t] = awaiting[t]
      BY <1>2, <1>4, <3>1
    <3> QED
      BY <1>2, <3>1, <3>2, StillOrderly
  <2> QED
    BY <2>1, <2>2
<1> QED
  BY <1>2, <1>5, <1>6, WebmailIsKept

LEMMA NextKeepsWebmailInv ==
  ASSUME QueueInv, SessionInv, WebmailInv, [Next]_vars
  PROVE  WebmailInv'
<1>1. ASSUME UNCHANGED vars
      PROVE  WebmailInv'
  <2>1. /\ UNCHANGED <<setup, session, buffer, toServer, sent, merged, shared>>
        /\ UNCHANGED <<reading, content, todo, mailbox>> /\ UNCHANGED awaiting
        /\ UNCHANGED queueVars
    BY <1>1 DEF vars, sessionVars, threadVars
  <2> QED
    BY <2>1, RestKeepsWebmailInv
<1>2. ASSUME NEW s \in Session, NEW n \in 1 .. Len(toServer[s]),
             RecvCommands(s, n) \/ RecvData(s, n)
      PROVE  WebmailInv'
  BY <1>2, RecvCommandsKeepsWebmailInv, RecvDataKeepsWebmailInv
<1>3. ASSUME NEW s \in Session, Handle(s) \/ BeginData(s) \/ HangUpInData(s)
      PROVE  WebmailInv'
  BY <1>3, HandleKeepsWebmailInv, BeginDataKeepsWebmailInv, HangUpInDataKeepsWebmailInv
<1>4. ASSUME NEW s \in Session, NEW stored \in BOOLEAN, PutEmail(s, stored)
      PROVE  WebmailInv'
  BY <1>4, PutEmailKeepsWebmailInv
<1>5. ASSUME NEW s \in Session, NEW ok \in BOOLEAN, RelayDone(s, ok)
      PROVE  WebmailInv'
  BY <1>5, RelayDoneKeepsWebmailInv
<1>6. ASSUME NEW s \in Session, RelayEmail(s) \/ FinishData(s) \/ CloseSession(s)
      PROVE  WebmailInv'
  BY <1>6, RelayEmailKeepsWebmailInv, FinishDataKeepsWebmailInv, CloseSessionKeepsWebmailInv
<1>7. ASSUME NEW s \in Session, Abort(s) \/ HangUp(s)
      PROVE  WebmailInv'
  <2>1. /\ UNCHANGED <<setup, session, buffer, toServer, sent, merged, shared>>
        /\ UNCHANGED <<reading, content, todo, mailbox>> /\ UNCHANGED awaiting
        /\ UNCHANGED queueVars
    BY <1>7 DEF Abort, HangUp, threadVars
  <2> QED
    BY <2>1, RestKeepsWebmailInv
<1>8. ASSUME NEW s \in Session, RelayStep(s), UNCHANGED <<sessionVars, threadVars, setup>>
      PROVE  WebmailInv'
  <2>1. /\ UNCHANGED <<setup, session, buffer, toServer, sent, merged, shared>>
        /\ UNCHANGED <<reading, content, todo, mailbox>> /\ UNCHANGED awaiting
    BY <1>8 DEF sessionVars, threadVars
  <2>2. MailsIntact => MailsIntact'
    BY <1>8, <2>1, RelayStepKeepsMailsIntact
  <2> QED
    BY <2>1, <2>2, ElsewhereKeepsWebmailInv
<1>9. ASSUME NEW s \in Session, NEW m \in OtherMessages, OtherSends(s, m)
      PROVE  WebmailInv'
  BY <1>9, OtherSendsKeepsWebmailInv
<1>10. ASSUME NEW t \in Thread, ThreadStep(t)
       PROVE  WebmailInv'
  BY <1>10, SendNextKeepsWebmailInv, ReadReplyKeepsWebmailInv DEF ThreadStep
<1>11. ASSUME Tick
       PROVE  WebmailInv'
  <2>1. /\ UNCHANGED <<setup, session, buffer, toServer, sent, merged, shared>>
        /\ UNCHANGED <<reading, content, todo, mailbox>> /\ UNCHANGED awaiting
        /\ UNCHANGED queueVars
    BY <1>11 DEF Tick, threadVars
  <2> QED
    BY <2>1, RestKeepsWebmailInv
<1>12. ASSUME NEW s \in Session, ServerStep(s)
       PROVE  WebmailInv'
  BY <1>2, <1>3, <1>4, <1>5, <1>6, <1>7, <1>8, <1>12 DEF ServerStep
<1> QED
  BY <1>1, <1>7, <1>9, <1>10, <1>11, <1>12 DEF Next

LEMMA InitEstablishesWebmailInv ==
  Init => WebmailInv
<1> SUFFICES ASSUME Init
             PROVE  WebmailInv
  OBVIOUS
<1> DEFINE helo == Message("HELO", "ok", "frontend")
<1>1. setup \in Setup /\ \A i : i \notin 1 .. 0
  BY DEF Init
<1>2. /\ buffer = [s \in Session |-> <<>>] /\ reading = [s \in Session |-> "command"]
      /\ sent = [t \in Thread |-> 0]
      /\ \A s \in Session : toServer[s] = IF s \in setup.frontend /\ ~setup.greeted
                                          THEN <<helo>> ELSE <<>>
      /\ \A s \in Session : session[s] =
            Fresh(IF s \in setup.frontend /\ setup.greeted THEN "HeloReceived" ELSE "Initial")
  BY DEF Init
<1>3. \A state : /\ Fresh(state).state = state /\ Fresh(state).mailFrom = ""
                 /\ Fresh(state).rcptTo = {} /\ Fresh(state).rcptToRelay = {}
  BY DEF Fresh
<1>4. helo.cmd = "HELO" /\ helo.arg = "ok" /\ Len(<<helo>>) = 1 /\ <<helo>>[1] = helo
      /\ <<helo>> # <<>>
  BY MessageParts
<1> HIDE DEF helo
<1>5. UserIsOfFrontend
  <2> SUFFICES ASSUME NEW s \in Session \ setup.frontend
               PROVE  /\ session[s].mailFrom # "user"
                      /\ \A i \in 1 .. Len(buffer[s]) : buffer[s][i].from # "user"
                      /\ \A i \in 1 .. Len(toServer[s]) : toServer[s][i].from # "user"
    BY DEF UserIsOfFrontend
  <2>1. buffer[s] = <<>> /\ toServer[s] = <<>> /\ Len(<<>>) = 0
    BY <1>2
  <2>2. session[s].mailFrom = ""
    BY <1>2, <1>3
  <2> QED
    BY <1>1, <2>1, <2>2
<1>6. ASSUME NEW s \in setup.frontend
      PROVE  Orderly(s)
  <2>1. s \in Session /\ s \in setup.frontend
    BY <1>1, SetupTypes
  <2>2. buffer[s] = <<>> /\ reading[s] = "command" /\ Len(buffer[s]) <= 1
    BY <1>2, <2>1
  <2>3. \A t \in Thread : ~Amid(t) /\ ~Busy(t)
    BY <1>2 DEF Amid, Busy
  <2>4. NextIsDue(s) <=> Continues(s, Opening)
    BY <2>3 DEF NextIsDue
  <2>5. CASE setup.greeted
    <3>1. toServer[s] = <<>> /\ session[s] = Fresh("HeloReceived")
      BY <1>2, <2>1, <2>5
    <3>2. Greeted(s)
      BY <1>3, <3>1 DEF Greeted, EnvelopeIs
    <3>3. Expects(s, Opening)
      BY <2>2, <3>2 DEF Expects
    <3>4. Continues(s, Opening)
      BY <2>2, <3>1, <3>3 DEF Continues, Ready
    <3>5. \A i \in 1 .. Len(toServer[s]) - 1 : Follows(toServer[s][i], toServer[s][i + 1])
      BY <3>1
    <3> QED
      BY <2>2, <2>3, <2>4, <3>1, <3>4, <3>5 DEF Orderly, InOrder, OneAtATime, TextIsOwn
  <2>6. CASE ~setup.greeted
    <3>1. toServer[s] = <<helo>> /\ session[s] = Fresh("Initial")
      BY <1>2, <2>1, <2>6
    <3>2. Unknown(s)
      BY <1>3, <3>1 DEF Unknown, EnvelopeIs
    <3>3. Expects(s, helo) /\ Follows(helo, Opening)
      BY <1>4, <2>2, <3>2 DEF Expects, Follows
    <3>4. Continues(s, Opening) /\ Ready(s, toServer[s][1])
      BY <1>4, <2>2, <3>1, <3>3 DEF Continues, Ready
    <3>5. \A i \in 1 .. Len(toServer[s]) - 1 : Follows(toServer[s][i], toServer[s][i + 1])
      BY <1>1, <1>4, <3>1
    <3> QED
      BY <2>2, <2>3, <2>4, <3>4, <3>5 DEF Orderly, InOrder, OneAtATime, TextIsOwn
  <2> QED
    BY <2>5, <2>6
<1>7. MailsIntact
  <2>1. /\ mailbox = {} /\ Len(mqueue) = 0 /\ Len(received) = 0
        /\ \A s \in Session : Len(emails[s]) = 0 /\ stage[s] = "none"
    BY DEF Init, QueueInit
  <2> QED
    BY <1>1, <2>1 DEF MailsIntact
<1> QED
  BY <1>5, <1>6, <1>7 DEF WebmailInv

LEMMA IntactFollows ==
  ASSUME QueueInv, WebmailInv
  PROVE  MailIsIntact
<1>1. mqueue \in Seq(Mails)
  BY DEF QueueInv, QueueTypes
<1>2. ToSet(mqueue) = {mqueue[i] : i \in 1 .. Len(mqueue)}
  BY <1>1, SetOf
<1> SUFFICES ASSUME Clean,
                    NEW e \in mailbox \union ToSet(mqueue)
                                \union {received[i].mail : i \in 1 .. Len(received)}
             PROVE  e.mailFrom = "user" =>
                       \E t \in Thread : e.text = <<Body(t)>> /\ e.to = setup.mailTo[t]
  BY DEF MailIsIntact, Clean, Body
<1>3. MailsIntact
  BY DEF WebmailInv
<1>4. Intact(e)
  BY <1>2, <1>3 DEF MailsIntact
<1> QED
  BY <1>4 DEF Intact
-----------------------------------------------------------------------------
(* The theorems.                                                           *)

\* The two invariants hold in every state of the mail system
\* (smtp/smtpServer.cc, smtp/smtpec.cc).
THEOREM QueueAndSessions ==
  Spec => [](QueueInv /\ SessionInv)
<1>1. Init => QueueInv /\ SessionInv
  BY InitEstablishesQueueInv, InitEstablishesSessionInv
<1>2. (QueueInv /\ SessionInv) /\ [Next]_vars => (QueueInv /\ SessionInv)'
  BY NextKeepsQueueAndSessions
<1> QED
  BY <1>1, <1>2, PTL DEF Spec

LEMMA TypesFollow ==
  QueueInv /\ SessionInv => TypeOK
<1> SUFFICES ASSUME QueueInv, SessionInv
             PROVE  TypeOK
  OBVIOUS
<1>1. SessionTypes /\ ThreadTypes /\ QueueTypes /\ setup \in Setup
  BY DEF QueueInv, SessionInv
<1>2. /\ reading \in [Session -> {"command", "data", "deliver", "closed"}]
      /\ success \in [Session -> BOOLEAN]
  BY <1>1 DEF SessionTypes
<1>3. ASSUME NEW s \in Session
      PROVE  /\ session[s].state \in SessionState
             /\ session[s].rcptTo \subseteq {"local"}
             /\ session[s].rcptToRelay \subseteq {"remote"}
             /\ toClient[s] \in Seq({"line", "fragment"})
             /\ stage[s] \in Stage
  <2>1. session[s] \in Envelopes /\ toClient[s] \in Seq({"line", "fragment"})
    BY <1>1 DEF SessionTypes
  <2>2. stage[s] \in Stage
    BY <1>1 DEF QueueTypes
  <2> QED
    BY <2>1, <2>2 DEF Envelopes
<1>4. lock \in Session \union {NoSession}
  BY <1>1 DEF QueueTypes
<1>5. sent \in [Thread -> 0 .. 4] /\ awaiting \in [Thread -> BOOLEAN]
  BY <1>1 DEF ThreadTypes
<1> QED
  BY <1>1, <1>2, <1>3, <1>4, <1>5 DEF TypeOK

\* The variables keep their types (smtp/smtpServer.cc, smtp/smtpec.cc).
THEOREM TypeCorrect ==
  Spec => []TypeOK
BY QueueAndSessions, TypesFollow, PTL

\* Between mails a session has no recipients, and whoever may send DATA has
\* named a valid sender and a recipient (handle_connection).
THEOREM EnvelopesAreFresh ==
  Spec => []EnvelopeFresh
<1>1. SessionInv => EnvelopeFresh
  BY DEF SessionInv
<1> QED
  BY <1>1, QueueAndSessions, PTL

\* A mail that was answered with 250 is in the store or was replaced or
\* refused there; or in the queue, with an smtpec, with the server of its
\* domain, or among those that were overwritten or dropped.
THEOREM AcceptedMailIsKept ==
  Spec => []AcceptedIsKept
<1>1. SessionInv => AcceptedIsKept
  BY DEF SessionInv
<1> QED
  BY <1>1, QueueAndSessions, PTL

\* A mail reaches another domain once, unless an smtpec died or a reply was
\* lost (smtpec.cc).
THEOREM MailsAreRelayedOnce ==
  Spec => []RelayedOnce
<1>1. QueueInv => RelayedOnce
  BY DEF QueueInv
<1> QED
  BY <1>1, QueueAndSessions, PTL

\* The dialogues of the frontends stay in order as long as a connection is
\* used for one mail at a time and no two messages arrive together
\* (mailMessage, frontend/loginHelper.cc; handle_connection).
THEOREM DialoguesInOrder ==
  Spec => []WebmailInv
<1>1. Init => WebmailInv
  BY InitEstablishesWebmailInv
<1>2. (QueueInv /\ SessionInv) /\ WebmailInv /\ [Next]_vars => WebmailInv'
  BY NextKeepsWebmailInv
<1> QED
  BY <1>1, <1>2, QueueAndSessions, PTL DEF Spec

\* Under the same conditions what is stored, queued and relayed in the name of a
\* user of the browser is the text of one mail, for the recipient of that mail.
THEOREM MailsAreIntact ==
  Spec => []MailIsIntact
<1>1. QueueInv /\ WebmailInv => MailIsIntact
  BY IntactFollows
<1> QED
  BY <1>1, QueueAndSessions, DialoguesInOrder, PTL
=============================================================================
