----------------------------- MODULE MailQueue -----------------------------
(***************************************************************************)
(* The queue of outgoing mail. The SMTP server appends a mail to the file   *)
(* mqueue (smtp/smtpServer.cc) and runs ./smtpec, which tries to deliver    *)
(* every mail of the file and writes back those it could not deliver        *)
(* (smtp/smtpec.cc). Each session of the server waits for the smtpec it     *)
(* has started, so that the file lock is held by at most one of the two.    *)
(*                                                                         *)
(* Lines are taken to be shorter than 4096 characters, as buildEmailInfo    *)
(* says, and no mail has a line with "From <" in it.                        *)
(***************************************************************************)
EXTENDS Naturals, SequencesExt

CONSTANTS Session,      \* connections to the SMTP server
          MaxDeaths,    \* bound: smtpec processes that die
          NoSession

ASSUME QueueAssumption == NoSession \notin Session /\ MaxDeaths \in Nat

VARIABLES
    mqueue,     \* the mails in the file
    lock,       \* the session that holds the flock, itself or by its smtpec
    stage,      \* how far a session is with the mail it queues
    entry,      \* the mail it queues
    queued,     \* mails queued so far; it numbers them, so that mails with the
                \* same text are told apart
    emails,     \* the mails its smtpec has read, with the flag sent
    received,   \* mails accepted by the servers of other domains, in order,
                \* and whether smtpec knows it
    deaths,     \* smtpec processes that have died
    overwritten,\* mails that were in the file but not read when it was emptied
    dropped     \* mails an smtpec held when it died after emptying the file

queueVars == <<mqueue, lock, stage, entry, queued, emails, received, deaths,
               overwritten, dropped>>

Stage == {"none", "open", "written", "unlocked", "system", "sending",
          "truncated", "unsuccessful", "successful"}

QueueInit ==
    /\ mqueue = <<>>
    /\ lock = NoSession
    /\ stage = [s \in Session |-> "none"]
    /\ entry = [s \in Session |-> <<>>]
    /\ queued = 0
    /\ emails = [s \in Session |-> <<>>]
    /\ received = <<>>
    /\ deaths = 0
    /\ overwritten = {}
    /\ dropped = {}

At(s, before, after) ==
    /\ stage[s] = before
    /\ stage' = [stage EXCEPT ![s] = after]

-----------------------------------------------------------------------------
(* The SMTP server: handle_connection, DATA, the relay part.               *)

\* The session begins to queue mail e, for one recipient.
Enqueue(s, e) ==
    /\ At(s, "none", "open")
    /\ queued' = queued + 1
    /\ entry' = [entry EXCEPT ![s] = [e EXCEPT !.serial = queued']]
    /\ UNCHANGED <<mqueue, lock, emails, received, deaths, overwritten, dropped>>

\* fopen or flock fails: the recipient gets nothing.
OpenFails(s) ==
    /\ At(s, "open", "unsuccessful")
    /\ UNCHANGED <<mqueue, lock, entry, queued, emails, received, deaths,
                   overwritten, dropped>>

\* flock, and fprintf into the buffer of the stream.
LockAndPrint(s) ==
    /\ At(s, "open", "written")
    /\ lock = NoSession /\ lock' = s
    /\ UNCHANGED <<mqueue, entry, queued, emails, received, deaths, overwritten,
                   dropped>>

Unlock(s) ==
    /\ At(s, "written", "unlocked")
    /\ lock' = NoSession
    /\ UNCHANGED <<mqueue, entry, queued, emails, received, deaths, overwritten,
                   dropped>>

\* fclose writes the buffer to the file, after the lock has been released.
Flush(s) ==
    /\ At(s, "unlocked", "system")
    /\ mqueue' = Append(mqueue, entry[s])
    /\ UNCHANGED <<lock, entry, queued, emails, received, deaths, overwritten,
                   dropped>>

-----------------------------------------------------------------------------
(* smtpec.                                                                 *)

\* The lock is taken and the file is read (buildEmailInfo).
ReadQueue(s) ==
    /\ At(s, "system", "sending")
    /\ lock = NoSession /\ lock' = s
    /\ emails' = [emails EXCEPT ![s] =
                    [i \in 1 .. Len(mqueue) |->
                       [mail |-> mqueue[i], tried |-> FALSE, sent |-> FALSE]]]
    /\ UNCHANGED <<mqueue, entry, queued, received, deaths, overwritten, dropped>>

\* The next mail that has not been tried.
Untried(s) == SelectInSeq(emails[s], LAMBDA e : ~e.tried)

\* attemptDelivery, for the mail exchangers of the domain in turn. The mail is
\* delivered; or it is not (no exchanger, no connection, a command refused);
\* or it is, but the final reply is lost or unexpected.
AttemptDelivery(s, accepted, sent) ==
    /\ stage[s] = "sending" /\ Untried(s) # 0
    /\ emails' = [emails EXCEPT ![s][Untried(s)].tried = TRUE,
                                ![s][Untried(s)].sent = sent]
    /\ received' = IF accepted
                   THEN Append(received, [mail |-> emails[s][Untried(s)].mail,
                                          known |-> sent])
                   ELSE received
    /\ UNCHANGED <<mqueue, lock, stage, entry, queued, deaths, overwritten,
                   dropped>>

\* ftruncate. A mail that was flushed after the file had been read goes too.
Truncate(s) ==
    /\ At(s, "sending", "truncated")
    /\ Untried(s) = 0 /\ emails[s] # <<>>
    /\ mqueue' = <<>>
    /\ overwritten' = overwritten \union
         {mqueue[i] : i \in Len(emails[s]) + 1 .. Len(mqueue)}
    /\ UNCHANGED <<lock, entry, queued, emails, received, deaths, dropped>>

\* Faulty variant: a mail that was tried is taken for sent.
UnsentNone(s) == SelectSeq(emails[s], LAMBDA e : ~e.tried)

\* Faulty variant: every mail is written back.
UnsentAll(s) == emails[s]

\* The mails that were not sent, in their order.
Unsent(s) ==
    LET q == emails[s]
        first[i \in 0 .. Len(q)] ==
            IF i = 0 THEN <<>>
            ELSE IF q[i].sent THEN first[i - 1]
            ELSE Append(first[i - 1], q[i])
    IN  first[Len(q)]

\* The stream opened with ios::out truncates once more, the unsent mails are
\* written from the start of the file, and the process ends.
WriteBack(s) ==
    /\ At(s, "truncated", "successful")
    /\ mqueue' = [i \in 1 .. Len(Unsent(s)) |-> Unsent(s)[i].mail]
    /\ overwritten' = overwritten \union ToSet(mqueue)
    /\ lock' = NoSession
    /\ emails' = [emails EXCEPT ![s] = <<>>]
    /\ UNCHANGED <<entry, queued, received, deaths, dropped>>

\* There was nothing in the file.
NothingToSend(s) ==
    /\ At(s, "sending", "successful")
    /\ emails[s] = <<>>
    /\ lock' = NoSession
    /\ UNCHANGED <<mqueue, entry, queued, emails, received, deaths, overwritten,
                   dropped>>

\* smtpec dies: a null host_info is dereferenced, the file cannot be opened
\* for writing, or the process is killed. system() returns in any case.
RelayDies(s) ==
    /\ deaths < MaxDeaths
    /\ stage[s] \in {"sending", "truncated"}
    /\ stage' = [stage EXCEPT ![s] = "successful"]
    /\ deaths' = deaths + 1
    /\ dropped' = IF stage[s] = "truncated"
                  THEN dropped \union {e.mail : e \in ToSet(Unsent(s))}
                  ELSE dropped
    /\ lock' = NoSession
    /\ emails' = [emails EXCEPT ![s] = <<>>]
    /\ UNCHANGED <<mqueue, entry, queued, received, overwritten>>

RelayStep(s) ==
    \/ OpenFails(s) \/ LockAndPrint(s) \/ Unlock(s) \/ Flush(s)
    \/ ReadQueue(s)
    \/ \E sent \in BOOLEAN, accepted \in BOOLEAN :
          (sent => accepted) /\ AttemptDelivery(s, accepted, sent)
    \/ Truncate(s) \/ WriteBack(s) \/ NothingToSend(s)
    \/ RelayDies(s)

\* The session goes on with the next recipient.
Queued(s, success) ==
    /\ At(s, IF success THEN "successful" ELSE "unsuccessful", "none")
    /\ entry' = [entry EXCEPT ![s] = <<>>]
    /\ UNCHANGED <<mqueue, lock, queued, emails, received, deaths, overwritten,
                   dropped>>
=============================================================================
