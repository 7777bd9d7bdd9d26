------------------------------- MODULE Drive -------------------------------
(***************************************************************************)
(* What a frontend server sends to the key-value store for each request of  *)
(* a browser (thread_worker in frontend/frontendserver.cc, and the pages of *)
(* frontend/render.cc), and what the store makes of it. A request is a      *)
(* script of commands; some are only known once the reply to a LIST is.     *)
(*                                                                         *)
(* A key is the sequence of the row and the parts of the column, so that    *)
(* the prefixes of the sequence are those of the column.                    *)
(***************************************************************************)
EXTENDS Naturals, SequencesExt

Password(u) == <<u, "password">>
Content(u, path) == <<u, "/content/">> \o path
Emails(u) == <<u, "/emails">>
\* The last line of the reply to a LIST, a carriage return, taken for a key.
LastLine(u) == <<u, "CR">>

\* name in the folder that is open (item), or at the top.
Path(item, name) == IF item = <<>> THEN name ELSE item \o <<"/">> \o name

\* Values: file contents, a password, and
Reply == "reply"        \* in a PUT: what the last reply said
Junk == "junk"          \* " Not Found", or any reply that is no value
Dummy == "dummyData"    \* the value of a folder

Command(op, key, value) == [op |-> op, key |-> key, value |-> value]
Get(k) == Command("GET", k, "")
Put(k, v) == Command("PUT", k, v)
Delete(k) == Command("DELETE", k, "")
List(k) == Command("LIST", k, "")
ForEach(k) == Command("LIST", k, "each")    \* a LIST whose lines are used
Cput(k, old, new) == [op |-> "CPUT", key |-> k, old |-> old, value |-> new]
Connect == Command("CONNECT", <<>>, "")

\* Faulty variant: DELETE is sent before the value has been stored.
RelocateEarly(from, to) == <<Get(from), Delete(from), Put(to, Reply)>>

\* A file goes to another key. No reply but the value is looked at.
Relocate(from, to) == <<Get(from), Put(to, Reply), Delete(from)>>

\* MOVE: at the top level the target is the path itself.
Target(r) == IF r.item = <<>> THEN r.to ELSE Path(r.to, r.name)

\* Logging in, signing up and changing the password.
Account(r) ==
    CASE r.op = "MENU" -> <<Connect, Get(Password(r.user))>>
      [] r.op = "SIGNUP" -> <<Connect, Put(Password(r.user), r.value)>>
      [] r.op = "NEWPASS" -> <<Connect, Cput(Password(r.user), r.old, r.value)>>

\* The requests that change the drive.
Changes == {"DELETE", "RENAME", "MOVE", "NEWDIR", "UPLOAD"}

\* r.folder is the test for a dot in the name.
Change(r, u) ==
    LET here == Content(u, Path(r.item, r.name))
    IN  CASE r.op = "DELETE" -> <<ForEach(here)>>
          [] r.op = "RENAME" -> Relocate(here, Content(u, Path(r.item, r.to)))
          [] r.op = "MOVE" -> IF r.folder THEN <<ForEach(here)>>
                              ELSE Relocate(here, Content(u, Target(r)))
          [] r.op = "NEWDIR" -> <<Put(here, Dummy)>>
          [] r.op = "UPLOAD" -> <<Put(here, r.value)>>

\* What a request does to the store. The mail of SENDEMAIL and FORWARD itself
\* goes to the SMTP server: see Mail.
Operation(r, u) ==
    CASE r.op \in {"MENU", "SIGNUP", "NEWPASS"} -> Account(r)
      [] r.op = "FORWARD" -> <<Get(r.name)>>
      [] r.op \in Changes -> Change(r, u)
      [] OTHER -> <<>>

\* What the page shown in reply asks for (generateReply).
Page(r, u) ==
    CASE r.op = "DOWNLOAD" -> <<Get(Content(u, Path(r.item, r.name))),
                                List(Content(u, r.item))>>
      [] r.op \in Changes \union {"DRIVE"} ->
            <<List(Content(u, r.item))>>
      [] r.op \in {"MAILBOX", "FORWARD", "SENDEMAIL"} -> <<List(Emails(u))>>
      [] r.op = "DELETEMAIL" -> <<Delete(r.name), List(Emails(u))>>
      [] r.op = "EMAIL" -> <<Get(r.name)>>
      [] OTHER -> <<>>

\* The commands for the lines of a LIST, the last line included. All that is in
\* a folder that is moved goes to the same key.
Each(r, u, keys) ==
    LET lines == Append(keys, LastLine(u))
    IN  IF r.op = "DELETE" THEN [i \in 1 .. Len(lines) |-> Delete(lines[i])]
        ELSE FlattenSeq([i \in 1 .. Len(lines) |->
                Relocate(lines[i], Content(u, Path(Target(r), r.name)))])

-----------------------------------------------------------------------------
(* The key-value store, as its clients see it (handleCommand).             *)

Matching(store, prefix) == {k \in DOMAIN store : IsPrefix(prefix, k)}

Writes == {"PUT", "CPUT", "DELETE"}

Stored(store, key, value) ==
    [k \in DOMAIN store \union {key} |-> IF k = key THEN value ELSE store[k]]

\* A conditional write reads what is missing as the empty string, and leaves it.
Found(store, c) ==
    IF c.op = "CPUT" /\ c.key \notin DOMAIN store
    THEN Stored(store, c.key, "") ELSE store

Carries(store, c) ==
    \/ c.op \in {"PUT", "DELETE"}
    \/ c.op = "CPUT" /\ Found(store, c)[c.key] = c.old

\* The store after command c.
Executed(store, c) ==
    CASE ~Carries(store, c) -> Found(store, c)
      [] Carries(store, c) /\ c.op = "DELETE" ->
            [k \in DOMAIN store \ {c.key} |-> store[k]]
      [] OTHER -> Stored(store, c.key, c.value)

\* What it answers: a value, or lines.
Answer(store, c) ==
    [value |-> IF c.op = "GET" /\ c.key \in DOMAIN store
               THEN store[c.key] ELSE Junk,
     keys |-> IF c.op = "LIST" THEN SetToSeq(Matching(store, c.key)) ELSE <<>>]
=============================================================================
