----------------------------- MODULE MCFrontend -----------------------------
EXTENDS Frontend

CONSTANTS c1, c2, c3

Request(op, item, name, to) ==
    [op |-> op, user |-> "u", item |-> item, name |-> name, to |-> to,
     folder |-> name = <<"d">>, value |-> "new", old |-> "pw"]

At(op) == Request(op, <<>>, <<"a">>, <<"b">>)
Login == [At("MENU") EXCEPT !.value = "pw"]

\* A password, two files at the top, whose names begin alike, and a folder.
MCStore ==
    [k \in {Password("u"), Content("u", <<"a">>), Content("u", <<"a", "1">>),
            Content("u", <<"d">>), Content("u", <<"d", "/", "x">>),
            Emails("u") \o <<"m">>} |->
        CASE k = Password("u") -> "pw"
          [] k = Content("u", <<"a">>) -> "va"
          [] k = Content("u", <<"a", "1">>) -> "va1"
          [] k = Content("u", <<"d">>) -> Dummy
          [] k = Content("u", <<"d", "/", "x">>) -> "vx"
          [] OTHER -> "mail"]

Scenario(asked, faults, cookie) ==
    [requests |-> asked, store |-> MCStore, refusals |-> faults,
     deaths |-> faults, cookie |-> cookie]

Mail(op) == [At(op) EXCEPT !.name = Emails("u") \o <<"m">>]

\* One browser goes through everything there is; two write to one key; three come
\* and go.
MCSetup ==
    {Scenario(c1 :> <<Login, r>>, 1, TRUE) : r \in
        {At(op) : op \in {"RENAME", "MOVE", "DELETE", "UPLOAD", "NEWDIR",
                          "DOWNLOAD", "DRIVE", "MAILBOX", "SENDEMAIL", "SIGNUP",
                          "NEWPASS", "MENU", "LOGIN"}}
        \union {Mail(op) : op \in {"FORWARD", "EMAIL", "DELETEMAIL"}}
        \union {Request("MOVE", <<>>, <<"d">>, <<"e">>),
                Request("MOVE", <<"d">>, <<"x">>, <<"e">>),
                Request("RENAME", <<>>, <<"a">>, <<"a">>)}}
    \union {Scenario(c1 :> <<At(op)>>, 1, FALSE) : op \in {"DRIVE", "NEWPASS"}}
    \union {Scenario(c1 :> <<[At("NEWPASS") EXCEPT !.user = "v"]>>, 1, FALSE)}
    \union {Scenario(c1 :> <<Login, Request("NEWDIR", <<>>, <<"e">>, <<>>),
                            Request("MOVE", <<"d">>, <<"x">>, <<"e">>),
                            Request("DELETE", <<>>, <<"d">>, <<>>)>>, 1, TRUE)}
    \union {Scenario(c1 :> <<Login, At("MOVE")>>
                     @@ c2 :> <<Login, Request("UPLOAD", <<>>, <<"b">>, <<>>)>>,
                     0, FALSE)}
    \union {Scenario([c \in {c1, c2, c3} |-> <<>>], 0, FALSE)}
=============================================================================
