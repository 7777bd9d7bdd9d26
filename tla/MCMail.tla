------------------------------- MODULE MCMail -------------------------------
EXTENDS Mail

CONSTANTS s1, s2, t1, t2

MCWith(frontend, other, greeted, sock2, to1, to2) ==
    [frontend |-> frontend, other |-> other, greeted |-> greeted,
     sock |-> (t1 :> s1 @@ t2 :> sock2), mailTo |-> (t1 :> to1 @@ t2 :> to2)]

\* Two threads of one frontend; one thread each of two frontends; another
\* client of the server.
MCSetup ==
    {MCWith({s1}, {}, both, s1, to, "local") : both \in BOOLEAN, to \in Recipient}
    \union {MCWith({s1, s2}, {}, TRUE, s2, to, to) : to \in {"local", "remote"}}
    \union {MCWith({}, {s1}, TRUE, s1, "local", "local")}
=============================================================================
