------------------------------ MODULE Election ------------------------------
(***************************************************************************)
(* What the master of the key-value store promises about one replica group: *)
(* the servers come and go, and as long as any of them is alive exactly     *)
(* one of the live ones is the primary. A primary is replaced only when it  *)
(* leaves. Master implements this specification, and so do the executions   *)
(* of MasterThreads in which the two master threads do not overlap.         *)
(***************************************************************************)
EXTENDS Integers

CONSTANT Server, NoServer

VARIABLES alive,    \* the servers of the group considered alive
          primary   \* the primary, NoServer when the group has none

vars == <<alive, primary>>

Init ==
    /\ alive = {}
    /\ primary = NoServer

\* A server joins the group; the first one to join becomes the primary.
Join(s) ==
    /\ s \notin alive
    /\ alive' = alive \union {s}
    /\ primary' = IF primary = NoServer THEN s ELSE primary

\* A server leaves. If it was the primary a live server takes over, when
\* there is one.
Leave(s) ==
    /\ s \in alive
    /\ alive' = alive \ {s}
    /\ IF primary # s
       THEN primary' = primary
       ELSE IF alive' = {} THEN primary' = NoServer
                           ELSE primary' \in alive'

Next == \E s \in Server : Join(s) \/ Leave(s)

Spec == Init /\ [][Next]_vars
=============================================================================
