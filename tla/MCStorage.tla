----------------------------- MODULE MCStorage -----------------------------
(* Storage with two keys; the second one only to share the files.           *)
EXTENDS Storage

CONSTANTS k1, k2, a, b

Put(k, v) == [cmd |-> "PUT", key |-> k, old |-> Empty, new |-> v]
Delete(k) == [cmd |-> "DELETE", key |-> k, old |-> Empty, new |-> Empty]
CPut(k, v, w) == [cmd |-> "CPUT", key |-> k, old |-> v, new |-> w]

MCKey == {k1, k2}
MCValue == {a, b}
MCOp == {Put(k1, a), Delete(k1), CPut(k1, a, b), CPut(k1, b, a), Put(k2, a)}
MCDeadOp == {Put(k1, b), Delete(k2)}
=============================================================================
