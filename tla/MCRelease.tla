----------------------------- MODULE MCRelease -----------------------------
(* ThreadSync for TLC, without the history variables: clients that release *)
(* a lock nobody waits for.                                                *)
EXTENDS ThreadSync, TLC

CONSTANTS init, a, b, l1

NoSemas == [s \in {} |-> 0]
=============================================================================
