---------------------------- MODULE MCThreadSync ----------------------------
(* Instances of ThreadSyncHist for TLC.                                     *)
EXTENDS ThreadSyncHist, TLC

CONSTANTS init, a, b, c, l1, l2, s1

OneSlotMore == (s1 :> 1)

\* Threads other than init are interchangeable.
Symmetry == Permutations({a, b, c})
=============================================================================
