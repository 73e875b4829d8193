----------------------------- MODULE MCPageAlloc -----------------------------
(* PageAlloc for TLC.                                                       *)
EXTENDS PageAlloc, TLC

CONSTANTS c1, c2, c3, c4, c5, c6

Symmetry == Permutations(Clients)
=============================================================================
