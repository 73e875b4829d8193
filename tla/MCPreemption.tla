---------------------------- MODULE MCPreemption ----------------------------
(* Preemption for TLC: init and two or three threads that use the lock.     *)
EXTENDS Preemption, TLC

CONSTANTS init, a, b, c

Symmetry == Permutations(Threads \ {init_struct})
=============================================================================
