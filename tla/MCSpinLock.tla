----------------------------- MODULE MCSpinLock -----------------------------
(***************************************************************************)
(* SpinLock for TLC.                                                       *)
(***************************************************************************)
EXTENDS SpinLock, TLC

CONSTANTS c1, c2, t1, t2

Symmetry == Permutations(CPUs) \cup Permutations(Threads)
=============================================================================
