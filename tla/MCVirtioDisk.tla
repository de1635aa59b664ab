---------------------------- MODULE MCVirtioDisk ----------------------------
(***************************************************************************)
(* VirtioDisk for TLC.                                                     *)
(***************************************************************************)
EXTENDS VirtioDisk, TLC

CONSTANTS t1, t2, t3, x, y

Symmetry == Permutations(Threads) \cup Permutations(Vals)
=============================================================================
