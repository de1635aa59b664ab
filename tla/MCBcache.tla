------------------------------ MODULE MCBcache ------------------------------
(***************************************************************************)
(* Bcache for TLC.                                                         *)
(***************************************************************************)
EXTENDS Bcache, TLC

CONSTANTS t1, t2, k1, k2, k3, k4

Symmetry == Permutations(Threads) \cup Permutations(Blocks)
=============================================================================
