------------------------------- MODULE MCLog --------------------------------
(***************************************************************************)
(* Log for TLC.                                                            *)
(***************************************************************************)
EXTENDS Log, TLC

CONSTANTS t1, t2, t3, b1, b2, b3

Symmetry == Permutations(Threads) \cup Permutations(Blocks)
=============================================================================
