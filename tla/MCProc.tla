------------------------------- MODULE MCProc -------------------------------
EXTENDS Proc, TLC

\* The CPUs are interchangeable.
Symmetry == Permutations(CPUS)
=============================================================================
