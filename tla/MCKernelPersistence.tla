---------------------------- MODULE MCKernelPersistence ----------------------------
EXTENDS KernelPersistence, TLC

CONSTANTS p1, p2, e1, e2, i1, i2, i3

Symmetry == Permutations(Procs) \cup Permutations(Effects) \cup Permutations(Ids)
=============================================================================
