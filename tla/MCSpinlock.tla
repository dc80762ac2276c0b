----------------------------- MODULE MCSpinlock -----------------------------
EXTENDS Spinlock, TLC
Symmetry == Permutations(CPUs) \cup Permutations(Threads)
=============================================================================
