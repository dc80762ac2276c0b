---------------------------- MODULE MCVirtioDisk ----------------------------
EXTENDS VirtioDisk, TLC
Symmetry == Permutations(Procs)
=============================================================================
