------------------------------ MODULE MCBcache ------------------------------
EXTENDS Bcache, TLC
Symmetry == Permutations(Holders) \cup Permutations(Blocks)
=============================================================================
