----------------------------- MODULE MCFileData -----------------------------
(* Two processes share two open files, and truncate one of the two inodes; *)
(* the disk has too few blocks for both files.                              *)
EXTENDS FileData, TLC

CONSTANTS f1, f2, f3, A, B
MCf_ip == [f \in Files |-> IF f = f2 THEN B ELSE A]
\* Small numbers, so that a byte taken for an address would be a valid one.
MCByte == [i \in Inodes |-> [o \in 0 .. MAXFILE * BSIZE - 1 |->
             1 + ((o + (IF i = A THEN 0 ELSE 2)) % NBlocks)]]
Symmetry == Permutations(Procs)
=============================================================================
