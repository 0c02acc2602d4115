------------------------------ MODULE MCStateFile ------------------------------
(* Small runs of StateFile: two values of different length, and as many inodes as *)
(* the processes can keep open or named.                                          *)
EXTENDS StateFile_proofs, TLC

CONSTANTS short, long

InodeSymmetry == Permutations(Inodes)

Lengths == (short :> 1) @@ (long :> 2)
===============================================================================
