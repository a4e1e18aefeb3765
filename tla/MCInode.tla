------------------------------ MODULE MCInode ------------------------------
(***************************************************************************)
(* Inode for TLC: capacities 2, 3 and 5 over seven bytes, so that a node   *)
(* passes through all four kinds, frees and reuses slots of node48, and    *)
(* uses node256 full and sparse.                                           *)
(***************************************************************************)
EXTENDS Inode, TLC

Symm == Permutations(Child)

=============================================================================
