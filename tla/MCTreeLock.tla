----------------------------- MODULE MCTreeLock -----------------------------
(***************************************************************************)
(* TreeLock for TLC.  There is no symmetry: the runs check liveness.       *)
(***************************************************************************)
EXTENDS TreeLock

=============================================================================
