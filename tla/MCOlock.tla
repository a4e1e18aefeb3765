------------------------------ MODULE MCOlock ------------------------------
(***************************************************************************)
(* Olock for TLC.                                                          *)
(***************************************************************************)
EXTENDS Olock, TLC

Symm == Permutations(Threads) \cup Permutations(Locks)

\* A value the counter has at no time within the bounds.
MCJunk == {99}

=============================================================================
