------------------------------ MODULE ArtDocs ------------------------------
(***************************************************************************)
(* What the comments, the README and the tests of the repository say of    *)
(* the tree, stated of module Art without the conditions under which Art's *)
(* own properties hold.                                                    *)
(***************************************************************************)
EXTENDS Art

\* node.go:135-137 in bnode.at: the panic "should never been reached because
\* i >= n.SubN already checked above".
AtNeverPanics == root # Nil => \A i \in 0 .. size : ~AtRank(i).panic

\* tree.go:147-148 "Size returns the number of keys (leaf nodes) stored in the
\* tree", also after InsertLeaf of a leaf that is in the tree already.
SizeAsDocumented == size = Len(Leaves)

-----------------------------------------------------------------------------
(* Arbitrary keys *)

\* Insert panics; the deferred unlock runs and no node has been changed.
InsertPanics(k) ==
    /\ Panics(k)
    /\ ret' = [op |-> "Insert", panic |-> TRUE]
    /\ UNCHANGED <<root, size, stale, asc, reins>>

\* The tree of callers whose keys may be other keys with zero bytes appended.
AnyKeysSpec == Init /\ [][Next \/ \E k \in Keys : InsertPanics(k)]_vars

\* README.md:30: the tree "maps arbitrary []byte keys to an any value": every
\* stored key is found.
AnyKeyFound ==
    \A i \in DOMAIN Leaves : Find("Exact", Leaves[i].key).found

=============================================================================
