----------------------------- MODULE ArtMutate -----------------------------
(***************************************************************************)
(* Insertion and deletion in the adaptive radix tree: Leaf.insert,         *)
(* Inner.insert, Leaf.del and Inner.del (leaf.go, inner.go).  The code     *)
(* mutates nodes in place; here each operator returns the node that stands *)
(* in the place of its argument afterwards.                                *)
(***************************************************************************)
EXTENDS ArtNode
LOCAL INSTANCE SequencesExt

\* Mutant of sameKey: an update is reported as a new leaf.
sameKeyNew(selfb, lf) ==
    [node |-> IF lf.same THEN selfb ELSE bnodeLeaf(lf), updated |-> FALSE]

\* Leaf.insert of a key that is there: the new leaf takes the place of the old
\* one, unless it is the old one (lf.same), which is not reported as an update.
sameKey(selfb, lf) ==
    [node |-> IF lf.same THEN selfb ELSE bnodeLeaf(lf), updated |-> ~lf.same]

\* Leaf.insert.  lf.same marks the very *Leaf that the tree already holds.
leafInsert(selfb, lf, depth) ==
    LET longestPrefix == comparePrefix(selfb.key, lf.key, depth)
        at   == depth + longestPrefix
        nn   == bnodeInner(SubSeq(selfb.key, depth + 1, at), "n4", <<>>, 2)
        two  == addChild(addChild(nn, At(selfb.key, at), [selfb EXCEPT !.pren = 0]),
                         At(lf.key, at), bnodeLeaf(lf))
    IN  IF selfb.key = lf.key THEN sameKey(selfb, lf)
        ELSE [node |-> [two EXCEPT !.pren = selfb.pren], updated |-> FALSE]

\* Mutant of splitInner: the children are counted instead of the leaves.
splitInnerTwo(n, lf, depth, mis) ==
    LET n4 == [n EXCEPT !.compressed = SubSeq(@, 1, mis), !.kind = "n4",
                        !.kids = <<>>, !.subN = 2]
    IN  addChild(addChild(n4, At(lf.key, depth + mis), bnodeLeaf(lf)),
                 n.compressed[mis + 1],
                 [n EXCEPT !.compressed = From(@, mis + 1), !.pren = 0])

\* The lazy expansion of Inner.insert: n keeps the first mis bytes of its
\* prefix and becomes the parent of the new leaf and of its former self.
splitInner(n, lf, depth, mis) ==
    LET newChildKey == n.compressed[mis + 1]
        newChild == [n EXCEPT !.compressed = From(@, mis + 1), !.pren = 0]
        n4 == [n EXCEPT !.compressed = SubSeq(@, 1, mis), !.kind = "n4",
                        !.kids = <<>>, !.subN = @ + 1]
    IN  addChild(addChild(n4, At(lf.key, depth + mis), bnodeLeaf(lf)),
                 newChildKey, newChild)

\* Inner.insert (and its dispatch on bnode).  The node Nil is a panic: the code
\* indexes n.compressed with the negative mismatch.  subN is counted up on
\* the way back whether or not a leaf was added, and the rank offsets of
\* the siblings of a child that grew are left as they were.
RECURSIVE insert(_, _, _)
insert(a, lf, depth) ==
    IF a.isLeaf THEN leafInsert(a, lf, depth)
    ELSE
    LET mis       == compressedMismatch(a, lf.key, depth)
        nextDepth == depth + mis
        k         == At(lf.key, nextDepth)
        idx       == child(a, k)
        counted   == [a EXCEPT !.subN = @ + 1]
        roomy     == IF full(a) THEN grow(counted) ELSE counted
        sub       == insert(a.kids[idx].ch, lf, nextDepth + 1)
    IN  CASE mis < 0 -> [node |-> Nil, updated |-> FALSE]
          [] mis >= 0 /\ mis < Len(a.compressed) ->
                [node |-> splitInner(a, lf, depth, mis), updated |-> FALSE]
          [] mis = Len(a.compressed) /\ idx = 0 ->
                [node |-> addChild(roomy, k, bnodeLeaf(lf)), updated |-> FALSE]
          [] OTHER ->
                IF sub.node = Nil THEN sub
                ELSE [node |-> replaceChild(counted, idx, sub.node),
                      updated |-> sub.updated]

\* Mutant of addPrefixBefore: the byte that led to the child is lost.
addPrefixBeforeShort(left, n, leftKey) ==
    IF left.isLeaf THEN left ELSE [left EXCEPT !.compressed = n.compressed \o @]

\* Inner.addPrefixBefore: the only child left takes over its parent's prefix.
addPrefixBefore(left, n, leftKey) ==
    IF left.isLeaf THEN left
    ELSE [left EXCEPT !.compressed = n.compressed \o <<leftKey>> \o @]

\* The branch of Inner.del that deletes the leaf at idx: a node4 with two
\* children collapses into the other one, a larger node at its minimum shrinks.
dropLeaf(n, idx) ==
    LET rest == removeChild(n, idx)
        left == Head(rest.kids)
    IN  CASE n.kind = "n4" /\ min(n)  -> addPrefixBefore(left.ch, n, left.b)
          [] n.kind # "n4" /\ min(n)  -> shrink(rest)
          [] OTHER -> rest

\* Leaf.del and Inner.del.  subN is counted down before it is known whether the
\* key is below; a failed search leaves it so.
RECURSIVE del(_, _, _)
del(a, key, depth) ==
    IF a.isLeaf
    THEN IF a.key = key THEN [node |-> Nil, deleted |-> TRUE, leaf |-> a]
                        ELSE [node |-> a, deleted |-> FALSE, leaf |-> Nil]
    ELSE
    LET nextDepth == depth + Len(a.compressed)
        idx       == child(a, At(key, nextDepth))
        ch        == a.kids[idx].ch
        counted   == [a EXCEPT !.subN = @ - 1]
        sub       == del(ch, key, nextDepth + 1)
    IN  CASE ~checkCompressed(a, key, depth) \/ idx = 0 ->
                [node |-> a, deleted |-> FALSE, leaf |-> Nil]
          [] OTHER ->
                CASE ch.isLeaf /\ ch.key = key ->
                        [node |-> dropLeaf(counted, idx), deleted |-> TRUE, leaf |-> ch]
                  [] ch.isLeaf /\ ch.key # key ->
                        [node |-> counted, deleted |-> FALSE, leaf |-> Nil]
                  [] ~ch.isLeaf ->
                        [sub EXCEPT !.node =
                            [counted EXCEPT !.kids =
                                redoPren([@ EXCEPT ![idx].ch = sub.node])]]

=============================================================================
