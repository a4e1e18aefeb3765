----------------------------- MODULE NodeHeap -----------------------------
(***************************************************************************)
(* The tree as pointers: bnodes that are shared, changed in place and      *)
(* detached, for what keeps a pointer to a node across calls (iterators).  *)
(*                                                                         *)
(* A heap is the sequence of all bnodes made so far, and an address is an  *)
(* index in it:                                                            *)
(*    [isLeaf |-> TRUE, key, value]  or                                    *)
(*    [isLeaf |-> FALSE, compressed, kind, kids]                           *)
(* where kids maps the bytes in use to addresses: what an Inode promises   *)
(* whatever its arrays (modules ByteMap and Inode).  An *Inner is named by *)
(* the address of the one bnode that holds it.  Nodes that nothing points  *)
(* to stay in the heap, where nothing reads them.  The counts SubN and     *)
(* pren are the subject of module Art.                                     *)
(***************************************************************************)
EXTENDS ArtKey

ASSUME NilAssumption == Nil \notin Nat

LeafAt(lf) == [isLeaf |-> TRUE, key |-> lf.key, value |-> lf.value]

InnerAt(compressed, kind, kids) ==
    [isLeaf |-> FALSE, compressed |-> compressed, kind |-> kind, kids |-> kids]

-----------------------------------------------------------------------------
(* The Inode interface on maps of bytes *)

\* The children of a node with one more, or with another one for byte k, ...
WithKid(kids, k, p) == [b \in DOMAIN kids \cup {k} |-> IF b = k THEN p ELSE kids[b]]

\* ... and with one fewer.
WithoutKid(kids, k) == [b \in DOMAIN kids \ {k} |-> kids[b]]

\* The two children of a new node4.
TwoKids(k, p, l, q) == [b \in {k, l} |-> IF b = k THEN p ELSE q]

\* The first child after byte k, Nil if there is none.
next(n, k) ==
    LET S == {b \in DOMAIN n.kids : b > k} IN IF S = {} THEN Nil ELSE Min(S)

\* node256.prev starts its scan at byte lth-1, the others at the last child.
prev(n, k) ==
    LET S == {b \in DOMAIN n.kids :
                /\ b < k
                /\ n.kind = "n256" => b < Cardinality(DOMAIN n.kids)}
    IN  IF S = {} THEN Nil ELSE Max(S)

full(n) ==
    Cardinality(DOMAIN n.kids) = CASE n.kind = "n4"   -> Cap4
                                   [] n.kind = "n16"  -> Cap16
                                   [] n.kind = "n48"  -> Cap48
                                   [] n.kind = "n256" -> MaxByte + 1

\* min: one child fewer and the node is replaced by one of the next smaller kind.
min(n) ==
    Cardinality(DOMAIN n.kids) <= CASE n.kind = "n4"   -> 2
                                    [] n.kind = "n16"  -> Cap4 + 1
                                    [] n.kind = "n48"  -> Cap16 + 1
                                    [] n.kind = "n256" -> Cap48 + 1

\* grow and shrink, as far as the kind goes.
Bigger(kind)  == CASE kind = "n4" -> "n16" [] kind = "n16" -> "n48" [] kind = "n48" -> "n256"
Smaller(kind) == CASE kind = "n256" -> "n48" [] kind = "n48" -> "n16" [] kind = "n16" -> "n4"

-----------------------------------------------------------------------------
(* The way down, which Inner.insert and Inner.del take by calling          *)
(* themselves on a child that is an inner node.  A place on it is a node,  *)
(* the number of bytes of the key before it, and its parent, Nil at the    *)
(* root, with the byte that led on from there.                             *)

Entry(p) == [node |-> p, depth |-> 0, above |-> Nil, byte |-> 0]

\* The place after w, or w if the call ends there.
Deeper(h, key, w, fits) ==
    LET n  == h[w.node]
        at == w.depth + Len(n.compressed)
        k  == At(key, at)
    IN  IF fits /\ k \in DOMAIN n.kids /\ ~h[n.kids[k]].isLeaf
        THEN [node |-> n.kids[k], depth |-> at + 1, above |-> w.node, byte |-> k]
        ELSE w

insertTurn(h, key, w) ==
    LET n == h[w.node]
    IN  Deeper(h, key, w, compressedMismatch(n, key, w.depth) = Len(n.compressed))

delTurn(h, key, w) == Deeper(h, key, w, checkCompressed(h[w.node], key, w.depth))

\* Every turn uses up a byte of the key, so that there are at most Len(key).
insertWay(h, p, key) ==
    LET way[i \in 0 .. Len(key)] ==
            IF i = 0 THEN Entry(p) ELSE insertTurn(h, key, way[i - 1])
    IN  way[Len(key)]

delWay(h, p, key) ==
    LET way[i \in 0 .. Len(key)] ==
            IF i = 0 THEN Entry(p) ELSE delTurn(h, key, way[i - 1])
    IN  way[Len(key)]

-----------------------------------------------------------------------------
(* Insertion: the heap afterwards, and the address that takes the place of *)
(* the one given.                                                          *)

\* Mutant of leafInsertAt: the bnode that replaces the old one gets the old leaf.
leafInsertAtOld(h, p, lf, depth) ==
    LET old == h[p]
        at  == depth + comparePrefix(old.key, lf.key, depth)
        two == InnerAt(SubSeq(old.key, depth + 1, at), "n4",
                       TwoKids(At(lf.key, at), Len(h) + 1, At(old.key, at), Len(h) + 2))
    IN  IF old.key = lf.key
        THEN [heap |-> Append(h, LeafAt(old)), self |-> Len(h) + 1]
        ELSE [heap |-> Append(Append([h EXCEPT ![p] = two], LeafAt(lf)), LeafAt(old)),
              self |-> p]

\* Leaf.insert at address p.  An update puts a new bnode in the place of the
\* old one, which keeps its leaf; otherwise the bnode at p itself turns from
\* a leaf into an inner node with two new bnodes below.
leafInsertAt(h, p, lf, depth) ==
    LET old == h[p]
        at  == depth + comparePrefix(old.key, lf.key, depth)
        two == InnerAt(SubSeq(old.key, depth + 1, at), "n4",
                       TwoKids(At(lf.key, at), Len(h) + 1, At(old.key, at), Len(h) + 2))
    IN  IF old.key = lf.key
        THEN [heap |-> Append(h, LeafAt(lf)), self |-> Len(h) + 1]
        ELSE [heap |-> Append(Append([h EXCEPT ![p] = two], LeafAt(lf)), LeafAt(old)),
              self |-> p]

\* The lazy expansion of Inner.insert: the Inner at p stays where it is and gets
\* a new node4; its former node moves to a new Inner below.
splitAt(h, p, lf, depth, mis) ==
    LET n   == h[p]
        two == InnerAt(SubSeq(n.compressed, 1, mis), "n4",
                       TwoKids(At(lf.key, depth + mis), Len(h) + 1,
                               n.compressed[mis + 1], Len(h) + 2))
    IN  Append(Append([h EXCEPT ![p] = two], LeafAt(lf)),
               InnerAt(From(n.compressed, mis + 1), n.kind, n.kids))

\* Inner.insert where no child has byte k: the node grows if it is full.
addAt(h, p, lf, k) ==
    LET n == h[p]
    IN  Append([h EXCEPT ![p] = InnerAt(n.compressed,
                                        IF full(n) THEN Bigger(n.kind) ELSE n.kind,
                                        WithKid(n.kids, k, Len(h) + 1))],
               LeafAt(lf))

\* replace in the node at p: another child for byte k.
replaceAt(h, p, k, q) ==
    [h EXCEPT ![p] = InnerAt(h[p].compressed, h[p].kind, WithKid(h[p].kids, k, q))]

\* Inner.insert, which ends at the node w.node.
insertAt(h, p, lf) ==
    LET w   == insertWay(h, p, lf.key)
        n   == h[w.node]
        mis == compressedMismatch(n, lf.key, w.depth)
        k   == At(lf.key, w.depth + mis)
        sub == leafInsertAt(h, n.kids[k], lf, w.depth + mis + 1)
    IN  CASE mis < Len(n.compressed) -> splitAt(h, w.node, lf, w.depth, mis)
          [] mis = Len(n.compressed) /\ k \notin DOMAIN n.kids -> addAt(h, w.node, lf, k)
          [] OTHER -> replaceAt(sub.heap, w.node, k, sub.self)

\* InsertLeaf of a new leaf in the tree with root p.
Inserted(h, p, lf) ==
    CASE p = Nil -> [heap |-> Append(h, LeafAt(lf)), self |-> Len(h) + 1]
      [] p # Nil /\ h[p].isLeaf -> leafInsertAt(h, p, lf, 0)
      [] OTHER -> [heap |-> insertAt(h, p, lf), self |-> p]

-----------------------------------------------------------------------------
(* Deletion *)

\* addPrefixBefore: an Inner that takes the place of its parent n.
addPrefixBefore(n, b, left) ==
    IF left.isLeaf THEN left
    ELSE InnerAt(n.compressed \o <<b>> \o left.compressed, left.kind, left.kids)

\* Mutants of collapseAt: the node that is left behind is emptied, ...
collapseAtEmpties(h, w, k) ==
    LET n    == h[w.node]
        rest == WithoutKid(n.kids, k)
        b    == Min(DOMAIN rest)
        h1   == [h EXCEPT ![w.node] = InnerAt(n.compressed, n.kind, <<>>),
                          ![rest[b]] = addPrefixBefore(n, b, @)]
    IN  [heap |-> IF w.above = Nil THEN h1 ELSE replaceAt(h1, w.above, w.byte, rest[b]),
         self |-> rest[b]]

\* ... and the child keeps its own prefix.
collapseAtShort(h, w, k) ==
    LET n    == h[w.node]
        rest == WithoutKid(n.kids, k)
        b    == Min(DOMAIN rest)
        h1   == [h EXCEPT ![w.node] = InnerAt(n.compressed, n.kind, rest)]
    IN  [heap |-> IF w.above = Nil THEN h1 ELSE replaceAt(h1, w.above, w.byte, rest[b]),
         self |-> rest[b]]

\* Inner.del of one of the two children of a node4: the other takes its place in
\* the parent, with a longer prefix if it is an Inner.  The node itself is
\* left behind with that child still in it.
collapseAt(h, w, k) ==
    LET n    == h[w.node]
        rest == WithoutKid(n.kids, k)
        b    == Min(DOMAIN rest)
        h1   == [h EXCEPT ![w.node] = InnerAt(n.compressed, n.kind, rest),
                          ![rest[b]] = addPrefixBefore(n, b, @)]
    IN  [heap |-> IF w.above = Nil THEN h1 ELSE replaceAt(h1, w.above, w.byte, rest[b]),
         self |-> rest[b]]

\* Inner.del where the node keeps two children or more.
dropAt(h, p, k) ==
    LET n == h[p]
    IN  [h EXCEPT ![p] = InnerAt(n.compressed,
                                 IF min(n) THEN Smaller(n.kind) ELSE n.kind,
                                 WithoutKid(n.kids, k))]

\* Inner.del, which ends at the node w.node.
delAt(h, p, key) ==
    LET w   == delWay(h, p, key)
        n   == h[w.node]
        k   == At(key, w.depth + Len(n.compressed))
        hit == /\ checkCompressed(n, key, w.depth) /\ k \in DOMAIN n.kids
               /\ h[n.kids[k]].isLeaf /\ h[n.kids[k]].key = key
        c   == collapseAt(h, w, k)
    IN  CASE ~hit -> [heap |-> h, self |-> p]
          [] hit /\ n.kind = "n4" /\ min(n) ->
                [heap |-> c.heap, self |-> IF w.above = Nil THEN c.self ELSE p]
          [] OTHER -> [heap |-> dropAt(h, w.node, k), self |-> p]

\* Remove in the tree with root p.
Removed(h, p, key) ==
    IF h[p].isLeaf THEN [heap |-> h, self |-> IF h[p].key = key THEN Nil ELSE p]
    ELSE delAt(h, p, key)

-----------------------------------------------------------------------------
(* What a heap holds *)

\* The addresses reachable from p.
Reach(h, p) ==
    LET below[q \in DOMAIN h] ==
            IF h[q].isLeaf THEN {q}
            ELSE {q} \cup UNION {below[h[q].kids[b]] : b \in DOMAIN h[q].kids}
    IN  below[p]

\* The leaves below p.
LeavesBelow(h, p) == IF p = Nil THEN {} ELSE {h[q] : q \in {r \in Reach(h, p) : h[r].isLeaf}}

\* The tree below p, without addresses.
Unfold(h, p) ==
    LET tree[q \in DOMAIN h] ==
            IF h[q].isLeaf THEN [key |-> h[q].key]
            ELSE [prefix |-> h[q].compressed, kind |-> h[q].kind,
                  kids |-> [b \in DOMAIN h[q].kids |-> tree[h[q].kids[b]]]]
    IN  tree[p]

\* The one radix tree of a set of keys.
Canonical(keys) ==
    LET tree[S \in SUBSET keys, depth \in Nat] ==
            LET k     == CHOOSE k \in S : TRUE
                at    == depth + Min({comparePrefix(k, l, depth) : l \in S})
                bytes == {At(l, at) : l \in S}
                n     == Cardinality(bytes)
            IN  IF S = {k} THEN [key |-> k]
                ELSE [prefix |-> SubSeq(k, depth + 1, at),
                      kind |-> CASE n <= Cap4 -> "n4"
                                 [] n \in Cap4 + 1 .. Cap16 -> "n16"
                                 [] n \in Cap16 + 1 .. Cap48 -> "n48"
                                 [] OTHER -> "n256",
                      kids |-> [b \in bytes |-> tree[{l \in S : At(l, at) = b}, at + 1]]]
    IN  tree[keys, 0]

=============================================================================
