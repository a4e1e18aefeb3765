------------------------------ MODULE ArtNode ------------------------------
(***************************************************************************)
(* The nodes of the adaptive radix tree (node.go, leaf.go, n4.go, n16.go,  *)
(* n48.go, n256.go) as values, and the Inode operations on them.           *)
(*                                                                         *)
(* A bnode is either a leaf                                                *)
(*    [isLeaf |-> TRUE, key, value, pren]                                  *)
(* or an inner node                                                        *)
(*    [isLeaf |-> FALSE, compressed, kind, kids, subN, pren]               *)
(* where kids lists the children in byte order, each as [b, ch].  The      *)
(* arrays behind kids (keys[], children[], the 48-way indirection) are the *)
(* subject of module Inode, which shows that they implement such a list.   *)
(*                                                                         *)
(* The capacities 4, 16, 48 are constants, so that a small instance goes   *)
(* through every kind of node.                                             *)
(***************************************************************************)
EXTENDS ArtKey
LOCAL INSTANCE SequencesExt

-----------------------------------------------------------------------------
(* bnode, Leaf and Inner *)

bnodeLeaf(lf) ==
    [isLeaf |-> TRUE, key |-> lf.key, value |-> lf.value, pren |-> 0]

bnodeInner(compressed, kind, kids, subN) ==
    [isLeaf |-> FALSE, compressed |-> compressed, kind |-> kind,
     kids |-> kids, subN |-> subN, pren |-> 0]

\* bnode.subn: the number of leaves a node claims to have below it.
subn(a) == IF a.isLeaf THEN 1 ELSE a.subN

\* The claimed number of leaves of the first i children.
Before(kids, i) ==
    FoldLeft(LAMBDA tot, kid : tot + subn(kid.ch), 0, SubSeq(kids, 1, i))

\* Mutant of redoPren: offsets that start one too low.
redoPrenLow(kids) ==
    [i \in DOMAIN kids |-> [kids[i] EXCEPT !.ch.pren = Before(kids, i - 1) - 1]]

\* redoPren: recompute the cached rank offset of every child.
redoPren(kids) ==
    [i \in DOMAIN kids |-> [kids[i] EXCEPT !.ch.pren = Before(kids, i - 1)]]

-----------------------------------------------------------------------------
(* The Inode interface.  Children are named by their position in kids; 0   *)
(* stands for the nil child.                                               *)

\* Mutant of gte: the byte itself is passed over.
gteStrict(n, k) == SelectInSeq(n.kids, LAMBDA kid : kid.b > k)

child(n, k) == SelectInSeq(n.kids, LAMBDA kid : kid.b = k)
next(n, k)  == SelectInSeq(n.kids, LAMBDA kid : kid.b > k)
gte(n, k)   == SelectInSeq(n.kids, LAMBDA kid : kid.b >= k)
lte(n, k)   == SelectLastInSeq(n.kids, LAMBDA kid : kid.b <= k)

\* node256.prev starts its scan at byte lth-1, the others at the last child.
prev(n, k)  == SelectLastInSeq(n.kids, LAMBDA kid :
                  /\ kid.b < k
                  /\ n.kind = "n256" => kid.b < Len(n.kids))

\* addChild: the new child goes before the first child whose byte is not smaller.
addChild(n, k, ch) ==
    LET at  == SelectInSeq(n.kids, LAMBDA kid : k <= kid.b)
        idx == IF at = 0 THEN Len(n.kids) + 1 ELSE at
    IN  [n EXCEPT !.kids = redoPren(InsertAt(@, idx, [b |-> k, ch |-> ch]))]

full(n) ==
    Len(n.kids) = CASE n.kind = "n4"   -> Cap4
                    [] n.kind = "n16"  -> Cap16
                    [] n.kind = "n48"  -> Cap48
                    [] n.kind = "n256" -> MaxByte + 1

\* min: one child fewer and the node is replaced by one of the next smaller kind.
min(n) ==
    Len(n.kids) <= CASE n.kind = "n4"   -> 2
                     [] n.kind = "n16"  -> Cap4 + 1
                     [] n.kind = "n48"  -> Cap16 + 1
                     [] n.kind = "n256" -> Cap48 + 1

\* grow and shrink copy the children into the next larger or smaller kind
\* and recompute the rank offsets.
grow(n) ==
    [n EXCEPT !.kind = CASE @ = "n4"  -> "n16"
                         [] @ = "n16" -> "n48"
                         [] @ = "n48" -> "n256",
              !.kids = redoPren(@)]

shrink(n) ==
    [n EXCEPT !.kind = CASE @ = "n16"  -> "n4"
                         [] @ = "n48"  -> "n16"
                         [] @ = "n256" -> "n48",
              !.kids = redoPren(@)]

\* Mutant of removeChild: the rank offsets are left alone.
removeChildStale(n, idx) == [n EXCEPT !.kids = RemoveAt(@, idx)]

\* replace(idx, nil, true): node4 and node16 leave the rank offsets alone
\* when the last child goes.
removeChild(n, idx) ==
    LET kids == RemoveAt(n.kids, idx)
        redo == n.kind \in {"n48", "n256"} \/ idx <= Len(kids)
    IN  [n EXCEPT !.kids = IF redo THEN redoPren(kids) ELSE kids]

\* replace(idx, ch, false): the rank offsets are left alone.
replaceChild(n, idx, ch) == [n EXCEPT !.kids[idx].ch = ch]

-----------------------------------------------------------------------------
(* The first and the last leaf below a node. *)

RECURSIVE recursiveFirst(_)
recursiveFirst(a) ==
    IF a.isLeaf THEN a ELSE recursiveFirst(Head(a.kids).ch)

RECURSIVE recursiveLast(_)
recursiveLast(a) ==
    IF a.isLeaf THEN a ELSE recursiveLast(Last(a.kids).ch)

\* dfs: the leaves below a node, left to right.
RECURSIVE leavesOf(_)
leavesOf(a) ==
    IF a.isLeaf THEN <<a>>
    ELSE FlattenSeq([i \in DOMAIN a.kids |-> leavesOf(a.kids[i].ch)])

=============================================================================
