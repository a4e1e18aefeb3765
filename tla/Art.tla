-------------------------------- MODULE Art --------------------------------
(***************************************************************************)
(* The Tree of tree.go as its callers see it when each operation runs      *)
(* under the tree's lock: Insert, InsertLeaf, Remove, Find and its         *)
(* variants, At and LeafIndex.                                             *)
(***************************************************************************)
EXTENDS ArtMutate, ArtSearch, FiniteSets

CONSTANTS
    Keys,        \* keys the callers insert and remove
    Queries,     \* keys the callers search for
    Values,
    MaxStale,    \* bound on the updates and failed removals
    MaxReins     \* bound on the insertions of a leaf already in the tree

VARIABLES
    root, size,  \* Tree.root and Tree.size
    ret,         \* what the last operation returned
    stale,       \* updates and failed removals since the tree had one leaf
    asc,         \* has every insertion since then been of the largest key?
    reins        \* insertions of a leaf already in the tree

vars == <<root, size, ret, stale, asc, reins>>

Smods == {"Exact", "GTE", "GT", "LTE", "LT"}

-----------------------------------------------------------------------------
(* The content of a tree *)

Leaves == IF root = Nil THEN <<>> ELSE leavesOf(root)
KeySet == LET ls == Leaves IN {ls[i].key : i \in DOMAIN ls}

\* A tree with at most one leaf has no counts to be wrong.
Small(r) == r = Nil \/ (r # Nil /\ r.isLeaf)

-----------------------------------------------------------------------------
Init ==
    /\ root = Nil /\ size = 0
    /\ ret = [op |-> "New"]
    /\ stale = 0 /\ asc = TRUE /\ reins = 0

\* The bookkeeping of an insertion that was (or was not) an update.
NoteInsert(k, updated) ==
    /\ stale' = IF Small(root') THEN 0 ELSE stale + (IF updated THEN 1 ELSE 0)
    /\ asc' = (Small(root') \/ (asc /\ (\A j \in KeySet : Less(j, k))))

\* InsertLeaf of a leaf that is new to the tree (Insert and InsertX make one).
Insert(k, v) ==
    LET lf == [key |-> k, value |-> v, same |-> FALSE]
        r  == insert(root, lf, 0)
    IN  /\ IF root = Nil
           THEN /\ root' = bnodeLeaf(lf)
                /\ size' = size + 1
                /\ ret' = [op |-> "Insert", updated |-> FALSE]
                /\ NoteInsert(k, FALSE)
           ELSE /\ r.node # Nil
                /\ root' = r.node
                /\ size' = IF r.updated THEN size ELSE size + 1
                /\ ret' = [op |-> "Insert", updated |-> r.updated]
                /\ NoteInsert(k, r.updated)
        /\ stale' <= MaxStale
        /\ UNCHANGED reins

\* InsertLeaf of the very *Leaf the tree holds for k.
ReinsertLeaf(i) ==
    LET lf == [key |-> Leaves[i].key, value |-> Leaves[i].value, same |-> TRUE]
        r  == insert(root, lf, 0)
    IN  /\ r.node # Nil
        /\ reins < MaxReins
        /\ root' = r.node
        /\ size' = size + 1
        /\ ret' = [op |-> "Insert", updated |-> r.updated]
        /\ reins' = reins + 1
        /\ stale' = IF Small(root') THEN 0 ELSE stale + 1
        /\ stale' <= MaxStale
        /\ UNCHANGED asc

Remove(k) ==
    LET r == del(root, k, 0)
    IN  /\ IF root = Nil
           THEN /\ ret' = [op |-> "Remove", deleted |-> FALSE, value |-> Nil]
                /\ UNCHANGED <<root, size, stale, asc>>
           ELSE /\ root' = r.node
                /\ size' = IF r.deleted THEN size - 1 ELSE size
                /\ ret' = [op |-> "Remove", deleted |-> r.deleted,
                           value |-> IF r.deleted THEN r.leaf.value ELSE Nil]
                /\ stale' = IF Small(root') THEN 0
                            ELSE stale + (IF r.deleted \/ r.node = root THEN 0 ELSE 1)
                /\ asc' = (asc \/ Small(root'))
        /\ stale' <= MaxStale
        /\ UNCHANGED reins

Next ==
    \/ \E k \in Keys, v \in Values : Insert(k, v)
    \/ \E i \in DOMAIN Leaves : ReinsertLeaf(i)
    \/ \E k \in Keys \cup Queries : Remove(k)

Spec == Init /\ [][Next]_vars

-----------------------------------------------------------------------------
(* The operations that only read the tree, as functions of its state *)

\* Find, behind FindExact, FindGTE, FindGT, FindLTE and FindLT.
Find(smod, key) ==
    IF root = Nil THEN Miss(Nil, 0)
    ELSE IF key = <<>> /\ size = 1 THEN Hit(root, 0)
    ELSE CASE smod \in {"GTE", "GT"} -> getGTE(root, key, 0, smod, FALSE, 0)
           [] smod \in {"LTE", "LT"} -> getLTE(root, key, 0, smod, FALSE, 0)
           [] smod = "Exact"         -> get(root, key, 0)

\* At (and Atv) of a tree that is not empty.
AtRank(i) == at(root, i)

\* LeafIndex: the rank that FindExact reports for the key of a leaf.
LeafIndex(leaf) == Find("Exact", leaf.key).id

-----------------------------------------------------------------------------
(* Types *)

RECURSIVE isBnode(_)
isBnode(a) ==
    /\ a.pren \in Nat
    /\ IF a.isLeaf THEN a.key \in Keys /\ a.value \in Values
       ELSE /\ a.compressed \in Seq(Byte)
            /\ a.kind \in {"n4", "n16", "n48", "n256"}
            /\ a.subN \in Int
            /\ \A i \in DOMAIN a.kids : a.kids[i].b \in Byte /\ isBnode(a.kids[i].ch)

\* The type invariant.
TypeOK ==
    /\ root = Nil \/ isBnode(root)
    /\ size \in Nat /\ stale \in 0 .. MaxStale /\ reins \in 0 .. MaxReins
    /\ asc \in BOOLEAN
    /\ ret.op \in {"New", "Insert", "Remove"}

-----------------------------------------------------------------------------
(* The shape of the tree *)

\* A node of n children is of the smallest kind that has room for them.
KindFits(a) ==
    LET n == Len(a.kids)
    IN  a.kind = CASE n <= Cap4 -> "n4"
                   [] n \in Cap4 + 1 .. Cap16 -> "n16"
                   [] n \in Cap16 + 1 .. Cap48 -> "n48"
                   [] OTHER -> "n256"

\* Every leaf below a node reached through the bytes of path begins with path
\* (0 stands for what is beyond the end of a key).
RECURSIVE wellFormed(_, _)
wellFormed(a, path) ==
    IF a.isLeaf THEN \A i \in DOMAIN path : At(a.key, i - 1) = path[i]
    ELSE /\ Len(a.kids) >= 2
         /\ KindFits(a)
         /\ \A i \in 1 .. Len(a.kids) - 1 : a.kids[i].b < a.kids[i + 1].b
         /\ \A i \in DOMAIN a.kids :
               wellFormed(a.kids[i].ch, path \o a.compressed \o <<a.kids[i].b>>)

\* After any sequence of insertions and deletions no inner node has fewer than
\* two children, path compression and the splits and collapses of
\* Inner.insert and Inner.del have kept every leaf under its own path, and
\* grow and shrink have kept every node at the kind its fan-out needs.  An
\* in-order walk meets the keys in strictly increasing order: no key is
\* stored twice, and byte order in the nodes is the order of the keys.
WellFormed ==
    /\ root # Nil => wellFormed(root, <<>>)
    /\ \A i \in 1 .. Len(Leaves) - 1 : Less(Leaves[i].key, Leaves[i + 1].key)

\* Tree.size, which insertions and removals count up and down, is the number of
\* leaves that are in the tree after any splits, updates, failed removals and
\* collapses (tree.go:147 "the number of keys (leaf nodes) stored"), as long as
\* no leaf was inserted again that was in the tree.
SizeExact == reins = 0 => size = Len(Leaves)

\* Would the insertion of k index n.compressed with a negative mismatch?
Panics(k) ==
    root # Nil /\ insert(root, [key |-> k, value |-> Nil, same |-> FALSE], 0).node = Nil

\* Insert never runs into the negative index of compressedMismatch: no descent
\* goes on below the end of the key.  It can only do so through a byte 0
\* that stands for the end of one key and is part of another, and no key
\* here is another one with a zero byte and more appended.
InsertNeverPanics == \A k \in Keys : ~Panics(k)

-----------------------------------------------------------------------------
(* Counts and ranks *)

RECURSIVE countsExact(_)
countsExact(a) ==
    a.isLeaf \/ /\ a.subN = Len(leavesOf(a))
                /\ \A i \in DOMAIN a.kids : countsExact(a.kids[i].ch)

\* SubN is the number of leaves below a node through splits, collapses, growth
\* and shrinking, as long as no insertion was an update and no removal
\* failed on its way down; and At(i), which goes by it, is then the i-th leaf
\* in key order, and not ok from size on.
AtExact ==
    root # Nil /\ stale = 0 =>
       /\ countsExact(root)
       /\ \A i \in 0 .. Len(Leaves) :
             IF i < Len(Leaves) THEN AtRank(i).ok /\ AtRank(i).leaf = Leaves[i + 1]
             ELSE ~AtRank(i).ok /\ ~AtRank(i).panic

\* The cached pren of the nodes on the path of a leaf add up to its rank as long
\* as the counts are exact and keys were inserted in ascending order;
\* Inner.del repairs the cache on the way back, whatever is deleted.
LeafIndexExact ==
    stale = 0 /\ asc => \A i \in DOMAIN Leaves : LeafIndex(Leaves[i]) = i - 1

-----------------------------------------------------------------------------
(* Searches *)

\* The leaves that satisfy a search, in key order.
Candidates(smod, q) ==
    SelectSeq(Leaves, LAMBDA lf :
        CASE smod = "Exact" -> lf.key = q
          [] smod = "GTE" -> ~Less(lf.key, q)
          [] smod = "GT"  -> Less(q, lf.key)
          [] smod = "LTE" -> ~Less(q, lf.key)
          [] smod = "LT"  -> Less(lf.key, q))

\* FindExact finds every stored key with its present value, and nothing else:
\* the "key as far as it goes" comparisons of get never lead to a wrong leaf.
\* The empty key is the exception, it finds the leaf of a tree of size one.
FindExactRight ==
    \A q \in Keys \cup Queries :
        q # <<>> \/ size # 1 =>
            LET r == Find("Exact", q)
                c == Candidates("Exact", q)
            IN  /\ r.found <=> c # <<>>
                /\ r.found => r.value.key = q /\ r.value.value = c[1].value

\* The answer to an ordered search: the nearest candidate.
Nearest(smod, q) ==
    LET c == Candidates(smod, q)
    IN  IF smod \in {"GTE", "GT"} THEN c[1] ELSE c[Len(c)]

\* A query with no stored key on the side it starts from: getGTE and getLTE
\* end at the root with "look further that way" and report not found.
BeyondEnds(smod, q) ==
    IF smod \in {"GTE", "GT"} THEN \A k \in KeySet : Less(q, k)
    ELSE \A k \in KeySet : Less(k, q)

\* Does some node256 have a child, before its last one, that its prev skips?  It
\* starts at byte lth-1.
RECURSIVE sparse256(_)
sparse256(a) ==
    ~a.isLeaf /\ \/ a.kind = "n256" /\ a.kids[Len(a.kids) - 1].b >= Len(a.kids)
                 \/ \E i \in DOMAIN a.kids : sparse256(a.kids[i].ch)

OrderedSmods == {"GTE", "GT", "LTE", "LT"}

\* Does the search go by prev in a node256 that hides a child from it?
PrevHides(smod) == smod \in {"LTE", "LT"} /\ sparse256(root)

\* An ordered search reports the nearest leaf on the right side of the query or
\* nothing, and nothing only if there is no such leaf or the query is beyond the
\* ends of the tree.  Where a node256 hides children from prev, LTE and LT may
\* report a leaf further away or nothing, but never one on the wrong side.
SearchRight ==
    ~Small(root) => \A smod \in OrderedSmods, q \in Queries \ {<<>>} :
        LET r == Find(smod, q)
            c == Candidates(smod, q)
        IN  /\ r.found => \E i \in DOMAIN c : c[i].key = r.value.key
            /\ ~PrevHides(smod) =>
                  /\ r.found => r.value.key = Nearest(smod, q).key
                  /\ c # <<>> /\ ~BeyondEnds(smod, q) => r.found

\* The position of a leaf in key order, counted from 0.
RankOf(key) == Len(SelectSeq(Leaves, LAMBDA lf : Less(lf.key, key)))

\* FindGTE and FindGT report the rank of their answer while the counts and the
\* rank cache are exact.
SearchRank ==
    stale = 0 /\ asc /\ ~Small(root) =>
        \A smod \in {"GTE", "GT"}, q \in Queries :
            LET r == Find(smod, q) IN r.found => r.id = RankOf(r.value.key)

-----------------------------------------------------------------------------
(* The tree as a dictionary *)

Pairs == LET ls == Leaves IN {<<ls[i].key, ls[i].value>> : i \in DOMAIN ls}

Map == INSTANCE ArtMap WITH Keys <- Keys \cup Queries, None <- Nil, dict <- Pairs

\* Whatever splits, growth, shrinking and collapses an insertion or a removal
\* causes, to its callers the tree changes as the dictionary of ArtMap does:
\* no other key appears, disappears or changes its value, and the returned
\* flags and values are those of the dictionary.
ImplementsMap == Map!MapSpec

=============================================================================
