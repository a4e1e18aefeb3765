----------------------------- MODULE Iterator -----------------------------
(***************************************************************************)
(* An iterator (iterator.go) over a tree that is changed between its calls *)
(* of Next.  The iterator keeps a stack of pointers to inner nodes, which  *)
(* insertions split and removals shrink, collapse or detach meanwhile.     *)
(*                                                                         *)
(* A call of Next is InitStack or Resume and then one step for every turn  *)
(* of the loop in iterate, or one of NextClosed and InitExits alone.       *)
(* Changes happen between calls, as the comment on Tree.Iterator asks.     *)
(***************************************************************************)
EXTENDS NodeHeap

CONSTANTS
    Keys,         \* keys the callers insert and remove
    Values,       \* values of insertions after the iterator was made
    Starts,       \* the sequences of keys a tree may be filled with at first
    Ranges,       \* pairs <<start, end>> of arguments, <<>> stands for nil too
    MaxChanges    \* bound on the insertions and removals

\* Keys without zero bytes are told apart by the tree (see zero_doc).
ASSUME KeysAssumption ==
    /\ \A k \in Keys : k \in Seq(1 .. MaxByte)
    /\ \A s \in Starts : s \in Seq(Keys)
    /\ \A r \in Ranges : r[1] \in Seq(Byte) /\ r[2] \in Seq(Byte)
    /\ MaxChanges \in Nat

\* Leaves, iterators and ranges.  The range of an iterator runs from cursor to
\* terminate, or in reverse from terminate to cursor.
Leaves == [isLeaf : {TRUE}, key : Keys, value : Values \cup {Nil}]

Iterators ==
    [stack : Seq([node : Nat, curkey : Byte \cup {Nil}]), closed : BOOLEAN,
     cursor : Seq(Byte), terminate : Seq(Byte), reverse : BOOLEAN,
     key : Keys \cup {Nil}, value : Values \cup {Nil}, leaf : Leaves \cup {Nil}]

Intervals == [lo : Seq(Byte), hi : Seq(Byte), reverse : BOOLEAN]

ASSUME NilIsNoObject == Nil \notin Iterators \cup Intervals

VARIABLES
    heap, root,   \* the tree
    todo,         \* keys to insert before the iterator is made
    it,           \* the iterator
    busy,         \* is a call of Next under way?
    ok,           \* what the last call of Next returned
    changes,      \* insertions and removals so far
    asked,        \* the range at the first call of Next
    returned,     \* the keys returned, in order
    want,         \* keys in the range that have been there since then
    jumped,       \* keys that a split has moved behind the curkey of a stack node
    gapped,       \* keys below children of a node256 that its prev has overlooked
    outdated      \* stored keys that were changed while a stack node was detached

vars == <<heap, root, todo, it, busy, ok, changes, asked, returned, want, jumped, gapped, outdated>>
tree == <<heap, root, todo>>
history == <<changes, asked, returned, want, jumped, gapped, outdated>>

KeysBelow(h, p) == {lf.key : lf \in LeavesBelow(h, p)}

Stored == LeavesBelow(heap, root)
StoredKeys == KeysBelow(heap, root)

-----------------------------------------------------------------------------
(* The tree *)

\* The pointers an iterator holds.
StackNodes(i) == IF i = Nil THEN {} ELSE {i.stack[j].node : j \in DOMAIN i.stack}

\* Is a node of the stack no longer part of the tree?
DetachedOnStack(h, p, i) ==
    StackNodes(i) \ (IF p = Nil THEN {} ELSE Reach(h, p)) # {}

\* A change of what is stored under k, between two calls of Next.
Change(k, new) ==
    /\ ~busy /\ it # Nil /\ ~it.closed
    /\ changes < MaxChanges
    /\ changes' = changes + 1
    /\ heap' = new.heap
    /\ root' = new.self
    /\ outdated' = IF k \in StoredKeys /\ DetachedOnStack(new.heap, new.self, it)
                   THEN outdated \cup {k} ELSE outdated
    /\ UNCHANGED <<todo, it, busy, ok, asked, returned, gapped>>

\* An insertion splits the node of checkpoint c: the child that takes over its
\* former children may be at a byte the iterator has passed in that node.
MovedBehind(h, c) ==
    LET n == h[c.node]
    IN  {n.kids[b] : b \in
            {d \in DOMAIN n.kids :
                /\ c.curkey # Nil /\ n.compressed # heap[c.node].compressed
                /\ n.kids[d] \notin DOMAIN heap
                /\ ~h[n.kids[d]].isLeaf
                /\ IF it.reverse THEN d >= c.curkey ELSE d <= c.curkey}}

JumpedOver(h) ==
    {k \in Keys : \E j \in DOMAIN it.stack :
                     \E p \in MovedBehind(h, it.stack[j]) : k \in KeysBelow(h, p)}

\* The callers fill the tree before they make the iterator.
Fill ==
    LET new == Inserted(heap, root, [key |-> Head(todo), value |-> Nil])
    IN  /\ todo # <<>>
        /\ todo' = Tail(todo)
        /\ heap' = new.heap
        /\ root' = new.self
        /\ UNCHANGED <<it, busy, ok, history>>

Insert(k, v) ==
    LET new == Inserted(heap, root, [key |-> k, value |-> v])
    IN  /\ Change(k, new)
        /\ jumped' = jumped \cup JumpedOver(new.heap)
        /\ UNCHANGED want

\* Remove, also of a key that is not there.
Remove(k) ==
    /\ root # Nil
    /\ Change(k, Removed(heap, root, k))
    /\ want' = want \ {k}
    /\ UNCHANGED jumped

-----------------------------------------------------------------------------
(* The iterator *)

\* Tree.Iterator and Tree.ReverseIterator.
MakeIterator(cursor, terminate, reverse) ==
    /\ it = Nil /\ todo = <<>>
    /\ it' = [stack |-> <<>>, closed |-> FALSE, cursor |-> cursor,
              terminate |-> terminate, reverse |-> reverse,
              key |-> Nil, value |-> Nil, leaf |-> Nil]
    /\ UNCHANGED <<tree, busy, ok, history>>

NewIterator(start, end)     == MakeIterator(start, end, FALSE)
ReverseIterator(start, end) == MakeIterator(end, start, TRUE)

\* iterator.Reverse, before the first call of Next.
ReverseRange ==
    /\ it # Nil /\ asked = Nil
    /\ it' = [it EXCEPT !.cursor = it.terminate, !.terminate = it.cursor,
                        !.reverse = TRUE]
    /\ UNCHANGED <<tree, busy, ok, history>>

\* iterator.inRange.
inRange(i, key) ==
    IF ~i.reverse
    THEN Compare(key, i.cursor) > 0 /\ (i.terminate = <<>> \/ Compare(key, i.terminate) <= 0)
    ELSE /\ Compare(key, i.cursor) < 0 \/ i.cursor = <<>>
         /\ i.terminate = <<>> \/ Compare(key, i.terminate) >= 0

\* The range of an iterator as its callers see it: (lo, hi] forward and [lo, hi)
\* in reverse, where an empty bound is none, except that the empty key is
\* not above the empty lower bound of a forward iterator.
InInterval(r, k) ==
    IF r.reverse THEN (r.hi = <<>> \/ Less(k, r.hi)) /\ ~Less(k, r.lo)
    ELSE Less(r.lo, k) /\ (r.hi = <<>> \/ ~Less(r.hi, k))

\* The end of a call of Next: true with the current key and value, or false.
Return(found) ==
    /\ busy' = FALSE
    /\ ok' = found
    /\ returned' = IF found THEN Append(returned, it'.key) ELSE returned

\* The first call of Next fixes the range.
Begin ==
    LET r == IF it.reverse
             THEN [lo |-> it.terminate, hi |-> it.cursor, reverse |-> TRUE]
             ELSE [lo |-> it.cursor, hi |-> it.terminate, reverse |-> FALSE]
    IN  IF asked # Nil THEN UNCHANGED <<asked, want>>
        ELSE /\ asked' = r
             /\ want' = {k \in StoredKeys : InInterval(r, k)}

\* A call of Next on an iterator that has ended.
NextClosed ==
    /\ it # Nil /\ it.closed /\ ~busy
    /\ ok' = FALSE
    /\ UNCHANGED <<tree, it, busy, history>>

\* Next with init on an empty tree or one that is a leaf.  The leaf, if it is
\* returned at all, is not left in i.leaf.
InitExits ==
    /\ it # Nil /\ ~it.closed /\ ~busy /\ it.stack = <<>>
    /\ root # Nil => heap[root].isLeaf
    /\ LET hit == root # Nil /\ inRange(it, heap[root].key)
       IN  /\ it' = [it EXCEPT !.closed = TRUE,
                               !.key = IF hit THEN heap[root].key ELSE @,
                               !.value = IF hit THEN heap[root].value ELSE @]
           /\ Return(hit)
    /\ Begin
    /\ UNCHANGED <<tree, changes, jumped, gapped, outdated>>

\* Mutant of InitStack: a root that is a leaf is pushed like an inner node.
InitStackAny ==
    /\ it # Nil /\ ~it.closed /\ ~busy /\ it.stack = <<>>
    /\ root # Nil
    /\ it' = [it EXCEPT !.stack = <<[node |-> root, curkey |-> Nil]>>]
    /\ busy' = TRUE
    /\ Begin
    /\ UNCHANGED <<tree, ok, changes, returned, jumped, gapped, outdated>>

\* Next with init on a larger tree.
InitStack ==
    /\ it # Nil /\ ~it.closed /\ ~busy /\ it.stack = <<>>
    /\ root # Nil /\ ~heap[root].isLeaf
    /\ it' = [it EXCEPT !.stack = <<[node |-> root, curkey |-> Nil]>>]
    /\ busy' = TRUE
    /\ Begin
    /\ UNCHANGED <<tree, ok, changes, returned, jumped, gapped, outdated>>

\* Next of an iterator that is under way.
Resume ==
    /\ it # Nil /\ ~it.closed /\ ~busy /\ it.stack # <<>>
    /\ busy' = TRUE
    /\ UNCHANGED <<tree, it, ok, history>>

\* iterator.next: the byte of the child after (before) curkey, Nil if there is none.
nextChild(i, n, curkey) ==
    IF i.reverse THEN prev(n, IF curkey = Nil THEN MaxByte + 1 ELSE curkey)
    ELSE next(n, IF curkey = Nil THEN -1 ELSE curkey)

Top == it.stack[Len(it.stack)]
Found == nextChild(it, heap[Top.node], Top.curkey)
Child == heap[Top.node].kids[Found]

\* Keys before the iterator below children of a node256 at bytes from lth on,
\* where its prev does not look.
Overlooked ==
    LET n == heap[Top.node]
    IN  {k \in Keys :
            /\ it.reverse /\ n.kind = "n256"
            /\ \E b \in DOMAIN n.kids :
                  /\ b >= Cardinality(DOMAIN n.kids)
                  /\ Top.curkey = Nil \/ b < Top.curkey
                  /\ k \in KeysBelow(heap, n.kids[b])}

\* Mutant of Advanced: curkey stays.
AdvancedNot(i, b) == i

\* tail.curkey = &curkey
Advanced(i, b) == [i EXCEPT !.stack[Len(i.stack)].curkey = b]

\* Mutants of Yielded: the cursor stays at the start of the range, ...
YieldedNoCursor(i, lf) == [i EXCEPT !.key = lf.key, !.value = lf.value, !.leaf = lf]

\* ... and the value stays that of the leaf before.
YieldedOldValue(i, lf) == [i EXCEPT !.key = lf.key, !.cursor = lf.key, !.leaf = lf]

\* The fields that tryAdvance sets when it returns a leaf.
Yielded(i, lf) ==
    [i EXCEPT !.key = lf.key, !.value = lf.value, !.cursor = lf.key, !.leaf = lf]

\* tryAdvance with a child that is a leaf: in range it ends the call.
StepLeaf ==
    /\ busy /\ it.stack # <<>> /\ Found # Nil
    /\ heap[Child].isLeaf
    /\ LET lf == heap[Child]
           on == Advanced(it, Found)
       IN  IF inRange(it, lf.key)
           THEN it' = Yielded(on, lf) /\ Return(TRUE)
           ELSE it' = on /\ UNCHANGED <<busy, ok, returned>>
    /\ gapped' = gapped \cup Overlooked
    /\ UNCHANGED <<tree, changes, asked, want, jumped, outdated>>

\* tryAdvance with a child that is an inner node: go down.
StepDown ==
    /\ busy /\ it.stack # <<>> /\ Found # Nil
    /\ ~heap[Child].isLeaf
    /\ it' = [Advanced(it, Found) EXCEPT
                !.stack = Append(@, [node |-> Child, curkey |-> Nil])]
    /\ gapped' = gapped \cup Overlooked
    /\ UNCHANGED <<tree, busy, ok, changes, asked, returned, want, jumped, outdated>>

\* tryAdvance with no child left: go up, and at the top iterate ends.
StepUp ==
    /\ busy /\ it.stack # <<>> /\ Found = Nil
    /\ LET up == SubSeq(it.stack, 1, Len(it.stack) - 1)
       IN  /\ it' = [it EXCEPT !.stack = up, !.closed = (up = <<>>)]
           /\ IF up = <<>> THEN Return(FALSE) ELSE UNCHANGED <<busy, ok, returned>>
    /\ gapped' = gapped \cup Overlooked
    /\ UNCHANGED <<tree, changes, asked, want, jumped, outdated>>

-----------------------------------------------------------------------------
Init ==
    /\ heap = <<>> /\ root = Nil /\ todo \in Starts
    /\ it = Nil /\ busy = FALSE /\ ok = FALSE
    /\ changes = 0 /\ asked = Nil /\ returned = <<>> /\ want = {}
    /\ jumped = {} /\ gapped = {} /\ outdated = {}

\* The steps within a call of Next.
Step == StepLeaf \/ StepDown \/ StepUp

Next ==
    \/ Fill
    \/ \E r \in Ranges : NewIterator(r[1], r[2]) \/ ReverseIterator(r[1], r[2])
    \/ ReverseRange
    \/ NextClosed \/ InitExits \/ InitStack \/ Resume
    \/ Step
    \/ \E k \in Keys, v \in Values : Insert(k, v)
    \/ \E k \in Keys : Remove(k)

\* A call of Next that is under way goes on: it waits for nobody.
Spec == Init /\ [][Next]_vars /\ WF_vars(Step)

-----------------------------------------------------------------------------
\* The type invariant.
TypeOK ==
    /\ root \in DOMAIN heap \cup {Nil}
    /\ \A p \in DOMAIN heap :
          IF heap[p].isLeaf THEN heap[p] \in Leaves
          ELSE \A b \in DOMAIN heap[p].kids : b \in Byte /\ heap[p].kids[b] \in DOMAIN heap
    /\ it \in Iterators \cup {Nil}
    /\ it # Nil => StackNodes(it) \subseteq {p \in DOMAIN heap : ~heap[p].isLeaf}
    /\ asked \in Intervals \cup {Nil}
    /\ todo \in Seq(Keys) /\ returned \in Seq(Keys)
    /\ {jumped, gapped, outdated} \subseteq SUBSET Keys
    /\ {busy, ok} \subseteq BOOLEAN
    /\ changes \in 0 .. MaxChanges

\* Changes in place through shared bnodes leave the tree that its keys call for:
\* prefixes, bytes, order and kinds are those of a tree built from scratch.
TreeCanonical ==
    root # Nil => Unfold(heap, root) = Canonical(StoredKeys)

\* The leaves of all keys but k.
Others(k) == {lf \in Stored : lf.key # k}

\* What a step of the callers does to the leaves.
MapStep ==
    /\ Fill => Stored' = Others(Head(todo)) \cup {LeafAt([key |-> Head(todo), value |-> Nil])}
    /\ \A k \in Keys, v \in Values :
          Insert(k, v) => Stored' = Others(k) \cup {LeafAt([key |-> k, value |-> v])}
    /\ \A k \in Keys : Remove(k) => Stored' = Others(k)

\* The tree is a map from keys to values, whichever nodes an operation forks,
\* splits, grows, shrinks, lifts or leaves behind: InsertLeaf puts one leaf in the
\* place of any with its key, Remove takes that leaf away, and every other stays.
TreeIsMap == [][MapStep]_vars

\* An iterator that has ended has returned every key of its range that was in
\* the tree from its first call on, whatever was inserted and removed
\* meanwhile, but for those that a split moved behind the curkey of a stack node
\* and those that prev overlooked in a node256: a split or a gap costs no other
\* keys.
NothingLost ==
    it # Nil /\ it.closed =>
        want \subseteq {returned[i] : i \in DOMAIN returned} \cup jumped \cup gapped

\* A reverse iterator has returned the empty key before its i-th key: the cursor
\* is then empty, which inRange takes for a range without upper bound.
Unbounded(i) == it.reverse /\ \E j \in 1 .. i - 1 : returned[j] = <<>>

\* Keys of the range come in the order of the iteration and once, though splits
\* make the iterator go over the same children again, detached nodes lead to
\* keys it has passed, and the cursor, one bound of the range, moves.
InOrder ==
    \A i \in DOMAIN returned :
        ~Unbounded(i) =>
            /\ InInterval(asked, returned[i])
            /\ i > 1 => IF it.reverse THEN Less(returned[i], returned[i - 1])
                        ELSE Less(returned[i - 1], returned[i])

\* What Next returns is stored at that moment with that value.  A node that was
\* detached while the iterator stood on it may still have an old leaf for a key
\* that was changed since then; and for no other key.
ReturnsStored ==
    [][Len(returned') > Len(returned) /\ it'.key \notin outdated =>
          \E lf \in Stored : lf.key = it'.key /\ lf.value = it'.value]_vars

\* Every call of Next returns: the loop of iterate makes progress in every turn,
\* up, down or along a node, on stacks with detached nodes too.
NextReturns == busy ~> ~busy

-----------------------------------------------------------------------------
(* What the documentation says *)

\* tree.go:415: "Iterator starts a traversal over the range [start, end).  Use a
\* nil start to begin with the first key", in either direction, stated of an
\* iterator that has ended on an unchanged tree.
RangeAsDocumented ==
    it # Nil => (it.closed /\ changes = 0 /\ gapped = {} =>
        {returned[i] : i \in DOMAIN returned} =
            {k \in StoredKeys : ~Less(k, asked.lo) /\ (asked.hi = <<>> \/ Less(k, asked.hi))})

=============================================================================
