------------------------------ MODULE TreeLock ------------------------------
(***************************************************************************)
(* Goroutines that share one Tree (tree.go): the calls of the tree's       *)
(* methods on its sync.RWMutex, and what happens between them.             *)
(*                                                                         *)
(* The tree is the set of its keys and the field size, which an insertion  *)
(* or removal changes one after the other.  Find stands for the readers    *)
(* that take one read lock (Find and its variants, Size, IsEmpty); At      *)
(* (Atv) may panic with the lock held; LeafIndex takes the read lock twice *)
(* over; String (FlatString) goes on reading without the lock.             *)
(*                                                                         *)
(* The RWMutex is Go's: a writer first takes the inner mutex, then         *)
(* announces itself, which makes new readers wait, then waits for the      *)
(* readers that are in; its Unlock lets in all readers that wait.          *)
(***************************************************************************)
EXTENDS Integers, FiniteSets

CONSTANTS
    Goroutines,
    Keys,
    Ops,       \* the methods the goroutines call
    MaxReins,  \* bound on the insertions of a leaf already in the tree
    None

ASSUME TreeLockAssumption ==
    /\ Ops \subseteq {"Insert", "Remove", "Find", "At", "LeafIndex", "String"}
    /\ MaxReins \in Nat
    /\ None \notin Goroutines

VARIABLES
    pc, op,    \* where each goroutine is, in which method
    tree,      \* the keys below Tree.root
    size,      \* Tree.size
    stale,     \* have updates or failed removals spoilt the leaf counts?
    reins,     \* insertions of a leaf already in the tree
    view,      \* view[g]: the keys and the size that g has read
    wmutex,    \* RWMutex: the goroutine that holds the inner mutex, or None
    announced, \* RWMutex: is a writer in or waiting for the readers to leave?
    rlocks     \* RWMutex: the number of read locks of each goroutine

shared == <<tree, size, stale, reins>>
lock   == <<wmutex, announced, rlocks>>
vars   == <<pc, op, view, shared, lock>>

Writing == {"write", "grow", "shrink", "unlock"}
PCs == {"idle", "lock", "drain", "rlock", "rwait", "root", "size", "runlock",
        "peek", "panicked"} \cup Writing

NoView == [keys |-> {}, size |-> 0]

Init ==
    /\ pc = [g \in Goroutines |-> "idle"]
    /\ op = [g \in Goroutines |-> "none"]
    /\ tree = {} /\ size = 0 /\ stale = FALSE /\ reins = 0
    /\ view = [g \in Goroutines |-> NoView]
    /\ wmutex = None /\ announced = FALSE
    /\ rlocks = [g \in Goroutines |-> 0]

Goto(g, l) == pc' = [pc EXCEPT ![g] = l]

\* The method of g is over.
Forget(g) == op' = [op EXCEPT ![g] = "none"]

\* Mutants of Call: a writer does not take the lock, ...
CallWriteUnlocked(g, o) ==
    /\ pc[g] = "idle"
    /\ op' = [op EXCEPT ![g] = o]
    /\ Goto(g, IF o \in {"Insert", "Remove"} THEN "write" ELSE "rlock")
    /\ UNCHANGED <<view, shared, lock>>

\* ... or a reader does not, and unlocks all the same.
CallReadUnlocked(g, o) ==
    /\ pc[g] = "idle"
    /\ op' = [op EXCEPT ![g] = o]
    /\ Goto(g, IF o \in {"Insert", "Remove"} THEN "lock" ELSE "root")
    /\ UNCHANGED <<view, shared, lock>>

\* A goroutine calls a method.
Call(g, o) ==
    /\ pc[g] = "idle"
    /\ op' = [op EXCEPT ![g] = o]
    /\ Goto(g, IF o \in {"Insert", "Remove"} THEN "lock" ELSE "rlock")
    /\ UNCHANGED <<view, shared, lock>>

-----------------------------------------------------------------------------
(* Writers: InsertLeaf and Remove *)

\* Rwmut.Lock: take the inner mutex and announce the writer.
Lock(g) ==
    /\ pc[g] = "lock"
    /\ wmutex = None
    /\ wmutex' = g
    /\ announced' = TRUE
    /\ Goto(g, "drain")
    /\ UNCHANGED <<op, view, shared, rlocks>>

\* Rwmut.Lock returns once the readers have left.
Drain(g) ==
    /\ pc[g] = "drain"
    /\ \A h \in Goroutines : rlocks[h] = 0
    /\ Goto(g, "write")
    /\ UNCHANGED <<op, view, shared, lock>>

\* Mutants of InsertNode: an update returns without unlocking, ...
InsertNodeKeepsLock(g, k) ==
    /\ pc[g] = "write" /\ op[g] = "Insert"
    /\ tree' = tree \cup {k}
    /\ stale' = (stale \/ k \in tree)
    /\ IF k \in tree THEN Goto(g, "idle") /\ Forget(g) ELSE Goto(g, "grow") /\ UNCHANGED op
    /\ UNCHANGED <<view, size, reins, lock>>

\* ... and an update counts as a new key.
InsertNodeCounts(g, k) ==
    /\ pc[g] = "write" /\ op[g] = "Insert"
    /\ tree' = tree \cup {k}
    /\ stale' = (stale \/ k \in tree)
    /\ Goto(g, "grow")
    /\ UNCHANGED <<op, view, size, reins, lock>>

\* InsertLeaf: root.insert of a leaf that is new to the tree, with a new key or
\* as an update.
InsertNode(g, k) ==
    /\ pc[g] = "write" /\ op[g] = "Insert"
    /\ tree' = tree \cup {k}
    /\ stale' = (stale \/ k \in tree)
    /\ Goto(g, IF k \in tree THEN "unlock" ELSE "grow")
    /\ UNCHANGED <<op, view, size, reins, lock>>

\* InsertLeaf of the very *Leaf the tree holds for k: Leaf.insert does not call it
\* an update, so it is counted.
ReinsertNode(g, k) ==
    /\ pc[g] = "write" /\ op[g] = "Insert"
    /\ k \in tree
    /\ reins < MaxReins
    /\ reins' = reins + 1
    /\ stale' = TRUE
    /\ Goto(g, "grow")
    /\ UNCHANGED <<op, view, tree, size, lock>>

\* Remove: root.del; a failed one may leave the counts wrong.
RemoveNode(g, k) ==
    /\ pc[g] = "write" /\ op[g] = "Remove"
    /\ tree' = tree \ {k}
    /\ stale' \in {stale, stale \/ k \notin tree}
    /\ Goto(g, IF k \in tree THEN "shrink" ELSE "unlock")
    /\ UNCHANGED <<op, view, size, reins, lock>>

\* size++ and size--
CountNode(g) ==
    /\ pc[g] \in {"grow", "shrink"}
    /\ size' = IF pc[g] = "grow" THEN size + 1 ELSE size - 1
    /\ Goto(g, "unlock")
    /\ UNCHANGED <<op, view, tree, stale, reins, lock>>

\* The deferred Rwmut.Unlock: the readers that wait hold the lock from now on.
Unlock(g) ==
    /\ pc[g] = "unlock"
    /\ pc' = [h \in Goroutines |->
                IF h = g THEN "idle" ELSE IF pc[h] = "rwait" THEN "root" ELSE pc[h]]
    /\ rlocks' = [h \in Goroutines |->
                    IF pc[h] = "rwait" THEN rlocks[h] + 1 ELSE rlocks[h]]
    /\ announced' = FALSE
    /\ wmutex' = None
    /\ Forget(g)
    /\ UNCHANGED <<view, shared>>

-----------------------------------------------------------------------------
(* Readers *)

\* Rwmut.RLock.  The read lock of LeafIndex is followed by that of FindExact.
RLock(g) ==
    /\ pc[g] = "rlock"
    /\ IF announced
       THEN /\ Goto(g, "rwait")
            /\ UNCHANGED rlocks
       ELSE /\ rlocks' = [rlocks EXCEPT ![g] = @ + 1]
            /\ Goto(g, "root")
    /\ UNCHANGED <<op, view, shared, wmutex, announced>>

\* LeafIndex calls FindExact with the read lock held.
Nested(g) ==
    /\ pc[g] = "root" /\ op[g] = "LeafIndex" /\ rlocks[g] = 1
    /\ Goto(g, "rlock")
    /\ UNCHANGED <<op, view, shared, lock>>

\* Find and At read t.root.
ReadRoot(g) ==
    /\ pc[g] = "root"
    /\ op[g] = "LeafIndex" => rlocks[g] = 2
    /\ view' = [view EXCEPT ![g] = [keys |-> tree, size |-> -1]]
    /\ Goto(g, "size")
    /\ UNCHANGED <<op, shared, lock>>

\* t.root.at(i) dereferences a nil root, or runs out of children because the
\* counts are wrong; no deferred call gives the read lock back.
AtPanics(g) ==
    /\ pc[g] = "root" /\ op[g] = "At"
    /\ tree = {} \/ (stale /\ Cardinality(tree) > 1)
    /\ Goto(g, "panicked")
    /\ UNCHANGED <<op, view, shared, lock>>

\* Find reads t.size and walks down from the root.
ReadSize(g) ==
    /\ pc[g] = "size"
    /\ view' = [view EXCEPT ![g].size = size]
    /\ Goto(g, "runlock")
    /\ UNCHANGED <<op, shared, lock>>

\* Rwmut.RUnlock: LeafIndex has one more to do, String goes on to t.root.
RUnlock(g) ==
    /\ pc[g] = "runlock"
    /\ rlocks' = [rlocks EXCEPT ![g] = @ - 1]
    /\ IF rlocks[g] > 1
       THEN /\ Goto(g, "runlock")
            /\ UNCHANGED <<op, view>>
       ELSE /\ view' = [view EXCEPT ![g] = NoView]
            /\ IF op[g] = "String"
               THEN Goto(g, "peek") /\ UNCHANGED op
               ELSE Goto(g, "idle") /\ Forget(g)
    /\ UNCHANGED <<shared, wmutex, announced>>

\* String and FlatString read t.root and all nodes below without a lock.
Peek(g) ==
    /\ pc[g] = "peek"
    /\ Goto(g, "idle")
    /\ Forget(g)
    /\ UNCHANGED <<view, shared, lock>>

-----------------------------------------------------------------------------
\* A goroutine inside a method.
Step(g) ==
    \/ Drain(g) \/ CountNode(g) \/ Unlock(g)
    \/ \E k \in Keys : InsertNode(g, k) \/ ReinsertNode(g, k) \/ RemoveNode(g, k)
    \/ RLock(g) \/ Nested(g) \/ ReadRoot(g) \/ AtPanics(g) \/ ReadSize(g)
    \/ RUnlock(g) \/ Peek(g)

Next ==
    \E g \in Goroutines :
        \/ \E o \in Ops : Call(g, o)
        \/ Lock(g)
        \/ Step(g)

Spec == Init /\ [][Next]_vars

\* A goroutine that can go on does; the inner mutex is handed to every goroutine
\* that keeps asking for it (sync.Mutex queues waiters that starve).
Fairness == \A g \in Goroutines : WF_vars(Step(g)) /\ SF_vars(Lock(g))

FairSpec == Spec /\ Fairness

-----------------------------------------------------------------------------
\* The type invariant.
TypeOK ==
    /\ pc \in [Goroutines -> PCs]
    /\ op \in [Goroutines -> Ops \cup {"none"}]
    /\ tree \in SUBSET Keys
    /\ size \in Int
    /\ stale \in BOOLEAN
    /\ reins \in 0 .. MaxReins
    /\ view \in [Goroutines -> [keys : SUBSET Keys, size : Int]]
    /\ wmutex \in Goroutines \cup {None}
    /\ announced \in BOOLEAN
    /\ rlocks \in [Goroutines -> Nat]

\* A writer that is in the tree is there alone (tree.go:48-50 "it allows only a
\* single writer at a time, and any number of readers").
WriterAlone ==
    \A g \in Goroutines : pc[g] \in Writing =>
        \A h \in Goroutines : rlocks[h] = 0 /\ (h # g => pc[h] \notin Writing)

\* No writer is between its change of the tree and that of size.
Settled == \A g \in Goroutines : pc[g] \notin {"grow", "shrink"}

\* What a reader has seen until it gives its lock back is the tree and the size
\* of this moment, and no writer is half way (tree.go:51-52 "they see a fully
\* consistent view of the tree"), although the reader takes them in two steps
\* and writers change them in two.
ConsistentView ==
    \A g \in Goroutines :
        pc[g] = "runlock" => Settled /\ view[g] = [keys |-> tree, size |-> size]

\* Whenever no writer is between its two changes, size counts the keys, unless
\* a leaf was inserted again that was in the tree (InsertLeaf counts it twice).
SizeRight == Settled /\ reins = 0 => size = Cardinality(tree)

\* A writer waits for a read lock that nobody will give back: that of an At that
\* panicked, or of a LeafIndex that itself waits for the writer.
Stuck ==
    /\ \E h \in Goroutines : pc[h] = "drain"
    /\ \E h \in Goroutines : pc[h] \in {"panicked", "rwait"} /\ rlocks[h] > 0

\* Every call returns or panics, however the goroutines are scheduled, unless a
\* writer is stuck: a panic of At alone stops no reader and a LeafIndex alone
\* stops nobody, and readers and writers cannot block each other in any
\* other way, nor starve.
CallsReturn ==
    \A g \in Goroutines : pc[g] # "idle" ~> (pc[g] \in {"idle", "panicked"} \/ Stuck)

-----------------------------------------------------------------------------
(* What the documentation says and the code does not do *)

\* tree.go:46-47 "this ART implementation is goroutine safe": a LeafIndex returns.
LeafIndexReturns ==
    \A g \in Goroutines : (pc[g] # "idle" /\ op[g] = "LeafIndex") ~> pc[g] = "idle"

=============================================================================
