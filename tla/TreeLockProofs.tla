--------------------------- MODULE TreeLockProofs ---------------------------
(***************************************************************************)
(* The safety properties of TreeLock for every set of goroutines, of keys  *)
(* and of methods they call.                                               *)
(***************************************************************************)
EXTENDS TreeLock, FiniteSetTheorems, TLAPS

\* The writer that holds the inner mutex is the one past Lock, and it is
\* announced as long as it holds it.
WriterHolds ==
    /\ \A g \in Goroutines : pc[g] \in Writing \cup {"drain"} <=> wmutex = g
    /\ announced <=> wmutex # None

\* Outside the readers' part of a method nobody has a read lock, inside it
\* everybody has one.
ReadPhase ==
    \A g \in Goroutines :
        /\ pc[g] \in {"idle", "lock", "drain", "peek"} \cup Writing => rlocks[g] = 0
        /\ pc[g] \in {"root", "size", "runlock"} => rlocks[g] > 0

\* While somebody writes there are no read locks.
NoReaders ==
    \A g \in Goroutines : pc[g] \in Writing => \A h \in Goroutines : rlocks[h] = 0

\* size counts the keys and the leaves that were inserted again, and lags by one
\* between the two changes of a writer.
SizePhase ==
    /\ IsFiniteSet(tree)
    /\ Settled => size = Cardinality(tree) + reins
    /\ \A g \in Goroutines : pc[g] = "grow"   => size = Cardinality(tree) + reins - 1
    /\ \A g \in Goroutines : pc[g] = "shrink" => size = Cardinality(tree) + reins + 1

\* The keys a reader has seen are still those of the tree when it reads size.
ViewCurrent == \A g \in Goroutines : pc[g] = "size" => view[g].keys = tree

\* The part of the inductive invariant about the lock ...
LockInv == TypeOK /\ WriterHolds /\ ReadPhase /\ NoReaders

\* ... and the whole of it.
IInv == LockInv /\ SizePhase /\ ViewCurrent /\ ConsistentView

-----------------------------------------------------------------------------
\* The initial states satisfy the invariant.
LEMMA InitIInv == Init => IInv
<1> SUFFICES ASSUME Init PROVE IInv
    OBVIOUS
<1>1. TypeOK
    <2>1. NoView \in [keys : SUBSET Keys, size : Int]
        BY DEF NoView
    <2>2. view \in [Goroutines -> [keys : SUBSET Keys, size : Int]]
        BY <2>1 DEF Init
    <2>3. stale \in BOOLEAN /\ announced \in BOOLEAN
        BY DEF Init
    <2>4. /\ pc \in [Goroutines -> PCs] /\ op \in [Goroutines -> Ops \cup {"none"}]
          /\ rlocks \in [Goroutines -> Nat]
        BY DEF Init, PCs
    <2>5. /\ tree \in SUBSET Keys /\ size \in Int /\ wmutex \in Goroutines \cup {None}
          /\ reins \in 0 .. MaxReins
        BY TreeLockAssumption DEF Init
    <2> QED
        BY <2>2, <2>3, <2>4, <2>5 DEF TypeOK
<1>2. WriterHolds /\ ReadPhase /\ NoReaders
    BY TreeLockAssumption DEF Init, WriterHolds, ReadPhase, NoReaders, Writing
<1>3. SizePhase
    BY FS_EmptySet DEF Init, SizePhase, Settled
<1>4. ViewCurrent /\ ConsistentView
    BY DEF Init, ViewCurrent, ConsistentView
<1> QED
    BY <1>1, <1>2, <1>3, <1>4 DEF IInv, LockInv

\* A writer is alone: the lock part of the invariant implies WriterAlone.
LEMMA LockInvAlone == LockInv => WriterAlone
    BY TreeLockAssumption DEF LockInv, WriterHolds, NoReaders, WriterAlone

\* A step that leaves tree, size, view and the lock alone, and takes a goroutine
\* between two places of the same phase.
LEMMA MoveIInv ==
    ASSUME IInv, NEW g \in Goroutines, NEW l \in PCs, Goto(g, l),
           UNCHANGED <<view, shared, lock>>, op' \in [Goroutines -> Ops \cup {"none"}],
           l \notin Writing \cup {"drain", "size", "runlock"},
           pc[g] \notin Writing \cup {"drain"},
           l \in {"idle", "lock", "peek"} => rlocks[g] = 0,
           l = "root" => rlocks[g] > 0
    PROVE  IInv'
<1> USE DEF IInv, LockInv, Goto, shared, lock
<1>1. TypeOK'
    BY DEF TypeOK
<1>2. WriterHolds' /\ NoReaders'
    BY DEF TypeOK, WriterHolds, NoReaders, Writing
<1>3. ReadPhase'
    BY DEF TypeOK, ReadPhase, Writing
<1>4. SizePhase'
    BY DEF TypeOK, SizePhase, Settled, Writing
<1>5. \A h \in Goroutines : /\ pc'[h] \in {"size", "runlock"} => pc'[h] = pc[h]
                            /\ pc'[h] \in {"grow", "shrink"} => pc'[h] = pc[h]
    BY DEF TypeOK, Writing
<1>6. Settled => Settled'
    BY <1>5 DEF Settled
<1>7. ViewCurrent'
    BY <1>5 DEF ViewCurrent
<1>8. ConsistentView'
    BY <1>5, <1>6 DEF ConsistentView
<1> QED
    BY <1>1, <1>2, <1>3, <1>4, <1>7, <1>8

\* The steps that only move a goroutine: Call, Nested, AtPanics and Peek.
LEMMA QuietIInv ==
    ASSUME IInv, NEW g \in Goroutines,
           \/ \E o \in Ops : Call(g, o)
           \/ Nested(g) \/ AtPanics(g) \/ Peek(g)
    PROVE  IInv'
<1>1. CASE \E o \in Ops : Call(g, o)
    <2>1. PICK o \in Ops : Call(g, o)
        BY <1>1
    <2>2. op' \in [Goroutines -> Ops \cup {"none"}]
        BY <2>1 DEF Call, IInv, LockInv, TypeOK
    <2>3. rlocks[g] = 0
        BY <2>1 DEF Call, IInv, LockInv, ReadPhase
    <2>4. CASE o \in {"Insert", "Remove"}
        BY <2>1, <2>2, <2>3, <2>4, MoveIInv DEF Call, PCs, Writing
    <2>5. CASE o \notin {"Insert", "Remove"}
        BY <2>1, <2>2, <2>3, <2>5, MoveIInv DEF Call, PCs, Writing
    <2> QED
        BY <2>4, <2>5
<1>2. CASE Nested(g)
    BY <1>2, MoveIInv DEF Nested, PCs, Writing, IInv, LockInv, TypeOK
<1>3. CASE AtPanics(g)
    BY <1>3, MoveIInv DEF AtPanics, PCs, Writing, IInv, LockInv, TypeOK
<1>4. CASE Peek(g)
    <2>1. rlocks[g] = 0 /\ op' \in [Goroutines -> Ops \cup {"none"}]
        BY <1>4 DEF Peek, Forget, IInv, LockInv, TypeOK, ReadPhase
    <2> QED
        BY <1>4, <2>1, MoveIInv DEF Peek, PCs, Writing, IInv, LockInv, TypeOK
<1> QED
    BY <1>1, <1>2, <1>3, <1>4

\* Lock: the inner mutex was free, so nobody writes.
LEMMA LockIInv ==
    ASSUME IInv, NEW g \in Goroutines, Lock(g)
    PROVE  IInv'
<1> USE DEF IInv, LockInv, Lock, Goto, shared
<1>1. TypeOK'
    BY DEF TypeOK, PCs
<1>2. WriterHolds'
    BY TreeLockAssumption DEF TypeOK, WriterHolds, Writing
<1>3. ReadPhase' /\ NoReaders'
    BY DEF TypeOK, ReadPhase, NoReaders, Writing
<1>4. SizePhase'
    BY DEF TypeOK, SizePhase, Settled
<1>5. ViewCurrent' /\ ConsistentView'
    BY DEF TypeOK, ViewCurrent, ConsistentView, Settled
<1> QED
    BY <1>1, <1>2, <1>3, <1>4, <1>5

\* Drain: the last reader has left, and a new one waits because of announced.
LEMMA DrainIInv ==
    ASSUME IInv, NEW g \in Goroutines, Drain(g)
    PROVE  IInv'
<1> USE DEF IInv, LockInv, Drain, Goto, shared, lock
<1>1. TypeOK'
    BY DEF TypeOK, PCs, Writing
<1>2. WriterHolds' /\ ReadPhase' /\ NoReaders'
    BY DEF TypeOK, WriterHolds, ReadPhase, NoReaders, Writing
<1>3. SizePhase'
    BY DEF TypeOK, SizePhase, Settled
<1>4. ViewCurrent' /\ ConsistentView'
    BY DEF TypeOK, ViewCurrent, ConsistentView, Settled
<1> QED
    BY <1>1, <1>2, <1>3, <1>4

\* A writer's step inside the lock: the part of the invariant about the lock.
LEMMA WriteLockInv ==
    ASSUME LockInv, NEW g \in Goroutines, pc[g] \in Writing,
           NEW l \in Writing, Goto(g, l), UNCHANGED <<op, view, lock>>,
           tree' \in SUBSET Keys, size' \in Int, stale' \in BOOLEAN,
           reins' \in 0 .. MaxReins
    PROVE  /\ LockInv'
           /\ ConsistentView'
           /\ ViewCurrent'
           /\ \A h \in Goroutines : h # g => pc[h] \notin Writing /\ pc'[h] = pc[h]
           /\ pc'[g] = l
<1> USE DEF LockInv, Goto, lock
<1>1. TypeOK'
    BY DEF TypeOK, PCs, Writing
<1>2. WriterHolds' /\ ReadPhase' /\ NoReaders'
    BY DEF TypeOK, WriterHolds, ReadPhase, NoReaders, Writing
<1>3. \A h \in Goroutines : pc'[h] \notin {"size", "runlock"}
    BY DEF TypeOK, ReadPhase, NoReaders, Writing
<1>4. ConsistentView'
    BY <1>3 DEF ConsistentView
<1>5. ViewCurrent'
    BY <1>3 DEF ViewCurrent
<1>6. \A h \in Goroutines : h # g => pc[h] \notin Writing /\ pc'[h] = pc[h]
    BY DEF TypeOK, WriterHolds
<1>7. pc'[g] = l
    BY DEF TypeOK
<1> QED
    BY <1>1, <1>2, <1>4, <1>5, <1>6, <1>7

\* InsertNode: the key goes in, size does not know yet.
LEMMA InsertIInv ==
    ASSUME IInv, NEW g \in Goroutines, NEW k \in Keys, InsertNode(g, k)
    PROVE  IInv'
<1> USE DEF IInv
<1> DEFINE l == IF k \in tree THEN "unlock" ELSE "grow"
<1>1. /\ pc[g] \in Writing /\ l \in Writing /\ Goto(g, l)
      /\ UNCHANGED <<op, view, lock>>
      /\ tree' \in SUBSET Keys /\ size' \in Int /\ stale' \in BOOLEAN
      /\ reins' \in 0 .. MaxReins
    BY DEF InsertNode, LockInv, TypeOK, Writing
<1> HIDE DEF l
<1>2. /\ LockInv' /\ ConsistentView' /\ ViewCurrent' /\ pc'[g] = l
      /\ \A h \in Goroutines : h # g => pc[h] \notin Writing /\ pc'[h] = pc[h]
    BY <1>1, WriteLockInv
<1>3. size = Cardinality(tree) + reins /\ size' = size /\ reins' = reins /\ reins \in Nat
    BY <1>2 DEF InsertNode, SizePhase, Settled, Writing, LockInv, TypeOK
<1>4. /\ IsFiniteSet(tree')
      /\ Cardinality(tree') = IF k \in tree THEN Cardinality(tree) ELSE Cardinality(tree) + 1
      /\ Cardinality(tree) \in Nat
    BY FS_AddElement, FS_CardinalityType DEF InsertNode, SizePhase
<1>5. SizePhase'
    BY <1>2, <1>3, <1>4 DEF SizePhase, Settled, Writing, l
<1> QED
    BY <1>2, <1>5

\* ReinsertNode: the leaf will be counted once more.
LEMMA ReinsertIInv ==
    ASSUME IInv, NEW g \in Goroutines, NEW k \in Keys, ReinsertNode(g, k)
    PROVE  IInv'
<1> USE DEF IInv
<1>1. /\ pc[g] \in Writing /\ "grow" \in Writing /\ Goto(g, "grow")
      /\ UNCHANGED <<op, view, lock>>
      /\ tree' \in SUBSET Keys /\ size' \in Int /\ stale' \in BOOLEAN
      /\ reins' \in 0 .. MaxReins
    BY TreeLockAssumption DEF ReinsertNode, LockInv, TypeOK, Writing
<1>2. /\ LockInv' /\ ConsistentView' /\ ViewCurrent' /\ pc'[g] = "grow"
      /\ \A h \in Goroutines : h # g => pc[h] \notin Writing /\ pc'[h] = pc[h]
    BY <1>1, WriteLockInv
<1>3. /\ size = Cardinality(tree) + reins
      /\ size' = size /\ tree' = tree /\ reins' = reins + 1 /\ reins \in Nat
    BY <1>2 DEF ReinsertNode, SizePhase, Settled, Writing, LockInv, TypeOK
<1>4. Cardinality(tree) \in Nat
    BY FS_CardinalityType DEF SizePhase
<1>5. SizePhase'
    BY <1>2, <1>3, <1>4 DEF SizePhase, Settled, Writing
<1> QED
    BY <1>2, <1>5

\* RemoveNode: the key goes out, size does not know yet.
LEMMA RemoveIInv ==
    ASSUME IInv, NEW g \in Goroutines, NEW k \in Keys, RemoveNode(g, k)
    PROVE  IInv'
<1> USE DEF IInv
<1> DEFINE l == IF k \in tree THEN "shrink" ELSE "unlock"
<1>1. /\ pc[g] \in Writing /\ l \in Writing /\ Goto(g, l)
      /\ UNCHANGED <<op, view, lock>>
      /\ tree' \in SUBSET Keys /\ size' \in Int /\ stale' \in BOOLEAN
      /\ reins' \in 0 .. MaxReins
    BY DEF RemoveNode, LockInv, TypeOK, Writing
<1> HIDE DEF l
<1>2. /\ LockInv' /\ ConsistentView' /\ ViewCurrent' /\ pc'[g] = l
      /\ \A h \in Goroutines : h # g => pc[h] \notin Writing /\ pc'[h] = pc[h]
    BY <1>1, WriteLockInv
<1>3. size = Cardinality(tree) + reins /\ size' = size /\ reins' = reins /\ reins \in Nat
    BY <1>2 DEF RemoveNode, SizePhase, Settled, Writing, LockInv, TypeOK
<1>4. /\ IsFiniteSet(tree')
      /\ Cardinality(tree') = IF k \in tree THEN Cardinality(tree) - 1 ELSE Cardinality(tree)
      /\ Cardinality(tree) \in Nat
    BY FS_RemoveElement, FS_CardinalityType DEF RemoveNode, SizePhase
<1>5. SizePhase'
    BY <1>2, <1>3, <1>4 DEF SizePhase, Settled, Writing, l
<1> QED
    BY <1>2, <1>5

\* CountNode: size catches up with the tree.
LEMMA CountIInv ==
    ASSUME IInv, NEW g \in Goroutines, CountNode(g)
    PROVE  IInv'
<1> USE DEF IInv
<1>1. /\ pc[g] \in Writing /\ "unlock" \in Writing /\ Goto(g, "unlock")
      /\ UNCHANGED <<op, view, lock>>
      /\ tree' \in SUBSET Keys /\ size' \in Int /\ stale' \in BOOLEAN
      /\ reins' \in 0 .. MaxReins
    BY DEF CountNode, LockInv, TypeOK, Writing
<1>2. /\ LockInv' /\ ConsistentView' /\ ViewCurrent' /\ pc'[g] = "unlock"
      /\ \A h \in Goroutines : h # g => pc[h] \notin Writing /\ pc'[h] = pc[h]
    BY <1>1, WriteLockInv
<1>3. size' = Cardinality(tree) + reins /\ tree' = tree /\ reins' = reins
    <2>1. Cardinality(tree) \in Nat /\ reins \in Int
        BY FS_CardinalityType DEF SizePhase, LockInv, TypeOK
    <2>2. CASE pc[g] = "grow"
        BY <2>1, <2>2 DEF CountNode, SizePhase
    <2>3. CASE pc[g] = "shrink"
        BY <2>1, <2>3 DEF CountNode, SizePhase
    <2> QED
        BY <2>2, <2>3 DEF CountNode
<1>4. SizePhase'
    BY <1>2, <1>3 DEF SizePhase, Settled, Writing
<1> QED
    BY <1>2, <1>4

\* Unlock: nobody has a read lock, and the readers that wait get one.
LEMMA UnlockIInv ==
    ASSUME IInv, NEW g \in Goroutines, Unlock(g)
    PROVE  IInv'
<1> USE DEF IInv, LockInv, Unlock, Forget, shared
<1>1. TypeOK'
    <2>1. pc' \in [Goroutines -> PCs]
        BY DEF TypeOK, PCs
    <2>2. rlocks' \in [Goroutines -> Nat]
        BY DEF TypeOK
    <2>3. announced' \in BOOLEAN /\ wmutex' \in Goroutines \cup {None}
        OBVIOUS
    <2> QED
        BY <2>1, <2>2, <2>3 DEF TypeOK
<1>2. WriterHolds'
    BY TreeLockAssumption DEF TypeOK, WriterHolds, Writing
<1>3. ReadPhase'
    BY DEF TypeOK, ReadPhase, NoReaders, Writing
<1>4. \A h \in Goroutines : pc'[h] \notin Writing
    BY DEF WriterHolds, Writing
<1>5. NoReaders'
    BY <1>4 DEF NoReaders
<1>6. \A h \in Goroutines : pc[h] \notin {"grow", "shrink"}
    BY DEF WriterHolds, Writing
<1>7. SizePhase'
    BY <1>4, <1>6 DEF SizePhase, Settled, Writing
<1>8. ViewCurrent' /\ ConsistentView'
    BY DEF TypeOK, ViewCurrent, ConsistentView, Settled
<1> QED
    BY <1>1, <1>2, <1>3, <1>5, <1>7, <1>8

\* RLock: a reader enters only while no writer is announced.
LEMMA RLockIInv ==
    ASSUME IInv, NEW g \in Goroutines, RLock(g)
    PROVE  IInv'
<1>1. CASE announced
    BY <1>1, MoveIInv DEF RLock, PCs, Writing, IInv, LockInv, TypeOK, lock, shared
<1>2. CASE ~announced
    <2> USE <1>2 DEF IInv, LockInv, RLock, Goto, shared
    <2>1. TypeOK'
        BY DEF TypeOK, PCs
    <2>2. \A h \in Goroutines : pc[h] \notin Writing
        BY TreeLockAssumption DEF WriterHolds
    <2>3. WriterHolds' /\ NoReaders'
        BY <2>2 DEF TypeOK, WriterHolds, NoReaders, Writing
    <2>4. ReadPhase'
        BY DEF TypeOK, ReadPhase, Writing
    <2>5. SizePhase'
        BY DEF TypeOK, SizePhase, Settled
    <2>6. ViewCurrent' /\ ConsistentView'
        BY DEF TypeOK, ViewCurrent, ConsistentView, Settled
    <2> QED
        BY <2>1, <2>3, <2>4, <2>5, <2>6
<1> QED
    BY <1>1, <1>2

\* ReadRoot and ReadSize: the reader's lock keeps writers out between the two,
\* so both come from the same tree.
LEMMA ReadIInv ==
    ASSUME IInv, NEW g \in Goroutines, ReadRoot(g) \/ ReadSize(g)
    PROVE  IInv'
<1> USE DEF IInv, LockInv, Goto, shared, lock
<1> DEFINE l == IF pc[g] = "root" THEN "size" ELSE "runlock"
<1>1. Goto(g, l) /\ pc[g] \in {"root", "size"} /\ UNCHANGED <<op, shared, lock>>
    BY DEF ReadRoot, ReadSize
<1>2. \A h \in Goroutines : pc[h] \notin Writing
    BY <1>1 DEF TypeOK, ReadPhase, NoReaders
<1>3. /\ \A h \in Goroutines : h # g => view'[h] = view[h]
      /\ ReadRoot(g) => view'[g].keys = tree
      /\ ReadSize(g) => view'[g].keys = view[g].keys /\ view'[g].size = size
    BY DEF ReadRoot, ReadSize, TypeOK
<1>4. TypeOK'
    <2>1. view' \in [Goroutines -> [keys : SUBSET Keys, size : Int]]
        <3>1. CASE ReadRoot(g)
            BY <3>1 DEF ReadRoot, TypeOK
        <3>2. CASE ReadSize(g)
            BY <3>2 DEF ReadSize, TypeOK
        <3> QED
            BY <3>1, <3>2
    <2> QED
        BY <1>1, <2>1 DEF TypeOK, PCs
<1>5. WriterHolds' /\ ReadPhase' /\ NoReaders'
    BY <1>1, <1>2 DEF TypeOK, WriterHolds, ReadPhase, NoReaders, Writing
<1>6. SizePhase'
    BY <1>1 DEF TypeOK, SizePhase, Settled
<1>7. ViewCurrent'
    BY <1>1, <1>3 DEF ReadRoot, ReadSize, TypeOK, ViewCurrent
<1>8. Settled'
    BY <1>1, <1>2 DEF Settled, Writing, TypeOK
<1>9. ConsistentView'
    BY <1>1, <1>3, <1>8 DEF ReadRoot, ReadSize, TypeOK, ViewCurrent, ConsistentView, Settled
<1> QED
    BY <1>4, <1>5, <1>6, <1>7, <1>9

\* RUnlock: the reader that gives its last lock back leaves the readers' part.
LEMMA RUnlockIInv ==
    ASSUME IInv, NEW g \in Goroutines, RUnlock(g)
    PROVE  IInv'
<1> USE DEF IInv, LockInv, RUnlock, Goto, Forget, NoView, shared
<1>1. rlocks[g] \in Nat /\ rlocks[g] > 0
    BY DEF TypeOK, ReadPhase
<1>2. TypeOK'
    <2>1. pc' \in [Goroutines -> PCs] /\ rlocks' \in [Goroutines -> Nat]
        BY <1>1 DEF TypeOK, PCs
    <2>2. op' \in [Goroutines -> Ops \cup {"none"}]
        BY DEF TypeOK
    <2>3. view' \in [Goroutines -> [keys : SUBSET Keys, size : Int]]
        <3>1. NoView \in [keys : SUBSET Keys, size : Int]
            OBVIOUS
        <3> HIDE DEF NoView
        <3> QED
            BY <3>1 DEF TypeOK
    <2> QED
        BY <2>1, <2>2, <2>3 DEF TypeOK
<1>3. \A h \in Goroutines : pc[h] \notin Writing
    BY <1>1 DEF TypeOK, NoReaders
<1>4. WriterHolds' /\ NoReaders'
    BY <1>3 DEF TypeOK, WriterHolds, NoReaders, Writing
<1>5. ReadPhase'
    BY <1>1 DEF TypeOK, ReadPhase, Writing
<1>6. SizePhase'
    BY DEF TypeOK, SizePhase, Settled
<1>7. ViewCurrent' /\ ConsistentView'
    BY DEF TypeOK, ViewCurrent, ConsistentView, Settled
<1> QED
    BY <1>2, <1>4, <1>5, <1>6, <1>7

-----------------------------------------------------------------------------
\* Every step preserves the invariant.
LEMMA NextIInv == IInv /\ [Next]_vars => IInv'
<1> SUFFICES ASSUME IInv, [Next]_vars PROVE IInv'
    OBVIOUS
<1>1. CASE Next
    <2>1. PICK g \in Goroutines : (\E o \in Ops : Call(g, o)) \/ Lock(g) \/ Step(g)
        BY <1>1 DEF Next
    <2>2. CASE \E k \in Keys : InsertNode(g, k) \/ ReinsertNode(g, k) \/ RemoveNode(g, k)
        BY <2>2, InsertIInv, ReinsertIInv, RemoveIInv
    <2>3. CASE Lock(g) \/ Drain(g) \/ CountNode(g) \/ Unlock(g)
        BY <2>3, LockIInv, DrainIInv, CountIInv, UnlockIInv
    <2>4. CASE RLock(g) \/ ReadRoot(g) \/ ReadSize(g) \/ RUnlock(g)
        BY <2>4, RLockIInv, ReadIInv, RUnlockIInv
    <2>5. CASE (\E o \in Ops : Call(g, o)) \/ Nested(g) \/ AtPanics(g) \/ Peek(g)
        BY <2>5, QuietIInv
    <2> QED
        BY <2>1, <2>2, <2>3, <2>4, <2>5 DEF Step
<1>2. CASE UNCHANGED vars
    BY <1>2 DEF vars, shared, lock, IInv, LockInv, TypeOK, WriterHolds, ReadPhase,
                NoReaders, SizePhase, Settled, ViewCurrent, ConsistentView
<1> QED
    BY <1>1, <1>2

\* The inductive invariant holds in every state that the calls of Tree's methods
\* on its RWMutex can reach.
THEOREM Invariance == Spec => []IInv
    BY InitIInv, NextIInv, PTL DEF Spec

\* Every variable of the lock and of the tree keeps its type.
THEOREM TypeCorrect == Spec => []TypeOK
<1>1. IInv => TypeOK
    BY DEF IInv, LockInv
<1> QED
    BY <1>1, Invariance, PTL

\* InsertLeaf and Remove run alone: a goroutine past Rwmut.Lock excludes every
\* other writer and every holder of a read lock.
THEOREM WriterAloneHolds == Spec => []WriterAlone
<1>1. IInv => WriterAlone
    BY LockInvAlone DEF IInv
<1> QED
    BY <1>1, Invariance, PTL

\* The root and the size a reader finds under its read lock belong together: they
\* are those of one moment, at which no writer is between its two changes.
THEOREM ConsistentViewHolds == Spec => []ConsistentView
<1>1. IInv => ConsistentView
    BY DEF IInv
<1> QED
    BY <1>1, Invariance, PTL

\* Tree.size counts the keys whenever no writer is between root and size, as long
\* as InsertLeaf was not called with a leaf that was in the tree.
THEOREM SizeRightHolds == Spec => []SizeRight
<1>1. IInv => SizeRight
    <2> SUFFICES ASSUME IInv, Settled, reins = 0 PROVE size = Cardinality(tree)
        BY DEF SizeRight
    <2>1. size = Cardinality(tree) + reins /\ IsFiniteSet(tree)
        BY DEF IInv, SizePhase
    <2> QED
        BY <2>1, FS_CardinalityType
<1> QED
    BY <1>1, Invariance, PTL

=============================================================================
