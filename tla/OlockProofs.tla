---------------------------- MODULE OlockProofs ----------------------------
(***************************************************************************)
(* The properties of Olock for every set of threads and of locks.          *)
(***************************************************************************)
EXTENDS Olock, TLAPS

\* A lock is held, by one thread, exactly while its version is 2 modulo 4;
\* otherwise it is free (0) or free and obsolete (1).
VersionPhase ==
    \A l \in Locks :
        IF \E t \in Threads : l \in held[t] THEN version[l] % 4 = 2
        ELSE version[l] % 4 \in {0, 1}

\* The version of an open read is free, not obsolete and not from the future.
SeenPast ==
    \A t \in Threads : seen[t] # None =>
        /\ seen[t].vers <= version[seen[t].lock]
        /\ seen[t].vers % 4 = 0

\* A value that was read belongs to an open read.
SnapOpen == \A t \in Threads : snap[t] # None => seen[t] # None

\* An increment under way has the lock and the present value.
TmpCurrent ==
    \A t \in Threads : tmp[t] # None =>
        /\ tmp[t].lock \in held[t]
        /\ tmp[t].val = data[tmp[t].lock]

\* The lock a failed read must give back is held, and no increment is under way.
DropHeld == \A t \in Threads : drop[t] # None => drop[t] \in held[t] /\ tmp[t] = None

\* The inductive invariant.
IInv ==
    /\ TypeOK
    /\ VersionPhase
    /\ MutualExclusion
    /\ SeenPast
    /\ SnapOpen
    /\ ReadsValid
    /\ TmpCurrent
    /\ DropHeld
    /\ NoLostUpdate

-----------------------------------------------------------------------------
(* Versions modulo 4: what +2 and +3 do to the two low bits. *)
LEMMA VersionBits ==
    ASSUME NEW v \in Nat
    PROVE  /\ v % 4 \in 0 .. 3
           /\ v % 4 = 0 => (v + 2) % 4 = 2
           /\ v % 4 = 2 => (v + 2) % 4 = 0
           /\ v % 4 = 2 => (v + 3) % 4 = 1
           /\ v % 4 = 0 => v % 2 = 0
           /\ v % 4 = 2 => v % 2 = 0
           /\ v % 4 = 1 => v % 2 = 1
    BY SMT

\* The initial states satisfy the invariant.
LEMMA InitIInv == Init => IInv
<1> SUFFICES ASSUME Init PROVE IInv
    OBVIOUS
<1>1. TypeOK
    BY DEF Init, TypeOK
<1>2. VersionPhase
    BY VersionBits DEF Init, VersionPhase
<1>3. MutualExclusion /\ SeenPast /\ SnapOpen /\ ReadsValid
    BY DEF Init, MutualExclusion, SeenPast, SnapOpen, ReadsValid
<1>4. TmpCurrent /\ DropHeld /\ NoLostUpdate
    BY DEF Init, TmpCurrent, DropHeld, NoLostUpdate
<1> QED
    BY <1>1, <1>2, <1>3, <1>4 DEF IInv

\* RLock: the version it returns is free and not obsolete.
LEMMA RLockIInv ==
    ASSUME IInv, NEW t \in Threads, NEW l \in Locks, RLock(t, l)
    PROVE  IInv'
<1> USE DEF IInv, TypeOK
<1>1. version[l] \in Nat /\ version[l] % 4 = 0
    BY VersionBits DEF RLock, Locked, isObsolete, VersionPhase
<1>2. TypeOK'
    BY DEF RLock, Open
<1>3. VersionPhase' /\ MutualExclusion' /\ TmpCurrent' /\ DropHeld' /\ NoLostUpdate'
    BY DEF RLock, VersionPhase, MutualExclusion, TmpCurrent, DropHeld, NoLostUpdate
<1>4. SeenPast'
    BY <1>1 DEF RLock, SeenPast
<1>5. SnapOpen' /\ ReadsValid'
    BY OlockAssumption DEF RLock, ReadsValid, SnapOpen
<1> QED
    BY <1>2, <1>3, <1>4, <1>5

\* Read: a lock whose version is that of the open read has no writer, so the
\* read is exact.
LEMMA ReadIInv ==
    ASSUME IInv, NEW t \in Threads, Read(t)
    PROVE  IInv'
<1> USE DEF IInv, TypeOK
<1>1. TypeOK'
    <2>1. seen[t] \in Open
        BY DEF Read
    <2>2. PICK x \in Junk \cup {data[seen[t].lock]} : snap' = [snap EXCEPT ![t] = x]
        BY DEF Read
    <2>3. x \in Nat
        BY <2>1, OlockAssumption DEF Open
    <2> QED
        BY <2>2, <2>3 DEF Read
<1>2. VersionPhase' /\ MutualExclusion' /\ SeenPast' /\ TmpCurrent' /\ DropHeld' /\ NoLostUpdate'
    BY DEF Read, VersionPhase, MutualExclusion, SeenPast, TmpCurrent, DropHeld, NoLostUpdate
<1>3. SnapOpen'
    BY DEF Read, SnapOpen
<1>4. ASSUME version[seen[t].lock] = seen[t].vers
      PROVE  snap'[t] = data[seen[t].lock]
    <2>1. seen[t].vers % 4 = 0
        BY DEF Read, SeenPast
    <2> QED
        BY <1>4, <2>1 DEF Read, Locked
<1>5. ReadsValid'
    BY <1>4 DEF Read, ReadsValid
<1> QED
    BY <1>1, <1>2, <1>3, <1>5

\* The end of a read without a write: RUnlock and Restart.
LEMMA CloseIInv ==
    ASSUME IInv, NEW t \in Threads, NEW k \in held[t] \cup {None}, Close(t, k),
           tmp[t] = None, UNCHANGED <<version, data, incs, held, tmp>>
    PROVE  IInv'
<1> USE DEF IInv, TypeOK
<1>1. TypeOK'
    BY DEF Close
<1>2. VersionPhase' /\ MutualExclusion' /\ TmpCurrent' /\ NoLostUpdate'
    BY DEF VersionPhase, MutualExclusion, TmpCurrent, NoLostUpdate
<1>3. SeenPast' /\ SnapOpen' /\ ReadsValid' /\ DropHeld'
    BY DEF Close, SeenPast, SnapOpen, ReadsValid, DropHeld
<1> QED
    BY <1>1, <1>2, <1>3

\* Upgrade: the compare-and-swap succeeds on a free lock only.
LEMMA UpgradeIInv ==
    ASSUME IInv, NEW t \in Threads, Upgrade(t)
    PROVE  IInv'
<1> USE DEF IInv, TypeOK
<1> DEFINE l == seen[t].lock
<1>1. /\ l \in Locks /\ version[l] \in Nat /\ version[l] % 4 = 0
      /\ version' = [version EXCEPT ![l] = version[l] + 2]
      /\ (version[l] + 2) % 4 = 2
    BY VersionBits DEF Upgrade, SeenPast, Open, setLockedBit
<1>2. \A u \in Threads : l \notin held[u]
    BY <1>1 DEF VersionPhase
<1> HIDE DEF l
<1>3. TypeOK'
    BY <1>1 DEF Upgrade, Close, l
<1>4. VersionPhase'
    BY <1>1, <1>2 DEF Upgrade, VersionPhase, l
<1>5. MutualExclusion'
    BY <1>1, <1>2 DEF Upgrade, MutualExclusion, l
<1>6. SeenPast' /\ SnapOpen' /\ ReadsValid'
    BY <1>1, OlockAssumption DEF Upgrade, Close, SeenPast, SnapOpen, ReadsValid, Open
<1>7. TmpCurrent' /\ DropHeld' /\ NoLostUpdate'
    BY OlockAssumption DEF Upgrade, Close, TmpCurrent, DropHeld, NoLostUpdate
<1> QED
    BY <1>3, <1>4, <1>5, <1>6, <1>7

\* Fetch: the first half of an increment reads the present value.
LEMMA FetchIInv ==
    ASSUME IInv, NEW t \in Threads, NEW l \in Locks, Fetch(t, l)
    PROVE  IInv'
<1> USE DEF IInv, TypeOK
<1>1. TypeOK' /\ TmpCurrent'
    BY DEF Fetch, Update, TmpCurrent
<1>2. VersionPhase' /\ MutualExclusion' /\ SeenPast' /\ SnapOpen' /\ ReadsValid'
    BY DEF Fetch, VersionPhase, MutualExclusion, SeenPast, SnapOpen, ReadsValid
<1>3. DropHeld' /\ NoLostUpdate'
    BY DEF Fetch, Free, DropHeld, NoLostUpdate
<1> QED
    BY <1>1, <1>2, <1>3

\* Store: nobody else writes between the halves, so the increment is not lost.
LEMMA StoreIInv ==
    ASSUME IInv, NEW t \in Threads, Store(t)
    PROVE  IInv'
<1> USE DEF IInv, TypeOK
<1> DEFINE l == tmp[t].lock
<1>1. /\ l \in Locks /\ l \in held[t] /\ tmp[t].val = data[l]
      /\ data' = [data EXCEPT ![l] = data[l] + 1]
      /\ version[l] % 4 = 2
    BY DEF Store, TmpCurrent, Update, VersionPhase
<1> HIDE DEF l
<1>2. TypeOK'
    BY <1>1 DEF Store, l
<1>3. VersionPhase' /\ MutualExclusion' /\ SeenPast' /\ SnapOpen' /\ DropHeld'
    BY DEF Store, VersionPhase, MutualExclusion, SeenPast, SnapOpen, DropHeld
<1>4. ReadsValid'
    BY <1>1 DEF Store, ReadsValid, SeenPast, Open
<1>5. TmpCurrent'
    BY <1>1 DEF Store, TmpCurrent, MutualExclusion, Update
<1>6. NoLostUpdate'
    BY <1>1 DEF Store, NoLostUpdate, l
<1> QED
    BY <1>2, <1>3, <1>4, <1>5, <1>6

\* Unlock, UnlockObsolete and Fail: the version leaves the locked phase and
\* passes every version that an open read can have.
LEMMA ReleaseIInv ==
    ASSUME IInv, NEW t \in Threads, NEW l \in held[t], NEW by \in {2, 3},
           Release(t, l, by),
           tmp[t] = None,
           \/ drop[t] = None /\ UNCHANGED drop
           \/ drop' = [drop EXCEPT ![t] = None]
    PROVE  IInv'
<1> USE DEF IInv, TypeOK
<1>1. /\ l \in Locks /\ version[l] \in Nat /\ version[l] % 4 = 2
      /\ version' = [version EXCEPT ![l] = version[l] + by]
      /\ (version[l] + by) % 4 \in {0, 1}
    BY VersionBits DEF Release, VersionPhase
<1>2. \A u \in Threads \ {t} : l \notin held[u]
    BY DEF MutualExclusion
<1>3. TypeOK'
    BY <1>1 DEF Release
<1>4. VersionPhase'
    BY <1>1, <1>2 DEF Release, VersionPhase
<1>5. MutualExclusion'
    BY DEF Release, MutualExclusion
<1>6. \A u \in Threads : seen[u] # None /\ seen[u].lock = l =>
          seen[u].vers \in Nat /\ seen[u].vers < version'[l]
    BY <1>1 DEF SeenPast, Open
<1>7. SeenPast' /\ SnapOpen'
    BY <1>1, <1>6 DEF Release, SeenPast, SnapOpen, Open
<1>8. ReadsValid'
    BY <1>1, <1>6 DEF Release, ReadsValid, Open
<1>9. TmpCurrent' /\ DropHeld' /\ NoLostUpdate'
    BY <1>2 DEF Release, TmpCurrent, DropHeld, NoLostUpdate
<1> QED
    BY <1>3, <1>4, <1>5, <1>7, <1>8, <1>9

\* Every step preserves the invariant.
LEMMA NextIInv == IInv /\ [Next]_vars => IInv'
<1> SUFFICES ASSUME IInv, [Next]_vars PROVE IInv'
    OBVIOUS
<1>1. CASE UNCHANGED vars
    BY <1>1 DEF vars, IInv, TypeOK, VersionPhase, MutualExclusion, SeenPast, SnapOpen,
                ReadsValid, TmpCurrent, DropHeld, NoLostUpdate
<1>2. CASE Next
    <2>1. PICK t \in Threads :
            \/ Read(t) \/ RUnlock(t) \/ Upgrade(t) \/ Store(t) \/ Fail(t)
            \/ \E locked \in Locks \cup {None} : Restart(t, locked)
            \/ \E l \in Locks :
                  RLock(t, l) \/ Fetch(t, l) \/ Unlock(t, l) \/ UnlockObsolete(t, l)
        BY <1>2 DEF Next
    <2>2. CASE Read(t)
        BY <2>2, ReadIInv
    <2>3. CASE RUnlock(t)
        BY <2>3, CloseIInv DEF RUnlock, Free
    <2>4. CASE Upgrade(t)
        BY <2>4, UpgradeIInv
    <2>5. CASE Store(t)
        BY <2>5, StoreIInv
    <2>6. CASE Fail(t)
        <3>1. drop[t] \in held[t]
            BY <2>6 DEF Fail, IInv, DropHeld
        <3>2. tmp[t] = None
            BY <2>6 DEF Fail, IInv, DropHeld
        <3> QED
            BY <2>6, <3>1, <3>2, ReleaseIInv DEF Fail
    <2>7. ASSUME NEW locked \in Locks \cup {None}, Restart(t, locked)
          PROVE  IInv'
        BY <2>7, CloseIInv DEF Restart, Free
    <2>8. ASSUME NEW l \in Locks,
                 RLock(t, l) \/ Fetch(t, l) \/ Unlock(t, l) \/ UnlockObsolete(t, l)
          PROVE  IInv'
        <3>1. CASE RLock(t, l)
            BY <3>1, RLockIInv
        <3>2. CASE Fetch(t, l)
            BY <3>2, FetchIInv
        <3>3. CASE Unlock(t, l)
            BY <3>3, ReleaseIInv DEF Unlock, Free
        <3>4. CASE UnlockObsolete(t, l)
            BY <3>4, ReleaseIInv DEF UnlockObsolete, Free
        <3> QED
            BY <2>8, <3>1, <3>2, <3>3, <3>4
    <2> QED
        BY <2>1, <2>2, <2>3, <2>4, <2>5, <2>6, <2>7, <2>8
<1> QED
    BY <1>1, <1>2

\* The invariant holds in every reachable state.
THEOREM Invariance == Spec => []IInv
<1> QED
    BY InitIInv, NextIInv, PTL DEF Spec

-----------------------------------------------------------------------------
\* Type correctness.
THEOREM TypeCorrect == Spec => []TypeOK
<1>1. IInv => TypeOK
    BY DEF IInv
<1> QED
    BY Invariance, <1>1, PTL

\* The locked bit is set exactly while a thread holds the lock.
THEOREM LockBitCorrect == Spec => []LockBit
<1>1. IInv => LockBit
    BY VersionBits DEF IInv, TypeOK, VersionPhase, LockBit, Locked
<1> QED
    BY Invariance, <1>1, PTL

\* No two threads hold the same lock.
THEOREM MutualExclusionHolds == Spec => []MutualExclusion
<1>1. IInv => MutualExclusion
    BY DEF IInv
<1> QED
    BY Invariance, <1>1, PTL

\* A read that RUnlock or Upgrade accepts has seen the present value.
THEOREM ReadsValidHolds == Spec => []ReadsValid
<1>1. IInv => ReadsValid
    BY DEF IInv
<1> QED
    BY Invariance, <1>1, PTL

\* No increment is lost.
THEOREM NoLostUpdateHolds == Spec => []NoLostUpdate
<1>1. IInv => NoLostUpdate
    BY DEF IInv
<1> QED
    BY Invariance, <1>1, PTL

\* An obsolete object never changes again.
THEOREM ObsoleteForeverHolds == Spec => ObsoleteForever
<1> DEFINE Frozen == \A l \in Locks : isObsolete(version[l]) =>
                        version'[l] = version[l] /\ data'[l] = data[l]
<1>1. ASSUME IInv, [Next]_vars PROVE [Frozen]_vars
    <2> SUFFICES ASSUME Next, NEW l \in Locks, isObsolete(version[l])
                 PROVE  version'[l] = version[l] /\ data'[l] = data[l]
        BY <1>1
    <2>1. version[l] % 4 = 1 /\ \A u \in Threads : l \notin held[u]
        <3>1. version[l] \in Nat
            BY <1>1 DEF IInv, TypeOK
        <3>2. version[l] % 4 # 0 /\ version[l] % 4 # 2
            BY <3>1, VersionBits DEF isObsolete
        <3> QED
            BY <1>1, <3>2 DEF IInv, VersionPhase
    <2>2. \A u \in Threads : /\ seen[u] # None /\ seen[u].lock = l => seen[u].vers # version[l]
                             /\ tmp[u] # None => tmp[u].lock # l
                             /\ drop[u] # l
        BY <1>1, <2>1, OlockAssumption DEF IInv, SeenPast, TmpCurrent, DropHeld
    <2>3. PICK t \in Threads :
            \/ Read(t) \/ RUnlock(t) \/ Upgrade(t) \/ Store(t) \/ Fail(t)
            \/ \E locked \in Locks \cup {None} : Restart(t, locked)
            \/ \E k \in Locks :
                  RLock(t, k) \/ Fetch(t, k) \/ Unlock(t, k) \/ UnlockObsolete(t, k)
        BY DEF Next
    <2>4. version \in [Locks -> Nat] /\ data \in [Locks -> Nat]
        BY <1>1 DEF IInv, TypeOK
    <2>5. CASE Upgrade(t) \/ Store(t) \/ Fail(t)
        <3>1. CASE Upgrade(t)
            BY <3>1, <2>2, <2>4 DEF Upgrade
        <3>2. CASE Store(t)
            BY <3>2, <2>2, <2>4 DEF Store
        <3>3. CASE Fail(t)
            BY <3>3, <2>2, <2>4 DEF Fail, Release
        <3> QED
            BY <2>5, <3>1, <3>2, <3>3
    <2>6. CASE Read(t) \/ RUnlock(t) \/ \E locked \in Locks \cup {None} : Restart(t, locked)
        BY <2>6 DEF Read, RUnlock, Restart
    <2>7. ASSUME NEW k \in Locks,
                 RLock(t, k) \/ Fetch(t, k) \/ Unlock(t, k) \/ UnlockObsolete(t, k)
          PROVE  version'[l] = version[l] /\ data'[l] = data[l]
        BY <2>7, <2>1, <2>4 DEF RLock, Fetch, Unlock, UnlockObsolete, Release
    <2> QED
        BY <2>3, <2>5, <2>6, <2>7
<1> QED
    BY Invariance, <1>1, PTL DEF Spec, ObsoleteForever

=============================================================================
