------------------------------- MODULE Olock -------------------------------
(***************************************************************************)
(* The optimistic lock of optimistic_lock.go.  The whole lock is a version *)
(* number: bit 0 says that the locked object is obsolete, bit 1 that a     *)
(* writer holds the lock, and the bits above count the writers.            *)
(*                                                                         *)
(* Threads use it the way the comments of the file and the integer of      *)
(* optimistic_lock_test.go do: read optimistically between RLock and       *)
(* RUnlock, or turn the read into a write with Upgrade; a version that is  *)
(* obsolete is discarded.  A thread that already holds locks may pass one  *)
(* of them as "locked" to RUnlock and Upgrade, which unlock it when they   *)
(* fail.  Each lock guards a counter.                                      *)
(***************************************************************************)
EXTENDS Integers

CONSTANTS
    Threads,
    Locks,
    None,
    MaxVersion,   \* bound on the version numbers
    Junk          \* values a read that races with a writer may return

ASSUME OlockAssumption ==
    /\ MaxVersion \in Nat
    /\ None \notin Locks
    /\ None \notin Nat
    /\ Junk \subseteq Nat

VARIABLES
    version,   \* olock.version
    data,      \* the counter each lock guards
    incs,      \* the increments done to it
    seen,      \* seen[t]: the lock and version of the open read of t, or None
    snap,      \* snap[t]: the value that t has read since, or None
    held,      \* held[t]: the locks t holds as a writer
    tmp,       \* tmp[t]: the lock and value of an increment under way, or None
    drop       \* drop[t]: the lock t must unlock because its read failed, or None

vars == <<version, data, incs, seen, snap, held, tmp, drop>>

\* version & 2 and version & 1
Locked(v)     == v % 4 \in {2, 3}
isObsolete(v) == v % 2 = 1

\* Mutant of setLockedBit: the wrong bit.
setLowBit(v) == v + 1

setLockedBit(v) == v + 2

Init ==
    /\ version = [l \in Locks |-> 0]
    /\ data = [l \in Locks |-> 0]
    /\ incs = [l \in Locks |-> 0]
    /\ seen = [t \in Threads |-> None]
    /\ snap = [t \in Threads |-> None]
    /\ held = [t \in Threads |-> {}]
    /\ tmp  = [t \in Threads |-> None]
    /\ drop = [t \in Threads |-> None]

\* A thread between two calls.
Free(t) == drop[t] = None /\ tmp[t] = None

\* Mutants of RLock: it does not wait for the writer, ...
RLockNoWait(t, l) ==
    /\ Free(t) /\ seen[t] = None
    /\ l \notin held[t]
    /\ ~isObsolete(version[l])
    /\ seen' = [seen EXCEPT ![t] = [lock |-> l, vers |-> version[l]]]
    /\ UNCHANGED <<version, data, incs, snap, held, tmp, drop>>

\* ... and it does not look at the obsolete bit.
RLockObsolete(t, l) ==
    /\ Free(t) /\ seen[t] = None
    /\ l \notin held[t]
    /\ ~Locked(version[l])
    /\ seen' = [seen EXCEPT ![t] = [lock |-> l, vers |-> version[l]]]
    /\ UNCHANGED <<version, data, incs, snap, held, tmp, drop>>

\* RLock: waitUnlocked spins until the locked bit is clear.  The caller drops an
\* obsolete version and keeps any other.
RLock(t, l) ==
    /\ Free(t) /\ seen[t] = None
    /\ l \notin held[t]
    /\ ~Locked(version[l])
    /\ ~isObsolete(version[l])
    /\ seen' = [seen EXCEPT ![t] = [lock |-> l, vers |-> version[l]]]
    /\ UNCHANGED <<version, data, incs, snap, held, tmp, drop>>

\* A read of the guarded counter.  It takes no lock, so while a writer is in
\* it races with the writer and may see anything.
Read(t) ==
    /\ Free(t) /\ seen[t] # None /\ snap[t] = None
    /\ \E x \in Junk \cup {data[seen[t].lock]} :
          /\ Locked(version[seen[t].lock]) \/ x = data[seen[t].lock]
          /\ snap' = [snap EXCEPT ![t] = x]
    /\ UNCHANGED <<version, data, incs, seen, held, tmp, drop>>

\* The end of an open read; locked is unlocked by Fail if the read failed.
Close(t, locked) ==
    /\ seen' = [seen EXCEPT ![t] = None]
    /\ snap' = [snap EXCEPT ![t] = None]
    /\ drop' = [drop EXCEPT ![t] = locked]

\* RUnlock (and Check) with an unchanged version: the read stands.
RUnlock(t) ==
    /\ Free(t) /\ seen[t] # None
    /\ version[seen[t].lock] = seen[t].vers
    /\ Close(t, None)
    /\ UNCHANGED <<version, data, incs, held, tmp>>

\* RUnlock or Upgrade with a changed version: the read has to be repeated.
Restart(t, locked) ==
    /\ Free(t) /\ seen[t] # None
    /\ version[seen[t].lock] # seen[t].vers
    /\ locked \in held[t] \cup {None}
    /\ Close(t, locked)
    /\ UNCHANGED <<version, data, incs, held, tmp>>

\* Mutant of Upgrade: a store instead of a compare-and-swap.
UpgradeBlind(t) ==
    /\ Free(t) /\ seen[t] # None
    /\ version[seen[t].lock] < MaxVersion
    /\ version' = [version EXCEPT ![seen[t].lock] = setLockedBit(seen[t].vers)]
    /\ held' = [held EXCEPT ![t] = @ \cup {seen[t].lock}]
    /\ Close(t, None)
    /\ UNCHANGED <<data, incs, tmp>>

\* Upgrade: compare-and-swap of the version that was read.  Lock is RLock and
\* Upgrade until both succeed.
Upgrade(t) ==
    /\ Free(t) /\ seen[t] # None
    /\ version[seen[t].lock] = seen[t].vers
    /\ version[seen[t].lock] < MaxVersion
    /\ version' = [version EXCEPT ![seen[t].lock] = setLockedBit(seen[t].vers)]
    /\ held' = [held EXCEPT ![t] = @ \cup {seen[t].lock}]
    /\ Close(t, None)
    /\ UNCHANGED <<data, incs, tmp>>

\* i.value++ of a writer: a read and a write.
Fetch(t, l) ==
    /\ Free(t) /\ seen[t] = None /\ l \in held[t]
    /\ incs[l] < MaxVersion
    /\ tmp' = [tmp EXCEPT ![t] = [lock |-> l, val |-> data[l]]]
    /\ UNCHANGED <<version, data, incs, seen, snap, held, drop>>

Store(t) ==
    /\ tmp[t] # None
    /\ data' = [data EXCEPT ![tmp[t].lock] = tmp[t].val + 1]
    /\ incs' = [incs EXCEPT ![tmp[t].lock] = @ + 1]
    /\ tmp' = [tmp EXCEPT ![t] = None]
    /\ UNCHANGED <<version, seen, snap, held, drop>>

\* Mutant of Release: the bits are cleared, nothing is carried into the count.
ReleaseClears(t, l, by) ==
    /\ version' = [version EXCEPT ![l] = @ - by]
    /\ held' = [held EXCEPT ![t] = @ \ {l}]
    /\ UNCHANGED <<data, incs, seen, snap, tmp>>

\* Add by, and the lock is no longer held.
Release(t, l, by) ==
    /\ version' = [version EXCEPT ![l] = @ + by]
    /\ held' = [held EXCEPT ![t] = @ \ {l}]
    /\ UNCHANGED <<data, incs, seen, snap, tmp>>

\* Unlock clears the locked bit and carries into the count.
Unlock(t, l) ==
    /\ Free(t) /\ seen[t] = None /\ l \in held[t]
    /\ Release(t, l, 2)
    /\ UNCHANGED drop

\* UnlockObsolete also sets the obsolete bit.
UnlockObsolete(t, l) ==
    /\ Free(t) /\ seen[t] = None /\ l \in held[t]
    /\ Release(t, l, 3)
    /\ UNCHANGED drop

\* locked.Unlock() of a failed RUnlock or Upgrade.
Fail(t) ==
    /\ drop[t] # None
    /\ Release(t, drop[t], 2)
    /\ drop' = [drop EXCEPT ![t] = None]

Next ==
    \E t \in Threads :
        \/ Read(t) \/ RUnlock(t) \/ Upgrade(t) \/ Store(t) \/ Fail(t)
        \/ \E locked \in Locks \cup {None} : Restart(t, locked)
        \/ \E l \in Locks :
              RLock(t, l) \/ Fetch(t, l) \/ Unlock(t, l) \/ UnlockObsolete(t, l)

Spec == Init /\ [][Next]_vars

-----------------------------------------------------------------------------
Open   == [lock : Locks, vers : Nat]
Update == [lock : Locks, val : Nat]

\* The type invariant.
TypeOK ==
    /\ version \in [Locks -> Nat]
    /\ data \in [Locks -> Nat]
    /\ incs \in [Locks -> Nat]
    /\ seen \in [Threads -> Open \cup {None}]
    /\ snap \in [Threads -> Nat \cup {None}]
    /\ held \in [Threads -> SUBSET Locks]
    /\ tmp \in [Threads -> Update \cup {None}]
    /\ drop \in [Threads -> Locks \cup {None}]

\* The locked bit tells the truth: it is set exactly while some thread has
\* upgraded and not yet unlocked, although +2 and +3 are plain additions that
\* no check protects.
LockBit == \A l \in Locks : Locked(version[l]) <=> \E t \in Threads : l \in held[t]

\* At most one writer per lock, through Upgrade, Unlock, UnlockObsolete and the
\* unlocking of "locked" by a failed RUnlock or Upgrade.
MutualExclusion ==
    \A t, u \in Threads : t # u => held[t] \cap held[u] = {}

\* A read that RUnlock accepts (or that Upgrade builds on) saw the value the
\* object has at that moment, even if writers came and went since RLock and
\* the read raced with one of them.
ReadsValid ==
    \A t \in Threads :
        seen[t] # None /\ snap[t] # None
            => (version[seen[t].lock] = seen[t].vers => snap[t] = data[seen[t].lock])

\* No increment is lost (TestOlockIncrement).
NoLostUpdate == \A l \in Locks : data[l] = incs[l]

\* An obsolete object stays as it is: no thread that read it before can upgrade
\* its version, so neither version nor counter ever change again.
ObsoleteForever ==
    [][\A l \in Locks : isObsolete(version[l]) =>
          version'[l] = version[l] /\ data'[l] = data[l]]_vars

=============================================================================
