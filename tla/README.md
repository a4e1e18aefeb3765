# Verification of the adaptive radix tree

This directory holds TLA+ modules for `github.com/glycerine/art-adaptive-radix-tree`,
an ordered dictionary from byte strings to values in Go. The modules are written
from the Go code. TLC checks them on small instances; TLAPS proves theorems about
the inner nodes, the tree of pointers and the iterators on it, saving and loading, and
the two locks, for all values of the constants. `PROJECT.json` lists components, runs,
mutants, the map from definitions to source lines, findings, hazards and theorems.

To check a run or a proof, in this directory:

    tlc -config MCArt.cfg MCArt
    tlapm TreeLockProofs.tla

## 1. The system

### Components, their state and their operations

| Component | Files | State | Operations |
|---|---|---|---|
| inner nodes | `n4.go`, `n16.go`, `n48.go`, `n256.go`, `node.go` | up to 4, 16, 48 or 256 children in four array layouts; `lth`; a cached rank offset `pren` per child | `child`, `next`, `prev`, `gt(e)`, `lt(e)`, `first`, `last`, `addChild`, `replace`, `grow`, `shrink`, `redoPren` |
| insertion, deletion | `inner.go`, `leaf.go` | per inner node the compressed prefix, the node above, `SubN` | `Leaf.insert`, `Inner.insert`, `Leaf.del`, `Inner.del` |
| searches | `inner.go`, `gte.go`, `lte.go`, `node.go` | none | `get`, `getGTE`, `getLTE`, `at` |
| Tree | `tree.go` | `root`, `size`, `Rwmut`, `SkipLocking` | `Insert`, `InsertX`, `InsertLeaf`, `Remove`, `Find*`, `FirstLeaf`, `LastLeaf`, `At`, `Atv`, `LeafIndex`, `Size`, `IsEmpty`, `String`, `FlatString` |
| iterators | `iterator.go`, `tree.go` | a stack of `*Inner` and byte, `cursor`, `terminate`, the current leaf | `Iterator`, `ReverseIterator`, `Reverse`, `Next`, `Ascend`, `dfs` |
| save and load | `saver.go`, `leaf.go` | a msgpack writer on an s2 writer; `numLeafWrit`; the loader's tree | `NewTreeSaver`, `Save`, `Flush`, `NewTreeLoader`, `Load`, `PreSaveHook`, `PostLoadHook` |
| serialization | `leaf_gen.go`, `tree_gen.go` | per call: which fields are left and missing, how deep nils are pushed on the reader | `EncodeMsg`, `DecodeMsg`, `MarshalMsg`, `UnmarshalMsg`, `fieldsNotEmpty` |
| optimistic lock | `optimistic_lock.go` | one version number | `RLock`, `RUnlock`, `Upgrade`, `Check`, `Lock`, `Unlock`, `UnlockObsolete` |
| diagnostics, attic | `vprint.go`, `filterstacks.go`, `attic/` ... | | not part of the tree's logic |

### How they interact

A method of `Tree` takes `Rwmut`, calls the recursive method of the root `bnode`,
stores the node that comes back into `root`, adjusts `size` and unlocks. The
recursion dispatches on leaf or inner node, and an inner node on the layout of its
children through the interface `Inode`. The layouts replace each other as children
come (`grow`) and go (`shrink`); a `node4` left with one child is replaced by that
child, which takes over its prefix. Ranks come from two redundant counts: `SubN`
(leaves below an inner node, used by `At`) and `pren` (leaves before a child,
summed up by the searches, used by `LeafIndex`).
Iterators keep pointers to inner nodes without a lock, across the calls of `Next` and
whatever changes the tree between them. `Save` drives an iterator, lets `PreSaveHook`
copy the value of each leaf into its bytes `X`, and encodes the leaf; `Load` decodes
leaf after leaf, `PostLoadHook` makes the value from `X`, and `InsertLeaf` puts it into
the loader's tree. The generated decoders read the fields that are in the stream and
then tell the reader to answer nil for those that are missing. The optimistic lock was made for nodes; the tree no
longer uses it.

### What is hard about it

* Long sequences of legal calls: splits, collapses, growth and shrinking leave
  shapes that only a later call on another key depends on.
* Redundant state that must be kept in step: `lth` and the arrays, the slot table of
  `node48`, `SubN`, `pren`, `size`.
* Byte 0, which is also the padding of the arrays and what `Key.At` answers beyond
  the end of a key.
* The three recursive calls of `getGTE` and `getLTE` with their direction codes.
* Iterators whose stack points to nodes that were split, shrunk, collapsed or cut off.
* A stream that ends early: what was written when, and what a load makes of it. Files
  with fields that the decoder does not know, or without some that it knows.
* Writers and readers between the lock operations: methods that take the lock twice,
  give it back too early or panic with it.
* The optimistic lock: readers that race with writers and find out afterwards.

`PROJECT.json` lists these as hazards, each at its line.

### What makes each component correct

* A node is a map from bytes to children, whatever its layout; the searches within
  it find the nearest byte; a `node48` always finds a free slot.
* The tree is a dictionary, and its updates return what a dictionary would return.
  A walk meets the keys in order. Every leaf is below its own path; every node is of
  the kind its fan-out calls for.
* Exact searches find what is stored and nothing else; ordered searches find the
  nearest key; ranks are positions in key order.
* An iterator returns every key of its range that stays in the tree, once and in order,
  with the value that is stored; every call of `Next` ends.
* A tree that was saved and loaded without error has its content; a file that is cut
  off anywhere gives the first leaves of it, each whole; `Load` ends on any of them.
* Under the tree's lock a writer is alone, a reader sees one state, and calls return.
* Under the optimistic lock a read that is accepted saw the present value, writers
  exclude each other, and an obsolete object stays as it is.

## 2. The modules

    ByteMap <-- Inode <-- MCInode                 one node
                  +--- InodeFacts <-- InodeProofs
    ArtKey <-- ArtNode <-- ArtMutate, ArtSearch <-- Art <-- ArtDocs <-- MCArt
      |                                             |               one tree
      |                                             +--> ArtMap (refined)
      +--- NodeHeap <-- Iterator <-- MCIterator   one iterator on a changing tree
                           +--- IteratorProofs
    Codec <-- Saver <-- MCSaver                   a tree, a file and a loaded tree
      +--- CodecProofs <-- SaverProofs
    SetFacts <-- InodeFacts, CodecProofs, IteratorProofs
                                                  minima, maxima and ranks of sets of numbers
    TreeLock <-- TreeLockProofs, MCTreeLock       goroutines that share one tree
    Olock    <-- OlockProofs, MCOlock             the optimistic lock

### Inode and ByteMap: one inner node

`node` is the record of a `node4`, `node16`, `node48` or `node256` with its real
arrays (functions from 0), `left` the child that a collapse hands to the parent.
`Add`, `Replace`, `Remove` and `Collapse` are what `Inner.insert` and `Inner.del` do
to one node: look up, grow if full, add; replace; remove and shrink at the minimum;
remove and hand over the other child. `addChild`, `replaceChild`, `removeChild`,
`grow` and `shrink` follow the loops and copies of the four files. The upward scans
of `node4` and `node16` look at the zero padding as well, as the code does.
`ByteMap` is the promise: a function from bytes to children.
The mapping is `map[b] = child(node, b)`.

### ArtKey, ArtNode, ArtMutate, ArtSearch, Art and ArtMap: the tree

`ArtKey` has keys as sequences of bytes: `Key.At`, the comparisons of a key with another
or with a prefix, and the order of `bytes.Compare`.

A tree is a value. An inner node has its compressed prefix, its kind, the list of
its children in byte order, `subN` and `pren`; that a list is what the arrays
implement is the subject of `Inode`. The code changes nodes in place, the operators
return the node that stands in the same place afterwards. `insert` and `del` follow
`inner.go` and `leaf.go` branch by branch, including what they do to `SubN` and
`pren`, when they do it and when not. `get`, `getGTE`, `getLTE` and `at` return
everything the code returns: leaf, found, direction and rank.

In `Art` one action is one call under the tree's lock: `Insert` (`Insert`, `InsertX`,
`InsertLeaf` of a new leaf), `ReinsertLeaf` (`InsertLeaf` of the very leaf the tree
holds) and `Remove`. The methods that only read are operators on the state, compared
in every reachable state with a definition over the list of leaves. Three history
variables say under which conditions counts can be relied on: `stale` (updates and
removals that failed below the root, since the tree last had at most one leaf),
`asc` (all insertions since then at the end) and `reins` (re-inserted leaves).

`ArtMap` is the promise: a set of pairs with the results of insertions and removals.
`ArtDocs` states what the repository's comments, README and tests say beyond what
`Art` shows to hold; its properties are violated and belong to the findings.

### NodeHeap and Iterator: one iterator on a changing tree

What an iterator meets depends on which node is which, so here the tree is a heap: the
sequence of all `bnode`s made so far, with an index for an address. The children of a node
are a map from bytes to addresses, which is what `Inode` shows of the four layouts. The
recursion of `Inner.insert` and `Inner.del` does nothing on the way down but to choose a
child, and on the way back it only writes the child that comes back where it was (and
counts). So `insertWay` and `delWay` first go to the node at which the call ends, one
`insertTurn` or `delTurn` per level, and then `insertAt` and `delAt` change the heap there, in
place: an update puts a new bnode in the place of the old one (`replaceAt`), a leaf that is
split turns into an inner node at its address (`leafInsertAt`), the lazy expansion moves the
children of an inner node to a new one below it (`splitAt`), and a collapse detaches a `node4`
that still holds its last child (`collapseAt`). Nodes that nothing points to any more stay in
the heap, where nothing reads them. `SubN` and `pren` are left to `Art`.

`Fill` inserts the keys of a first tree one by one; then an iterator is made.
`it` is the iterator with its fields. A call of `Next` is one of `NextClosed` and
`InitExits` (empty tree, or a tree of one leaf), or `InitStack` or `Resume` followed by
one step per turn of the loop in `iterate`: `StepLeaf`, `StepDown`, `StepUp`. `Insert` and
`Remove` happen between calls of `Next`, as in the tests that delete behind an iterator.
History variables: `want`, the keys that were in the range at the first call and have
not been removed since; `returned`; and three sets of keys for which the iterator cannot be
relied on: `jumped` (a split moved the children of a stack node to a byte the stack has
passed), `gapped` (`node256.prev` overlooked the child above them) and `outdated` (they
were updated or removed while a stack node was detached).

### Codec and Saver: a tree, a file and a loaded tree

A file is a list of tokens: the magic string, the framed header, and per leaf a map
header and the names and values of the fields that are not empty. `Codec` has the
generated code for a struct as operators over its list of fields: what is encoded, and
the decoder's loop turn by turn with `encodedFieldsLeft`, `missingFieldsLeft` (a uint32
that wraps around), `nextMiss` and the depth of `PushAlwaysNil`. In the list of fields
`"-"` stands for a field that is never encoded; among the names in a stream `"@"` stands
for the name of the type and `"new"` for any name that the decoder does not know.
`IsStruct` and `IsStream` say what a struct and a whole file look like, whichever version
wrote them; `Foreign` files are assumed to be of this form.

In `Saver` keys are numbers in key order, 0 the empty key; that the iterator behind
`Save` returns the keys in order is the subject of `Iterator`. A leaf has its value with
its type, `X`, `XTyp` and `Keybyte`. `NewTreeSaver`, `SaveBegin`, `SaveLeaf` (one turn of
the loop, with `PreSaveHook`, which changes the leaf in the tree), `SaveEnd`, `Flush`,
`NewTreeLoader`, `LeafBegin`, `FieldTurn`, `NilTurn` and `LoopEnd` (with `PostLoadHook` and
`InsertLeaf`) are the steps. The writers are external: a token waits in `buf`; a flush
moves it to the file, and a failure or a `Crash` moves any number of the tokens and no
more. `Save` and `Flush` may be called again on a closed or broken writer, which takes nothing
more. A reader at the end of a file that was cut reports `io.EOF` or another error,
whichever: that depends on where within a block of s2 or a value of msgpack the cut is.
Instead of saving, the file may come from another version (`Foreign`): with unknown
fields, fields left out, or a nil for a leaf or for the header.

### TreeLock: goroutines that share one tree

The tree is reduced to the set of its keys and `size`, and Go's `sync.RWMutex` is
modelled from its use and documented behaviour: a writer takes the inner mutex,
announces itself (from then on new readers wait), waits for the readers to leave;
`Unlock` lets in all readers that wait. A goroutine's `pc` goes through the lock
operations and the accesses of the method it is in. `Find` stands for all methods
with one read lock and a deferred or immediate unlock; `At` may panic with the lock
held; `LeafIndex` calls `FindExact` with the lock held; `String` unlocks after it has
read `size` and goes on reading the nodes. `InsertNode` is an insertion of a new leaf,
`ReinsertNode` that of the very leaf the tree holds, which is counted though nothing is
added; `reins` counts the latter.

### Olock: the optimistic lock

One action per atomic operation on `version`. A call of `Lock` is `RLock` and
`Upgrade`, repeated. `Read` is the unprotected read between `RLock` and `RUnlock`: it
returns the counter, or anything in `Junk` while a writer is in. `Fetch` and `Store`
are the two halves of `value++` in the tests. A failed `RUnlock` or `Upgrade` first
fails (`Restart`) and then unlocks the lock given as `locked` (`Fail`).

## 3. The runs

| Run | Instance | Distinct states | Shows |
|---|---|---|---|
| `art` | capacities 2, 3, 4; bytes 0..6; 8 keys, 23 queries | 25559 | shape, order, size, counts, ranks; insertion does not panic; exact search; ordered searches are right and complete, GTE and GT give the right rank |
| `art_map` | capacities 2, 3, 4; 4 keys, 2 values | 5991 | the tree implements `ArtMap` |
| `inode` | capacities 2, 3, 5; 7 bytes, 2 children | 74397 | arrays consistent, free slot, scans, implements `ByteMap` |
| `olock` | 2 threads, 2 locks, versions to 6 | 65070 | mutual exclusion, valid reads, no lost update, obsolete for ever |
| `treelock` | 3 goroutines, 2 keys, all methods, 1 re-inserted leaf, fairness | 238367 | writer alone, consistent views, size, every call returns |
| `iterator` | capacities 2, 3, 4; 8 keys, 5 initial trees, 4 ranges, 2 changes, fairness | 143869 | nothing lost, order, range, stored values, `Next` returns, the tree of pointers is the one its keys call for, and a map |
| `saver` | 3 keys, 5 leaves, 52 foreign files, 2 saves, 1 flush, fairness | 560428 | round trip, prefixes after crashes, panics, decoder loop |

Properties and their conditions:

* `WellFormed`, `FindExactRight` and `ImplementsMap` hold after every sequence of calls
  within the bounds, updates, failed removals and re-inserted leaves included.
* `SizeExact` and `SizeRight` need `reins = 0`: `Leaf.insert` reports a leaf that is
  inserted again as new, and `size` counts it twice (`size_doc`, section 4).
* `AtExact` (`SubN` and `At`) needs `stale = 0`; `LeafIndexExact` and `SearchRank` need
  `asc` too. Removals are free in all of them. Without the conditions they fail: see
  section 4.
* `InsertNeverPanics` depends on the keys: no key in `MCKeys` is another key followed
  by a zero byte and more. `zero_doc` shows the other case.
* `SearchRight` allows a query beyond the ends to find nothing. In a tree with a `node256`
  whose `prev` overlooks a child (one before the last at a byte from `lth` on), LTE
  and LT may answer with a leaf further away or nothing; that the answer is on the right
  side of the query holds there too. GTE and GT have no such condition.
* `NothingLost` has no condition on the run: what an iterator may lose is named key by
  key. `jumped` are the keys that a split has moved behind the `curkey` of a stack node,
  `gapped` those below children that `node256.prev` has overlooked. Without either set TLC
  finds keys that were there all the time and are not returned. In the same way
  `ReturnsStored` excepts only the keys in `outdated`, those that were updated or removed while
  the iterator stood on a detached node, which may still have the old leaf.
  `InOrder` says nothing of what a reverse iterator returns after the empty key
  (`Unbounded`). `NextReturns` and `TreeIsMap` have no condition; the latter says of every
  insertion and removal which leaves there are below the root afterwards.
* `LoadedPrefix` holds of every file. It allows what the code does with a cut file: `Load`
  returns the first leaves and no error. `RoundTrip` leaves out the empty key, which the
  iterator behind `Save` does not return. `PanicsExplained` names the two reasons for
  which `Save` panics: a tree of one leaf, for which `init` does not set `i.leaf`, and a
  value of an unknown type.
* `ConsistentView` says that what a reader has seen is the tree and the size at the moment
  it gives its lock back, with no writer between its two changes.
* `CallsReturn` has one exception, `Stuck`: a writer waits for a read lock that nobody
  gives back, because its `At` has panicked or its `LeafIndex` waits for this very writer.
  A panic of `At` alone, or a nested `LeafIndex` alone, is no excuse: as long as no writer
  waits, every other call has to return.

### Bounds

* Capacities. 4, 16, 48 and 256 are constants. With 2, 3 and 4 over seven bytes the
  root of `art` becomes a node of every kind, and a `node256` of five and of six children,
  so that removals with and without shrinking both occur; five of its six bytes can
  leave two at `lth` or above, where `prev` overlooks one. `inode`, with 2, 3 and 5, has
  the spare room in `node48`, where slots are freed and taken again.
* Keys. `MCKeys` has two prefixes of keys below one byte (end of a key inside a node,
  split, collapse), compressed prefixes of several bytes, and enough siblings for all
  kinds. `MCQueries` are these and queries that end within the prefixes, leave them on
  either side, or go beyond a leaf. `MCFewKeys`, for `art_map` and two of the documentation
  runs, has a prefix, a compressed path, and a root that grows and shrinks; a fifth key
  takes `art_map` beyond five minutes.
* `MaxStale` and `MaxReins` bound how often `SubN` and `size` may drift; the shape and the
  content of the tree do not depend on it, only the number of states does. In `TreeLock`
  `MaxReins` is 1: from then on `size` is off, and a second time changes nothing else.
* `MaxVersion` bounds the writers to one or two per lock, after which a lock can still
  be read; an ABA of versions would need 2^62 writers.
* Three goroutines are two that wait and one that is in. Further readers behave like
  the first two.
* Iterators: `MCKeys` of `MCIterator` has a node that reaches every kind, and two keys
  below a prefix of two bytes, so that a split can put them behind the stack.
  `MaxChanges` is 2: one change to detach or split a node and one to use it. With 3
  changes the first 900 000 states were searched without another result. What takes a fourth
  change, an iterator that goes on after the empty key, is the condition of `InOrder`.
* Saving: three keys give trees without, with one and with several leaves, with and
  without the empty key. `MaxSaves` is 2 for a save after a save, a failure or a panic;
  `MaxFlush` is 1, since a second flush moves nothing else. `Word`, 2^32 in the code,
  is 16: more than twice the fields of any struct here, so that wrapping is told apart
  from counting down to 0.
* Overflow of `size`, `SubN`, `lth` is out of reach in a 64-bit program, so integers
  are unbounded.

### Fairness

In `iterator` and `saver`: a call of `Next`, or a load, that has begun takes its next
step, since it waits for nothing; nobody has to call `Next` again. In `treelock`:
a goroutine inside a method takes its next step if it can
(weak fairness: Go schedules all runnable goroutines). `Lock` is strongly fair:
`sync.Mutex` hands the mutex to the first waiter after a millisecond of starvation.
Nothing forces a goroutine to call a method. There is no fairness between waiting
readers and writers other than what the RWMutex model itself does.

Deadlock checking is off where the system may stop: a discarded node (`inode`), the
version bound or two threads that hold what the other wants (`olock`), the end of a load
(`saver`), a panic or a
`LeafIndex` that blocks all (`treelock`); for the last, `CallsReturn` covers it.

### Mutants

Every property of a passing run has a mutant, a changed copy of a definition placed
just before it (a lost byte in a merged prefix, a stale `pren`, a slot that leaks, a
store instead of a compare-and-swap, ...) with which TLC finds the property violated.

## 4. Findings

Five runs end in a violation, each of something the repository says of itself.

| Run | The code | What is said |
|---|---|---|
| `at_doc` | an update counts `SubN` up, a failed removal counts it down; `At` then reaches its panic | `node.go:135-137` "should never been reached" |
| `size_doc` | `InsertLeaf` of a leaf that is in the tree counts it again; `Size` exceeds the number of leaves | `tree.go:147-148` "the number of keys (leaf nodes) stored" |
| `zero_doc` | the end of a key is taken for a byte 0; a stored key is not found | `README.md:30` "arbitrary []byte keys" |
| `iter_range_doc` | a forward iterator returns the keys of (start, end] | `tree.go:415` "[start, end)" |
| `leafindex_deadlock` | `LeafIndex` takes the read lock twice; a writer in between blocks both | `tree.go:46-48` "goroutine safe" |

Other limits of the code are conditions of the properties of section 3, which fail
without them:

* An insertion does not redo `pren` of the siblings of a child that grew (`inner.go:136`),
  so `LeafIndex` is too small unless keys came in ascending order (`LeafIndexExact`,
  `SearchRank`); `tree_test.go:1820` says "LeafIndex and At(i) are inverses".
* GTE and GT below the first key, LTE and LT above the last find nothing
  (`SearchRight`); `tree.go:303` says "the smallest such key".
* `node256.prev` starts at byte `lth-1` instead of 255 (`n256.go:106`); LT and LTE searches
  and reverse iterators overlook children (`SearchRight`, `gapped` in `NothingLost`);
  `n48.go:119` says of the same scan "must scan ALL the keys".
* An insertion that splits the prefix of a node under an iterator can make it skip keys
  (`jumped` in `NothingLost`); an iterator on a detached node returns leaves that were
  removed or updated since (`outdated` in `ReturnsStored`).
* The cursor of a reverse iterator that has returned the empty key is empty, which
  `inRange` (`iterator.go:93`) takes for no upper bound. The empty key is the smallest, but
  with four changes that split, detach and join the nodes on the stack TLC finds an
  iterator that goes on to a key it has returned before (`InOrder` without `Unbounded`).
* `Save` of a tree of one leaf panics (`PanicsExplained`), and does not save the empty
  key (`RoundTrip`). A cut file loads without an error (`LoadedPrefix`).

## 5. The proofs

TLAPS proves the theorems below for all values of the constants: capacities and bytes,
keys and leaves, ranges, files of other versions, word size, goroutines, threads and locks,
and for any value of the bounds on the number of calls. Each rests on an inductive
invariant (`IInv`, or `IteratorInv`) of its module (`Init => IInv`, `IInv /\ [Next]_vars => IInv'`, one lemma per action).

### One node: InodeFacts and InodeProofs

`TypeCorrect`, `RepOKHolds`, `SlotAvailableHolds`, `ScansRightHolds`, and
`ImplementsByteMapHolds`: `Inode` refines `ByteMap`.

`InodeFacts` has a lemma for each loop and each copy of the four files: what `addChild`,
`replaceChild`, `removeChild`, `grow` and `shrink` make of the arrays, and that `child`
afterwards answers the same for every byte but the one that was changed (`ListedAdd`,
`SlotRemove`, `Grow16`, `Shrink256`, ...). The lemmas on `node4` and `node16` hold for any
capacity. Two arguments carry them: a position in a sorted array is the number of smaller
keys (`RankProperties`, used for the insertion point and for the copies in key order of
`Shrink48` and `Shrink256`), and the slots of a `node48` that are used are as many as the
bytes that use them, so one is free while `lth` is below the capacity (`SlotUsedCount`,
`SlotRoom`).

`GoodNode` is the invariant of one node: its kind fits `lth`, and its arrays are in order
(`RepOK`). `IInv` adds that a node has two children until it collapses. Without this a
`Remove` could leave an empty node, and a collapse would hand over nothing; it is kept
because `Inner.del` collapses a `node4` at the minimum instead of removing from it. That
`Cap4 >= 2` and the capacities ascend is assumed (`InodeAssumption`); with equal capacities
`grow` would make no room.

### The tree of pointers and its iterators: IteratorProofs

`TreeStaysRadix`, `IteratorTypes` (`TypeOK`), `IteratorOrder` (`InOrder`), `OneLeafPerKey` and the
action property `TreeStaysMap` (`TreeIsMap`), all from `IteratorInvariant`.

What a radix tree is, is stated without recursion. `Radix(h, r, A, D, P, U)`: `A` is a set
of addresses that holds the root and with every node its children; `D[q]` is the number of
bytes before node `q`, `P[q]` are bytes that lead to `q` and through its prefix, and `U[q]` is
its parent. Every node has the kind its fan-out calls for; the bytes to a child are those to
its parent, the parent's prefix and the child's own byte; no byte up to the end of an inner
node's prefix is zero; and the key of a leaf begins with the bytes that lead there, where
the end of the key counts as a zero. Since a child has one parent and one depth, no bnode
hangs in two places, and there are no cycles. `Tree(h, r)`: there are such `A`, `D`, `P`, `U`.
The parent is part of it since a change in place through an address is right only if
nobody else points there.

* Keys. `Less` is a strict total order (`LessAsymmetric`, `LessTotal`, `LessTransitive`).
* The way down. `insertWay` and `delWay` are functions defined by recursion over the length of
  the key; `WayExists` says that there are such functions, and `WayEnds` that the way is over
  after so many turns, since each uses up a byte of the key. `InsertWay`, `DelWay`: the way
  ends at a node to which the key leads and from which the call does not go on.
* Changes. Four lemmas say which changes of a heap leave a radix tree: a child takes a place
  at a node (`Hang`), a child of the root becomes the root (`Rise`), a node turns into one with
  two new children (`Fork`), a node loses children (`Drop`). Each case of insertion and removal
  is one of them: `LeafFork`, `SplitTree`, `AddTree`, `SwapTree`, `DropTree`, `CollapseRoot`,
  `CollapseInner`. Together: `InsertedTree`, `RemovedTree`.
* The nodes below the root. `Radix` lets `A` hold more than them; `Exact` says that it does
  not: with every node it has its children, and every node but the root is the child of one
  that is nearer to the root. Every radix tree has such an `A`, the smallest closed set
  (`ExactExists`). The recursive function by which the model collects the leaves exists in
  every heap (`BelowExists`), and from the root it gives `A` (`ContentIs`, for the leaves).
* The map. Of the nodes to which a key leads no two cover the same byte of it (`OneNode`: else
  take two that are nearest to the root, and go to their parents), so a key has at most
  one leaf (`OneLeaf`, `ExactUnique`). Each change of the heap adds or takes known nodes and
  keeps the others (`ForkSets`, `HangSets`, `DropSets`, `LiftSets`), so the leaves are those of
  before, but for the key (`Sets`). That a removal which finds nothing may leave the tree as
  it is takes an argument of its own (`MissLacks`): where the way down ends, an insertion
  would add a leaf with the key and have a radix tree, and no radix tree has two of them.
  `InsertedTree` and `RemovedTree` conclude `Sets` in each case.
* Pointers. Insertion and removal keep every inner node of the heap, attached or not, an
  inner node (`Grown`), so the stack of an iterator stays valid.
* Order. `Cursor` ties the cursor to the range before the first key and to the last key after
  it; `inRange` then admits only keys of the range that come after the last one (`InRangeFacts`,
  `OrderedAppend`), whatever node the iterator is at. The condition is the empty key in
  reverse, after which the cursor says nothing. For the order alone the shape of the tree is
  not needed; it is needed for the types, since `insertAt`, `delAt` and the stack read nodes
  through pointers.

`IteratorInv` has these as `TreePart`, `StackPart` and `OrderPart`, and the types of the history
variables as `TypePart`.

### Saving and loading: CodecProofs and SaverProofs

`TypeCorrect`, `LoadedPrefixHolds`, `RoundTripHolds`, `PanicsExplainedHolds`,
`NilsBalancedHolds`, and the action property `ClosedFileStaysHolds`.

`CodecProofs` is about one struct of at most seven fields with distinct names, of which
`Leaf` and `Tree` are instances. `EncodeIsStruct`: what `EncodeMsg` writes is a struct with
the given values, whichever fields are zero. `Decodes` is the invariant of the decoder's
loop: the position in the stream is determined by `encodedFieldsLeft`; a field has its
value, or it is zero and its name has not come yet; a field that is not zero is marked as
found, so that the nils of the second half of the loop do not overwrite it; and the nils
pushed are those of `topNil` and `nextMiss`. `StartDecodes`, `EncodedDecodes` and
`MissingDecodes` say that it is kept, though `missingFieldsLeft` may have wrapped around, and
`StructDecoded` that the struct is right and the nils are popped when the loop ends.

In `SaverProofs`, `IInv` has three parts.

* `SaverOK` and `TreeOK`: the writer is closed exactly if the file is whole; what was
  encoded came from the tree with the bytes it still has; while `Save` runs, all keys that
  the iterator has passed are in the stream; and `numLeafWrit`, which is never reset,
  counts them as long as no earlier `Save` has failed or panicked. The last is needed for
  the count that comes with a nil error: a second `Save` on a writer that took leaves
  before cannot return nil.
* `StreamOK`: there is a stream of all that was encoded, with a place for each leaf, the
  file is a prefix of it, and all of it if it is whole. The stream is quantified, since after
  a failed write neither `file` nor `buf` holds it any more.
* `LoaderOK`: the tree of the loader has the first `n` leaves; between leaves it is at the
  place of leaf `n + 1`; within the header or a leaf, `Decodes` holds. A file that is cut
  within a leaf can only be one that is not whole.

### The locks: OlockProofs and TreeLockProofs

* `OlockProofs`: `TypeCorrect`, `LockBitCorrect`, `MutualExclusionHolds`,
  `ReadsValidHolds`, `NoLostUpdateHolds`, `ObsoleteForeverHolds`. `MutualExclusion` is
  not inductive: a compare-and-swap is safe only because the version it expects was
  read unlocked and not obsolete, versions never go back, and the locked bit is set
  exactly while the lock is held. The inductive invariant has these parts, and that
  an increment under way belongs to a lock that is held and still has the value it
  started from. `ObsoleteForever`, an action property, follows from the same
  invariant: an obsolete version is locked by nobody and expected by nobody.
* `TreeLockProofs`: `TypeCorrect`, `WriterAloneHolds`, `ConsistentViewHolds`,
  `SizeRightHolds`. The inductive invariant `IInv` says that the goroutine from
  `drain` to `unlock` holds the inner mutex and the writer is announced exactly then,
  that a goroutine that reads has a read lock, that no read lock exists while a writer
  is in, that `size` is the number of keys and of re-inserted leaves (`reins`), and how far
  it is off at every other point of a writer, and that a view in the making is that of the
  present tree. Without the last two a reader could be between its two reads, or a writer
  between its two changes, at the wrong moment. `SizeRight` follows for `reins = 0`.
  The finiteness of the set of keys is not needed as an assumption: the tree is finite
  because it starts empty and changes by one key at a time.

### Assumptions

All are evaluated by TLC in the runs.

* `InodeAssumption`: the capacities are at least 2 and ascend, the largest fits into the
  bytes, `Nil` is no child.
* `CapsAssumption`: the same of the capacities in `ArtKey`.
* `KeysAssumption` of `Iterator`: keys are sequences of bytes without a zero byte, which is
  where the tree tells all keys apart (`zero_doc` is the other case); the bounds of ranges
  are any sequences of bytes. `NilIsNoObject`: `Nil` is no iterator and no range.
* `WordAssumption`: a uint32 counts further than the fields of any struct.
* `KeysAssumption`, `LeavesAssumption` of `Saver`: keys are a finite set of numbers, leaves are records
  of the type of `Leaf`.
* `ForeignAssumption`: another version writes a magic number, a header and structs of names
  and values with fewer than `Word` fields; which fields, in what order, with which unknown
  ones between them, is left open. A damaged file is not covered.
* `NilAssumption`: `Nil` is none of the other values; in `NodeHeap`, no address.
* `OlockAssumption` (`None` is neither a lock nor a number, `Junk` and the bound are
  natural numbers) and `TreeLockAssumption` (`Ops` are the modelled methods, `None` is no
  goroutine, `MaxReins` is a natural number).

### Only model-checked

* `CallsReturn`, `NextReturns` and `LoadReturns`: liveness is beyond the prover.
* Everything about `Art` and the refinement of `ArtMap`: a tree is a value there, its
  operators are recursive, and what they compute for every tree takes an induction over
  trees that the prover does not support. `TreeStaysRadix` and `TreeStaysMap` are
  the parts of `WellFormed` and of the refinement of `ArtMap` that can be said, and are proved,
  of the tree of pointers.
* `TreeCanonical` compares two recursive functions (`Unfold`, `Canonical`). `NothingLost`,
  `ReturnsStored` and `RangeAsDocumented` speak of where the stack of an iterator stands in a
  tree that has changed since, detached nodes included; `TreeStaysMap` is what they would
  start from.

## 6. Not modelled

* `Ascend` is a loop over `Next`; `AllowDeletes` sets a flag that nothing reads.
* The branches of `saver.go` for `leafByLeaf = false`: the flag is a constant.
* The generated code for types that `Save` and `Load` do not encode (`TestBytes`, `Key`,
  `ByteSliceValue`, `SearchModifier`, `GreenWrapp`), sizes, and the bytes of msgpack
  and s2, which are libraries.
* A `Save`, or an iterator, during a concurrent change of the tree: comments leave this
  to the caller's locking, and without it there is a data race.
* Printing, stack traces, and `DeepSize`, which counts what `Ascend` returns: no state of
  the tree.
* `attic/`: copies of the Go library and experiments that nothing imports.
* `SkipLocking`: the methods without the lock are `Art`, the caller sees to atomicity.
* The rank (`idx`) of LT and LTE: `lte.go` computes it in a branch from the wrong
  node; no comment or test says what it should be.

## 7. Plan

Done, in this order: `ArtNode`, `ArtMutate`, `ArtSearch`, `Art`, `ArtMap` (the most
important behaviour), `Inode` with `ByteMap`, `Olock` and `TreeLock` with their proofs,
`NodeHeap` and `Iterator`, `Codec` and `Saver`, `InodeProofs`, `CodecProofs` and `SaverProofs`,
`NodeHeap` without recursion and `IteratorProofs`.

What could follow:

1. `ReturnsStored`, from `TreeStaysMap` and an invariant that ties the leaves below the
   stack, those of detached nodes included, to the leaves below the root.
2. A module without recursion for the list of children of one node as `ArtNode` has it,
   and a proof that `Inode` implements it, ranks (`pren`) included.
3. `TreeLock` with `SkipLocking` and iterators that a caller protects with `Rwmut`.

The number of runs is kept to a dozen: new questions take the place of
documentation runs that a condition of a property covers.
