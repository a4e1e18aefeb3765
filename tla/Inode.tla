------------------------------- MODULE Inode -------------------------------
(***************************************************************************)
(* The four representations of an inner node's children (n4.go, n16.go,    *)
(* n48.go, n256.go), and how Inner.insert and Inner.del move one node from *)
(* one to the next.                                                        *)
(*                                                                         *)
(*   node4, node16   keys[0..lth-1] ascending, children[i] belongs to      *)
(*                   keys[i], both padded with zeros                       *)
(*   node48          keys[b] - 1 is the slot of byte b, 0 for none;        *)
(*                   children are in any order                             *)
(*   node256         children[b] belongs to byte b; keys is not used       *)
(*                                                                         *)
(* Arrays are functions from 0.  A child is an opaque pointer.             *)
(***************************************************************************)
EXTENDS Integers, FiniteSets, FiniteSetsExt

CONSTANTS
    Cap4, Cap16, Cap48,   \* capacities of node4, node16 and node48
    MaxByte,              \* the largest byte, 255 in the code
    Child,                \* the children
    Nil                   \* the nil pointer

ASSUME InodeAssumption ==
    /\ Cap4 \in Nat /\ Cap16 \in Nat /\ Cap48 \in Nat /\ MaxByte \in Nat
    /\ 2 <= Cap4 /\ Cap4 < Cap16 /\ Cap16 < Cap48 /\ Cap48 <= MaxByte
    /\ Nil \notin Child

VARIABLES
    node,   \* Inner.Node: its kind and its fields lth, keys, children
    left    \* the child that takes the place of a node4 that collapses

vars == <<node, left>>

Byte == 0 .. MaxByte

Slots4  == 0 .. Cap4 - 1
Slots16 == 0 .. Cap16 - 1
Slots48 == 0 .. Cap48 - 1

Slice(f, S, pad) == [i \in S |-> IF i \in DOMAIN f THEN f[i] ELSE pad]

-----------------------------------------------------------------------------
(* Lookup *)

Listed(n) == n.kind \in {"n4", "n16"}

\* child: node4 and node16 scan all of keys, the padding included.
child(n, k) ==
    CASE Listed(n) ->
            LET hits == {i \in DOMAIN n.keys : n.keys[i] = k}
            IN  IF hits = {} THEN Nil ELSE n.children[Min(hits)]
      [] n.kind = "n48" ->
            IF n.keys[k] = 0 THEN Nil ELSE n.children[n.keys[k] - 1]
      [] n.kind = "n256" -> n.children[k]

\* The ascending scans: the first position of keys, padding included, whose key
\* is in bytes, or the first byte of bytes with a child.
scanUp(n, bytes) ==
    LET hits == CASE Listed(n) -> {i \in DOMAIN n.keys : n.keys[i] \in bytes}
                  [] n.kind = "n48" -> {b \in bytes : n.keys[b] # 0}
                  [] n.kind = "n256" -> {b \in bytes : n.children[b] # Nil}
        i == Min(hits)
    IN  CASE hits = {} -> <<0, Nil>>
          [] hits # {} /\ Listed(n) -> <<n.keys[i], n.children[i]>>
          [] OTHER -> <<i, child(n, i)>>

\* The descending scans leave the padding out.
scanDown(n, bytes) ==
    LET hits == CASE Listed(n) -> {i \in 0 .. n.lth - 1 : n.keys[i] \in bytes}
                  [] n.kind = "n48" -> {b \in bytes : n.keys[b] # 0}
                  [] n.kind = "n256" -> {b \in bytes : n.children[b] # Nil}
        i == Max(hits)
    IN  CASE hits = {} -> <<0, Nil>>
          [] hits # {} /\ Listed(n) -> <<n.keys[i], n.children[i]>>
          [] OTHER -> <<i, child(n, i)>>

next(n, k) == scanUp(n, k + 1 .. MaxByte)
gt(n, k)   == scanUp(n, k + 1 .. MaxByte)
gte(n, k)  == scanUp(n, k .. MaxByte)
lt(n, k)   == scanDown(n, 0 .. k - 1)
lte(n, k)  == scanDown(n, 0 .. k)

\* node256.prev starts its scan at byte lth-1.
prev(n, k) == scanDown(n, {b \in 0 .. k - 1 : n.kind = "n256" => b < n.lth})

\* The first and the last child.  (With it node48 returns the slot instead of
\* the byte; no caller looks at it.)
first(n) == IF Listed(n) THEN n.children[0] ELSE scanUp(n, Byte)[2]
last(n)  == IF Listed(n) THEN n.children[n.lth - 1] ELSE scanDown(n, Byte)[2]

-----------------------------------------------------------------------------
(* Changes within one representation *)

\* Mutant of index: new keys go to the end.
indexLast(n, k) == n.lth

\* index: the first position whose key is not smaller than k, lth if none.
index(n, k) ==
    LET hits == {i \in DOMAIN n.keys : k <= n.keys[i]}
    IN  IF hits = {} THEN n.lth ELSE Min(hits)

\* copy(a[idx+1:], a[idx:]); a[idx] = x
ShiftIn(a, idx, x) ==
    [i \in DOMAIN a |-> IF i < idx THEN a[i] ELSE IF i = idx THEN x ELSE a[i - 1]]

\* Mutant of ShiftOut: the place that becomes free is not cleared.
ShiftOutKeep(a, idx, lth, zero) ==
    [i \in DOMAIN a |-> IF i >= idx /\ i + 1 \in DOMAIN a THEN a[i + 1] ELSE a[i]]

\* copy(a[idx:], a[idx+1:]); a[lth-1] = zero
ShiftOut(a, idx, lth, zero) ==
    [i \in DOMAIN a |-> IF i = lth - 1 THEN zero
                        ELSE IF i >= idx /\ i + 1 \in DOMAIN a THEN a[i + 1] ELSE a[i]]

FreeSlots(n) == {s \in Slots48 : n.children[s] = Nil}

addListed(n, k, c) ==
    [n EXCEPT !.lth = @ + 1,
              !.keys = ShiftIn(@, index(n, k), k),
              !.children = ShiftIn(@, index(n, k), c)]

\* node48 takes the first free slot; without one it panics.
add48(n, k, c) ==
    LET s == Min(FreeSlots(n))
    IN  [n EXCEPT !.lth = @ + 1, !.keys[k] = s + 1, !.children[s] = c]

add256(n, k, c) == [n EXCEPT !.lth = @ + 1, !.children[k] = c]

addChild(n, k, c) ==
    CASE Listed(n) -> addListed(n, k, c)
      [] n.kind = "n48" -> add48(n, k, c)
      [] n.kind = "n256" -> add256(n, k, c)

\* The position of byte k in a node4 or node16 that has it.
position(n, k) == Min({i \in DOMAIN n.keys : n.keys[i] = k})

\* replace(idx, c, _): another child for the same byte.
replaceChild(n, k, c) ==
    CASE Listed(n) -> [n EXCEPT !.children[position(n, k)] = c]
      [] n.kind = "n48" -> [n EXCEPT !.children[n.keys[k] - 1] = c]
      [] n.kind = "n256" -> [n EXCEPT !.children[k] = c]

\* Mutant of remove48: the slot is not given back.
remove48Leak(n, k) == [n EXCEPT !.keys[k] = 0, !.lth = @ - 1]

remove48(n, k) ==
    [n EXCEPT !.children[n.keys[k] - 1] = Nil, !.keys[k] = 0, !.lth = @ - 1]

\* replace(idx, nil, _): the byte and its child go.
removeChild(n, k) ==
    CASE Listed(n) ->
            [n EXCEPT !.keys = ShiftOut(@, position(n, k), n.lth, 0),
                      !.children = ShiftOut(@, position(n, k), n.lth, Nil),
                      !.lth = @ - 1]
      [] n.kind = "n48" -> remove48(n, k)
      [] n.kind = "n256" ->
            [n EXCEPT !.children[k] = Nil, !.lth = @ - 1]

-----------------------------------------------------------------------------
(* Changes of representation *)

full(n) ==
    n.lth = CASE n.kind = "n4"   -> Cap4
              [] n.kind = "n16"  -> Cap16
              [] n.kind = "n48"  -> Cap48
              [] n.kind = "n256" -> MaxByte + 1

\* Mutant of min: a node shrinks one removal too late.
minLate(n) ==
    n.lth < CASE n.kind = "n4"   -> 2
              [] n.kind = "n16"  -> Cap4 + 1
              [] n.kind = "n48"  -> Cap16 + 1
              [] n.kind = "n256" -> Cap48 + 1

min(n) ==
    n.lth <= CASE n.kind = "n4"   -> 2
               [] n.kind = "n16"  -> Cap4 + 1
               [] n.kind = "n48"  -> Cap16 + 1
               [] n.kind = "n256" -> Cap48 + 1

grow4(n) ==
    [kind |-> "n16", lth |-> n.lth, keys |-> Slice(n.keys, Slots16, 0),
     children |-> Slice(n.children, Slots16, Nil)]

\* The slots of node48 are the positions of node16.
grow16(n) ==
    [kind |-> "n48", lth |-> n.lth,
     keys |-> [b \in Byte |->
                 LET hits == {i \in Slots16 : n.children[i] # Nil /\ n.keys[i] = b}
                 IN  IF hits = {} THEN 0 ELSE Max(hits) + 1],
     children |-> Slice(n.children, Slots48, Nil)]

grow48(n) ==
    [kind |-> "n256", lth |-> n.lth, keys |-> <<>>,
     children |-> [b \in Byte |-> IF n.keys[b] = 0 THEN Nil ELSE n.children[n.keys[b] - 1]]]

grow(n) == CASE n.kind = "n4"  -> grow4(n)
             [] n.kind = "n16" -> grow16(n)
             [] n.kind = "n48" -> grow48(n)

shrink16(n) ==
    [kind |-> "n4", lth |-> n.lth, keys |-> Slice(n.keys, Slots4, 0),
     children |-> Slice(n.children, Slots4, Nil)]

\* How many of the bytes in S come before b: the running index of the loops
\* that visit the bytes in ascending order.
Rank(S, b) == Cardinality({x \in S : x < b})

shrink48(n) ==
    LET used == {b \in Byte : n.keys[b] # 0}
        byteAt(i) == CHOOSE b \in used : Rank(used, b) = i
    IN  [kind |-> "n16", lth |-> n.lth,
         keys |-> [i \in Slots16 |-> IF i < n.lth THEN byteAt(i) ELSE 0],
         children |-> [i \in Slots16 |->
                          IF i < n.lth THEN n.children[n.keys[byteAt(i)] - 1] ELSE Nil]]

shrink256(n) ==
    LET used == {b \in Byte : n.children[b] # Nil}
        byteAt(s) == CHOOSE b \in used : Rank(used, b) = s
    IN  [kind |-> "n48", lth |-> n.lth,
         keys |-> [b \in Byte |-> IF b \in used THEN Rank(used, b) + 1 ELSE 0],
         children |-> [s \in Slots48 |-> IF s < n.lth THEN n.children[byteAt(s)] ELSE Nil]]

shrink(n) == CASE n.kind = "n16"  -> shrink16(n)
               [] n.kind = "n48"  -> shrink48(n)
               [] n.kind = "n256" -> shrink256(n)

-----------------------------------------------------------------------------
(* The life of one node *)

Empty4 ==
    [kind |-> "n4", lth |-> 0, keys |-> [i \in Slots4 |-> 0],
     children |-> [i \in Slots4 |-> Nil]]

\* Leaf.insert and the split of Inner.insert make a node4 of two children.
Init ==
    /\ \E k1, k2 \in Byte, c1, c2 \in Child :
          k1 # k2 /\ node = addChild(addChild(Empty4, k1, c1), k2, c2)
    /\ left = Nil

\* Inner.insert, no child at the byte: grow if full, then add.
Add(k, c) ==
    /\ left = Nil
    /\ child(node, k) = Nil
    /\ node' = addChild(IF full(node) THEN grow(node) ELSE node, k, c)
    /\ UNCHANGED left

\* Inner.insert and Inner.del, a child takes the place of another.
Replace(k, c) ==
    /\ left = Nil
    /\ child(node, k) # Nil
    /\ node' = replaceChild(node, k, c)
    /\ UNCHANGED left

\* Inner.del, a leaf goes and the node stays: shrink if it was at its minimum.
Remove(k) ==
    /\ left = Nil
    /\ child(node, k) # Nil
    /\ ~(node.kind = "n4" /\ min(node))
    /\ node' = IF min(node) THEN shrink(removeChild(node, k)) ELSE removeChild(node, k)
    /\ UNCHANGED left

\* Inner.del, one of the two children of a node4 goes and the other, next(nil),
\* takes the place of the node, which is discarded.
Collapse(k) ==
    /\ left = Nil
    /\ child(node, k) # Nil
    /\ node.kind = "n4" /\ min(node)
    /\ node' = removeChild(node, k)
    /\ left' = node'.children[0]

Next ==
    \E k \in Byte :
        \/ \E c \in Child : Add(k, c) \/ Replace(k, c)
        \/ Remove(k)
        \/ Collapse(k)

Spec == Init /\ [][Next]_vars

-----------------------------------------------------------------------------
(* The representation invariant *)

\* node4 and node16: the keys in use ascend, the rest is zero padding.
ListedRep(n) ==
    /\ \A i, j \in 0 .. n.lth - 1 : i < j => n.keys[i] < n.keys[j]
    /\ \A i \in DOMAIN n.keys :
          IF i < n.lth THEN n.children[i] # Nil
          ELSE n.keys[i] = 0 /\ n.children[i] = Nil

\* node48: the bytes in use and the slots in use correspond one to one.
SlotRep(n) ==
    /\ \A a, b \in Byte : n.keys[a] # 0 /\ n.keys[a] = n.keys[b] => a = b
    /\ \A b \in Byte : n.keys[b] # 0 => n.children[n.keys[b] - 1] # Nil
    /\ \A s \in Slots48 : n.children[s] # Nil => \E b \in Byte : n.keys[b] = s + 1
    /\ n.lth = Cardinality({s \in Slots48 : n.children[s] # Nil})

\* node256: lth counts the children.
DirectRep(n) == n.lth = Cardinality({b \in Byte : n.children[b] # Nil})

\* The fields of a node of each kind, and the fan-outs the kind is used for.
NodeType(n) ==
    \/ /\ n \in [kind : {"n4"}, lth : 1 .. Cap4, keys : [Slots4 -> Byte],
                 children : [Slots4 -> Child \cup {Nil}]]
    \/ /\ n \in [kind : {"n16"}, lth : Cap4 + 1 .. Cap16, keys : [Slots16 -> Byte],
                 children : [Slots16 -> Child \cup {Nil}]]
    \/ /\ n \in [kind : {"n48"}, lth : Cap16 + 1 .. Cap48, keys : [Byte -> 0 .. Cap48],
                 children : [Slots48 -> Child \cup {Nil}]]
    \/ /\ n \in [kind : {"n256"}, lth : Cap48 + 1 .. MaxByte + 1, keys : {<<>>},
                 children : [Byte -> Child \cup {Nil}]]

\* The type invariant: every node is of the kind its fan-out calls for.
TypeOK == NodeType(node) /\ left \in Child \cup {Nil}

\* The arrays of the node agree with each other whatever was added, replaced
\* and removed, and whatever representations the node went through: sorted
\* keys without gaps, a one-to-one use of the slots of node48 (slots freed by
\* a removal are taken again), and an lth that counts the children.
RepOK ==
    CASE Listed(node) -> ListedRep(node)
      [] node.kind = "n48" -> SlotRep(node)
      [] node.kind = "n256" -> DirectRep(node)

\* node48.addChild is only called with a free slot, so that its panic
\* "no empty slots" cannot happen.
SlotAvailable == node.kind = "n48" /\ ~full(node) => FreeSlots(node) # {}

-----------------------------------------------------------------------------
(* What the readers of a node rely on *)

UsedBytes == {b \in Byte : child(node, b) # Nil}

Entry(b) == <<b, child(node, b)>>

Nearest(bytes, pick(_)) == IF bytes = {} THEN <<0, Nil>> ELSE Entry(pick(bytes))

\* The scans find the nearest byte that has a child, and that child, in every
\* representation: the zero padding of node4 and node16 is never taken for
\* the byte 0, and the order of the slots of node48 does not matter.
\* (node256.prev is left out: it looks at the bytes below lth only.)
ScansRight ==
    /\ \A k \in Byte :
        LET after  == Nearest({b \in UsedBytes : b > k}, Min)
            before == Nearest({b \in UsedBytes : b < k}, Max)
        IN  /\ next(node, k) = after /\ gt(node, k) = after
            /\ gte(node, k) = Nearest({b \in UsedBytes : b >= k}, Min)
            /\ lte(node, k) = Nearest({b \in UsedBytes : b <= k}, Max)
            /\ lt(node, k) = before
            /\ node.kind # "n256" => prev(node, k) = before
    /\ first(node) = child(node, Min(UsedBytes))
    /\ last(node) = child(node, Max(UsedBytes))

contents == [b \in Byte |-> child(node, b)]

Bytes == INSTANCE ByteMap WITH map <- contents

\* Growing, shrinking, shifting and slot reuse are invisible: looked up by
\* byte, the node changes as the map of ByteMap does, and the child that a
\* collapse hands to the parent is the one that was not removed.
ImplementsByteMap == Bytes!BMSpec

=============================================================================
