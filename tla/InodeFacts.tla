----------------------------- MODULE InodeFacts -----------------------------
(***************************************************************************)
(* What the operations of Inode do to a node of each representation, for   *)
(* all capacities: each keeps the representation in order and changes what *)
(* is found at one byte (addChild, replace) or at none (grow, shrink).     *)
(***************************************************************************)
EXTENDS Inode, SetFacts

-----------------------------------------------------------------------------
(* The running index of the loops over the bytes *)

\* How the loops of node48.shrink and node256.shrink number the bytes they visit:
\* the rank of a byte in a set of bytes ascends with the byte and takes every
\* number below the size of the set once.
LEMMA RankProperties ==
    ASSUME NEW N \in Nat, NEW S \in SUBSET (0 .. N)
    PROVE  /\ IsFiniteSet(S) /\ Cardinality(S) \in Nat
           /\ \A b \in S : Rank(S, b) \in 0 .. Cardinality(S) - 1
           /\ \A a, b \in S : a < b => Rank(S, a) < Rank(S, b)
           /\ \A i \in 0 .. Cardinality(S) - 1 : \E b \in S : Rank(S, b) = i
  BY RankFacts DEF Rank

-----------------------------------------------------------------------------
(* node4 and node16 *)

Kids == Child \cup {Nil}

ListedNode(n, cap) ==
    /\ n \in [kind : {"n4", "n16"}, lth : 0 .. cap, keys : [0 .. cap - 1 -> Byte],
              children : [0 .. cap - 1 -> Kids]]
    /\ ListedRep(n)

\* child of node4 and node16: the scan over all of keys, padding included,
\* finds the child of a key in use, and nil for every other byte, 0 too.
LEMMA ListedChild ==
    ASSUME NEW cap \in Nat, NEW n, ListedNode(n, cap), NEW k \in Byte
    PROVE  /\ \A i \in 0 .. n.lth - 1 : n.keys[i] = k => child(n, k) = n.children[i]
           /\ (\A i \in 0 .. n.lth - 1 : n.keys[i] # k) => child(n, k) = Nil
<1> DEFINE hits == {i \in DOMAIN n.keys : n.keys[i] = k}
<1>1. /\ n.lth \in 0 .. cap /\ DOMAIN n.keys = 0 .. cap - 1
      /\ \A i \in 0 .. cap - 1 : n.keys[i] \in Byte
      /\ n.kind \in {"n4", "n16"}
  BY DEF ListedNode
<1>2. child(n, k) = IF hits = {} THEN Nil ELSE n.children[Min(hits)]
  BY <1>1 DEF child, Listed
<1>3. hits \in SUBSET Nat
  BY <1>1
<1>4. ASSUME hits # {} PROVE Min(hits) \in hits /\ \A i \in hits : Min(hits) <= i
  BY <1>3, <1>4, MinOfNats
<1>5. ASSUME NEW i \in 0 .. n.lth - 1, n.keys[i] = k PROVE child(n, k) = n.children[i]
  <2>1. i \in hits
    BY <1>1, <1>5
  <2>2. Min(hits) \in 0 .. n.lth - 1 /\ n.keys[Min(hits)] = k
    <3> HIDE DEF hits
    <3>1. Min(hits) \in Nat /\ Min(hits) <= i
      BY <1>3, <1>4, <2>1
    <3>2. n.keys[Min(hits)] = k
      BY <1>4, <2>1 DEF hits
    <3> QED
      BY <1>1, <3>1, <3>2
  <2> HIDE DEF hits
  <2>3. Min(hits) = i
    <3>1. \A x, y \in 0 .. n.lth - 1 : x < y => n.keys[x] < n.keys[y]
      BY DEF ListedNode, ListedRep
    <3>2. ~(Min(hits) < i)
      BY <1>5, <2>2, <3>1, <1>1 DEF Byte
    <3> QED
      BY <1>4, <2>1, <2>2, <3>2
  <2> QED
    BY <1>2, <2>1, <2>3
<1>6. ASSUME \A i \in 0 .. n.lth - 1 : n.keys[i] # k PROVE child(n, k) = Nil
  <2>1. CASE hits = {}
    BY <1>2, <2>1
  <2>2. CASE hits # {}
    <3>1. Min(hits) \in DOMAIN n.keys /\ n.keys[Min(hits)] = k
      BY <1>4, <2>2
    <3> HIDE DEF hits
    <3>2. ~(Min(hits) < n.lth)
      BY <1>1, <1>6, <3>1
    <3>3. n.children[Min(hits)] = Nil
      BY <3>1, <3>2 DEF ListedNode, ListedRep
    <3> QED
      BY <1>2, <2>2, <3>3
  <2> QED
    BY <2>1, <2>2
<1> QED
  BY <1>5, <1>6

\* The fields of a node4 or node16 and what ListedRep says of them.
LEMMA ListedFields ==
    ASSUME NEW cap \in Nat, NEW n, ListedNode(n, cap)
    PROVE  /\ n.kind \in {"n4", "n16"}
           /\ n.lth \in 0 .. cap
           /\ n.keys \in [0 .. cap - 1 -> Byte]
           /\ n.children \in [0 .. cap - 1 -> Kids]
           /\ \A i, j \in 0 .. n.lth - 1 : i < j => n.keys[i] < n.keys[j]
           /\ \A i \in 0 .. n.lth - 1 : n.children[i] # Nil
           /\ \A i \in n.lth .. cap - 1 : n.keys[i] = 0 /\ n.children[i] = Nil
  BY DEF ListedNode, ListedRep

\* index: the place for a new byte is behind the smaller and before the larger
\* keys, though the search looks at the padding too.
LEMMA IndexProperties ==
    ASSUME NEW cap \in Nat, NEW n, ListedNode(n, cap), n.lth < cap,
           NEW k \in Byte, child(n, k) = Nil
    PROVE  /\ index(n, k) \in 0 .. n.lth
           /\ \A i \in 0 .. n.lth - 1 : IF i < index(n, k) THEN n.keys[i] < k ELSE k < n.keys[i]
<1> DEFINE hits == {i \in DOMAIN n.keys : k <= n.keys[i]}
           h == Min(hits)
<1>1. \A i \in 0 .. n.lth - 1 : n.keys[i] # k
  BY ListedFields, ListedChild
<1>2. /\ n.lth \in 0 .. cap /\ DOMAIN n.keys = 0 .. cap - 1
      /\ k \in Nat /\ \A i \in 0 .. cap - 1 : n.keys[i] \in Nat
  BY ListedFields DEF Byte
<1>3. \A i, j \in 0 .. n.lth - 1 : i < j => n.keys[i] < n.keys[j]
  BY ListedFields
<1>4. CASE hits = {}
  <2>1. index(n, k) = n.lth
    BY <1>4 DEF index
  <2>2. ASSUME NEW i \in 0 .. n.lth - 1 PROVE n.keys[i] < k
    <3>1. i \in 0 .. cap - 1 /\ i \notin hits
      BY <1>2, <1>4
    <3> QED
      BY <1>2, <3>1
  <2> QED
    BY <1>2, <2>1, <2>2
<1>5. CASE hits # {}
  <2>1. index(n, k) = h
    BY <1>5 DEF index
  <2>2. hits \in SUBSET Nat
    BY <1>2
  <2>3. h \in hits /\ \A i \in hits : h <= i
    BY <1>5, <2>2, MinOfNats
  <2>4. h \in 0 .. cap - 1 /\ k <= n.keys[h] /\ \A i \in 0 .. cap - 1 : i < h => n.keys[i] < k
    <3>1. h \in 0 .. cap - 1 /\ k <= n.keys[h]
      BY <1>2, <2>3
    <3>2. ASSUME NEW i \in 0 .. cap - 1, i < h PROVE n.keys[i] < k
      <4>1. i \notin hits
        <5> HIDE DEF hits, h
        <5> QED
          BY <2>3, <3>1, <3>2
      <4> QED
        BY <1>2, <4>1
    <3> QED
      BY <3>1, <3>2
  <2> HIDE DEF h
  <2>5. h <= n.lth
    <3>1. CASE k = 0
      BY <1>2, <2>4, <3>1
    <3>2. CASE k # 0
      <4>1. n.keys[h] # 0
        BY <1>2, <2>4, <3>2
      <4>2. \A i \in n.lth .. cap - 1 : n.keys[i] = 0
        BY ListedFields
      <4> QED
        BY <1>2, <2>4, <4>1, <4>2
    <3> QED
      BY <3>1, <3>2
  <2>6. ASSUME NEW i \in 0 .. n.lth - 1, ~(i < h) PROVE k < n.keys[i]
    <3>1. n.keys[h] \in Nat /\ n.keys[i] \in Nat /\ h \in 0 .. n.lth - 1
      BY <1>2, <2>4, <2>6
    <3>2. CASE i = h
      BY <1>1, <1>2, <2>4, <3>1, <3>2
    <3>3. CASE h < i
      <4>1. n.keys[h] < n.keys[i]
        BY <1>3, <3>1, <3>3
      <4> QED
        BY <1>2, <2>4, <3>1, <4>1
    <3> QED
      BY <2>6, <3>1, <3>2, <3>3
  <2> QED
    BY <1>2, <2>1, <2>4, <2>5, <2>6
<1> QED
  BY <1>4, <1>5

\* addChild of node4 and node16 with room keeps the keys sorted and the arrays
\* in step, and changes the child of one byte.
LEMMA ListedAdd ==
    ASSUME NEW cap \in Nat, NEW n, ListedNode(n, cap), n.lth < cap,
           NEW k \in Byte, NEW c \in Child, child(n, k) = Nil,
           NEW m, m = addListed(n, k, c)
    PROVE  /\ ListedNode(m, cap)
           /\ m.kind = n.kind /\ m.lth = n.lth + 1
           /\ \A b \in Byte : child(m, b) = IF b = k THEN c ELSE child(n, b)
<1> DEFINE x == index(n, k)
<1>1. /\ x \in 0 .. n.lth
      /\ \A i \in 0 .. n.lth - 1 : IF i < x THEN n.keys[i] < k ELSE k < n.keys[i]
  BY IndexProperties
<1>2. /\ n.kind \in {"n4", "n16"}
      /\ n.lth \in 0 .. cap - 1
      /\ n.keys \in [0 .. cap - 1 -> Byte]
      /\ n.children \in [0 .. cap - 1 -> Kids]
      /\ \A i, j \in 0 .. n.lth - 1 : i < j => n.keys[i] < n.keys[j]
      /\ \A i \in 0 .. n.lth - 1 : n.children[i] # Nil
      /\ \A i \in n.lth .. cap - 1 : n.keys[i] = 0 /\ n.children[i] = Nil
  BY ListedFields
<1> HIDE DEF x
<1>3. m.kind = n.kind /\ m.lth = n.lth + 1
      /\ m.keys = ShiftIn(n.keys, x, k) /\ m.children = ShiftIn(n.children, x, c)
  BY DEF addListed, x, ListedNode
<1>4. /\ \A i \in 0 .. cap - 1 : m.keys[i] = IF i < x THEN n.keys[i] ELSE IF i = x THEN k ELSE n.keys[i - 1]
      /\ \A i \in 0 .. cap - 1 : m.children[i] = IF i < x THEN n.children[i] ELSE IF i = x THEN c ELSE n.children[i - 1]
      /\ DOMAIN m.keys = 0 .. cap - 1 /\ DOMAIN m.children = 0 .. cap - 1
  BY <1>2, <1>3 DEF ShiftIn
<1>5. m \in [kind : {"n4", "n16"}, lth : 0 .. cap, keys : [0 .. cap - 1 -> Byte],
             children : [0 .. cap - 1 -> Kids]]
  <2>1. ShiftIn(n.keys, x, k) \in [0 .. cap - 1 -> Byte]
    BY <1>1, <1>2 DEF ShiftIn
  <2>2. ShiftIn(n.children, x, c) \in [0 .. cap - 1 -> Kids]
    BY <1>1, <1>2 DEF ShiftIn, Kids
  <2>3. m = [n EXCEPT !.lth = n.lth + 1, !.keys = ShiftIn(n.keys, x, k),
                      !.children = ShiftIn(n.children, x, c)]
    BY DEF addListed, x
  <2>4. n \in [kind : {"n4", "n16"}, lth : 0 .. cap, keys : [0 .. cap - 1 -> Byte],
               children : [0 .. cap - 1 -> Kids]]
    BY DEF ListedNode
  <2>5. n.lth + 1 \in 0 .. cap
    BY <1>2
  <2> QED
    BY <2>1, <2>2, <2>3, <2>4, <2>5
<1>6. ASSUME NEW i \in 0 .. m.lth - 1, NEW j \in 0 .. m.lth - 1, i < j
      PROVE  m.keys[i] < m.keys[j]
  <2>1. i \in 0 .. cap - 1 /\ j \in 0 .. cap - 1 /\ j <= n.lth
    BY <1>2, <1>3
  <2>2. k \in Nat /\ \A h \in 0 .. n.lth - 1 : n.keys[h] \in Nat
    BY <1>2 DEF Byte
  <2>3. CASE j < x
    <3>1. i \in 0 .. n.lth - 1 /\ j \in 0 .. n.lth - 1 /\ i < x
      BY <1>1, <1>2, <1>6, <2>1, <2>3
    <3>2. m.keys[i] = n.keys[i] /\ m.keys[j] = n.keys[j]
      BY <1>4, <2>1, <2>3, <3>1
    <3> QED
      BY <1>2, <1>6, <3>1, <3>2
  <2>4. CASE j = x
    <3>1. i \in 0 .. n.lth - 1 /\ i < x
      BY <1>1, <1>2, <1>6, <2>1, <2>4
    <3>2. m.keys[i] = n.keys[i] /\ m.keys[j] = k
      BY <1>4, <2>1, <2>4, <3>1
    <3> QED
      BY <1>1, <3>1, <3>2
  <2>5. CASE x < j
    <3>1. m.keys[j] = n.keys[j - 1] /\ j - 1 \in 0 .. n.lth - 1 /\ k < n.keys[j - 1]
      BY <1>1, <1>2, <1>4, <2>1, <2>5
    <3>2. CASE i < x
      <4>1. i \in 0 .. n.lth - 1 /\ m.keys[i] = n.keys[i] /\ n.keys[i] < k
        BY <1>1, <1>2, <1>4, <2>1, <3>2
      <4>2. n.keys[i] \in Nat /\ n.keys[j - 1] \in Nat
        BY <2>2, <3>1, <4>1
      <4> QED
        BY <2>2, <3>1, <4>1, <4>2
    <3>3. CASE i = x
      BY <1>4, <2>1, <3>1, <3>3
    <3>4. CASE x < i
      <4>1. m.keys[i] = n.keys[i - 1] /\ i - 1 \in 0 .. n.lth - 1 /\ i - 1 < j - 1
        BY <1>1, <1>2, <1>4, <1>6, <2>1, <3>4
      <4> QED
        BY <1>2, <3>1, <4>1
    <3> QED
      BY <1>1, <3>2, <3>3, <3>4
  <2> QED
    BY <1>1, <2>3, <2>4, <2>5
<1>7. \A i \in 0 .. cap - 1 :
          IF i < m.lth THEN m.children[i] # Nil ELSE m.keys[i] = 0 /\ m.children[i] = Nil
  <2>1. c # Nil
    BY InodeAssumption
  <2>2. TAKE i \in 0 .. cap - 1
  <2>3. CASE i < x
    BY <1>1, <1>2, <1>3, <1>4, <2>3
  <2>4. CASE i = x
    BY <1>1, <1>2, <1>3, <1>4, <2>1, <2>4
  <2>5. CASE x < i
    <3>1. /\ i - 1 \in 0 .. cap - 1 /\ (i < m.lth <=> i - 1 < n.lth)
          /\ m.keys[i] = n.keys[i - 1] /\ m.children[i] = n.children[i - 1]
      BY <1>1, <1>2, <1>3, <1>4, <2>5
    <3>2. CASE i < m.lth
      BY <1>2, <3>1, <3>2
    <3>3. CASE ~(i < m.lth)
      <4>1. i - 1 \in n.lth .. cap - 1
        BY <1>2, <3>1, <3>3
      <4> QED
        BY <1>2, <3>1, <3>3, <4>1
    <3> QED
      BY <3>2, <3>3
  <2> QED
    BY <1>1, <2>3, <2>4, <2>5
<1>8. ListedNode(m, cap)
  BY <1>4, <1>5, <1>6, <1>7 DEF ListedNode, ListedRep
<1>9. ASSUME NEW b \in Byte PROVE child(m, b) = IF b = k THEN c ELSE child(n, b)
  <2>1. CASE b = k
    <3>1. x \in 0 .. m.lth - 1 /\ m.keys[x] = k /\ m.children[x] = c
      BY <1>1, <1>2, <1>3, <1>4
    <3> QED
      BY <1>8, <2>1, <3>1, ListedChild
  <2>2. CASE b # k /\ \E i \in 0 .. n.lth - 1 : n.keys[i] = b
    <3>1. PICK i \in 0 .. n.lth - 1 : n.keys[i] = b
      BY <2>2
    <3>2. PICK j \in 0 .. m.lth - 1 : m.keys[j] = b /\ m.children[j] = n.children[i]
      <4>1. CASE i < x
        <5>1. i \in 0 .. m.lth - 1 /\ m.keys[i] = b /\ m.children[i] = n.children[i]
          BY <1>2, <1>3, <1>4, <3>1, <4>1
        <5> QED
          BY <5>1
      <4>2. CASE ~(i < x)
        <5>1. i + 1 \in 0 .. cap - 1 /\ i + 1 \in 0 .. m.lth - 1 /\ x < i + 1 /\ (i + 1) - 1 = i
          BY <1>1, <1>2, <1>3, <4>2
        <5>2. m.keys[i + 1] = b /\ m.children[i + 1] = n.children[i]
          BY <1>1, <1>2, <1>4, <3>1, <5>1
        <5> QED
          BY <5>1, <5>2
      <4> QED
        BY <4>1, <4>2
    <3>3. child(n, b) = n.children[i]
      BY <3>1, ListedChild
    <3>4. child(m, b) = m.children[j]
      BY <1>8, <3>2, ListedChild
    <3> QED
      BY <2>2, <3>2, <3>3, <3>4
  <2>3. CASE b # k /\ ~ \E i \in 0 .. n.lth - 1 : n.keys[i] = b
    <3>1. child(n, b) = Nil
      BY <2>3, ListedChild
    <3>2. ASSUME NEW j \in 0 .. m.lth - 1 PROVE m.keys[j] # b
      <4>1. j \in 0 .. cap - 1 /\ j <= n.lth
        BY <1>2, <1>3
      <4>2. CASE j < x
        <5>1. j \in 0 .. n.lth - 1 /\ m.keys[j] = n.keys[j]
          BY <1>1, <1>2, <1>4, <4>1, <4>2
        <5> QED
          BY <2>3, <5>1
      <4>3. CASE j = x
        BY <1>4, <2>3, <4>1, <4>3
      <4>4. CASE x < j
        <5>1. j - 1 \in 0 .. n.lth - 1 /\ m.keys[j] = n.keys[j - 1]
          BY <1>1, <1>2, <1>4, <4>1, <4>4
        <5> QED
          BY <2>3, <5>1
      <4> QED
        BY <1>1, <4>2, <4>3, <4>4
    <3>3. child(m, b) = Nil
      BY <1>8, <3>2, ListedChild
    <3> QED
      BY <2>3, <3>1, <3>3
  <2> QED
    BY <2>1, <2>2, <2>3
<1> QED
  BY <1>3, <1>8, <1>9

\* The position of a byte that has a child is one of those in use.
LEMMA PositionProperties ==
    ASSUME NEW cap \in Nat, NEW n, ListedNode(n, cap), NEW k \in Byte, child(n, k) # Nil
    PROVE  /\ position(n, k) \in 0 .. n.lth - 1
           /\ n.keys[position(n, k)] = k
           /\ n.children[position(n, k)] = child(n, k)
<1> DEFINE hits == {i \in DOMAIN n.keys : n.keys[i] = k}
<1>1. n.lth \in 0 .. cap /\ DOMAIN n.keys = 0 .. cap - 1
  BY ListedFields
<1>2. PICK i \in 0 .. n.lth - 1 : n.keys[i] = k
  BY ListedChild
<1>3. i \in hits /\ hits \in SUBSET Nat
  BY <1>1, <1>2
<1>4. Min(hits) \in hits /\ \A j \in hits : Min(hits) <= j
  BY <1>3, MinOfNats
<1>5. position(n, k) = Min(hits)
  BY DEF position
<1>6. n.keys[position(n, k)] = k /\ position(n, k) \in Nat
  BY <1>3, <1>4, <1>5
<1> HIDE DEF hits
<1>7. position(n, k) \in 0 .. n.lth - 1
  BY <1>1, <1>3, <1>4, <1>5, <1>6
<1> QED
  BY <1>6, <1>7, ListedChild

\* replace with a child, node4 and node16: one byte has another child.
LEMMA ListedReplace ==
    ASSUME NEW cap \in Nat, NEW n, ListedNode(n, cap),
           NEW k \in Byte, NEW c \in Child, child(n, k) # Nil,
           NEW m, m = replaceChild(n, k, c)
    PROVE  /\ ListedNode(m, cap)
           /\ m.kind = n.kind /\ m.lth = n.lth
           /\ \A b \in Byte : child(m, b) = IF b = k THEN c ELSE child(n, b)
<1> DEFINE p == position(n, k)
<1>1. p \in 0 .. n.lth - 1 /\ n.keys[p] = k
  BY PositionProperties
<1> HIDE DEF p
<1>2. /\ n.kind \in {"n4", "n16"}
      /\ n.lth \in 0 .. cap
      /\ n.keys \in [0 .. cap - 1 -> Byte]
      /\ n.children \in [0 .. cap - 1 -> Kids]
      /\ \A i, j \in 0 .. n.lth - 1 : i < j => n.keys[i] < n.keys[j]
  BY ListedFields
<1>3. m = [n EXCEPT !.children = [n.children EXCEPT ![p] = c]]
  BY <1>2 DEF replaceChild, Listed, p
<1>4. n \in [kind : {"n4", "n16"}, lth : 0 .. cap, keys : [0 .. cap - 1 -> Byte],
             children : [0 .. cap - 1 -> Kids]]
  BY DEF ListedNode
<1>5. [n.children EXCEPT ![p] = c] \in [0 .. cap - 1 -> Kids]
  BY <1>1, <1>2 DEF Kids
<1>6. m \in [kind : {"n4", "n16"}, lth : 0 .. cap, keys : [0 .. cap - 1 -> Byte],
             children : [0 .. cap - 1 -> Kids]]
  BY <1>3, <1>4, <1>5
<1>7. m.kind = n.kind /\ m.lth = n.lth /\ m.keys = n.keys
      /\ m.children = [n.children EXCEPT ![p] = c]
  BY <1>3, <1>4
<1>8. \A i \in 0 .. cap - 1 : m.children[i] = IF i = p THEN c ELSE n.children[i]
  BY <1>2, <1>7
<1>9. ListedNode(m, cap)
  <2>1. c # Nil /\ DOMAIN m.keys = 0 .. cap - 1 /\ DOMAIN n.keys = 0 .. cap - 1
    BY InodeAssumption, <1>2, <1>7
  <2>2. \A i \in 0 .. cap - 1 :
          IF i < n.lth THEN n.children[i] # Nil ELSE n.keys[i] = 0 /\ n.children[i] = Nil
    BY <2>1 DEF ListedNode, ListedRep
  <2>3. \A i \in 0 .. cap - 1 :
          IF i < m.lth THEN m.children[i] # Nil ELSE m.keys[i] = 0 /\ m.children[i] = Nil
    BY <1>1, <1>2, <1>7, <1>8, <2>1, <2>2
  <2> QED
    BY <1>2, <1>6, <1>7, <2>1, <2>3 DEF ListedNode, ListedRep
<1>10. ASSUME NEW b \in Byte PROVE child(m, b) = IF b = k THEN c ELSE child(n, b)
  <2>1. CASE b = k
    <3>1. p \in 0 .. m.lth - 1 /\ m.keys[p] = k /\ m.children[p] = c
      BY <1>1, <1>2, <1>7, <1>8
    <3> QED
      BY <1>9, <2>1, <3>1, ListedChild
  <2>2. CASE b # k /\ \E i \in 0 .. n.lth - 1 : n.keys[i] = b
    <3>1. PICK i \in 0 .. n.lth - 1 : n.keys[i] = b
      BY <2>2
    <3>2. i \in 0 .. m.lth - 1 /\ m.keys[i] = b /\ m.children[i] = n.children[i]
      BY <1>1, <1>2, <1>7, <1>8, <2>2, <3>1
    <3>3. child(n, b) = n.children[i]
      BY <3>1, ListedChild
    <3>4. child(m, b) = m.children[i]
      BY <1>9, <3>2, ListedChild
    <3> QED
      BY <2>2, <3>2, <3>3, <3>4
  <2>3. CASE b # k /\ ~ \E i \in 0 .. n.lth - 1 : n.keys[i] = b
    <3>1. child(n, b) = Nil
      BY <2>3, ListedChild
    <3>2. child(m, b) = Nil
      BY <1>7, <1>9, <2>3, ListedChild
    <3> QED
      BY <2>3, <3>1, <3>2
  <2> QED
    BY <2>1, <2>2, <2>3
<1> QED
  BY <1>7, <1>9, <1>10

\* replace with nil, node4 and node16: closing the gap and clearing the last
\* place takes one byte away and moves every other child with its key.
LEMMA ListedRemove ==
    ASSUME NEW cap \in Nat, NEW n, ListedNode(n, cap),
           NEW k \in Byte, child(n, k) # Nil,
           NEW m, m = removeChild(n, k)
    PROVE  /\ ListedNode(m, cap)
           /\ m.kind = n.kind /\ m.lth = n.lth - 1
           /\ \A b \in Byte : child(m, b) = IF b = k THEN Nil ELSE child(n, b)
<1> DEFINE p == position(n, k)
<1>1. p \in 0 .. n.lth - 1 /\ n.keys[p] = k
  BY PositionProperties
<1> HIDE DEF p
<1>2. /\ n.kind \in {"n4", "n16"}
      /\ n.lth \in 1 .. cap
      /\ n.keys \in [0 .. cap - 1 -> Byte]
      /\ n.children \in [0 .. cap - 1 -> Kids]
      /\ \A i, j \in 0 .. n.lth - 1 : i < j => n.keys[i] < n.keys[j]
      /\ \A i \in 0 .. n.lth - 1 : n.children[i] # Nil
      /\ \A i \in n.lth .. cap - 1 : n.keys[i] = 0 /\ n.children[i] = Nil
  BY <1>1, ListedFields
<1>3. m = [n EXCEPT !.keys = ShiftOut(n.keys, p, n.lth, 0),
                    !.children = ShiftOut(n.children, p, n.lth, Nil), !.lth = n.lth - 1]
  BY <1>2 DEF removeChild, Listed, p
<1>4. n \in [kind : {"n4", "n16"}, lth : 0 .. cap, keys : [0 .. cap - 1 -> Byte],
             children : [0 .. cap - 1 -> Kids]]
  BY DEF ListedNode
<1>5. m.kind = n.kind /\ m.lth = n.lth - 1 /\ m.keys = ShiftOut(n.keys, p, n.lth, 0)
      /\ m.children = ShiftOut(n.children, p, n.lth, Nil)
  BY <1>3, <1>4
<1>6. m \in [kind : {"n4", "n16"}, lth : 0 .. cap, keys : [0 .. cap - 1 -> Byte],
             children : [0 .. cap - 1 -> Kids]]
  <2>1. 0 \in Byte
    BY InodeAssumption DEF Byte
  <2>2. ShiftOut(n.keys, p, n.lth, 0) \in [0 .. cap - 1 -> Byte]
    BY <1>2, <2>1 DEF ShiftOut
  <2>3. ShiftOut(n.children, p, n.lth, Nil) \in [0 .. cap - 1 -> Kids]
    BY <1>2 DEF ShiftOut, Kids
  <2>4. n.lth - 1 \in 0 .. cap
    BY <1>2
  <2> QED
    BY <1>3, <1>4, <2>2, <2>3, <2>4
<1>7. ASSUME NEW i \in 0 .. n.lth - 2
      PROVE  /\ i < p => m.keys[i] = n.keys[i] /\ m.children[i] = n.children[i]
             /\ p <= i => m.keys[i] = n.keys[i + 1] /\ m.children[i] = n.children[i + 1]
  <2>1. i \in 0 .. cap - 1 /\ i + 1 \in 0 .. cap - 1 /\ i # n.lth - 1
    BY <1>2
  <2>2. DOMAIN n.keys = 0 .. cap - 1 /\ DOMAIN n.children = 0 .. cap - 1
    BY <1>2
  <2> QED
    BY <1>1, <1>5, <2>1, <2>2 DEF ShiftOut
<1>8. ASSUME NEW i \in n.lth - 1 .. cap - 1
      PROVE  m.keys[i] = 0 /\ m.children[i] = Nil
  <2>1. DOMAIN n.keys = 0 .. cap - 1 /\ DOMAIN n.children = 0 .. cap - 1 /\ i \in 0 .. cap - 1
    BY <1>2
  <2>2. CASE i = n.lth - 1
    BY <1>5, <2>1, <2>2 DEF ShiftOut
  <2>3. CASE i # n.lth - 1 /\ i + 1 \in 0 .. cap - 1
    <3>1. i + 1 \in n.lth .. cap - 1 /\ i >= p
      BY <1>1, <1>2, <2>3
    <3> QED
      BY <1>2, <1>5, <2>1, <2>3, <3>1 DEF ShiftOut
  <2>4. CASE i # n.lth - 1 /\ i + 1 \notin 0 .. cap - 1
    <3>1. i \in n.lth .. cap - 1
      BY <1>2, <2>4
    <3> QED
      BY <1>2, <1>5, <2>1, <2>4, <3>1 DEF ShiftOut
  <2> QED
    BY <2>2, <2>3, <2>4
<1>9. ASSUME NEW i \in 0 .. m.lth - 1, NEW j \in 0 .. m.lth - 1, i < j
      PROVE  m.keys[i] < m.keys[j]
  <2>1. /\ i \in 0 .. n.lth - 2 /\ j \in 0 .. n.lth - 2
        /\ i \in 0 .. n.lth - 1 /\ j \in 0 .. n.lth - 1
        /\ i + 1 \in 0 .. n.lth - 1 /\ j + 1 \in 0 .. n.lth - 1
        /\ i < j + 1 /\ i + 1 < j + 1
    BY <1>2, <1>5, <1>9
  <2>2. CASE j < p
    BY <1>1, <1>2, <1>7, <1>9, <2>1, <2>2
  <2>3. CASE i < p /\ p <= j
    BY <1>2, <1>7, <2>1, <2>3
  <2>4. CASE p <= i
    BY <1>1, <1>2, <1>7, <1>9, <2>1, <2>4
  <2> QED
    BY <1>1, <2>1, <2>2, <2>3, <2>4
<1>10. ASSUME NEW i \in 0 .. m.lth - 1 PROVE m.children[i] # Nil
  <2>1. i \in 0 .. n.lth - 2 /\ i \in 0 .. n.lth - 1 /\ i + 1 \in 0 .. n.lth - 1
    BY <1>2, <1>5
  <2>2. CASE i < p
    BY <1>2, <1>7, <2>1, <2>2
  <2>3. CASE p <= i
    BY <1>2, <1>7, <2>1, <2>3
  <2> QED
    BY <1>1, <2>1, <2>2, <2>3
<1>11. ListedNode(m, cap)
  <2>1. DOMAIN m.keys = 0 .. cap - 1
    BY <1>6
  <2>2. \A i \in 0 .. cap - 1 :
          IF i < m.lth THEN m.children[i] # Nil ELSE m.keys[i] = 0 /\ m.children[i] = Nil
    BY <1>2, <1>5, <1>8, <1>10
  <2> QED
    BY <1>6, <1>9, <2>1, <2>2 DEF ListedNode, ListedRep
<1>12. ASSUME NEW b \in Byte PROVE child(m, b) = IF b = k THEN Nil ELSE child(n, b)
  <2>1. ASSUME NEW i \in 0 .. n.lth - 1, n.keys[i] = b, i # p
        PROVE  child(m, b) = child(n, b)
    <3>1. PICK j \in 0 .. m.lth - 1 : m.keys[j] = b /\ m.children[j] = n.children[i]
      <4>1. CASE i < p
        <5>1. i \in 0 .. n.lth - 2 /\ i \in 0 .. m.lth - 1
          BY <1>1, <1>2, <1>5, <4>1
        <5> QED
          BY <1>7, <2>1, <4>1, <5>1
      <4>2. CASE p < i
        <5>1. i - 1 \in 0 .. n.lth - 2 /\ i - 1 \in 0 .. m.lth - 1 /\ p <= i - 1 /\ (i - 1) + 1 = i
          BY <1>1, <1>2, <1>5, <4>2
        <5>2. m.keys[i - 1] = b /\ m.children[i - 1] = n.children[i]
          BY <1>7, <2>1, <5>1
        <5> QED
          BY <5>1, <5>2
      <4> QED
        BY <1>1, <2>1, <4>1, <4>2
    <3> QED
      BY <1>11, <2>1, <3>1, ListedChild
  <2>2. ASSUME NEW j \in 0 .. m.lth - 1
        PROVE  \E i \in 0 .. n.lth - 1 : i # p /\ n.keys[i] = m.keys[j]
    <3>1. j \in 0 .. n.lth - 2 /\ j \in 0 .. n.lth - 1 /\ j + 1 \in 0 .. n.lth - 1
      BY <1>2, <1>5
    <3>2. CASE j < p
      BY <1>1, <1>7, <3>1, <3>2
    <3>3. CASE p <= j
      <4>1. j + 1 # p /\ n.keys[j + 1] = m.keys[j]
        BY <1>1, <1>7, <3>1, <3>3
      <4> QED
        BY <3>1, <4>1
    <3> QED
      BY <1>1, <3>1, <3>2, <3>3
  <2>3. \A i \in 0 .. n.lth - 1 : i # p => n.keys[i] # k
    <3>1. p \in Int /\ \A i \in 0 .. n.lth - 1 : n.keys[i] \in Int
      BY <1>1, <1>2 DEF Byte
    <3>2. TAKE i \in 0 .. n.lth - 1
    <3>3. i < p => n.keys[i] < n.keys[p]
      BY <1>1, <1>2
    <3>4. p < i => n.keys[p] < n.keys[i]
      BY <1>1, <1>2
    <3> QED
      BY <1>1, <3>1, <3>3, <3>4
  <2>4. CASE b = k
    <3>1. \A j \in 0 .. m.lth - 1 : m.keys[j] # b
      BY <2>2, <2>3, <2>4
    <3> QED
      BY <1>11, <2>4, <3>1, ListedChild
  <2>5. CASE b # k /\ \E i \in 0 .. n.lth - 1 : n.keys[i] = b
    BY <1>1, <2>1, <2>5
  <2>6. CASE b # k /\ ~ \E i \in 0 .. n.lth - 1 : n.keys[i] = b
    <3>1. \A j \in 0 .. m.lth - 1 : m.keys[j] # b
      BY <2>2, <2>6
    <3>2. child(m, b) = Nil
      BY <1>11, <3>1, ListedChild
    <3>3. child(n, b) = Nil
      BY <2>6, ListedChild
    <3> QED
      BY <2>6, <3>2, <3>3
  <2> QED
    BY <2>4, <2>5, <2>6
<1> QED
  BY <1>5, <1>11, <1>12

-----------------------------------------------------------------------------
(* node48 *)

SlotNode(n) ==
    /\ n \in [kind : {"n48"}, lth : 0 .. Cap48, keys : [Byte -> 0 .. Cap48],
              children : [Slots48 -> Kids]]
    /\ SlotRep(n)

UsedSlots(n) == {s \in Slots48 : n.children[s] # Nil}

\* The fields of a node48 and what SlotRep says of them.
LEMMA SlotFields ==
    ASSUME NEW n, SlotNode(n)
    PROVE  /\ n.kind = "n48"
           /\ n.lth \in 0 .. Cap48
           /\ n.keys \in [Byte -> 0 .. Cap48]
           /\ n.children \in [Slots48 -> Kids]
           /\ \A a, b \in Byte : n.keys[a] # 0 /\ n.keys[a] = n.keys[b] => a = b
           /\ \A b \in Byte : n.keys[b] # 0 => n.children[n.keys[b] - 1] # Nil
           /\ \A s \in Slots48 : n.children[s] # Nil => \E b \in Byte : n.keys[b] = s + 1
           /\ n.lth = Cardinality(UsedSlots(n))
           /\ IsFiniteSet(UsedSlots(n))
           /\ \A b \in Byte : child(n, b) = IF n.keys[b] = 0 THEN Nil ELSE n.children[n.keys[b] - 1]
           /\ \A b \in Byte : n.keys[b] # 0 => n.keys[b] - 1 \in Slots48
<1>1. /\ n.kind = "n48"
      /\ n.lth \in 0 .. Cap48
      /\ n.keys \in [Byte -> 0 .. Cap48]
      /\ n.children \in [Slots48 -> Kids]
  BY DEF SlotNode
<1>2. IsFiniteSet(UsedSlots(n))
  <2>1. IsFiniteSet(Slots48)
    BY FS_Interval, InodeAssumption DEF Slots48
  <2>2. UsedSlots(n) \in SUBSET Slots48
    BY DEF UsedSlots
  <2> QED
    BY <2>1, <2>2, FS_Subset
<1>3. \A b \in Byte : child(n, b) = IF n.keys[b] = 0 THEN Nil ELSE n.children[n.keys[b] - 1]
  BY <1>1 DEF child, Listed
<1>4. \A b \in Byte : n.keys[b] # 0 => n.keys[b] - 1 \in Slots48
  BY <1>1, InodeAssumption DEF Slots48
<1> QED
  BY <1>1, <1>2, <1>3, <1>4 DEF SlotNode, SlotRep, UsedSlots

\* A node48 with fewer children than slots has a free slot for addChild.
LEMMA SlotRoom ==
    ASSUME NEW n, SlotNode(n), n.lth < Cap48
    PROVE  /\ FreeSlots(n) # {}
           /\ Min(FreeSlots(n)) \in Slots48 /\ n.children[Min(FreeSlots(n))] = Nil
<1>1. FreeSlots(n) # {}
  <2>1. SUFFICES ASSUME FreeSlots(n) = {} PROVE FALSE
    OBVIOUS
  <2>2. UsedSlots(n) = 0 .. Cap48 - 1
    BY <2>1 DEF FreeSlots, UsedSlots, Slots48
  <2>3. Cardinality(0 .. Cap48 - 1) = Cap48
    BY FS_Interval, InodeAssumption
  <2> QED
    BY <2>2, <2>3, SlotFields, InodeAssumption
<1>2. FreeSlots(n) \in SUBSET Nat
  BY InodeAssumption DEF FreeSlots, Slots48
<1>3. Min(FreeSlots(n)) \in FreeSlots(n)
  BY <1>1, <1>2, MinOfNats
<1> QED
  BY <1>1, <1>3 DEF FreeSlots

\* addChild of node48 with room: the first free slot is nobody else's, so one
\* byte gets a child and the others keep theirs.
LEMMA SlotAdd ==
    ASSUME NEW n, SlotNode(n), n.lth < Cap48,
           NEW k \in Byte, NEW c \in Child, child(n, k) = Nil,
           NEW m, m = add48(n, k, c)
    PROVE  /\ SlotNode(m) /\ m.lth = n.lth + 1
           /\ \A b \in Byte : child(m, b) = IF b = k THEN c ELSE child(n, b)
<1> DEFINE s == Min(FreeSlots(n))
<1>1. s \in Slots48 /\ n.children[s] = Nil
  BY SlotRoom
<1> HIDE DEF s
<1>2. /\ n.lth \in 0 .. Cap48 - 1
      /\ n.keys \in [Byte -> 0 .. Cap48]
      /\ n.children \in [Slots48 -> Kids]
      /\ \A a, b \in Byte : n.keys[a] # 0 /\ n.keys[a] = n.keys[b] => a = b
      /\ \A b \in Byte : n.keys[b] # 0 => n.children[n.keys[b] - 1] # Nil
      /\ \A t \in Slots48 : n.children[t] # Nil => \E b \in Byte : n.keys[b] = t + 1
      /\ \A b \in Byte : n.keys[b] # 0 => n.keys[b] - 1 \in Slots48
  BY SlotFields, InodeAssumption
<1>3. \A b \in Byte : child(n, b) = IF n.keys[b] = 0 THEN Nil ELSE n.children[n.keys[b] - 1]
  BY SlotFields
<1>4. n.keys[k] = 0
  BY <1>2, <1>3
<1>5. c # Nil /\ c \in Kids /\ s \in Nat /\ s + 1 \in 1 .. Cap48 /\ (s + 1) - 1 = s
  BY <1>1, InodeAssumption DEF Slots48, Kids
<1>6. n \in [kind : {"n48"}, lth : 0 .. Cap48, keys : [Byte -> 0 .. Cap48],
             children : [Slots48 -> Kids]]
  BY DEF SlotNode
<1>7. m = [n EXCEPT !.lth = n.lth + 1, !.keys = [n.keys EXCEPT ![k] = s + 1],
                    !.children = [n.children EXCEPT ![s] = c]]
  BY <1>6 DEF add48, s
<1>8. /\ m.kind = "n48" /\ m.lth = n.lth + 1
      /\ m.keys = [n.keys EXCEPT ![k] = s + 1]
      /\ m.children = [n.children EXCEPT ![s] = c]
  BY <1>6, <1>7
<1>9. m \in [kind : {"n48"}, lth : 0 .. Cap48, keys : [Byte -> 0 .. Cap48],
             children : [Slots48 -> Kids]]
  <2>1. [n.keys EXCEPT ![k] = s + 1] \in [Byte -> 0 .. Cap48]
    BY <1>2, <1>5, InodeAssumption
  <2>2. [n.children EXCEPT ![s] = c] \in [Slots48 -> Kids]
    BY <1>2, <1>5
  <2>3. n.lth + 1 \in 0 .. Cap48
    BY <1>2, InodeAssumption
  <2> QED
    BY <1>6, <1>7, <2>1, <2>2, <2>3
<1>10. /\ \A b \in Byte : m.keys[b] = IF b = k THEN s + 1 ELSE n.keys[b]
       /\ \A t \in Slots48 : m.children[t] = IF t = s THEN c ELSE n.children[t]
  BY <1>2, <1>8
<1>11. \A b \in Byte : n.keys[b] # s + 1
  BY <1>1, <1>2, <1>5
<1>12. \A b \in Byte : m.keys[b] # 0 => m.children[m.keys[b] - 1] = (IF b = k THEN c ELSE n.children[n.keys[b] - 1])
  <2> TAKE b \in Byte
  <2>1. CASE b = k
    BY <1>1, <1>5, <1>10, <2>1
  <2>2. CASE b # k /\ n.keys[b] # 0
    <3>1. n.keys[b] - 1 \in Slots48 /\ n.keys[b] - 1 # s
      BY <1>2, <1>5, <1>11, <2>2
    <3> QED
      BY <1>10, <2>2, <3>1
  <2> QED
    BY <1>10, <2>1, <2>2
<1>13. SlotNode(m)
  <2>1. \A a, b \in Byte : m.keys[a] # 0 /\ m.keys[a] = m.keys[b] => a = b
    BY <1>2, <1>10, <1>11
  <2>2. \A b \in Byte : m.keys[b] # 0 => m.children[m.keys[b] - 1] # Nil
    BY <1>2, <1>5, <1>10, <1>12
  <2>3. \A t \in Slots48 : m.children[t] # Nil => \E b \in Byte : m.keys[b] = t + 1
    <3> TAKE t \in Slots48
    <3>1. CASE t = s
      BY <1>10, <3>1
    <3>2. CASE t # s /\ n.children[t] # Nil
      <4>1. PICK b \in Byte : n.keys[b] = t + 1
        BY <1>2, <3>2
      <4>2. b # k
        BY <1>4, <4>1, InodeAssumption DEF Slots48
      <4> QED
        BY <1>10, <4>1, <4>2
    <3> QED
      BY <1>10, <3>1, <3>2
  <2>4. UsedSlots(m) = UsedSlots(n) \cup {s} /\ s \notin UsedSlots(n)
    BY <1>1, <1>5, <1>10 DEF UsedSlots
  <2>5. m.lth = Cardinality(UsedSlots(m))
    <3>1. IsFiniteSet(UsedSlots(n)) /\ n.lth = Cardinality(UsedSlots(n))
      BY SlotFields
    <3>2. Cardinality(UsedSlots(n) \cup {s}) = Cardinality(UsedSlots(n)) + 1
      BY <2>4, <3>1, FS_AddElement
    <3> QED
      BY <1>8, <2>4, <3>1, <3>2
  <2> QED
    BY <1>9, <2>1, <2>2, <2>3, <2>5 DEF SlotNode, SlotRep, UsedSlots
<1>14. ASSUME NEW b \in Byte PROVE child(m, b) = IF b = k THEN c ELSE child(n, b)
  <2>1. child(m, b) = IF m.keys[b] = 0 THEN Nil ELSE m.children[m.keys[b] - 1]
    BY <1>13, SlotFields
  <2> QED
    BY <1>3, <1>5, <1>10, <1>12, <2>1
<1> QED
  BY <1>8, <1>13, <1>14

\* replace with a child, node48: the slot belongs to one byte only.
LEMMA SlotReplace ==
    ASSUME NEW n, SlotNode(n),
           NEW k \in Byte, NEW c \in Child, child(n, k) # Nil,
           NEW m, m = replaceChild(n, k, c)
    PROVE  /\ SlotNode(m) /\ m.lth = n.lth
           /\ \A b \in Byte : child(m, b) = IF b = k THEN c ELSE child(n, b)
<1> DEFINE s == n.keys[k] - 1
<1>1. /\ n.kind = "n48"
      /\ n.keys \in [Byte -> 0 .. Cap48]
      /\ n.children \in [Slots48 -> Kids]
      /\ \A a, b \in Byte : n.keys[a] # 0 /\ n.keys[a] = n.keys[b] => a = b
      /\ \A b \in Byte : n.keys[b] # 0 => n.children[n.keys[b] - 1] # Nil
      /\ \A t \in Slots48 : n.children[t] # Nil => \E b \in Byte : n.keys[b] = t + 1
      /\ \A b \in Byte : n.keys[b] # 0 => n.keys[b] - 1 \in Slots48
  BY SlotFields
<1>2. \A b \in Byte : child(n, b) = IF n.keys[b] = 0 THEN Nil ELSE n.children[n.keys[b] - 1]
  BY SlotFields
<1>3. n.keys[k] # 0 /\ s \in Slots48 /\ n.keys[k] = s + 1 /\ n.children[s] # Nil
  BY <1>1, <1>2, InodeAssumption
<1>4. c # Nil /\ c \in Kids
  BY InodeAssumption DEF Kids
<1>5. n \in [kind : {"n48"}, lth : 0 .. Cap48, keys : [Byte -> 0 .. Cap48],
             children : [Slots48 -> Kids]]
  BY DEF SlotNode
<1>6. m = [n EXCEPT !.children = [n.children EXCEPT ![s] = c]]
  BY <1>1, <1>5 DEF replaceChild, Listed
<1> HIDE DEF s
<1>7. /\ m.kind = "n48" /\ m.lth = n.lth /\ m.keys = n.keys
      /\ m.children = [n.children EXCEPT ![s] = c]
  BY <1>5, <1>6
<1>8. m \in [kind : {"n48"}, lth : 0 .. Cap48, keys : [Byte -> 0 .. Cap48],
             children : [Slots48 -> Kids]]
  <2>1. [n.children EXCEPT ![s] = c] \in [Slots48 -> Kids]
    BY <1>1, <1>4
  <2> QED
    BY <1>5, <1>6, <2>1
<1>9. \A t \in Slots48 : m.children[t] = IF t = s THEN c ELSE n.children[t]
  BY <1>1, <1>7
<1>10. \A b \in Byte : n.keys[b] # 0 => m.children[n.keys[b] - 1] = (IF b = k THEN c ELSE n.children[n.keys[b] - 1])
  <2> TAKE b \in Byte
  <2>1. CASE b = k
    BY <1>3, <1>9, <2>1 DEF s
  <2>2. CASE b # k /\ n.keys[b] # 0
    <3>1. n.keys[b] \in Int /\ n.keys[k] \in Int /\ n.keys[b] # n.keys[k]
      BY <1>1, <1>3, <2>2, InodeAssumption
    <3>2. n.keys[b] - 1 \in Slots48 /\ n.keys[b] - 1 # s
      BY <1>1, <2>2, <3>1 DEF s
    <3> QED
      BY <1>9, <2>2, <3>2
  <2> QED
    BY <2>1, <2>2
<1>11. SlotNode(m)
  <2>1. \A b \in Byte : m.keys[b] # 0 => m.children[m.keys[b] - 1] # Nil
    BY <1>1, <1>4, <1>7, <1>10
  <2>2. \A t \in Slots48 : m.children[t] # Nil <=> n.children[t] # Nil
    BY <1>3, <1>4, <1>9
  <2>3. UsedSlots(m) = UsedSlots(n)
    BY <2>2 DEF UsedSlots
  <2>4. m.lth = Cardinality(UsedSlots(m))
    BY <1>7, <2>3, SlotFields
  <2>5. \A t \in Slots48 : m.children[t] # Nil => \E b \in Byte : m.keys[b] = t + 1
    BY <1>1, <1>7, <2>2
  <2>6. \A a, b \in Byte : m.keys[a] # 0 /\ m.keys[a] = m.keys[b] => a = b
    BY <1>1, <1>7
  <2> QED
    BY <1>8, <2>1, <2>4, <2>5, <2>6 DEF SlotNode, SlotRep, UsedSlots
<1>12. ASSUME NEW b \in Byte PROVE child(m, b) = IF b = k THEN c ELSE child(n, b)
  <2>1. child(m, b) = IF m.keys[b] = 0 THEN Nil ELSE m.children[m.keys[b] - 1]
    BY <1>11, SlotFields
  <2> QED
    BY <1>2, <1>3, <1>7, <1>10, <2>1
<1> QED
  BY <1>7, <1>11, <1>12

\* replace with nil, node48: the slot is free again and no other byte uses it.
LEMMA SlotRemove ==
    ASSUME NEW n, SlotNode(n),
           NEW k \in Byte, child(n, k) # Nil,
           NEW m, m = removeChild(n, k)
    PROVE  /\ SlotNode(m) /\ m.lth = n.lth - 1
           /\ \A b \in Byte : child(m, b) = IF b = k THEN Nil ELSE child(n, b)
<1> DEFINE s == n.keys[k] - 1
<1>1. /\ n.kind = "n48"
      /\ n.lth \in 0 .. Cap48
      /\ n.keys \in [Byte -> 0 .. Cap48]
      /\ n.children \in [Slots48 -> Kids]
      /\ \A a, b \in Byte : n.keys[a] # 0 /\ n.keys[a] = n.keys[b] => a = b
      /\ \A b \in Byte : n.keys[b] # 0 => n.children[n.keys[b] - 1] # Nil
      /\ \A t \in Slots48 : n.children[t] # Nil => \E b \in Byte : n.keys[b] = t + 1
      /\ \A b \in Byte : n.keys[b] # 0 => n.keys[b] - 1 \in Slots48
  BY SlotFields
<1>2. \A b \in Byte : child(n, b) = IF n.keys[b] = 0 THEN Nil ELSE n.children[n.keys[b] - 1]
  BY SlotFields
<1>3. n.keys[k] # 0 /\ s \in Slots48 /\ n.keys[k] = s + 1 /\ n.children[s] # Nil
  BY <1>1, <1>2, InodeAssumption
<1>4. Nil \in Kids /\ 0 \in 0 .. Cap48
  BY InodeAssumption DEF Kids
<1>5. n \in [kind : {"n48"}, lth : 0 .. Cap48, keys : [Byte -> 0 .. Cap48],
             children : [Slots48 -> Kids]]
  BY DEF SlotNode
<1>6. m = [n EXCEPT !.children = [n.children EXCEPT ![s] = Nil],
                    !.keys = [n.keys EXCEPT ![k] = 0], !.lth = n.lth - 1]
  BY <1>1, <1>5 DEF removeChild, remove48, Listed
<1> HIDE DEF s
<1>7. /\ m.kind = "n48" /\ m.lth = n.lth - 1
      /\ m.keys = [n.keys EXCEPT ![k] = 0]
      /\ m.children = [n.children EXCEPT ![s] = Nil]
  BY <1>5, <1>6
<1>8. /\ \A b \in Byte : m.keys[b] = IF b = k THEN 0 ELSE n.keys[b]
      /\ \A t \in Slots48 : m.children[t] = IF t = s THEN Nil ELSE n.children[t]
  BY <1>1, <1>7
<1>9. /\ UsedSlots(m) = UsedSlots(n) \ {s} /\ s \in UsedSlots(n)
      /\ IsFiniteSet(UsedSlots(n)) /\ n.lth = Cardinality(UsedSlots(n))
  BY <1>3, <1>8, SlotFields DEF UsedSlots
<1>10. m.lth = Cardinality(UsedSlots(m)) /\ m.lth \in Nat
  <2>1. IsFiniteSet(UsedSlots(m)) /\ Cardinality(UsedSlots(m)) = Cardinality(UsedSlots(n)) - 1
    BY <1>9, FS_RemoveElement
  <2> QED
    BY <1>7, <1>9, <2>1, FS_CardinalityType
<1>11. m \in [kind : {"n48"}, lth : 0 .. Cap48, keys : [Byte -> 0 .. Cap48],
             children : [Slots48 -> Kids]]
  <2>1. [n.children EXCEPT ![s] = Nil] \in [Slots48 -> Kids]
    BY <1>1, <1>4
  <2>2. [n.keys EXCEPT ![k] = 0] \in [Byte -> 0 .. Cap48]
    BY <1>1, <1>4
  <2>3. n.lth - 1 \in 0 .. Cap48
    BY <1>1, <1>7, <1>10, InodeAssumption
  <2> QED
    BY <1>5, <1>6, <2>1, <2>2, <2>3
<1>12. \A b \in Byte : b # k /\ n.keys[b] # 0 =>
          n.keys[b] - 1 \in Slots48 /\ m.children[n.keys[b] - 1] = n.children[n.keys[b] - 1]
  <2> TAKE b \in Byte
  <2>1. CASE b # k /\ n.keys[b] # 0
    <3>1. n.keys[b] \in Int /\ n.keys[k] \in Int /\ n.keys[b] # n.keys[k]
      BY <1>1, <1>3, <2>1, InodeAssumption
    <3>2. n.keys[b] - 1 \in Slots48 /\ n.keys[b] - 1 # s
      BY <1>1, <2>1, <3>1 DEF s
    <3> QED
      BY <1>8, <2>1, <3>2
  <2> QED
    BY <2>1
<1>13. SlotNode(m)
  <2>1. \A b \in Byte : m.keys[b] # 0 => m.children[m.keys[b] - 1] # Nil
    BY <1>1, <1>8, <1>12
  <2>2. \A t \in Slots48 : m.children[t] # Nil => \E b \in Byte : m.keys[b] = t + 1
    <3> TAKE t \in Slots48
    <3>1. CASE t # s /\ n.children[t] # Nil
      <4>1. PICK b \in Byte : n.keys[b] = t + 1
        BY <1>1, <3>1
      <4>2. b # k
        BY <1>3, <3>1, <4>1, InodeAssumption DEF Slots48
      <4> QED
        BY <1>8, <4>1, <4>2
    <3> QED
      BY <1>8, <3>1
  <2>3. \A a, b \in Byte : m.keys[a] # 0 /\ m.keys[a] = m.keys[b] => a = b
    BY <1>1, <1>8
  <2> QED
    BY <1>10, <1>11, <2>1, <2>2, <2>3 DEF SlotNode, SlotRep, UsedSlots
<1>14. ASSUME NEW b \in Byte PROVE child(m, b) = IF b = k THEN Nil ELSE child(n, b)
  <2>1. child(m, b) = IF m.keys[b] = 0 THEN Nil ELSE m.children[m.keys[b] - 1]
    BY <1>13, SlotFields
  <2> QED
    BY <1>2, <1>3, <1>8, <1>12, <2>1
<1> QED
  BY <1>7, <1>13, <1>14

-----------------------------------------------------------------------------
(* node256 *)

DirectNode(n) ==
    /\ n \in [kind : {"n256"}, lth : 0 .. MaxByte + 1, keys : {<<>>},
              children : [Byte -> Kids]]
    /\ DirectRep(n)

\* The fields of a node256 and what DirectRep says of them.
LEMMA DirectFields ==
    ASSUME NEW n, DirectNode(n)
    PROVE  /\ n.kind = "n256"
           /\ n.lth \in 0 .. MaxByte + 1
           /\ n.children \in [Byte -> Kids]
           /\ IsFiniteSet({b \in Byte : n.children[b] # Nil})
           /\ n.lth = Cardinality({b \in Byte : n.children[b] # Nil})
           /\ \A b \in Byte : child(n, b) = n.children[b]
<1>1. /\ n.kind = "n256"
      /\ n.lth \in 0 .. MaxByte + 1
      /\ n.children \in [Byte -> Kids]
  BY DEF DirectNode
<1>2. IsFiniteSet({b \in Byte : n.children[b] # Nil})
  <2>1. IsFiniteSet(Byte)
    BY FS_Interval, InodeAssumption DEF Byte
  <2> QED
    BY <2>1, FS_Subset
<1>3. \A b \in Byte : child(n, b) = n.children[b]
  BY <1>1 DEF child, Listed
<1> QED
  BY <1>1, <1>2, <1>3 DEF DirectNode, DirectRep

\* A node256 after its child at byte k is set to c and its lth to l.
SetChild(n, k, c, l) == [n EXCEPT !.children = [n.children EXCEPT ![k] = c], !.lth = l]

\* addChild and replace of node256: one byte changes, and lth counts it.
LEMMA DirectSet ==
    ASSUME NEW n, DirectNode(n), NEW k \in Byte, NEW c \in Kids, NEW l,
           NEW m, m = SetChild(n, k, c, l),
           l = (n.lth + (IF c # Nil THEN 1 ELSE 0)) - (IF n.children[k] # Nil THEN 1 ELSE 0)
    PROVE  /\ DirectNode(m) /\ m.lth = l
           /\ \A b \in Byte : child(m, b) = IF b = k THEN c ELSE child(n, b)
<1> DEFINE U(f) == {b \in Byte : f[b] # Nil}
<1>1. /\ n.lth \in 0 .. MaxByte + 1 /\ n.children \in [Byte -> Kids]
      /\ IsFiniteSet(U(n.children)) /\ n.lth = Cardinality(U(n.children))
      /\ \A b \in Byte : child(n, b) = n.children[b]
  BY DirectFields
<1>2. n \in [kind : {"n256"}, lth : 0 .. MaxByte + 1, keys : {<<>>}, children : [Byte -> Kids]]
  BY DEF DirectNode
<1>3. m.kind = "n256" /\ m.lth = l /\ m.children = [n.children EXCEPT ![k] = c]
  BY <1>2 DEF SetChild
<1>4. m.children \in [Byte -> Kids]
  BY <1>1, <1>3
<1>5. \A b \in Byte : m.children[b] = IF b = k THEN c ELSE n.children[b]
  BY <1>1, <1>3
<1>6. U(m.children) = IF c # Nil THEN U(n.children) \cup {k} ELSE U(n.children) \ {k}
  BY <1>5
<1>7. k \in U(n.children) <=> n.children[k] # Nil
  OBVIOUS
<1>8. l = Cardinality(U(m.children))
  <2> HIDE DEF U
  <2>1. Cardinality(U(n.children)) \in Nat
    BY <1>1, FS_CardinalityType
  <2>2. CASE c # Nil
    <3>1. Cardinality(U(m.children)) = IF k \in U(n.children) THEN Cardinality(U(n.children))
                                       ELSE Cardinality(U(n.children)) + 1
      BY <1>1, <1>6, <2>2, FS_AddElement
    <3> QED
      BY <1>1, <1>7, <2>1, <2>2, <3>1
  <2>3. CASE c = Nil
    <3>1. Cardinality(U(m.children)) = IF k \in U(n.children) THEN Cardinality(U(n.children)) - 1
                                       ELSE Cardinality(U(n.children))
      BY <1>1, <1>6, <2>3, FS_RemoveElement
    <3> QED
      BY <1>1, <1>7, <2>1, <2>3, <3>1
  <2> QED
    BY <2>2, <2>3
<1>9. l \in 0 .. MaxByte + 1
  <2>1. IsFiniteSet(0 .. MaxByte) /\ Cardinality(0 .. MaxByte) = MaxByte + 1
    <3>1. MaxByte \in Int /\ 0 \in Int /\ ~(0 > MaxByte) /\ (MaxByte - 0) + 1 = MaxByte + 1
      BY InodeAssumption
    <3> QED
      BY <3>1, FS_Interval
  <2>2. U(m.children) \in SUBSET (0 .. MaxByte)
    BY DEF Byte
  <2> HIDE DEF U
  <2>3. IsFiniteSet(U(m.children)) /\ Cardinality(U(m.children)) <= MaxByte + 1
    <3>1. IsFiniteSet(U(m.children)) /\ Cardinality(U(m.children)) <= Cardinality(0 .. MaxByte)
      BY <2>1, <2>2, FS_Subset
    <3> QED
      BY <2>1, <3>1
  <2> QED
    <3>1. Cardinality(U(m.children)) \in Nat
      BY <2>3, FS_CardinalityType
    <3> QED
      BY <1>8, <2>3, <3>1, InodeAssumption
<1>10. m \in [kind : {"n256"}, lth : 0 .. MaxByte + 1, keys : {<<>>}, children : [Byte -> Kids]]
  BY <1>2, <1>3, <1>4, <1>9 DEF SetChild
<1>11. DirectNode(m)
  BY <1>3, <1>8, <1>10 DEF DirectNode, DirectRep
<1>12. \A b \in Byte : child(m, b) = m.children[b]
  BY <1>11, DirectFields
<1> QED
  BY <1>1, <1>3, <1>5, <1>11, <1>12

-----------------------------------------------------------------------------
(* From one representation to another *)

\* grow of node4 and shrink of node16: the arrays are copied into longer or
\* shorter ones; no child changes.
LEMMA ListedCopy ==
    ASSUME NEW cap \in Nat, NEW n, ListedNode(n, cap), NEW cap2 \in Nat, n.lth <= cap2,
           NEW kind \in {"n4", "n16"}, NEW m,
           m = [kind |-> kind, lth |-> n.lth, keys |-> Slice(n.keys, 0 .. cap2 - 1, 0),
                children |-> Slice(n.children, 0 .. cap2 - 1, Nil)]
    PROVE  /\ ListedNode(m, cap2) /\ m.kind = kind /\ m.lth = n.lth
           /\ \A b \in Byte : child(m, b) = child(n, b)
<1>1. /\ n.lth \in 0 .. cap
      /\ n.keys \in [0 .. cap - 1 -> Byte]
      /\ n.children \in [0 .. cap - 1 -> Kids]
      /\ \A i, j \in 0 .. n.lth - 1 : i < j => n.keys[i] < n.keys[j]
      /\ \A i \in 0 .. n.lth - 1 : n.children[i] # Nil
      /\ \A i \in n.lth .. cap - 1 : n.keys[i] = 0 /\ n.children[i] = Nil
  BY ListedFields
<1>2. /\ m.kind = kind /\ m.lth = n.lth
      /\ DOMAIN m.keys = 0 .. cap2 - 1
      /\ \A i \in 0 .. cap2 - 1 : m.keys[i] = IF i \in 0 .. cap - 1 THEN n.keys[i] ELSE 0
      /\ \A i \in 0 .. cap2 - 1 : m.children[i] = IF i \in 0 .. cap - 1 THEN n.children[i] ELSE Nil
  BY <1>1 DEF Slice
<1>3. m \in [kind : {"n4", "n16"}, lth : 0 .. cap2, keys : [0 .. cap2 - 1 -> Byte],
             children : [0 .. cap2 - 1 -> Kids]]
  <2>1. 0 \in Byte /\ Nil \in Kids /\ n.lth \in 0 .. cap2
    BY <1>1, InodeAssumption DEF Byte, Kids
  <2>2. Slice(n.keys, 0 .. cap2 - 1, 0) \in [0 .. cap2 - 1 -> Byte]
    BY <1>1, <2>1 DEF Slice
  <2>3. Slice(n.children, 0 .. cap2 - 1, Nil) \in [0 .. cap2 - 1 -> Kids]
    BY <1>1, <2>1 DEF Slice
  <2> QED
    BY <2>1, <2>2, <2>3
<1>4. \A i \in 0 .. n.lth - 1 : /\ i \in 0 .. cap2 - 1
                                /\ m.keys[i] = n.keys[i] /\ m.children[i] = n.children[i]
  BY <1>1, <1>2
<1>5. ListedNode(m, cap2)
  <2>1. \A i, j \in 0 .. m.lth - 1 : i < j => m.keys[i] < m.keys[j]
    BY <1>1, <1>2, <1>4
  <2>2. \A i \in 0 .. cap2 - 1 :
          IF i < m.lth THEN m.children[i] # Nil ELSE m.keys[i] = 0 /\ m.children[i] = Nil
    BY <1>1, <1>2, <1>4
  <2> QED
    BY <1>2, <1>3, <2>1, <2>2 DEF ListedNode, ListedRep
<1>6. ASSUME NEW b \in Byte PROVE child(m, b) = child(n, b)
  <2>1. CASE \E i \in 0 .. n.lth - 1 : n.keys[i] = b
    <3>1. PICK i \in 0 .. n.lth - 1 : n.keys[i] = b
      BY <2>1
    <3>2. child(n, b) = n.children[i]
      BY <3>1, ListedChild
    <3>3. child(m, b) = m.children[i]
      BY <1>2, <1>4, <1>5, <3>1, ListedChild
    <3> QED
      BY <1>4, <3>2, <3>3
  <2>2. CASE \A i \in 0 .. n.lth - 1 : n.keys[i] # b
    <3>1. child(n, b) = Nil
      BY <2>2, ListedChild
    <3>2. child(m, b) = Nil
      BY <1>2, <1>4, <1>5, <2>2, ListedChild
    <3> QED
      BY <3>1, <3>2
  <2> QED
    BY <2>1, <2>2
<1> QED
  BY <1>2, <1>5, <1>6

\* grow of node16: the slots of the node48 are the positions of the node16; no
\* child changes.
LEMMA Grow16 ==
    ASSUME NEW n, ListedNode(n, Cap16), NEW m, m = grow16(n)
    PROVE  /\ SlotNode(m) /\ m.lth = n.lth
           /\ \A b \in Byte : child(m, b) = child(n, b)
<1> DEFINE hits(b) == {i \in Slots16 : n.children[i] # Nil /\ n.keys[i] = b}
<1>0. Cap16 \in Nat /\ Cap48 \in Nat /\ Cap16 < Cap48 /\ Nil \notin Child
  BY InodeAssumption
<1>1. /\ n.lth \in 0 .. Cap16
      /\ n.keys \in [0 .. Cap16 - 1 -> Byte]
      /\ n.children \in [0 .. Cap16 - 1 -> Kids]
      /\ \A i, j \in 0 .. n.lth - 1 : i < j => n.keys[i] < n.keys[j]
      /\ \A i \in 0 .. n.lth - 1 : n.children[i] # Nil
      /\ \A i \in n.lth .. Cap16 - 1 : n.keys[i] = 0 /\ n.children[i] = Nil
  BY <1>0, ListedFields
<1>2. ASSUME NEW i \in 0 .. n.lth - 1, NEW j \in 0 .. n.lth - 1, n.keys[i] = n.keys[j]
      PROVE  i = j
  <2>1. n.keys[i] \in Int /\ n.keys[j] \in Int
    BY <1>0, <1>1 DEF Byte
  <2> QED
    BY <1>1, <1>2, <2>1
<1>3. ASSUME NEW i \in 0 .. n.lth - 1 PROVE hits(n.keys[i]) = {i}
  <2>1. i \in hits(n.keys[i])
    BY <1>0, <1>1 DEF Slots16
  <2>2. ASSUME NEW j \in hits(n.keys[i]) PROVE j = i
    <3>1. j \in 0 .. Cap16 - 1 /\ n.children[j] # Nil /\ n.keys[j] = n.keys[i]
      BY DEF Slots16
    <3>2. j \in 0 .. n.lth - 1
      BY <1>0, <1>1, <3>1
    <3> QED
      BY <1>2, <3>1, <3>2
  <2> QED
    BY <2>1, <2>2
<1>4. ASSUME NEW b \in Byte, \A i \in 0 .. n.lth - 1 : n.keys[i] # b PROVE hits(b) = {}
  <2>1. ASSUME NEW j \in hits(b) PROVE FALSE
    <3>1. j \in 0 .. Cap16 - 1 /\ n.children[j] # Nil /\ n.keys[j] = b
      BY DEF Slots16
    <3>2. j \in 0 .. n.lth - 1
      BY <1>0, <1>1, <3>1
    <3> QED
      BY <1>4, <3>1, <3>2
  <2> QED
    BY <2>1
<1>5. m = [kind |-> "n48", lth |-> n.lth,
           keys |-> [b \in Byte |-> IF hits(b) = {} THEN 0 ELSE Max(hits(b)) + 1],
           children |-> Slice(n.children, Slots48, Nil)]
  BY DEF grow16
<1> HIDE DEF hits
<1>6. ASSUME NEW i \in 0 .. n.lth - 1 PROVE n.keys[i] \in Byte /\ m.keys[n.keys[i]] = i + 1
  <2>1. n.keys[i] \in Byte
    BY <1>0, <1>1
  <2>2. Max({i}) = i
    BY DEF Max
  <2>3. hits(n.keys[i]) = {i}
    BY <1>3
  <2>4. m.keys[n.keys[i]] = IF hits(n.keys[i]) = {} THEN 0 ELSE Max(hits(n.keys[i])) + 1
    BY <1>5, <2>1
  <2> QED
    BY <2>1, <2>2, <2>3, <2>4
<1>7. ASSUME NEW b \in Byte, \A i \in 0 .. n.lth - 1 : n.keys[i] # b PROVE m.keys[b] = 0
  BY <1>4, <1>5, <1>7
<1>8. \A b \in Byte : m.keys[b] # 0 => \E i \in 0 .. n.lth - 1 : n.keys[i] = b /\ m.keys[b] = i + 1
  BY <1>6, <1>7
<1>9. /\ DOMAIN n.children = 0 .. Cap16 - 1 /\ m.kind = "n48" /\ m.lth = n.lth
      /\ \A s \in Slots48 : m.children[s] = IF s < n.lth THEN n.children[s] ELSE Nil
      /\ \A s \in 0 .. n.lth - 1 : s \in Slots48
  <2>1. DOMAIN n.children = 0 .. Cap16 - 1 /\ m.kind = "n48" /\ m.lth = n.lth
    BY <1>1, <1>5
  <2>2. \A s \in Slots48 : m.children[s] = IF s \in 0 .. Cap16 - 1 THEN n.children[s] ELSE Nil
    BY <1>5, <2>1 DEF Slice
  <2> QED
    BY <1>0, <1>1, <2>1, <2>2 DEF Slots48
<1>10. m \in [kind : {"n48"}, lth : 0 .. Cap48, keys : [Byte -> 0 .. Cap48],
              children : [Slots48 -> Kids]]
  <2>1. ASSUME NEW b \in Byte
        PROVE  (IF hits(b) = {} THEN 0 ELSE Max(hits(b)) + 1) \in 0 .. Cap48
    <3>1. m.keys[b] = IF hits(b) = {} THEN 0 ELSE Max(hits(b)) + 1
      BY <1>5
    <3>2. m.keys[b] \in 0 .. Cap48
      BY <1>0, <1>1, <1>8
    <3> QED
      BY <3>1, <3>2
  <2>2. Slice(n.children, Slots48, Nil) \in [Slots48 -> Kids]
    BY <1>1 DEF Slice, Kids
  <2>3. n.lth \in 0 .. Cap48
    BY <1>0, <1>1
  <2> QED
    BY <1>5, <2>1, <2>2, <2>3
<1>11. SlotNode(m)
  <2>1. \A a, b \in Byte : m.keys[a] # 0 /\ m.keys[a] = m.keys[b] => a = b
    <3> SUFFICES ASSUME NEW a \in Byte, NEW b \in Byte, m.keys[a] # 0, m.keys[a] = m.keys[b]
                 PROVE  a = b
      OBVIOUS
    <3>1. PICK i \in 0 .. n.lth - 1 : n.keys[i] = a /\ m.keys[a] = i + 1
      BY <1>8
    <3>2. PICK j \in 0 .. n.lth - 1 : n.keys[j] = b /\ m.keys[b] = j + 1
      BY <1>8
    <3>3. i + 1 = j + 1
      BY <3>1, <3>2
    <3>4. i = j
      BY <3>3
    <3> QED
      BY <3>1, <3>2, <3>4
  <2>2. ASSUME NEW b \in Byte, m.keys[b] # 0 PROVE m.children[m.keys[b] - 1] # Nil
    <3>1. PICK i \in 0 .. n.lth - 1 : n.keys[i] = b /\ m.keys[b] = i + 1
      BY <1>8, <2>2
    <3>2. m.keys[b] - 1 = i /\ i < n.lth
      BY <1>1, <3>1
    <3> QED
      BY <1>1, <1>9, <3>1, <3>2
  <2>3. ASSUME NEW s \in Slots48, m.children[s] # Nil PROVE \E b \in Byte : m.keys[b] = s + 1
    <3>1. s \in 0 .. n.lth - 1
      BY <1>0, <1>1, <1>9, <2>3 DEF Slots48
    <3> QED
      BY <1>6, <3>1
  <2>4. {s \in Slots48 : m.children[s] # Nil} = 0 .. n.lth - 1
    <3>1. ASSUME NEW s \in Slots48 PROVE m.children[s] # Nil <=> s \in 0 .. n.lth - 1
      BY <1>0, <1>1, <1>9 DEF Slots48
    <3> QED
      BY <1>9, <3>1
  <2>5. Cardinality(0 .. n.lth - 1) = n.lth
    <3>1. n.lth - 1 \in Int /\ 0 \in Int /\ (0 > n.lth - 1 <=> n.lth = 0) /\ ((n.lth - 1) - 0) + 1 = n.lth
      BY <1>0, <1>1
    <3> QED
      BY <3>1, FS_Interval
  <2>6. m.lth = Cardinality({s \in Slots48 : m.children[s] # Nil})
    BY <1>9, <2>4, <2>5
  <2> QED
    BY <1>10, <2>1, <2>2, <2>3, <2>6 DEF SlotNode, SlotRep
<1>12. ASSUME NEW b \in Byte PROVE child(m, b) = child(n, b)
  <2>1. child(m, b) = IF m.keys[b] = 0 THEN Nil ELSE m.children[m.keys[b] - 1]
    BY <1>11, SlotFields
  <2>2. CASE \E i \in 0 .. n.lth - 1 : n.keys[i] = b
    <3>1. PICK i \in 0 .. n.lth - 1 : n.keys[i] = b
      BY <2>2
    <3>2. m.keys[b] = i + 1 /\ (i + 1) - 1 = i /\ i + 1 # 0 /\ i < n.lth /\ i \in Slots48
      BY <1>1, <1>6, <1>9, <3>1
    <3>3. child(m, b) = n.children[i]
      BY <1>9, <2>1, <3>2
    <3>4. child(n, b) = n.children[i]
      BY <1>0, <3>1, ListedChild
    <3> QED
      BY <3>3, <3>4
  <2>3. CASE \A i \in 0 .. n.lth - 1 : n.keys[i] # b
    <3>1. child(n, b) = Nil
      BY <1>0, <2>3, ListedChild
    <3> QED
      BY <1>7, <2>1, <2>3, <3>1
  <2> QED
    BY <2>2, <2>3
<1> QED
  BY <1>9, <1>11, <1>12

\* A node48 uses as many bytes as slots.
LEMMA SlotUsedCount ==
    ASSUME NEW n, SlotNode(n)
    PROVE  /\ IsFiniteSet({b \in Byte : n.keys[b] # 0})
           /\ Cardinality({b \in Byte : n.keys[b] # 0}) = n.lth
<1> DEFINE U == {b \in Byte : n.keys[b] # 0}
           f == [b \in U |-> n.keys[b] - 1]
<1>0. Cap48 \in Nat
  BY InodeAssumption
<1>1. /\ n.keys \in [Byte -> 0 .. Cap48]
      /\ \A a, b \in Byte : n.keys[a] # 0 /\ n.keys[a] = n.keys[b] => a = b
      /\ \A b \in Byte : n.keys[b] # 0 => n.children[n.keys[b] - 1] # Nil
      /\ \A s \in Slots48 : n.children[s] # Nil => \E b \in Byte : n.keys[b] = s + 1
      /\ \A b \in Byte : n.keys[b] # 0 => n.keys[b] - 1 \in Slots48
      /\ n.lth = Cardinality(UsedSlots(n)) /\ IsFiniteSet(UsedSlots(n))
  BY SlotFields
<1>2. f \in [U -> UsedSlots(n)]
  BY <1>1 DEF UsedSlots
<1>3. f \in Injection(U, UsedSlots(n))
  <2>1. ASSUME NEW a \in U, NEW b \in U, f[a] = f[b] PROVE a = b
    <3>1. n.keys[a] - 1 = n.keys[b] - 1 /\ n.keys[a] \in Int /\ n.keys[b] \in Int
      BY <1>0, <1>1, <2>1
    <3>2. n.keys[a] = n.keys[b]
      BY <3>1
    <3> QED
      BY <1>1, <3>2
  <2> QED
    BY <1>2, <2>1 DEF Injection, IsInjective
<1>4. f \in Surjection(U, UsedSlots(n))
  <2>1. ASSUME NEW s \in UsedSlots(n) PROVE \E b \in U : f[b] = s
    <3>1. s \in Slots48 /\ s \in Nat /\ n.children[s] # Nil
      BY <1>0 DEF UsedSlots, Slots48
    <3>2. PICK b \in Byte : n.keys[b] = s + 1
      BY <1>1, <3>1
    <3>3. n.keys[b] # 0 /\ n.keys[b] - 1 = s
      BY <3>1, <3>2
    <3> QED
      BY <3>3
  <2> QED
    BY <1>2, <2>1 DEF Surjection
<1> HIDE DEF U, f
<1>5. IsFiniteSet(U) /\ Cardinality(U) = Cardinality(UsedSlots(n))
  BY <1>1, <1>3, <1>4, FS_Injection
<1> QED
  BY <1>1, <1>5 DEF U

\* grow of node48: the children move from their slots to their bytes, and lth
\* still counts them.
LEMMA Grow48 ==
    ASSUME NEW n, SlotNode(n), NEW m, m = grow48(n)
    PROVE  /\ DirectNode(m) /\ m.lth = n.lth
           /\ \A b \in Byte : child(m, b) = child(n, b)
<1>1. /\ n.lth \in 0 .. Cap48
      /\ n.keys \in [Byte -> 0 .. Cap48]
      /\ n.children \in [Slots48 -> Kids]
      /\ \A b \in Byte : n.keys[b] # 0 => n.children[n.keys[b] - 1] # Nil
      /\ \A b \in Byte : n.keys[b] # 0 => n.keys[b] - 1 \in Slots48
  BY SlotFields
<1>2. \A b \in Byte : child(n, b) = IF n.keys[b] = 0 THEN Nil ELSE n.children[n.keys[b] - 1]
  BY SlotFields
<1>3. /\ m.kind = "n256" /\ m.lth = n.lth /\ m.keys = <<>>
      /\ m.children = [b \in Byte |-> IF n.keys[b] = 0 THEN Nil ELSE n.children[n.keys[b] - 1]]
  BY DEF grow48
<1>4. m.children \in [Byte -> Kids]
  BY <1>1, <1>3 DEF Kids
<1>5. n.lth \in 0 .. MaxByte + 1
  BY <1>1, InodeAssumption
<1>6. m \in [kind : {"n256"}, lth : 0 .. MaxByte + 1, keys : {<<>>}, children : [Byte -> Kids]]
  BY <1>3, <1>4, <1>5 DEF grow48
<1>7. {b \in Byte : m.children[b] # Nil} = {b \in Byte : n.keys[b] # 0}
  BY <1>1, <1>3
<1>8. DirectNode(m)
  BY <1>3, <1>6, <1>7, SlotUsedCount DEF DirectNode, DirectRep
<1>9. \A b \in Byte : child(m, b) = m.children[b]
  BY <1>8, DirectFields
<1> QED
  BY <1>2, <1>3, <1>8, <1>9

\* The byte with i bytes of S before it.
ByteAt(S, i) == CHOOSE b \in S : Rank(S, b) = i

\* The bytes in the order of their ranks.
LEMMA ByteAtProperties ==
    ASSUME NEW S \in SUBSET Byte, NEW l, l = Cardinality(S)
    PROVE  /\ l \in Nat
           /\ \A i \in 0 .. l - 1 : ByteAt(S, i) \in S /\ Rank(S, ByteAt(S, i)) = i
           /\ \A b \in S : Rank(S, b) \in 0 .. l - 1 /\ ByteAt(S, Rank(S, b)) = b
           /\ \A i, j \in 0 .. l - 1 : i < j => ByteAt(S, i) < ByteAt(S, j)
<1>1. MaxByte \in Nat /\ S \in SUBSET (0 .. MaxByte)
  BY InodeAssumption DEF Byte
<1>2. /\ l \in Nat
      /\ \A b \in S : Rank(S, b) \in 0 .. l - 1
      /\ \A a, b \in S : a < b => Rank(S, a) < Rank(S, b)
      /\ \A i \in 0 .. l - 1 : \E b \in S : Rank(S, b) = i
  BY <1>1, RankProperties
<1>3. \A i \in 0 .. l - 1 : ByteAt(S, i) \in S /\ Rank(S, ByteAt(S, i)) = i
  BY <1>2 DEF ByteAt
<1>4. \A b \in S : Rank(S, b) \in Int /\ b \in Int
  BY <1>1, <1>2
<1>5. ASSUME NEW b \in S PROVE ByteAt(S, Rank(S, b)) = b
  <2>1. ByteAt(S, Rank(S, b)) \in S /\ Rank(S, ByteAt(S, Rank(S, b))) = Rank(S, b)
    BY <1>2, <1>3
  <2> QED
    BY <1>2, <1>4, <2>1
<1>6. ASSUME NEW i \in 0 .. l - 1, NEW j \in 0 .. l - 1, i < j PROVE ByteAt(S, i) < ByteAt(S, j)
  <2>1. /\ ByteAt(S, i) \in S /\ Rank(S, ByteAt(S, i)) = i
        /\ ByteAt(S, j) \in S /\ Rank(S, ByteAt(S, j)) = j
    BY <1>3
  <2>2. ByteAt(S, i) \in Int /\ ByteAt(S, j) \in Int
    BY <1>4, <2>1
  <2>3. ~(ByteAt(S, j) < ByteAt(S, i)) /\ ByteAt(S, i) # ByteAt(S, j)
    BY <1>2, <1>6, <2>1
  <2> QED
    BY <2>2, <2>3
<1> QED
  BY <1>2, <1>3, <1>5, <1>6

\* shrink of node48: visiting the bytes in ascending order gives sorted keys; no
\* child changes.
LEMMA Shrink48 ==
    ASSUME NEW n, SlotNode(n), n.lth <= Cap16, NEW m, m = shrink48(n)
    PROVE  /\ ListedNode(m, Cap16) /\ m.kind = "n16" /\ m.lth = n.lth
           /\ \A b \in Byte : child(m, b) = child(n, b)
<1> DEFINE U == {b \in Byte : n.keys[b] # 0}
           at(i) == ByteAt(U, i)
<1>0. Cap16 \in Nat /\ Cap48 \in Nat /\ MaxByte \in Nat
  BY InodeAssumption
<1>1. /\ n.lth \in 0 .. Cap48
      /\ n.keys \in [Byte -> 0 .. Cap48]
      /\ n.children \in [Slots48 -> Kids]
      /\ \A b \in Byte : n.keys[b] # 0 => n.children[n.keys[b] - 1] # Nil
      /\ \A b \in Byte : n.keys[b] # 0 => n.keys[b] - 1 \in Slots48
  BY SlotFields
<1>2. \A b \in Byte : child(n, b) = IF n.keys[b] = 0 THEN Nil ELSE n.children[n.keys[b] - 1]
  BY SlotFields
<1>3. U \in SUBSET Byte /\ n.lth = Cardinality(U)
  BY SlotUsedCount
<1>4. m = [kind |-> "n16", lth |-> n.lth,
           keys |-> [i \in Slots16 |-> IF i < n.lth THEN at(i) ELSE 0],
           children |-> [i \in Slots16 |-> IF i < n.lth THEN n.children[n.keys[at(i)] - 1] ELSE Nil]]
  BY DEF shrink48, ByteAt
<1> HIDE DEF U
<1>5. /\ \A i \in 0 .. n.lth - 1 : at(i) \in U
      /\ \A b \in U : Rank(U, b) \in 0 .. n.lth - 1 /\ at(Rank(U, b)) = b
      /\ \A i, j \in 0 .. n.lth - 1 : i < j => at(i) < at(j)
  BY <1>3, ByteAtProperties
<1> HIDE DEF at
<1>6. /\ m.kind = "n16" /\ m.lth = n.lth
      /\ \A i \in Slots16 : m.keys[i] = IF i < n.lth THEN at(i) ELSE 0
      /\ \A i \in Slots16 : m.children[i] = IF i < n.lth THEN n.children[n.keys[at(i)] - 1] ELSE Nil
      /\ DOMAIN m.keys = Slots16
  BY <1>4
<1>7. \A i \in Slots16 : i < n.lth => i \in 0 .. n.lth - 1
  BY <1>0, <1>1 DEF Slots16
<1>8. \A i \in 0 .. n.lth - 1 : /\ i \in Slots16 /\ m.keys[i] = at(i)
                                /\ m.children[i] = n.children[n.keys[at(i)] - 1]
  <2> TAKE i \in 0 .. n.lth - 1
  <2>1. i \in Slots16 /\ i < n.lth
    BY <1>0, <1>1 DEF Slots16
  <2> QED
    BY <1>6, <2>1
<1>9. \A b \in U : b \in Byte /\ n.keys[b] # 0
  BY DEF U
<1>10. m \in [kind : {"n4", "n16"}, lth : 0 .. Cap16, keys : [0 .. Cap16 - 1 -> Byte],
             children : [0 .. Cap16 - 1 -> Kids]]
  <2>1. \A i \in Slots16 : (IF i < n.lth THEN at(i) ELSE 0) \in Byte
    BY <1>0, <1>5, <1>7, <1>9 DEF Byte
  <2>2. \A i \in Slots16 : (IF i < n.lth THEN n.children[n.keys[at(i)] - 1] ELSE Nil) \in Kids
    <3> TAKE i \in Slots16
    <3>1. CASE i < n.lth
      <4>1. n.keys[at(i)] - 1 \in Slots48
        BY <1>1, <1>5, <1>7, <1>9, <3>1
      <4> QED
        BY <1>1, <3>1, <4>1
    <3>2. CASE ~(i < n.lth)
      BY <3>2 DEF Kids
    <3> QED
      BY <3>1, <3>2
  <2>3. n.lth \in 0 .. Cap16
    BY <1>0, <1>1
  <2> QED
    BY <1>4, <2>1, <2>2, <2>3 DEF Slots16
<1>11. ListedNode(m, Cap16)
  <2>1. \A i, j \in 0 .. m.lth - 1 : i < j => m.keys[i] < m.keys[j]
    BY <1>5, <1>6, <1>8
  <2>2. ASSUME NEW i \in DOMAIN m.keys
        PROVE  IF i < m.lth THEN m.children[i] # Nil ELSE m.keys[i] = 0 /\ m.children[i] = Nil
    <3>1. CASE i < n.lth
      <4>1. n.children[n.keys[at(i)] - 1] # Nil
        BY <1>1, <1>5, <1>6, <1>7, <1>9, <3>1
      <4> QED
        BY <1>6, <3>1, <4>1
    <3>2. CASE ~(i < n.lth)
      BY <1>6, <3>2
    <3> QED
      BY <3>1, <3>2
  <2> QED
    BY <1>10, <2>1, <2>2 DEF ListedNode, ListedRep
<1>12. ASSUME NEW b \in Byte PROVE child(m, b) = child(n, b)
  <2>1. CASE b \in U
    <3> DEFINE r == Rank(U, b)
    <3>1. r \in 0 .. n.lth - 1 /\ at(r) = b
      BY <1>5, <2>1
    <3> HIDE DEF r
    <3>2. m.keys[r] = b /\ m.children[r] = n.children[n.keys[b] - 1]
      BY <1>8, <3>1
    <3>3. child(m, b) = m.children[r]
      BY <1>0, <1>6, <1>11, <3>1, <3>2, ListedChild
    <3> QED
      BY <1>2, <1>9, <2>1, <3>2, <3>3
  <2>2. CASE b \notin U
    <3>1. n.keys[b] = 0
      BY <2>2 DEF U
    <3>2. \A i \in 0 .. m.lth - 1 : m.keys[i] # b
      BY <1>5, <1>6, <1>8, <2>2
    <3>3. child(m, b) = Nil
      BY <1>0, <1>11, <3>2, ListedChild
    <3> QED
      BY <1>2, <3>1, <3>3
  <2> QED
    BY <2>1, <2>2
<1> QED
  BY <1>6, <1>11, <1>12

\* shrink of node256: every byte in use gets a slot of its own; no child changes.
LEMMA Shrink256 ==
    ASSUME NEW n, DirectNode(n), n.lth <= Cap48, NEW m, m = shrink256(n)
    PROVE  /\ SlotNode(m) /\ m.lth = n.lth
           /\ \A b \in Byte : child(m, b) = child(n, b)
<1> DEFINE U == {b \in Byte : n.children[b] # Nil}
           at(s) == ByteAt(U, s)
           rank(b) == Rank(U, b)
<1>0. Cap48 \in Nat /\ MaxByte \in Nat
  BY InodeAssumption
<1>1. n.lth \in 0 .. MaxByte + 1 /\ n.children \in [Byte -> Kids]
  BY DirectFields
<1>2. \A b \in Byte : child(n, b) = n.children[b]
  BY DirectFields
<1>3. U \in SUBSET Byte /\ n.lth = Cardinality(U)
  BY DirectFields
<1>4. m = [kind |-> "n48", lth |-> n.lth,
           keys |-> [b \in Byte |-> IF b \in U THEN rank(b) + 1 ELSE 0],
           children |-> [s \in Slots48 |-> IF s < n.lth THEN n.children[at(s)] ELSE Nil]]
  BY DEF shrink256, ByteAt
<1>5. \A b \in Byte : b \in U <=> n.children[b] # Nil
  OBVIOUS
<1> HIDE DEF U
<1>6. /\ \A s \in 0 .. n.lth - 1 : at(s) \in U /\ rank(at(s)) = s
      /\ \A b \in U : rank(b) \in 0 .. n.lth - 1 /\ at(rank(b)) = b
  BY <1>3, ByteAtProperties
<1> HIDE DEF at, rank
<1>7. /\ m.kind = "n48" /\ m.lth = n.lth
      /\ \A b \in Byte : m.keys[b] = IF b \in U THEN rank(b) + 1 ELSE 0
      /\ \A s \in Slots48 : m.children[s] = IF s < n.lth THEN n.children[at(s)] ELSE Nil
  BY <1>4
<1>8. \A s \in Slots48 : s < n.lth <=> s \in 0 .. n.lth - 1
  BY <1>0, <1>1 DEF Slots48
<1>9. \A s \in 0 .. n.lth - 1 : s \in Slots48 /\ s < n.lth
  BY <1>0, <1>1 DEF Slots48
<1>10. ASSUME NEW b \in U
       PROVE  /\ m.keys[b] # 0 /\ m.keys[b] - 1 = rank(b) /\ m.keys[b] \in 0 .. Cap48
              /\ m.children[m.keys[b] - 1] = n.children[b]
  <2>1. rank(b) \in 0 .. n.lth - 1 /\ at(rank(b)) = b /\ rank(b) \in Slots48 /\ rank(b) < n.lth
    BY <1>6, <1>9
  <2>2. m.keys[b] = rank(b) + 1
    BY <1>3, <1>7
  <2>3. m.keys[b] # 0 /\ m.keys[b] - 1 = rank(b) /\ m.keys[b] \in 0 .. Cap48
    BY <1>0, <1>1, <2>1, <2>2
  <2> QED
    BY <1>7, <2>1, <2>3
<1>11. m \in [kind : {"n48"}, lth : 0 .. Cap48, keys : [Byte -> 0 .. Cap48],
              children : [Slots48 -> Kids]]
  <2>1. ASSUME NEW b \in Byte PROVE (IF b \in U THEN rank(b) + 1 ELSE 0) \in 0 .. Cap48
    BY <1>0, <1>7, <1>10
  <2>2. ASSUME NEW s \in Slots48 PROVE (IF s < n.lth THEN n.children[at(s)] ELSE Nil) \in Kids
    <3>1. CASE s < n.lth
      <4>1. at(s) \in Byte
        BY <1>3, <1>6, <1>8, <3>1
      <4> QED
        BY <1>1, <3>1, <4>1
    <3>2. CASE ~(s < n.lth)
      BY <3>2 DEF Kids
    <3> QED
      BY <3>1, <3>2
  <2>3. n.lth \in 0 .. Cap48
    BY <1>0, <1>1
  <2> QED
    BY <1>4, <2>1, <2>2, <2>3
<1>12. SlotNode(m)
  <2>1. \A a, b \in Byte : m.keys[a] # 0 /\ m.keys[a] = m.keys[b] => a = b
    <3> SUFFICES ASSUME NEW a \in Byte, NEW b \in Byte, m.keys[a] # 0, m.keys[a] = m.keys[b]
                 PROVE  a = b
      OBVIOUS
    <3>1. a \in U /\ b \in U
      BY <1>7
    <3>2. rank(a) = rank(b)
      BY <1>10, <3>1
    <3> QED
      BY <1>6, <3>1, <3>2
  <2>2. ASSUME NEW b \in Byte, m.keys[b] # 0 PROVE m.children[m.keys[b] - 1] # Nil
    BY <1>5, <1>7, <1>10, <2>2
  <2>3. ASSUME NEW s \in Slots48, m.children[s] # Nil PROVE \E b \in Byte : m.keys[b] = s + 1
    <3>1. s \in 0 .. n.lth - 1
      BY <1>7, <1>8, <2>3
    <3>2. at(s) \in U /\ at(s) \in Byte /\ rank(at(s)) = s
      BY <1>3, <1>6, <3>1
    <3>3. m.keys[at(s)] = s + 1
      BY <1>7, <3>2
    <3> QED
      BY <3>2, <3>3
  <2>4. {s \in Slots48 : m.children[s] # Nil} = 0 .. n.lth - 1
    <3>1. ASSUME NEW s \in Slots48 PROVE m.children[s] # Nil <=> s \in 0 .. n.lth - 1
      <4>1. CASE s < n.lth
        <5>1. at(s) \in U /\ at(s) \in Byte
          BY <1>3, <1>6, <1>8, <4>1
        <5> QED
          BY <1>5, <1>7, <1>8, <4>1, <5>1
      <4>2. CASE ~(s < n.lth)
        BY <1>7, <1>8, <4>2
      <4> QED
        BY <4>1, <4>2
    <3> QED
      BY <1>9, <3>1
  <2>5. Cardinality(0 .. n.lth - 1) = n.lth
    <3>1. n.lth - 1 \in Int /\ 0 \in Int /\ (0 > n.lth - 1 <=> n.lth = 0) /\ ((n.lth - 1) - 0) + 1 = n.lth
      BY <1>0, <1>1
    <3> QED
      BY <3>1, FS_Interval
  <2>6. m.lth = Cardinality({s \in Slots48 : m.children[s] # Nil})
    BY <1>7, <2>4, <2>5
  <2> QED
    BY <1>11, <2>1, <2>2, <2>3, <2>6 DEF SlotNode, SlotRep
<1>13. ASSUME NEW b \in Byte PROVE child(m, b) = child(n, b)
  <2>1. child(m, b) = IF m.keys[b] = 0 THEN Nil ELSE m.children[m.keys[b] - 1]
    BY <1>12, SlotFields
  <2> QED
    BY <1>2, <1>5, <1>7, <1>10, <2>1
<1> QED
  BY <1>7, <1>12, <1>13

=============================================================================
