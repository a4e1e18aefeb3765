---------------------------- MODULE InodeProofs ----------------------------
(***************************************************************************)
(* The properties of Inode for all capacities and any set of children: the *)
(* invariants, and that a node implements ByteMap.                         *)
(***************************************************************************)
EXTENDS InodeFacts

-----------------------------------------------------------------------------
(* One node of any kind *)

\* A node of the kind its fan-out calls for, with its arrays in order.
GoodNode(n) ==
    \/ n.kind = "n4" /\ ListedNode(n, Cap4) /\ n.lth \in 1 .. Cap4
    \/ n.kind = "n16" /\ ListedNode(n, Cap16) /\ n.lth \in Cap4 + 1 .. Cap16
    \/ n.kind = "n48" /\ SlotNode(n) /\ n.lth \in Cap16 + 1 .. Cap48
    \/ n.kind = "n256" /\ DirectNode(n) /\ n.lth \in Cap48 + 1 .. MaxByte + 1

\* Inner.insert of a new byte: grow if the node is full, then addChild.  A full
\* node256 has no byte left to add.
LEMMA AddGood ==
    ASSUME NEW n, GoodNode(n), NEW k \in Byte, NEW c \in Child, child(n, k) = Nil,
           NEW m, m = addChild(IF full(n) THEN grow(n) ELSE n, k, c)
    PROVE  /\ GoodNode(m) /\ m.lth = n.lth + 1
           /\ \A b \in Byte : child(m, b) = IF b = k THEN c ELSE child(n, b)
<1>0. /\ Cap4 \in Nat /\ Cap16 \in Nat /\ Cap48 \in Nat /\ MaxByte \in Nat
      /\ 2 <= Cap4 /\ Cap4 < Cap16 /\ Cap16 < Cap48 /\ Cap48 <= MaxByte
      /\ c # Nil /\ c \in Kids
  BY InodeAssumption DEF Kids
<1>1. CASE n.kind = "n4" /\ ListedNode(n, Cap4) /\ n.lth \in 1 .. Cap4
  <2>1. full(n) <=> n.lth = Cap4
    BY <1>1 DEF full
  <2>2. CASE full(n)
    <3> DEFINE g == grow4(n)
    <3>1. m = addChild(g, k, c)
      BY <1>1, <2>2 DEF grow
    <3>2. /\ ListedNode(g, Cap16) /\ g.kind = "n16" /\ g.lth = n.lth
          /\ \A b \in Byte : child(g, b) = child(n, b)
      BY <1>0, <1>1, ListedCopy DEF grow4, Slots16
    <3> HIDE DEF g
    <3>3. m = addListed(g, k, c) /\ g.lth < Cap16 /\ child(g, k) = Nil
      BY <1>0, <2>1, <2>2, <3>1, <3>2 DEF addChild, Listed
    <3>4. /\ ListedNode(m, Cap16) /\ m.kind = "n16" /\ m.lth = n.lth + 1
          /\ \A b \in Byte : child(m, b) = IF b = k THEN c ELSE child(g, b)
      BY <1>0, <3>2, <3>3, ListedAdd
    <3> QED
      BY <1>0, <2>1, <2>2, <3>2, <3>4 DEF GoodNode
  <2>3. CASE ~full(n)
    <3>1. m = addListed(n, k, c) /\ n.lth < Cap4
      BY <1>0, <1>1, <2>1, <2>3 DEF addChild, Listed
    <3>2. /\ ListedNode(m, Cap4) /\ m.kind = "n4" /\ m.lth = n.lth + 1
          /\ \A b \in Byte : child(m, b) = IF b = k THEN c ELSE child(n, b)
      BY <1>0, <1>1, <3>1, ListedAdd
    <3> QED
      BY <1>0, <1>1, <3>1, <3>2 DEF GoodNode
  <2> QED
    BY <2>2, <2>3
<1>2. CASE n.kind = "n16" /\ ListedNode(n, Cap16) /\ n.lth \in Cap4 + 1 .. Cap16
  <2>1. full(n) <=> n.lth = Cap16
    BY <1>2 DEF full
  <2>2. CASE full(n)
    <3> DEFINE g == grow16(n)
    <3>1. m = addChild(g, k, c)
      BY <1>2, <2>2 DEF grow
    <3>2. /\ SlotNode(g) /\ g.lth = n.lth
          /\ \A b \in Byte : child(g, b) = child(n, b)
      BY <1>2, Grow16
    <3> HIDE DEF g
    <3>3. g.kind = "n48"
      BY <3>2, SlotFields
    <3>4. m = add48(g, k, c) /\ g.lth < Cap48 /\ child(g, k) = Nil
      BY <1>0, <2>1, <2>2, <3>1, <3>2, <3>3 DEF addChild, Listed
    <3>5. /\ SlotNode(m) /\ m.lth = n.lth + 1
          /\ \A b \in Byte : child(m, b) = IF b = k THEN c ELSE child(g, b)
      BY <3>2, <3>4, SlotAdd
    <3>6. m.kind = "n48"
      BY <3>5, SlotFields
    <3> QED
      BY <1>0, <2>1, <2>2, <3>2, <3>5, <3>6 DEF GoodNode
  <2>3. CASE ~full(n)
    <3>1. m = addListed(n, k, c) /\ n.lth < Cap16
      BY <1>0, <1>2, <2>1, <2>3 DEF addChild, Listed
    <3>2. /\ ListedNode(m, Cap16) /\ m.kind = "n16" /\ m.lth = n.lth + 1
          /\ \A b \in Byte : child(m, b) = IF b = k THEN c ELSE child(n, b)
      BY <1>0, <1>2, <3>1, ListedAdd
    <3> QED
      BY <1>0, <1>2, <3>1, <3>2 DEF GoodNode
  <2> QED
    BY <2>2, <2>3
<1>3. CASE n.kind = "n48" /\ SlotNode(n) /\ n.lth \in Cap16 + 1 .. Cap48
  <2>1. full(n) <=> n.lth = Cap48
    BY <1>3 DEF full
  <2>2. CASE full(n)
    <3> DEFINE g == grow48(n)
    <3>1. m = addChild(g, k, c)
      BY <1>3, <2>2 DEF grow
    <3>2. /\ DirectNode(g) /\ g.lth = n.lth
          /\ \A b \in Byte : child(g, b) = child(n, b)
      BY <1>3, Grow48
    <3> HIDE DEF g
    <3>3. g.kind = "n256" /\ \A b \in Byte : child(g, b) = g.children[b]
      BY <3>2, DirectFields
    <3>4. m = add256(g, k, c) /\ g.children[k] = Nil
      BY <3>1, <3>2, <3>3 DEF addChild, Listed
    <3>5. g \in [kind : {"n256"}, lth : 0 .. MaxByte + 1, keys : {<<>>}, children : [Byte -> Kids]]
      BY <3>2 DEF DirectNode
    <3>6. m = SetChild(g, k, c, g.lth + 1)
      BY <3>4, <3>5 DEF add256, SetChild
    <3>7. g.lth + 1 = (g.lth + (IF c # Nil THEN 1 ELSE 0)) - (IF g.children[k] # Nil THEN 1 ELSE 0)
      BY <1>0, <3>4, <3>5
    <3>8. /\ DirectNode(m) /\ m.lth = g.lth + 1
          /\ \A b \in Byte : child(m, b) = IF b = k THEN c ELSE child(g, b)
      BY <1>0, <3>2, <3>6, <3>7, DirectSet
    <3>9. m.kind = "n256"
      BY <3>8, DirectFields
    <3> QED
      BY <1>0, <2>1, <2>2, <3>2, <3>8, <3>9 DEF GoodNode
  <2>3. CASE ~full(n)
    <3>1. m = add48(n, k, c) /\ n.lth < Cap48
      BY <1>0, <1>3, <2>1, <2>3 DEF addChild, Listed
    <3>2. /\ SlotNode(m) /\ m.lth = n.lth + 1
          /\ \A b \in Byte : child(m, b) = IF b = k THEN c ELSE child(n, b)
      BY <1>3, <3>1, SlotAdd
    <3>3. m.kind = "n48"
      BY <3>2, SlotFields
    <3> QED
      BY <1>0, <1>3, <3>1, <3>2, <3>3 DEF GoodNode
  <2> QED
    BY <2>2, <2>3
<1>4. CASE n.kind = "n256" /\ DirectNode(n) /\ n.lth \in Cap48 + 1 .. MaxByte + 1
  <2> DEFINE w == SetChild(n, k, c, n.lth + 1)
  <2>1. n.children[k] = Nil
    BY <1>4, DirectFields
  <2>2. n.lth + 1 = (n.lth + (IF c # Nil THEN 1 ELSE 0)) - (IF n.children[k] # Nil THEN 1 ELSE 0)
    BY <1>0, <1>4, <2>1
  <2>3. /\ DirectNode(w) /\ w.lth = n.lth + 1
        /\ \A b \in Byte : child(w, b) = IF b = k THEN c ELSE child(n, b)
    BY <1>0, <1>4, <2>2, DirectSet
  <2>4. n.lth + 1 <= MaxByte + 1
    <3>1. w.lth \in 0 .. MaxByte + 1
      BY <2>3, DirectFields
    <3> QED
      BY <1>0, <2>3, <3>1
  <2>5. ~full(n)
    BY <1>0, <1>4, <2>4 DEF full
  <2>6. n \in [kind : {"n256"}, lth : 0 .. MaxByte + 1, keys : {<<>>}, children : [Byte -> Kids]]
    BY <1>4 DEF DirectNode
  <2>7. m = w
    BY <1>4, <2>5, <2>6 DEF addChild, add256, Listed, SetChild
  <2> HIDE DEF w
  <2>8. m.kind = "n256"
    BY <2>3, <2>7, DirectFields
  <2> QED
    BY <1>0, <1>4, <2>3, <2>4, <2>7, <2>8 DEF GoodNode
<1> QED
  BY <1>1, <1>2, <1>3, <1>4 DEF GoodNode

\* Inner.insert and Inner.del, a child takes the place of another.
LEMMA ReplaceGood ==
    ASSUME NEW n, GoodNode(n), NEW k \in Byte, NEW c \in Child, child(n, k) # Nil,
           NEW m, m = replaceChild(n, k, c)
    PROVE  /\ GoodNode(m) /\ m.lth = n.lth
           /\ \A b \in Byte : child(m, b) = IF b = k THEN c ELSE child(n, b)
<1>0. Cap4 \in Nat /\ Cap16 \in Nat /\ c # Nil /\ c \in Kids
  BY InodeAssumption DEF Kids
<1>1. CASE n.kind = "n4" /\ ListedNode(n, Cap4) /\ n.lth \in 1 .. Cap4
  <2>1. /\ ListedNode(m, Cap4) /\ m.kind = n.kind /\ m.lth = n.lth
        /\ \A b \in Byte : child(m, b) = IF b = k THEN c ELSE child(n, b)
    BY <1>0, <1>1, ListedReplace
  <2> QED
    BY <1>1, <2>1 DEF GoodNode
<1>2. CASE n.kind = "n16" /\ ListedNode(n, Cap16) /\ n.lth \in Cap4 + 1 .. Cap16
  <2>1. /\ ListedNode(m, Cap16) /\ m.kind = n.kind /\ m.lth = n.lth
        /\ \A b \in Byte : child(m, b) = IF b = k THEN c ELSE child(n, b)
    BY <1>0, <1>2, ListedReplace
  <2> QED
    BY <1>2, <2>1 DEF GoodNode
<1>3. CASE n.kind = "n48" /\ SlotNode(n) /\ n.lth \in Cap16 + 1 .. Cap48
  <2>1. /\ SlotNode(m) /\ m.lth = n.lth
        /\ \A b \in Byte : child(m, b) = IF b = k THEN c ELSE child(n, b)
    BY <1>3, SlotReplace
  <2>2. m.kind = "n48"
    BY <2>1, SlotFields
  <2> QED
    BY <1>3, <2>1, <2>2 DEF GoodNode
<1>4. CASE n.kind = "n256" /\ DirectNode(n) /\ n.lth \in Cap48 + 1 .. MaxByte + 1
  <2>1. n.children[k] # Nil /\ n.lth \in 0 .. MaxByte + 1
    BY <1>4, DirectFields
  <2>2. n.lth = (n.lth + (IF c # Nil THEN 1 ELSE 0)) - (IF n.children[k] # Nil THEN 1 ELSE 0)
    BY <1>0, <2>1, InodeAssumption
  <2>3. n \in [kind : {"n256"}, lth : 0 .. MaxByte + 1, keys : {<<>>}, children : [Byte -> Kids]]
    BY <1>4 DEF DirectNode
  <2>4. m = SetChild(n, k, c, n.lth)
    BY <1>4, <2>3 DEF replaceChild, Listed, SetChild
  <2>5. /\ DirectNode(m) /\ m.lth = n.lth
        /\ \A b \in Byte : child(m, b) = IF b = k THEN c ELSE child(n, b)
    BY <1>0, <1>4, <2>2, <2>4, DirectSet
  <2>6. m.kind = "n256"
    BY <2>5, DirectFields
  <2> QED
    BY <1>4, <2>5, <2>6 DEF GoodNode
<1> QED
  BY <1>1, <1>2, <1>3, <1>4 DEF GoodNode

\* Inner.del of one byte, with the shrink that may follow: the node keeps at
\* least two children.
LEMMA RemoveGood ==
    ASSUME NEW n, GoodNode(n), NEW k \in Byte, child(n, k) # Nil, ~(n.kind = "n4" /\ min(n)),
           NEW m, m = IF min(n) THEN shrink(removeChild(n, k)) ELSE removeChild(n, k)
    PROVE  /\ GoodNode(m) /\ m.lth = n.lth - 1 /\ m.lth >= 2
           /\ \A b \in Byte : child(m, b) = IF b = k THEN Nil ELSE child(n, b)
<1> DEFINE r == removeChild(n, k)
<1>0. /\ Cap4 \in Nat /\ Cap16 \in Nat /\ Cap48 \in Nat /\ MaxByte \in Nat
      /\ 2 <= Cap4 /\ Cap4 < Cap16 /\ Cap16 < Cap48 /\ Cap48 <= MaxByte
      /\ Nil \in Kids
  BY InodeAssumption DEF Kids
<1>1. CASE n.kind = "n4" /\ ListedNode(n, Cap4) /\ n.lth \in 1 .. Cap4
  <2>1. ~min(n) /\ n.lth > 2
    BY <1>0, <1>1 DEF min
  <2>2. /\ ListedNode(m, Cap4) /\ m.kind = n.kind /\ m.lth = n.lth - 1
        /\ \A b \in Byte : child(m, b) = IF b = k THEN Nil ELSE child(n, b)
    BY <1>0, <1>1, <2>1, ListedRemove
  <2> QED
    BY <1>0, <1>1, <2>1, <2>2 DEF GoodNode
<1>2. CASE n.kind = "n16" /\ ListedNode(n, Cap16) /\ n.lth \in Cap4 + 1 .. Cap16
  <2>1. min(n) <=> n.lth <= Cap4 + 1
    BY <1>2 DEF min
  <2>2. /\ ListedNode(r, Cap16) /\ r.kind = "n16" /\ r.lth = n.lth - 1
        /\ \A b \in Byte : child(r, b) = IF b = k THEN Nil ELSE child(n, b)
    BY <1>0, <1>2, ListedRemove
  <2> HIDE DEF r
  <2>3. CASE min(n)
    <3>1. m = shrink16(r) /\ r.lth = Cap4
      BY <1>0, <1>2, <2>1, <2>2, <2>3 DEF shrink, r
    <3>2. /\ ListedNode(m, Cap4) /\ m.kind = "n4" /\ m.lth = r.lth
          /\ \A b \in Byte : child(m, b) = child(r, b)
      BY <1>0, <2>2, <3>1, ListedCopy DEF shrink16, Slots4
    <3> QED
      BY <1>0, <2>2, <3>1, <3>2 DEF GoodNode
  <2>4. CASE ~min(n)
    <3>1. m = r
      BY <2>4 DEF r
    <3> QED
      BY <1>0, <1>2, <2>1, <2>2, <2>4, <3>1 DEF GoodNode
  <2> QED
    BY <2>3, <2>4
<1>3. CASE n.kind = "n48" /\ SlotNode(n) /\ n.lth \in Cap16 + 1 .. Cap48
  <2>1. min(n) <=> n.lth <= Cap16 + 1
    BY <1>3 DEF min
  <2>2. /\ SlotNode(r) /\ r.lth = n.lth - 1
        /\ \A b \in Byte : child(r, b) = IF b = k THEN Nil ELSE child(n, b)
    BY <1>3, SlotRemove
  <2> HIDE DEF r
  <2>3. r.kind = "n48"
    BY <2>2, SlotFields
  <2>4. CASE min(n)
    <3>1. m = shrink48(r) /\ r.lth = Cap16
      BY <1>0, <1>3, <2>1, <2>2, <2>3, <2>4 DEF shrink, r
    <3>2. /\ ListedNode(m, Cap16) /\ m.kind = "n16" /\ m.lth = r.lth
          /\ \A b \in Byte : child(m, b) = child(r, b)
      BY <1>0, <2>2, <3>1, Shrink48
    <3> QED
      BY <1>0, <2>2, <3>1, <3>2 DEF GoodNode
  <2>5. CASE ~min(n)
    <3>1. m = r
      BY <2>5 DEF r
    <3> QED
      BY <1>0, <1>3, <2>1, <2>2, <2>3, <2>5, <3>1 DEF GoodNode
  <2> QED
    BY <2>4, <2>5
<1>4. CASE n.kind = "n256" /\ DirectNode(n) /\ n.lth \in Cap48 + 1 .. MaxByte + 1
  <2>1. min(n) <=> n.lth <= Cap48 + 1
    BY <1>4 DEF min
  <2>2. n.children[k] # Nil
    BY <1>4, DirectFields
  <2>3. n.lth - 1 = (n.lth + (IF Nil # Nil THEN 1 ELSE 0)) - (IF n.children[k] # Nil THEN 1 ELSE 0)
    BY <1>0, <1>4, <2>2
  <2>4. n \in [kind : {"n256"}, lth : 0 .. MaxByte + 1, keys : {<<>>}, children : [Byte -> Kids]]
    BY <1>4 DEF DirectNode
  <2>5. r = SetChild(n, k, Nil, n.lth - 1)
    BY <1>4, <2>4 DEF removeChild, Listed, SetChild
  <2> HIDE DEF r
  <2>6. /\ DirectNode(r) /\ r.lth = n.lth - 1
        /\ \A b \in Byte : child(r, b) = IF b = k THEN Nil ELSE child(n, b)
    BY <1>0, <1>4, <2>3, <2>5, DirectSet
  <2>7. r.kind = "n256"
    BY <2>6, DirectFields
  <2>8. CASE min(n)
    <3>1. m = shrink256(r) /\ r.lth = Cap48
      BY <1>0, <1>4, <2>1, <2>6, <2>7, <2>8 DEF shrink, r
    <3>2. /\ SlotNode(m) /\ m.lth = r.lth
          /\ \A b \in Byte : child(m, b) = child(r, b)
      BY <1>0, <2>6, <3>1, Shrink256
    <3>3. m.kind = "n48"
      BY <3>2, SlotFields
    <3> QED
      BY <1>0, <2>6, <3>1, <3>2, <3>3 DEF GoodNode
  <2>9. CASE ~min(n)
    <3>1. m = r
      BY <2>9 DEF r
    <3> QED
      BY <1>0, <1>4, <2>1, <2>6, <2>7, <2>9, <3>1 DEF GoodNode
  <2> QED
    BY <2>8, <2>9
<1> QED
  BY <1>1, <1>2, <1>3, <1>4 DEF GoodNode

-----------------------------------------------------------------------------
(* The scans *)

UsedOf(n) == {b \in Byte : child(n, b) # Nil}

\* The used bytes of a node4 or node16 are its first keys.
LEMMA ListedUsed ==
    ASSUME NEW cap \in Nat, NEW n, ListedNode(n, cap)
    PROVE  /\ \A i \in 0 .. n.lth - 1 : n.keys[i] \in UsedOf(n) /\ child(n, n.keys[i]) = n.children[i]
           /\ \A b \in UsedOf(n) : \E i \in 0 .. n.lth - 1 : n.keys[i] = b
<1>1. /\ n.lth \in 0 .. cap
      /\ n.keys \in [0 .. cap - 1 -> Byte]
      /\ \A i \in 0 .. n.lth - 1 : n.children[i] # Nil
  BY ListedFields
<1>2. ASSUME NEW i \in 0 .. n.lth - 1
      PROVE  n.keys[i] \in UsedOf(n) /\ child(n, n.keys[i]) = n.children[i]
  <2>1. n.keys[i] \in Byte
    BY <1>1
  <2>2. child(n, n.keys[i]) = n.children[i]
    BY <2>1, ListedChild
  <2> QED
    BY <1>1, <2>1, <2>2 DEF UsedOf
<1>3. ASSUME NEW b \in UsedOf(n) PROVE \E i \in 0 .. n.lth - 1 : n.keys[i] = b
  <2>1. b \in Byte /\ child(n, b) # Nil
    BY DEF UsedOf
  <2> QED
    BY <2>1, ListedChild
<1> QED
  BY <1>2, <1>3

\* next, gt and gte of node4 and node16: the first key that is large enough,
\* never the padding, though the scan passes over it.
LEMMA ScanUpListed ==
    ASSUME NEW cap \in Nat, NEW n, ListedNode(n, cap), n.lth >= 1, NEW lo \in 0 .. MaxByte + 1,
           NEW V, V = {b \in UsedOf(n) : b >= lo}
    PROVE  scanUp(n, lo .. MaxByte) = IF V = {} THEN <<0, Nil>> ELSE <<Min(V), child(n, Min(V))>>
<1> DEFINE hits == {i \in DOMAIN n.keys : n.keys[i] \in lo .. MaxByte}
           h == Min(hits)
<1>0. MaxByte \in Nat
  BY InodeAssumption
<1>1. /\ n.kind \in {"n4", "n16"} /\ n.lth \in 1 .. cap
      /\ n.keys \in [0 .. cap - 1 -> Byte]
      /\ \A i, j \in 0 .. n.lth - 1 : i < j => n.keys[i] < n.keys[j]
      /\ \A i \in n.lth .. cap - 1 : n.keys[i] = 0 /\ n.children[i] = Nil
  BY ListedFields
<1>2. /\ \A i \in 0 .. n.lth - 1 : n.keys[i] \in UsedOf(n) /\ child(n, n.keys[i]) = n.children[i]
      /\ \A b \in UsedOf(n) : \E i \in 0 .. n.lth - 1 : n.keys[i] = b
  BY ListedUsed
<1>3. scanUp(n, lo .. MaxByte) = IF hits = {} THEN <<0, Nil>> ELSE <<n.keys[h], n.children[h]>>
  BY <1>1 DEF scanUp, Listed
<1>4. \A i \in 0 .. cap - 1 : i \in hits <=> n.keys[i] >= lo
  BY <1>0, <1>1 DEF Byte
<1>5. hits \in SUBSET (0 .. cap - 1) /\ hits \in SUBSET Nat
  BY <1>1
<1>6. ASSUME NEW b \in V PROVE \E i \in 0 .. n.lth - 1 : n.keys[i] = b /\ i \in hits
  <2>1. PICK i \in 0 .. n.lth - 1 : n.keys[i] = b
    BY <1>2
  <2>2. i \in 0 .. cap - 1 /\ n.keys[i] >= lo
    BY <1>1, <2>1
  <2> QED
    BY <1>4, <2>1, <2>2
<1>7. V \in SUBSET Int
  BY <1>0 DEF UsedOf, Byte
<1> HIDE DEF hits
<1>8. CASE hits = {}
  BY <1>3, <1>6, <1>8
<1>9. CASE hits # {}
  <2>1. h \in hits /\ \A i \in hits : h <= i
    BY <1>5, <1>9, MinOfNats
  <2>2. h \in 0 .. cap - 1 /\ n.keys[h] >= lo
    BY <1>4, <1>5, <2>1
  <2> HIDE DEF h
  <2>3. h \in 0 .. n.lth - 1
    <3>1. SUFFICES ASSUME h \in n.lth .. cap - 1 PROVE FALSE
      BY <1>1, <2>2
    <3>2. lo = 0
      BY <1>0, <1>1, <2>2, <3>1
    <3>3. 0 \in 0 .. cap - 1
      BY <1>1
    <3>4. n.keys[0] \in Byte
      BY <1>1, <3>3
    <3>5. 0 \in hits
      BY <1>0, <1>4, <3>2, <3>3, <3>4 DEF Byte
    <3> QED
      BY <1>1, <2>1, <3>1, <3>5
  <2>4. n.keys[h] \in V /\ child(n, n.keys[h]) = n.children[h]
    BY <1>2, <2>2, <2>3
  <2>5. ASSUME NEW b \in V PROVE n.keys[h] <= b
    <3>1. PICK i \in 0 .. n.lth - 1 : n.keys[i] = b /\ i \in hits
      BY <1>6
    <3>2. h = i \/ h < i
      BY <1>1, <2>1, <2>3, <3>1
    <3>3. n.keys[h] \in Int /\ n.keys[i] \in Int
      BY <1>7, <2>4, <3>1
    <3> QED
      BY <1>1, <2>3, <3>1, <3>2, <3>3
  <2>6. Min(V) = n.keys[h]
    BY <1>7, <2>4, <2>5, MinIs
  <2> QED
    BY <1>3, <1>9, <2>4, <2>6 DEF h
<1> QED
  BY <1>8, <1>9

\* prev, lt and lte of node4 and node16: the last key that is small enough.
LEMMA ScanDownListed ==
    ASSUME NEW cap \in Nat, NEW n, ListedNode(n, cap), NEW hi \in -1 .. MaxByte,
           NEW V, V = {b \in UsedOf(n) : b <= hi}
    PROVE  scanDown(n, 0 .. hi) = IF V = {} THEN <<0, Nil>> ELSE <<Max(V), child(n, Max(V))>>
<1> DEFINE hits == {i \in 0 .. n.lth - 1 : n.keys[i] \in 0 .. hi}
           h == Max(hits)
<1>0. MaxByte \in Nat
  BY InodeAssumption
<1>1. /\ n.kind \in {"n4", "n16"} /\ n.lth \in 0 .. cap
      /\ n.keys \in [0 .. cap - 1 -> Byte]
      /\ \A i, j \in 0 .. n.lth - 1 : i < j => n.keys[i] < n.keys[j]
  BY ListedFields
<1>2. /\ \A i \in 0 .. n.lth - 1 : n.keys[i] \in UsedOf(n) /\ child(n, n.keys[i]) = n.children[i]
      /\ \A b \in UsedOf(n) : \E i \in 0 .. n.lth - 1 : n.keys[i] = b
  BY ListedUsed
<1>3. scanDown(n, 0 .. hi) = IF hits = {} THEN <<0, Nil>> ELSE <<n.keys[h], n.children[h]>>
  BY <1>1 DEF scanDown, Listed
<1>4. \A i \in 0 .. n.lth - 1 : i \in hits <=> n.keys[i] <= hi
  BY <1>0, <1>1 DEF Byte
<1>5. hits \in SUBSET (0 .. cap)
  BY <1>1
<1>6. ASSUME NEW b \in V PROVE \E i \in 0 .. n.lth - 1 : n.keys[i] = b /\ i \in hits
  <2>1. PICK i \in 0 .. n.lth - 1 : n.keys[i] = b
    BY <1>2
  <2> QED
    BY <1>4, <2>1
<1>7. V \in SUBSET Int
  BY <1>0 DEF UsedOf, Byte
<1>8. hits \subseteq 0 .. n.lth - 1
  OBVIOUS
<1> HIDE DEF hits
<1>9. CASE hits = {}
  BY <1>3, <1>6, <1>9
<1>10. CASE hits # {}
  <2>1. h \in hits /\ \A i \in hits : h >= i
    BY <1>5, <1>10, MaxOfNats
  <2>2. h \in 0 .. n.lth - 1 /\ n.keys[h] <= hi
    BY <1>4, <1>8, <2>1
  <2> HIDE DEF h
  <2>3. n.keys[h] \in V /\ child(n, n.keys[h]) = n.children[h]
    BY <1>2, <2>2
  <2>4. ASSUME NEW b \in V PROVE n.keys[h] >= b
    <3>1. PICK i \in 0 .. n.lth - 1 : n.keys[i] = b /\ i \in hits
      BY <1>6
    <3>2. h = i \/ i < h
      BY <1>1, <2>1, <2>2, <3>1
    <3>3. n.keys[h] \in Int /\ n.keys[i] \in Int
      BY <1>7, <2>3, <3>1
    <3> QED
      BY <1>1, <2>2, <3>1, <3>2, <3>3
  <2>5. Max(V) = n.keys[h]
    BY <1>7, <2>3, <2>4, MaxIs
  <2> QED
    BY <1>3, <1>10, <2>3, <2>5 DEF h
<1> QED
  BY <1>9, <1>10

\* The scans of all four kinds find the nearest used byte and its child.
LEMMA ScanGood ==
    ASSUME NEW n, GoodNode(n)
    PROVE  /\ UsedOf(n) # {}
           /\ \A lo \in 0 .. MaxByte + 1 :
                 LET V == {b \in UsedOf(n) : b >= lo}
                 IN  scanUp(n, lo .. MaxByte) =
                         IF V = {} THEN <<0, Nil>> ELSE <<Min(V), child(n, Min(V))>>
           /\ \A hi \in -1 .. MaxByte :
                 LET V == {b \in UsedOf(n) : b <= hi}
                 IN  scanDown(n, 0 .. hi) =
                         IF V = {} THEN <<0, Nil>> ELSE <<Max(V), child(n, Max(V))>>
<1>0. Cap4 \in Nat /\ Cap16 \in Nat /\ Cap48 \in Nat /\ MaxByte \in Nat
  BY InodeAssumption
<1>1. ASSUME NEW cap \in Nat, ListedNode(n, cap), n.lth >= 1
      PROVE  UsedOf(n) # {}
  <2>1. 0 \in 0 .. n.lth - 1
    BY <1>1, ListedFields
  <2> QED
    BY <1>1, <2>1, ListedUsed
<1>2. CASE n.kind = "n4" /\ ListedNode(n, Cap4) /\ n.lth \in 1 .. Cap4
  <2>1. n.lth >= 1
    BY <1>0, <1>2
  <2> QED
    BY <1>0, <1>1, <1>2, <2>1, ScanUpListed, ScanDownListed
<1>3. CASE n.kind = "n16" /\ ListedNode(n, Cap16) /\ n.lth \in Cap4 + 1 .. Cap16
  <2>1. n.lth >= 1
    BY <1>0, <1>3
  <2> QED
    BY <1>0, <1>1, <1>3, <2>1, ScanUpListed, ScanDownListed
<1>4. CASE n.kind = "n48" /\ SlotNode(n) /\ n.lth \in Cap16 + 1 .. Cap48
  <2>1. \A b \in Byte : b \in UsedOf(n) <=> n.keys[b] # 0
    BY <1>4, SlotFields DEF UsedOf
  <2>2. UsedOf(n) # {}
    <3>1. UsedOf(n) = {b \in Byte : n.keys[b] # 0}
      BY <2>1 DEF UsedOf
    <3>2. Cardinality(UsedOf(n)) # 0
      BY <1>0, <1>4, <3>1, SlotUsedCount
    <3> QED
      BY <3>2, FS_EmptySet
  <2>3. ASSUME NEW lo \in 0 .. MaxByte + 1
        PROVE  {b \in lo .. MaxByte : n.keys[b] # 0} = {b \in UsedOf(n) : b >= lo}
    <3>1. \A b \in lo .. MaxByte : b \in Byte /\ b >= lo
      BY <1>0 DEF Byte
    <3>2. \A b \in UsedOf(n) : b \in Byte /\ (b >= lo => b \in lo .. MaxByte)
      BY <1>0 DEF Byte, UsedOf
    <3> QED
      BY <2>1, <3>1, <3>2
  <2>4. ASSUME NEW hi \in -1 .. MaxByte
        PROVE  {b \in 0 .. hi : n.keys[b] # 0} = {b \in UsedOf(n) : b <= hi}
    <3>1. \A b \in 0 .. hi : b \in Byte /\ b <= hi
      BY <1>0 DEF Byte
    <3>2. \A b \in UsedOf(n) : b \in Byte /\ (b <= hi => b \in 0 .. hi)
      BY <1>0 DEF Byte, UsedOf
    <3> QED
      BY <2>1, <3>1, <3>2
  <2>5. \A S : scanUp(n, S) = LET V == {b \in S : n.keys[b] # 0}
                              IN  IF V = {} THEN <<0, Nil>> ELSE <<Min(V), child(n, Min(V))>>
    BY <1>4 DEF scanUp, Listed
  <2>6. \A S : scanDown(n, S) = LET V == {b \in S : n.keys[b] # 0}
                                IN  IF V = {} THEN <<0, Nil>> ELSE <<Max(V), child(n, Max(V))>>
    BY <1>4 DEF scanDown, Listed
  <2> QED
    BY <2>2, <2>3, <2>4, <2>5, <2>6
<1>5. CASE n.kind = "n256" /\ DirectNode(n) /\ n.lth \in Cap48 + 1 .. MaxByte + 1
  <2>1. \A b \in Byte : b \in UsedOf(n) <=> n.children[b] # Nil
    BY <1>5, DirectFields DEF UsedOf
  <2>2. UsedOf(n) # {}
    <3>1. UsedOf(n) = {b \in Byte : n.children[b] # Nil}
      BY <2>1 DEF UsedOf
    <3>2. Cardinality(UsedOf(n)) # 0
      BY <1>0, <1>5, <3>1, DirectFields
    <3> QED
      BY <3>2, FS_EmptySet
  <2>3. ASSUME NEW lo \in 0 .. MaxByte + 1
        PROVE  {b \in lo .. MaxByte : n.children[b] # Nil} = {b \in UsedOf(n) : b >= lo}
    <3>1. \A b \in lo .. MaxByte : b \in Byte /\ b >= lo
      BY <1>0 DEF Byte
    <3>2. \A b \in UsedOf(n) : b \in Byte /\ (b >= lo => b \in lo .. MaxByte)
      BY <1>0 DEF Byte, UsedOf
    <3> QED
      BY <2>1, <3>1, <3>2
  <2>4. ASSUME NEW hi \in -1 .. MaxByte
        PROVE  {b \in 0 .. hi : n.children[b] # Nil} = {b \in UsedOf(n) : b <= hi}
    <3>1. \A b \in 0 .. hi : b \in Byte /\ b <= hi
      BY <1>0 DEF Byte
    <3>2. \A b \in UsedOf(n) : b \in Byte /\ (b <= hi => b \in 0 .. hi)
      BY <1>0 DEF Byte, UsedOf
    <3> QED
      BY <2>1, <3>1, <3>2
  <2>5. \A S : scanUp(n, S) = LET V == {b \in S : n.children[b] # Nil}
                              IN  IF V = {} THEN <<0, Nil>> ELSE <<Min(V), child(n, Min(V))>>
    BY <1>5 DEF scanUp, Listed
  <2>6. \A S : scanDown(n, S) = LET V == {b \in S : n.children[b] # Nil}
                                IN  IF V = {} THEN <<0, Nil>> ELSE <<Max(V), child(n, Max(V))>>
    BY <1>5 DEF scanDown, Listed
  <2> QED
    BY <2>2, <2>3, <2>4, <2>5, <2>6
<1> QED
  BY <1>2, <1>3, <1>4, <1>5 DEF GoodNode

\* The ends of a node4 or node16.
LEMMA ListedEnds ==
    ASSUME NEW cap \in Nat, NEW n, ListedNode(n, cap), n.lth >= 1
    PROVE  /\ n.children[0] = child(n, Min(UsedOf(n)))
           /\ n.children[n.lth - 1] = child(n, Max(UsedOf(n)))
<1>0. MaxByte \in Nat
  BY InodeAssumption
<1>1. /\ n.lth \in 1 .. cap
      /\ \A i, j \in 0 .. n.lth - 1 : i < j => n.keys[i] < n.keys[j]
  BY ListedFields
<1>2. /\ \A i \in 0 .. n.lth - 1 : n.keys[i] \in UsedOf(n) /\ child(n, n.keys[i]) = n.children[i]
      /\ \A b \in UsedOf(n) : \E i \in 0 .. n.lth - 1 : n.keys[i] = b
  BY ListedUsed
<1>3. UsedOf(n) \in SUBSET Int
  BY <1>0 DEF UsedOf, Byte
<1>4. 0 \in 0 .. n.lth - 1 /\ n.lth - 1 \in 0 .. n.lth - 1
  BY <1>1
<1>5. \A b \in UsedOf(n) : n.keys[0] <= b /\ n.keys[n.lth - 1] >= b
  <2> TAKE b \in UsedOf(n)
  <2>1. PICK i \in 0 .. n.lth - 1 : n.keys[i] = b
    BY <1>2
  <2>2. n.keys[0] \in Int /\ n.keys[n.lth - 1] \in Int /\ n.keys[i] \in Int
    BY <1>2, <1>3, <1>4
  <2>3. (0 = i \/ 0 < i) /\ (i = n.lth - 1 \/ i < n.lth - 1)
    BY <1>1
  <2>4. n.keys[0] <= n.keys[i]
    BY <1>1, <1>4, <2>2, <2>3
  <2>5. n.keys[i] <= n.keys[n.lth - 1]
    BY <1>1, <1>4, <2>2, <2>3
  <2> QED
    BY <2>1, <2>2, <2>4, <2>5
<1>6. Min(UsedOf(n)) = n.keys[0]
  BY <1>2, <1>3, <1>4, <1>5, MinIs
<1>7. Max(UsedOf(n)) = n.keys[n.lth - 1]
  BY <1>2, <1>3, <1>4, <1>5, MaxIs
<1> QED
  BY <1>2, <1>4, <1>6, <1>7

-----------------------------------------------------------------------------
(* The theorems *)

\* The inductive invariant: the node is good, and until it collapses it has two
\* children, so that a collapse leaves one.
IInv ==
    /\ GoodNode(node)
    /\ left \in Child \cup {Nil}
    /\ left = Nil => node.lth >= 2

\* A collapse leaves the one child that is not removed.
LEMMA CollapseGood ==
    ASSUME NEW n, GoodNode(n), n.lth >= 2, n.kind = "n4", min(n),
           NEW k \in Byte, child(n, k) # Nil, NEW m, m = removeChild(n, k)
    PROVE  /\ GoodNode(m)
           /\ \A b \in Byte : child(m, b) = IF b = k THEN Nil ELSE child(n, b)
           /\ m.children[0] \in Child
           /\ \E j \in Byte : /\ j # k /\ UsedOf(n) = {j, k}
                              /\ m.children[0] = child(n, j)
<1>0. Cap4 \in Nat /\ 2 <= Cap4
  BY InodeAssumption
<1>1. ListedNode(n, Cap4) /\ n.lth = 2
  BY <1>0 DEF GoodNode, min
<1>2. /\ ListedNode(m, Cap4) /\ m.kind = "n4" /\ m.lth = 1
      /\ \A b \in Byte : child(m, b) = IF b = k THEN Nil ELSE child(n, b)
  BY <1>0, <1>1, ListedRemove
<1>3. GoodNode(m)
  BY <1>0, <1>2 DEF GoodNode
<1> DEFINE j == m.keys[0]
<1>4. /\ m.children \in [0 .. Cap4 - 1 -> Kids] /\ m.children[0] # Nil
      /\ m.keys \in [0 .. Cap4 - 1 -> Byte] /\ 0 \in 0 .. Cap4 - 1 /\ 0 .. m.lth - 1 = {0}
  <2>1. 0 .. m.lth - 1 = {0}
    BY <1>2
  <2> QED
    BY <1>0, <1>2, <2>1, ListedFields
<1>5. /\ \A i \in {0} : m.keys[i] \in UsedOf(m) /\ child(m, m.keys[i]) = m.children[i]
      /\ \A b \in UsedOf(m) : \E i \in {0} : m.keys[i] = b
  BY <1>0, <1>2, <1>4, ListedUsed
<1>6. j \in Byte /\ child(m, j) = m.children[0] /\ UsedOf(m) = {j}
  <2>1. j \in Byte
    BY <1>4
  <2>2. j \in UsedOf(m) /\ child(m, j) = m.children[0] /\ \A b \in UsedOf(m) : b = j
    BY <1>5
  <2> QED
    BY <2>1, <2>2
<1>7. j # k /\ child(n, j) = m.children[0]
  BY <1>2, <1>4, <1>6
<1> HIDE DEF j
<1>8. UsedOf(n) = {j, k}
  <2>1. \A b \in Byte : b \in UsedOf(n) <=> b = k \/ b \in UsedOf(m)
    BY <1>2 DEF UsedOf
  <2>2. UsedOf(n) \subseteq Byte
    BY DEF UsedOf
  <2> QED
    BY <1>6, <2>1, <2>2
<1>9. m.children[0] \in Child
  BY <1>4 DEF Kids
<1> QED
  BY <1>2, <1>3, <1>6, <1>7, <1>8, <1>9

\* The node4 of two children that the program starts with.
LEMMA InitGood ==
    ASSUME NEW k1 \in Byte, NEW k2 \in Byte, k1 # k2, NEW c1 \in Child, NEW c2 \in Child,
           NEW m, m = addChild(addChild(Empty4, k1, c1), k2, c2)
    PROVE  /\ GoodNode(m) /\ m.lth = 2
           /\ \A b \in Byte : child(m, b) = IF b = k1 THEN c1 ELSE IF b = k2 THEN c2 ELSE Nil
<1>0. Cap4 \in Nat /\ 2 <= Cap4
  BY InodeAssumption
<1>1. /\ Empty4.kind = "n4" /\ Empty4.lth = 0 /\ DOMAIN Empty4.keys = 0 .. Cap4 - 1
      /\ \A i \in 0 .. Cap4 - 1 : Empty4.keys[i] = 0 /\ Empty4.children[i] = Nil
  BY DEF Empty4, Slots4
<1>2. Empty4 \in [kind : {"n4", "n16"}, lth : 0 .. Cap4, keys : [0 .. Cap4 - 1 -> Byte],
                  children : [0 .. Cap4 - 1 -> Kids]]
  <2>1. 0 \in Byte /\ Nil \in Kids /\ 0 \in 0 .. Cap4
    BY InodeAssumption DEF Byte, Kids
  <2> QED
    BY <2>1 DEF Empty4, Slots4
<1>3. ListedNode(Empty4, Cap4)
  <2>1. \A i \in 0 .. Cap4 - 1 : ~(i < 0)
    BY <1>0
  <2>2. 0 .. 0 - 1 = {}
    OBVIOUS
  <2> QED
    BY <1>1, <1>2, <2>1, <2>2 DEF ListedNode, ListedRep
<1>4. \A b \in Byte : child(Empty4, b) = Nil
  <2>1. \A i \in 0 .. Empty4.lth - 1 : FALSE
    BY <1>1
  <2> QED
    BY <1>0, <1>3, <2>1, ListedChild
<1> DEFINE e == addListed(Empty4, k1, c1)
<1>5. /\ ListedNode(e, Cap4) /\ e.kind = "n4" /\ e.lth = 1
      /\ \A b \in Byte : child(e, b) = IF b = k1 THEN c1 ELSE Nil
  <2>1. Empty4.lth < Cap4
    BY <1>0, <1>1
  <2>2. /\ ListedNode(e, Cap4) /\ e.kind = Empty4.kind /\ e.lth = Empty4.lth + 1
        /\ \A b \in Byte : child(e, b) = IF b = k1 THEN c1 ELSE child(Empty4, b)
    BY <1>0, <1>3, <1>4, <2>1, ListedAdd
  <2> QED
    BY <1>1, <1>4, <2>2
<1>6. addChild(Empty4, k1, c1) = e
  BY <1>1 DEF addChild, Listed
<1> HIDE DEF e
<1>7. m = addListed(e, k2, c2)
  BY <1>5, <1>6 DEF addChild, Listed
<1>8. /\ ListedNode(m, Cap4) /\ m.kind = "n4" /\ m.lth = 2
      /\ \A b \in Byte : child(m, b) = IF b = k2 THEN c2 ELSE child(e, b)
  <2>1. e.lth < Cap4 /\ child(e, k2) = Nil
    BY <1>0, <1>5
  <2>2. /\ ListedNode(m, Cap4) /\ m.kind = e.kind /\ m.lth = e.lth + 1
        /\ \A b \in Byte : child(m, b) = IF b = k2 THEN c2 ELSE child(e, b)
    BY <1>0, <1>5, <1>7, <2>1, ListedAdd
  <2> QED
    BY <1>5, <2>2
<1>9. GoodNode(m)
  <2>1. 2 \in 1 .. Cap4
    BY <1>0
  <2> QED
    BY <1>8, <2>1 DEF GoodNode
<1> QED
  BY <1>5, <1>8, <1>9

\* The initial states satisfy the invariant.
LEMMA InitIInv == Init => IInv
<1> SUFFICES ASSUME Init PROVE IInv
  OBVIOUS
<1>1. PICK k1 \in Byte, k2 \in Byte, c1 \in Child, c2 \in Child :
          k1 # k2 /\ node = addChild(addChild(Empty4, k1, c1), k2, c2)
  BY DEF Init
<1>2. GoodNode(node) /\ node.lth = 2
  BY <1>1, InitGood
<1> QED
  BY <1>2 DEF Init, IInv

\* Every step keeps the invariant.
LEMMA NextIInv == IInv /\ [Next]_vars => IInv'
<1> SUFFICES ASSUME IInv, [Next]_vars PROVE IInv'
  OBVIOUS
<1>0. /\ Cap4 \in Nat /\ Cap16 \in Nat /\ Cap48 \in Nat /\ MaxByte \in Nat
      /\ GoodNode(node) /\ node.lth \in Int
  BY InodeAssumption DEF IInv, GoodNode
<1>1. ASSUME NEW k \in Byte, NEW c \in Child, Add(k, c) PROVE IInv'
  <2>1. left = Nil /\ left' = Nil /\ node.lth >= 2
    BY <1>1 DEF Add, IInv
  <2>2. GoodNode(node') /\ node'.lth = node.lth + 1
    BY <1>0, <1>1, AddGood DEF Add
  <2> QED
    BY <1>0, <2>1, <2>2 DEF IInv, GoodNode
<1>2. ASSUME NEW k \in Byte, NEW c \in Child, Replace(k, c) PROVE IInv'
  <2>1. left = Nil /\ left' = Nil /\ node.lth >= 2
    BY <1>2 DEF Replace, IInv
  <2>2. GoodNode(node') /\ node'.lth = node.lth
    BY <1>0, <1>2, ReplaceGood DEF Replace
  <2> QED
    BY <2>1, <2>2 DEF IInv, GoodNode
<1>3. ASSUME NEW k \in Byte, Remove(k) PROVE IInv'
  <2>1. left' = Nil
    BY <1>3 DEF Remove
  <2>2. GoodNode(node') /\ node'.lth >= 2
    BY <1>0, <1>3, RemoveGood DEF Remove
  <2> QED
    BY <2>1, <2>2 DEF IInv, GoodNode
<1>4. ASSUME NEW k \in Byte, Collapse(k) PROVE IInv'
  <2>1. node.lth >= 2
    BY <1>4 DEF Collapse, IInv
  <2>2. GoodNode(node') /\ node'.children[0] \in Child
    BY <1>0, <1>4, <2>1, CollapseGood DEF Collapse
  <2>3. left' \in Child /\ left' # Nil
    BY <1>4, <2>2, InodeAssumption DEF Collapse
  <2> QED
    BY <2>2, <2>3 DEF IInv, GoodNode
<1>5. CASE UNCHANGED vars
  BY <1>5 DEF vars, IInv, GoodNode
<1> QED
  BY <1>1, <1>2, <1>3, <1>4, <1>5 DEF Next

\* The invariant holds in every state: whatever Inner.insert and Inner.del do to
\* a node, it is of the right kind and its arrays are in order.
THEOREM Invariance == Spec => []IInv
  BY InitIInv, NextIInv, PTL DEF Spec

\* The invariant has the type invariant in it.
LEMMA GoodTypeOK == IInv => TypeOK
<1> SUFFICES ASSUME IInv PROVE TypeOK
  OBVIOUS
<1>1. NodeType(node)
  BY DEF IInv, GoodNode, ListedNode, SlotNode, DirectNode, NodeType, Kids, Slots4, Slots16
<1> QED
  BY <1>1 DEF IInv, TypeOK

\* Every node is of the kind its fan-out calls for: insert grows and del shrinks
\* it at the right lth, for all capacities.
THEOREM TypeCorrect == Spec => []TypeOK
  BY Invariance, GoodTypeOK, PTL

\* The invariant has the representation invariant in it.
LEMMA GoodRepOK == IInv => RepOK
<1> SUFFICES ASSUME IInv PROVE RepOK
  OBVIOUS
<1> QED
  BY DEF IInv, GoodNode, ListedNode, SlotNode, DirectNode, RepOK, Listed

\* keys, children and lth of a node agree with each other in every state, in
\* each of the four representations and for all capacities.
THEOREM RepOKHolds == Spec => []RepOK
  BY Invariance, GoodRepOK, PTL

\* A good node48 that is not full has a free slot.
LEMMA GoodSlotAvailable == IInv => SlotAvailable
<1> SUFFICES ASSUME IInv, node.kind = "n48", ~full(node) PROVE FreeSlots(node) # {}
  BY DEF SlotAvailable
<1>1. SlotNode(node) /\ node.lth \in Cap16 + 1 .. Cap48
  BY DEF IInv, GoodNode
<1>2. node.lth < Cap48
  BY <1>1, InodeAssumption DEF full
<1> QED
  BY <1>1, <1>2, SlotRoom

\* node48.addChild never reaches its panic "no empty slots".
THEOREM SlotAvailableHolds == Spec => []SlotAvailable
  BY Invariance, GoodSlotAvailable, PTL

\* The scans of a good node are right.
LEMMA GoodScansRight == IInv => ScansRight
<1> SUFFICES ASSUME IInv PROVE ScansRight
  OBVIOUS
<1>0. Cap4 \in Nat /\ Cap16 \in Nat /\ Cap48 \in Nat /\ MaxByte \in Nat /\ GoodNode(node)
  BY InodeAssumption DEF IInv
<1>1. UsedBytes = UsedOf(node)
  BY DEF UsedBytes, UsedOf
<1>2. /\ UsedOf(node) # {}
      /\ \A lo \in 0 .. MaxByte + 1 :
            scanUp(node, lo .. MaxByte) = Nearest({b \in UsedBytes : b >= lo}, Min)
      /\ \A hi \in -1 .. MaxByte :
            scanDown(node, 0 .. hi) = Nearest({b \in UsedBytes : b <= hi}, Max)
  BY <1>0, <1>1, ScanGood DEF Nearest, Entry
<1>3. UsedBytes \subseteq Int
  BY <1>0 DEF UsedBytes, Byte
<1>4. ASSUME NEW k \in Byte
      PROVE  /\ k \in 0 .. MaxByte + 1 /\ k + 1 \in 0 .. MaxByte + 1
             /\ k \in -1 .. MaxByte /\ k - 1 \in -1 .. MaxByte
             /\ {b \in UsedBytes : b >= k + 1} = {b \in UsedBytes : b > k}
             /\ {b \in UsedBytes : b <= k - 1} = {b \in UsedBytes : b < k}
  <2>1. k \in Int /\ k >= 0 /\ k <= MaxByte
    BY <1>0 DEF Byte
  <2>2. \A b \in UsedBytes : (b >= k + 1 <=> b > k) /\ (b <= k - 1 <=> b < k)
    BY <1>3, <2>1
  <2> QED
    BY <1>0, <2>1, <2>2
<1>5. ASSUME NEW k \in Byte, node.kind # "n256"
      PROVE  {b \in 0 .. k - 1 : node.kind = "n256" => b < node.lth} = 0 .. k - 1
  BY <1>5
<1>6. ASSUME NEW k \in Byte
      PROVE  LET after  == Nearest({b \in UsedBytes : b > k}, Min)
                 before == Nearest({b \in UsedBytes : b < k}, Max)
             IN  /\ next(node, k) = after /\ gt(node, k) = after
                 /\ gte(node, k) = Nearest({b \in UsedBytes : b >= k}, Min)
                 /\ lte(node, k) = Nearest({b \in UsedBytes : b <= k}, Max)
                 /\ lt(node, k) = before
                 /\ node.kind # "n256" => prev(node, k) = before
  BY <1>2, <1>4, <1>5 DEF next, gt, gte, lte, lt, prev
<1>7. first(node) = child(node, Min(UsedBytes)) /\ last(node) = child(node, Max(UsedBytes))
  <2>1. ASSUME NEW cap \in Nat, ListedNode(node, cap), node.lth >= 1
        PROVE  first(node) = child(node, Min(UsedBytes)) /\ last(node) = child(node, Max(UsedBytes))
    <3>1. Listed(node)
      BY <2>1, ListedFields DEF Listed
    <3> QED
      BY <1>1, <2>1, <3>1, ListedEnds DEF first, last
  <2>2. CASE Listed(node)
    <3>1. \/ ListedNode(node, Cap4) /\ node.lth >= 1
          \/ ListedNode(node, Cap16) /\ node.lth >= 1
      BY <1>0, <2>2 DEF GoodNode, Listed
    <3> QED
      BY <1>0, <2>1, <3>1
  <2>3. CASE ~Listed(node)
    <3>1. 0 \in 0 .. MaxByte + 1 /\ MaxByte \in -1 .. MaxByte
      BY <1>0
    <3>2. {b \in UsedBytes : b >= 0} = UsedBytes /\ {b \in UsedBytes : b <= MaxByte} = UsedBytes
      BY <1>0 DEF UsedBytes, Byte
    <3>3. /\ scanUp(node, Byte) = Nearest(UsedBytes, Min)
          /\ scanDown(node, Byte) = Nearest(UsedBytes, Max)
      BY <1>2, <3>1, <3>2 DEF Byte
    <3>4. /\ scanUp(node, Byte) = <<Min(UsedBytes), child(node, Min(UsedBytes))>>
          /\ scanDown(node, Byte) = <<Max(UsedBytes), child(node, Max(UsedBytes))>>
      BY <1>1, <1>2, <3>3 DEF Nearest, Entry
    <3> QED
      BY <2>3, <3>4 DEF first, last
  <2> QED
    BY <2>2, <2>3
<1> QED
  BY <1>6, <1>7 DEF ScansRight

\* next, prev, gt, gte, lt, lte, first and last find the nearest used byte in
\* every state and every representation (prev of node256 excepted).
THEOREM ScansRightHolds == Spec => []ScansRight
  BY Invariance, GoodScansRight, PTL

\* A new node4 is a map of two bytes.
LEMMA RefinesInit == Init => Bytes!BMInit
<1> SUFFICES ASSUME Init PROVE Bytes!BMInit
  OBVIOUS
<1>1. PICK k1 \in Byte, k2 \in Byte, c1 \in Child, c2 \in Child :
          k1 # k2 /\ node = addChild(addChild(Empty4, k1, c1), k2, c2)
  BY DEF Init
<1>2. \A b \in Byte : child(node, b) = IF b = k1 THEN c1 ELSE IF b = k2 THEN c2 ELSE Nil
  BY <1>1, InitGood
<1>3. contents = [b \in Byte |-> IF b = k1 THEN c1 ELSE IF b = k2 THEN c2 ELSE Nil]
  BY <1>2 DEF contents
<1> QED
  BY <1>1, <1>3 DEF Init, Bytes!BMInit, Bytes!Byte, Byte

\* Every step is a step of the map or leaves it alone.
LEMMA RefinesNext == IInv /\ [Next]_vars => [Bytes!BMNext]_<<contents, left>>
<1> SUFFICES ASSUME IInv, [Next]_vars PROVE [Bytes!BMNext]_<<contents, left>>
  OBVIOUS
<1>0. GoodNode(node)
  BY DEF IInv
<1>1. Bytes!Byte = Byte /\ Bytes!Used = UsedOf(node)
  BY DEF Bytes!Byte, Byte, Bytes!Used, UsedOf, contents
<1>2. ASSUME NEW k \in Byte, NEW c, \A b \in Byte : child(node', b) = IF b = k THEN c ELSE child(node, b)
      PROVE  contents' = [contents EXCEPT ![k] = c]
  BY <1>2 DEF contents
<1>3. \A k \in Byte : contents[k] = child(node, k)
  BY DEF contents
<1>4. ASSUME NEW k \in Byte, NEW c \in Child, Add(k, c) PROVE Bytes!BMNext
  <2>1. left = Nil /\ left' = left /\ contents[k] = Nil
    BY <1>4, <1>3 DEF Add
  <2>2. contents' = [contents EXCEPT ![k] = c]
    BY <1>0, <1>4, <1>2, AddGood DEF Add
  <2> QED
    BY <1>1, <2>1, <2>2 DEF Bytes!BMNext, Bytes!BMAdd
<1>5. ASSUME NEW k \in Byte, NEW c \in Child, Replace(k, c) PROVE Bytes!BMNext
  <2>1. left = Nil /\ left' = left /\ contents[k] # Nil
    BY <1>5, <1>3 DEF Replace
  <2>2. contents' = [contents EXCEPT ![k] = c]
    BY <1>0, <1>5, <1>2, ReplaceGood DEF Replace
  <2> QED
    BY <1>1, <2>1, <2>2 DEF Bytes!BMNext, Bytes!BMReplace
<1>6. ASSUME NEW k \in Byte, Remove(k) PROVE Bytes!BMNext
  <2>1. left = Nil /\ left' = left /\ contents[k] # Nil
    BY <1>6, <1>3 DEF Remove
  <2>2. contents' = [contents EXCEPT ![k] = Nil]
    BY <1>0, <1>6, <1>2, RemoveGood DEF Remove
  <2> QED
    BY <1>1, <2>1, <2>2 DEF Bytes!BMNext, Bytes!BMRemove
<1>7. ASSUME NEW k \in Byte, Collapse(k) PROVE Bytes!BMNext
  <2>1. left = Nil /\ left' = node'.children[0] /\ contents[k] # Nil /\ node.lth >= 2
    BY <1>7, <1>3 DEF Collapse, IInv
  <2>2. /\ \A b \in Byte : child(node', b) = IF b = k THEN Nil ELSE child(node, b)
        /\ \E j \in Byte : /\ j # k /\ UsedOf(node) = {j, k}
                           /\ node'.children[0] = child(node, j)
    BY <1>0, <1>7, <2>1, CollapseGood DEF Collapse
  <2>3. contents' = [contents EXCEPT ![k] = Nil]
    BY <1>2, <2>2
  <2>4. \E j \in UsedOf(node) \ {k} : UsedOf(node) = {j, k} /\ left' = contents[j]
    BY <1>3, <2>1, <2>2
  <2> QED
    BY <1>1, <2>1, <2>3, <2>4 DEF Bytes!BMNext, Bytes!BMCollapse
<1>8. CASE UNCHANGED vars
  BY <1>8 DEF vars, contents
<1> QED
  BY <1>4, <1>5, <1>6, <1>7, <1>8 DEF Next

\* A node implements the map of ByteMap: growing, shrinking, shifting and slot
\* reuse never show in what is found at a byte.
THEOREM ImplementsByteMapHolds == Spec => ImplementsByteMap
<1>1. Init /\ [][Next]_vars /\ []IInv => Bytes!BMInit /\ [][Bytes!BMNext]_<<contents, left>>
  BY RefinesInit, RefinesNext, PTL
<1> QED
  BY <1>1, Invariance, PTL DEF Spec, ImplementsByteMap, Bytes!BMSpec

=============================================================================
