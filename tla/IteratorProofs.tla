--------------------------- MODULE IteratorProofs ---------------------------
(***************************************************************************)
(* Proofs about NodeHeap and Iterator: the tree of pointers stays a radix  *)
(* tree, the pointers that an iterator holds stay valid, and it returns    *)
(* keys of its range in order and once, for all trees, keys, ranges and    *)
(* sequences of changes between the calls of Next.                         *)
(*                                                                         *)
(* In this order: the order of keys; what a radix tree in a heap is; the   *)
(* way down that insertion and deletion take; the changes that leave a     *)
(* radix tree; insertion and deletion as such changes; the order of the    *)
(* keys returned; and the inductive invariant IteratorInv.                 *)
(***************************************************************************)
EXTENDS Iterator, SetFacts

-----------------------------------------------------------------------------
(* Keys: what Shared counts, and the order that bytes.Compare makes of it. *)

\* The constants as numbers.
LEMMA Constants ==
    /\ Cap4 \in Nat /\ Cap16 \in Nat /\ Cap48 \in Nat /\ MaxByte \in Nat
    /\ 2 <= Cap4 /\ Cap4 < Cap16 /\ Cap16 < Cap48 /\ Cap48 <= MaxByte
BY CapsAssumption

\* The smaller of two numbers.
LEMMA MinOfTwo ==
    ASSUME NEW x \in Nat, NEW y \in Nat
    PROVE  /\ Min({x, y}) \in Nat /\ Min({x, y}) <= x /\ Min({x, y}) <= y
           /\ Min({x, y}) = x \/ Min({x, y}) = y
<1>1. {x, y} \in SUBSET Nat /\ {x, y} # {}
  OBVIOUS
<1> QED
  BY <1>1, MinOfNats

\* Shared counts equal bytes up to the first difference or the shorter end.
LEMMA SharedFacts ==
    ASSUME NEW a \in Seq(Byte), NEW b \in Seq(Byte)
    PROVE  /\ Shared(a, b) \in Nat /\ Shared(a, b) <= Len(a) /\ Shared(a, b) <= Len(b)
           /\ \A i \in 1 .. Shared(a, b) : a[i] = b[i]
           /\ Shared(a, b) < Len(a) /\ Shared(a, b) < Len(b) =>
                a[Shared(a, b) + 1] # b[Shared(a, b) + 1]
<1> DEFINE N == Min({Len(a), Len(b)})
           S == {m \in 0 .. N : \A i \in 1 .. m : a[i] = b[i]}
<1>1. Len(a) \in Nat /\ Len(b) \in Nat
  OBVIOUS
<1>2. N \in Nat /\ N <= Len(a) /\ N <= Len(b) /\ (N = Len(a) \/ N = Len(b))
  BY <1>1, MinOfTwo
<1> HIDE DEF N
<1>3. S \in SUBSET (0 .. N) /\ 0 \in S
  BY <1>2
<1>4. Max(S) \in S /\ \A x \in S : Max(S) >= x
  BY <1>2, <1>3, MaxOfNats
<1>5. Shared(a, b) = Max(S)
  BY DEF Shared, N
<1> DEFINE m == Shared(a, b)
<1>6. m \in 0 .. N /\ \A i \in 1 .. m : a[i] = b[i]
  BY <1>4, <1>5
<1>7. ASSUME m < Len(a), m < Len(b), a[m + 1] = b[m + 1] PROVE FALSE
  <2>1. m + 1 \in 0 .. N
    BY <1>2, <1>6, <1>7
  <2>2. \A i \in 1 .. m + 1 : a[i] = b[i]
    BY <1>6, <1>7
  <2>3. m + 1 \in S
    BY <2>1, <2>2
  <2> QED
    BY <2>3, <1>4, <1>5, <1>6, <1>2
<1> QED
  BY <1>2, <1>6, <1>7

\* Sequences are equal when their lengths and elements are.
LEMMA SameSeq ==
    ASSUME NEW S, NEW a \in Seq(S), NEW b \in Seq(S), Len(a) = Len(b),
           \A i \in 1 .. Len(a) : a[i] = b[i]
    PROVE  a = b
OBVIOUS

\* The elements of a sequence.
LEMMA SeqElements ==
    ASSUME NEW S, NEW s \in Seq(S)
    PROVE  Len(s) \in Nat /\ DOMAIN s = 1 .. Len(s) /\ \A i \in 1 .. Len(s) : s[i] \in S
OBVIOUS

\* No key is below itself or below a key that is below it.
LEMMA LessAsymmetric ==
    ASSUME NEW a \in Seq(Byte), NEW b \in Seq(Byte), Less(a, b)
    PROVE  ~Less(b, a) /\ a # b
<1> DEFINE m == Shared(a, b)
           n == Shared(b, a)
<1>1. /\ m \in Nat /\ m <= Len(a) /\ m <= Len(b) /\ \A i \in 1 .. m : a[i] = b[i]
      /\ m < Len(a) /\ m < Len(b) => a[m + 1] # b[m + 1]
  BY SharedFacts
<1>2. /\ n \in Nat /\ n <= Len(b) /\ n <= Len(a) /\ \A i \in 1 .. n : b[i] = a[i]
      /\ n < Len(b) /\ n < Len(a) => b[n + 1] # a[n + 1]
  BY SharedFacts
<1>3. m < Len(b) /\ (m = Len(a) \/ a[m + 1] < b[m + 1])
  BY DEF Less
<1>4. Less(b, a) => n < Len(a) /\ (n = Len(b) \/ b[n + 1] < a[n + 1])
  BY DEF Less
<1> HIDE DEF m, n
<1>5. Len(a) \in Nat /\ Len(b) \in Nat
  OBVIOUS
<1>6. m = n
  <2>1. ~(m < n)
    <3> SUFFICES ASSUME m < n PROVE FALSE
      OBVIOUS
    <3>1. m + 1 \in 1 .. n /\ m < Len(a) /\ m < Len(b)
      BY <1>1, <1>2, <1>5
    <3> QED
      BY <3>1, <1>1, <1>2
  <2>2. ~(n < m)
    <3> SUFFICES ASSUME n < m PROVE FALSE
      OBVIOUS
    <3>1. n + 1 \in 1 .. m /\ n < Len(a) /\ n < Len(b)
      BY <1>1, <1>2, <1>5
    <3> QED
      BY <3>1, <1>1, <1>2
  <2> QED
    BY <2>1, <2>2, <1>1, <1>2
<1>7. m < Len(a) => a[m + 1] \in Int /\ b[m + 1] \in Int
  BY <1>1, <1>3, <1>5, Constants DEF Byte
<1>8. ~Less(b, a)
  BY <1>1, <1>3, <1>4, <1>5, <1>6, <1>7
<1>9. a # b
  BY <1>1, <1>3, <1>5, <1>7
<1> QED
  BY <1>8, <1>9

\* Of two different keys one is below the other.
LEMMA LessTotal ==
    ASSUME NEW a \in Seq(Byte), NEW b \in Seq(Byte), a # b, ~Less(a, b)
    PROVE  Less(b, a)
<1> DEFINE m == Shared(a, b)
           n == Shared(b, a)
<1>1. /\ m \in Nat /\ m <= Len(a) /\ m <= Len(b) /\ \A i \in 1 .. m : a[i] = b[i]
      /\ m < Len(a) /\ m < Len(b) => a[m + 1] # b[m + 1]
  BY SharedFacts
<1>2. /\ n \in Nat /\ n <= Len(b) /\ n <= Len(a) /\ \A i \in 1 .. n : b[i] = a[i]
      /\ n < Len(b) /\ n < Len(a) => b[n + 1] # a[n + 1]
  BY SharedFacts
<1>3. ~(m < Len(b) /\ (m = Len(a) \/ a[m + 1] < b[m + 1]))
  BY DEF Less
<1>4. n < Len(a) /\ (n = Len(b) \/ b[n + 1] < a[n + 1]) => Less(b, a)
  BY DEF Less
<1> HIDE DEF m, n
<1>5. Len(a) \in Nat /\ Len(b) \in Nat
  OBVIOUS
<1>6. m = n
  <2>1. ~(m < n)
    <3> SUFFICES ASSUME m < n PROVE FALSE
      OBVIOUS
    <3>1. m + 1 \in 1 .. n /\ m < Len(a) /\ m < Len(b)
      BY <1>1, <1>2, <1>5
    <3> QED
      BY <3>1, <1>1, <1>2
  <2>2. ~(n < m)
    <3> SUFFICES ASSUME n < m PROVE FALSE
      OBVIOUS
    <3>1. n + 1 \in 1 .. m /\ n < Len(a) /\ n < Len(b)
      BY <1>1, <1>2, <1>5
    <3> QED
      BY <3>1, <1>1, <1>2
  <2> QED
    BY <2>1, <2>2, <1>1, <1>2
<1>7. m < Len(a) /\ m < Len(b) => a[m + 1] \in Int /\ b[m + 1] \in Int
  BY <1>1, <1>5, Constants DEF Byte
<1>8. m = Len(a) /\ m = Len(b) => a = b
  BY <1>1, SameSeq
<1> QED
  BY <1>1, <1>3, <1>4, <1>5, <1>6, <1>7, <1>8

\* Less is transitive.
LEMMA LessTransitive ==
    ASSUME NEW a \in Seq(Byte), NEW b \in Seq(Byte), NEW c \in Seq(Byte),
           Less(a, b), Less(b, c)
    PROVE  Less(a, c)
<1> DEFINE m == Shared(a, b)
           n == Shared(b, c)
           l == Shared(a, c)
<1>1. /\ m \in Nat /\ m <= Len(a) /\ m <= Len(b) /\ \A i \in 1 .. m : a[i] = b[i]
  BY SharedFacts
<1>2. /\ n \in Nat /\ n <= Len(b) /\ n <= Len(c) /\ \A i \in 1 .. n : b[i] = c[i]
  BY SharedFacts
<1>3. /\ l \in Nat /\ l <= Len(a) /\ l <= Len(c) /\ \A i \in 1 .. l : a[i] = c[i]
      /\ l < Len(a) /\ l < Len(c) => a[l + 1] # c[l + 1]
  BY SharedFacts
<1>4. m < Len(b) /\ (m = Len(a) \/ a[m + 1] < b[m + 1])
  BY DEF Less
<1>5. n < Len(c) /\ (n = Len(b) \/ b[n + 1] < c[n + 1])
  BY DEF Less
<1>6. l < Len(c) /\ (l = Len(a) \/ a[l + 1] < c[l + 1]) => Less(a, c)
  BY DEF Less
<1> HIDE DEF m, n, l
<1>7. Len(a) \in Nat /\ Len(b) \in Nat /\ Len(c) \in Nat
  OBVIOUS
<1>8. /\ \A i \in 1 .. Len(a) : a[i] \in Int
      /\ \A i \in 1 .. Len(b) : b[i] \in Int
      /\ \A i \in 1 .. Len(c) : c[i] \in Int
  BY Constants DEF Byte
<1>9. CASE m < n
  <2>1. m + 1 \in 1 .. n /\ b[m + 1] = c[m + 1]
    BY <1>9, <1>1, <1>2
  <2>2. \A i \in 1 .. m : a[i] = c[i]
    BY <1>9, <1>1, <1>2
  <2>3. m < Len(a) => a[m + 1] # c[m + 1]
    BY <2>1, <1>1, <1>4, <1>7, <1>8
  <2>4. l <= m
    <3> SUFFICES ASSUME m < l PROVE FALSE
      BY <1>1, <1>3
    <3>1. m + 1 \in 1 .. l /\ m < Len(a)
      BY <1>1, <1>3, <1>7
    <3> QED
      BY <3>1, <2>3, <1>3
  <2>5. l >= m
    <3> SUFFICES ASSUME l < m PROVE FALSE
      BY <1>1, <1>3
    <3>1. l + 1 \in 1 .. m /\ l < Len(a) /\ l < Len(c)
      BY <1>1, <1>2, <1>3, <1>7, <1>9
    <3> QED
      BY <3>1, <2>2, <1>3
  <2>6. l = m
    BY <2>4, <2>5, <1>1, <1>3
  <2> QED
    BY <2>1, <2>6, <1>1, <1>2, <1>4, <1>6, <1>7, <1>9
<1>10. CASE n < m
  <2>1. n + 1 \in 1 .. m /\ a[n + 1] = b[n + 1]
    BY <1>10, <1>1, <1>2
  <2>2. \A i \in 1 .. n : a[i] = c[i]
    BY <1>10, <1>1, <1>2
  <2>3. n < Len(b) /\ n < Len(a)
    BY <1>10, <1>1, <1>2, <1>7
  <2>4. a[n + 1] < c[n + 1]
    BY <2>1, <2>3, <1>2, <1>5, <1>7
  <2>5. l <= n
    <3> SUFFICES ASSUME n < l PROVE FALSE
      BY <1>2, <1>3
    <3>1. n + 1 \in 1 .. l
      BY <1>2, <1>3, <1>7
    <3>2. a[n + 1] \in Int /\ c[n + 1] \in Int
      BY <1>8, <2>3, <1>5, <1>2, <1>7
    <3> QED
      BY <3>1, <3>2, <2>4, <1>3
  <2>6. l >= n
    <3> SUFFICES ASSUME l < n PROVE FALSE
      BY <1>2, <1>3
    <3>1. l + 1 \in 1 .. n /\ l < Len(a) /\ l < Len(c)
      BY <1>1, <1>2, <1>3, <1>7, <2>3
    <3> QED
      BY <3>1, <2>2, <1>3
  <2>7. l = n
    BY <2>5, <2>6, <1>2, <1>3
  <2> QED
    BY <2>4, <2>7, <1>5, <1>6
<1>11. CASE m = n
  <2>1. \A i \in 1 .. m : a[i] = c[i]
    BY <1>11, <1>1, <1>2
  <2>2. m < Len(a) => a[m + 1] < c[m + 1]
    <3> SUFFICES ASSUME m < Len(a) PROVE a[m + 1] < c[m + 1]
      OBVIOUS
    <3>1. a[m + 1] \in Int /\ b[m + 1] \in Int /\ c[m + 1] \in Int
      BY <1>8, <1>1, <1>4, <1>5, <1>7, <1>11
    <3>2. a[m + 1] < b[m + 1] /\ b[m + 1] < c[m + 1]
      BY <1>4, <1>5, <1>11, <1>7, <1>1
    <3> QED
      BY <3>1, <3>2
  <2>3. l <= m
    <3> SUFFICES ASSUME m < l PROVE FALSE
      BY <1>1, <1>3
    <3>1. m + 1 \in 1 .. l /\ m < Len(a)
      BY <1>1, <1>3, <1>7
    <3>2. a[m + 1] \in Int /\ c[m + 1] \in Int
      BY <1>8, <3>1, <1>5, <1>1, <1>7, <1>11
    <3> QED
      BY <3>1, <3>2, <2>2, <1>3
  <2>4. l >= m
    <3> SUFFICES ASSUME l < m PROVE FALSE
      BY <1>1, <1>3
    <3>1. l + 1 \in 1 .. m /\ l < Len(a) /\ l < Len(c)
      BY <1>1, <1>2, <1>3, <1>7, <1>11
    <3> QED
      BY <3>1, <2>1, <1>3
  <2>5. l = m
    BY <2>3, <2>4, <1>1, <1>3
  <2>6. m < Len(c)
    BY <1>5, <1>11
  <2> QED
    BY <2>2, <2>5, <2>6, <1>6, <1>1, <1>7
<1> QED
  BY <1>9, <1>10, <1>11, <1>1, <1>2

-----------------------------------------------------------------------------
(* Radix trees in a heap: the attached nodes A, the number D[q] of bytes   *)
(* before node q, bytes P[q] of a key that leads to q and through its      *)
(* prefix, and the parent U[q] of q.                                       *)

\* How many children a node of a kind has.
Lo(kind) == CASE kind = "n4" -> 2 [] kind = "n16" -> Cap4 + 1
              [] kind = "n48" -> Cap16 + 1 [] kind = "n256" -> Cap48 + 1
Hi(kind) == CASE kind = "n4" -> Cap4 [] kind = "n16" -> Cap16
              [] kind = "n48" -> Cap48 [] kind = "n256" -> MaxByte + 1

Sized(n) ==
    /\ n.kind \in {"n4", "n16", "n48", "n256"}
    /\ Lo(n.kind) <= Cardinality(DOMAIN n.kids)
    /\ Cardinality(DOMAIN n.kids) <= Hi(n.kind)

\* The key of a leaf, with a zero byte after its end, begins with the bytes that
\* lead to the leaf.
LeafOK(n, d, p) ==
    d <= Len(n.key) + 1 /\ \A i \in 0 .. d - 1 : p[i] = At(n.key, i)

\* The prefix of an inner node stands where its depth says, and no byte up to
\* its end is zero.
InnerOK(n, d, p) ==
    /\ Sized(n)
    /\ \A i \in 1 .. Len(n.compressed) : p[d + i - 1] = n.compressed[i]
    /\ \A i \in 0 .. d + Len(n.compressed) - 1 : p[i] # 0

Fits(n, d, p) == (n.isLeaf => LeafOK(n, d, p)) /\ (~n.isLeaf => InnerOK(n, d, p))

\* A child is an attached node of its own, and the bytes that lead to it are those
\* of its parent and its own byte.
LinkOK(n, d, p, b, dc, pc) ==
    LET e == d + Len(n.compressed)
    IN  dc = e + 1 /\ pc[e] = b /\ \A i \in 0 .. e - 1 : pc[i] = p[i]

Linked(h, r, A, D, P, U, q, b) ==
    LET c == h[q].kids[b]
    IN  c \in A /\ c # r /\ U[c] = q /\ LinkOK(h[q], D[q], P[q], b, D[c], P[c])

\* A radix tree with root r.
Radix(h, r, A, D, P, U) ==
    /\ A \subseteq DOMAIN h /\ r \in A /\ D[r] = 0
    /\ \A q \in A : Fits(h[q], D[q], P[q])
    /\ \A q \in A : ~h[q].isLeaf =>
          \A b \in DOMAIN h[q].kids : Linked(h, r, A, D, P, U, q, b)

-----------------------------------------------------------------------------
(* Heaps as sequences *)

IsSeq(h) == \E S : h \in Seq(S)

\* One element of a sequence is replaced, and up to two are added.
Put(h, p, x)        == [h EXCEPT ![p] = x]
Put1(h, p, x, y)    == Append([h EXCEPT ![p] = x], y)
Put2(h, p, x, y, z) == Append(Append([h EXCEPT ![p] = x], y), z)

\* A sequence has as many elements as its length says.
LEMMA SeqFacts ==
    ASSUME NEW h, IsSeq(h)
    PROVE  Len(h) \in Nat /\ DOMAIN h = 1 .. Len(h)
BY DEF IsSeq

\* One element of a sequence is replaced.
LEMMA PutFacts ==
    ASSUME NEW h, IsSeq(h), NEW p \in 1 .. Len(h), NEW x,
           NEW g, g = Put(h, p, x)
    PROVE  /\ IsSeq(g) /\ Len(g) = Len(h) /\ g[p] = x
           /\ \A q \in 1 .. Len(h) : q # p => g[q] = h[q]
<1>1. PICK S : h \in Seq(S)
  BY DEF IsSeq
<1> DEFINE T == S \cup {x}
<1>0. g = [h EXCEPT ![p] = x]
  BY DEF Put
<1>2. DOMAIN h = 1 .. Len(h) /\ Len(h) \in Nat /\ \A i \in 1 .. Len(h) : h[i] \in T
  BY <1>1
<1>3. g \in [1 .. Len(h) -> T]
  BY <1>0, <1>1, <1>2
<1>4. g \in Seq(T) /\ Len(g) = Len(h)
  BY <1>2, <1>3
<1>5. g[p] = x /\ \A q \in 1 .. Len(h) : q # p => g[q] = h[q]
  BY <1>0, <1>2
<1> QED
  BY <1>4, <1>5 DEF IsSeq

\* An element is added at the end of a sequence.
LEMMA AppendFacts ==
    ASSUME NEW h, IsSeq(h), NEW x
    PROVE  LET g == Append(h, x)
           IN  /\ IsSeq(g) /\ Len(g) = Len(h) + 1 /\ g[Len(h) + 1] = x
               /\ \A q \in 1 .. Len(h) : g[q] = h[q]
<1>1. PICK S : h \in Seq(S)
  BY DEF IsSeq
<1> DEFINE T == S \cup {x}
<1>2. h \in Seq(T) /\ x \in T
  BY <1>1
<1> HIDE DEF T
<1>3. /\ Append(h, x) \in Seq(T) /\ Len(Append(h, x)) = Len(h) + 1
      /\ Append(h, x)[Len(h) + 1] = x
      /\ \A q \in 1 .. Len(h) : Append(h, x)[q] = h[q]
  BY <1>2
<1> QED
  BY <1>3 DEF IsSeq

\* Insertions that make two new nodes.
LEMMA PutAppendFacts ==
    ASSUME NEW h, IsSeq(h), NEW p \in 1 .. Len(h), NEW x, NEW y, NEW z,
           NEW g, g = Put2(h, p, x, y, z)
    PROVE  /\ IsSeq(g) /\ Len(g) = Len(h) + 2 /\ g[p] = x
           /\ g[Len(h) + 1] = y /\ g[Len(h) + 2] = z
           /\ \A q \in 1 .. Len(h) : q # p => g[q] = h[q]
<1> DEFINE g1 == Put(h, p, x)
           g2 == Append(g1, y)
<1>1. /\ IsSeq(g1) /\ Len(g1) = Len(h) /\ g1[p] = x
      /\ \A q \in 1 .. Len(h) : q # p => g1[q] = h[q]
  BY PutFacts
<1> HIDE DEF g1
<1>2. /\ IsSeq(g2) /\ Len(g2) = Len(g1) + 1 /\ g2[Len(g1) + 1] = y
      /\ \A q \in 1 .. Len(g1) : g2[q] = g1[q]
  BY <1>1, AppendFacts
<1> HIDE DEF g2
<1>3. /\ IsSeq(Append(g2, z)) /\ Len(Append(g2, z)) = Len(g2) + 1
      /\ Append(g2, z)[Len(g2) + 1] = z
      /\ \A q \in 1 .. Len(g2) : Append(g2, z)[q] = g2[q]
  BY <1>2, AppendFacts
<1>4. Len(h) \in Nat
  BY SeqFacts
<1>8. g = Append(g2, z)
  BY DEF g2, g1, Put, Put2
<1> HIDE DEF g2
<1>5. /\ IsSeq(g) /\ Len(g) = Len(h) + 2 /\ g[Len(h) + 2] = z
      /\ \A q \in 1 .. Len(h) + 1 : g[q] = g2[q]
  BY <1>1, <1>2, <1>3, <1>4, <1>8
<1>6. g2[Len(h) + 1] = y /\ \A q \in 1 .. Len(h) : g2[q] = g1[q]
  BY <1>1, <1>2
<1>7. g[Len(h) + 1] = y /\ \A q \in 1 .. Len(h) : g[q] = g1[q]
  BY <1>4, <1>5, <1>6
<1> QED
  BY <1>1, <1>5, <1>7

\* Insertions that make one new node.
LEMMA PutAppendOne ==
    ASSUME NEW h, IsSeq(h), NEW p \in 1 .. Len(h), NEW x, NEW y,
           NEW g, g = Put1(h, p, x, y)
    PROVE  /\ IsSeq(g) /\ Len(g) = Len(h) + 1 /\ g[p] = x
           /\ g[Len(h) + 1] = y
           /\ \A q \in 1 .. Len(h) : q # p => g[q] = h[q]
<1> DEFINE g1 == Put(h, p, x)
<1>1. /\ IsSeq(g1) /\ Len(g1) = Len(h) /\ g1[p] = x
      /\ \A q \in 1 .. Len(h) : q # p => g1[q] = h[q]
  BY PutFacts
<1> HIDE DEF g1
<1>2. /\ IsSeq(Append(g1, y)) /\ Len(Append(g1, y)) = Len(g1) + 1
      /\ Append(g1, y)[Len(g1) + 1] = y
      /\ \A q \in 1 .. Len(g1) : Append(g1, y)[q] = g1[q]
  BY <1>1, AppendFacts
<1>3. g = Append(g1, y)
  BY DEF g1, Put, Put1
<1>4. /\ IsSeq(g) /\ Len(g) = Len(h) + 1 /\ g[Len(h) + 1] = y
      /\ \A q \in 1 .. Len(h) : g[q] = g1[q]
  BY <1>1, <1>2, <1>3
<1> QED
  BY <1>1, <1>4

-----------------------------------------------------------------------------
(* The way down *)

IsWay(f, T, F, x, N) ==
    f \in [0 .. N -> T] /\ f = [i \in 0 .. N |-> IF i = 0 THEN x ELSE F[f[i - 1]]]

\* A function that follows F from x on exists: what the recursive definitions
\* of insertWay and delWay rest on.
LEMMA WayExists ==
    ASSUME NEW T, NEW F \in [T -> T], NEW x \in T, NEW N \in Nat
    PROVE  \E f : IsWay(f, T, F, x, N)
<1> DEFINE Has(n) == \E f \in [0 .. n -> T] :
                        f = [i \in 0 .. n |-> IF i = 0 THEN x ELSE F[f[i - 1]]]
           S == {n \in Nat : ~Has(n)}
<1>1. Has(0)
  <2> DEFINE f == [i \in 0 .. 0 |-> x]
  <2>1. f \in [0 .. 0 -> T]
    OBVIOUS
  <2>2. f = [i \in 0 .. 0 |-> IF i = 0 THEN x ELSE F[f[i - 1]]]
    OBVIOUS
  <2> QED
    BY <2>1, <2>2
<1>2. ASSUME NEW n \in Nat, Has(n) PROVE Has(n + 1)
  <2>1. PICK f \in [0 .. n -> T] :
               f = [i \in 0 .. n |-> IF i = 0 THEN x ELSE F[f[i - 1]]]
    BY <1>2
  <2> DEFINE g == [i \in 0 .. n + 1 |-> IF i = n + 1 THEN F[f[n]] ELSE f[i]]
  <2>2. F[f[n]] \in T
    OBVIOUS
  <2>3. g \in [0 .. n + 1 -> T]
    BY <2>2
  <2>4. ASSUME NEW i \in 0 .. n + 1 PROVE g[i] = IF i = 0 THEN x ELSE F[g[i - 1]]
    <3>1. CASE i = n + 1
      <4>1. i # 0 /\ i - 1 \in 0 .. n + 1 /\ i - 1 # n + 1 /\ i - 1 = n
        BY <3>1
      <4>2. g[i - 1] = f[n]
        BY <4>1
      <4> QED
        BY <3>1, <4>1, <4>2
    <3>2. CASE i # n + 1 /\ i # 0
      <4>1. i - 1 \in 0 .. n /\ i \in 0 .. n /\ i - 1 # n + 1
        BY <3>2
      <4>2. g[i - 1] = f[i - 1] /\ g[i] = f[i]
        BY <3>2, <4>1
      <4>3. f[i] = F[f[i - 1]]
        BY <2>1, <3>2, <4>1
      <4> QED
        BY <3>2, <4>2, <4>3
    <3>3. CASE i = 0
      <4>1. f[0] = x
        BY <2>1
      <4> QED
        BY <3>3, <4>1
    <3> QED
      BY <3>1, <3>2, <3>3
  <2>5. g = [i \in 0 .. n + 1 |-> IF i = 0 THEN x ELSE F[g[i - 1]]]
    BY <2>3, <2>4
  <2> QED
    BY <2>3, <2>5
<1> HIDE DEF Has
<1>3. S = {}
  <2> SUFFICES ASSUME S # {} PROVE FALSE
    OBVIOUS
  <2> DEFINE m == Min(S)
  <2>1. m \in S /\ \A y \in S : m <= y
    BY MinOfNats
  <2> HIDE DEF m
  <2>2. m \in Nat /\ m # 0 /\ ~Has(m)
    BY <2>1, <1>1
  <2>3. m - 1 \in Nat /\ m - 1 \notin S
    BY <2>1, <2>2
  <2>4. Has(m - 1)
    BY <2>3
  <2>5. Has((m - 1) + 1)
    BY <2>3, <2>4, <1>2
  <2>6. (m - 1) + 1 = m
    BY <2>2
  <2> QED
    BY <2>2, <2>5, <2>6
<1>4. Has(N)
  BY <1>3
<1> QED
  BY <1>4 DEF Has, IsWay

Climbs(T, F, d, N) ==
    d \in [T -> 0 .. N] /\ \A w \in T : F[w] = w \/ d[F[w]] > d[w]

\* It comes to an end if every turn raises a bounded measure.
LEMMA WayEnds ==
    ASSUME NEW T, NEW F \in [T -> T], NEW N \in Nat, NEW x, NEW f,
           IsWay(f, T, F, x, N), NEW d, Climbs(T, F, d, N)
    PROVE  F[f[N]] = f[N] /\ f[N] \in T
<1>a. f \in [0 .. N -> T] /\ \A i \in 1 .. N : f[i] = F[f[i - 1]]
  BY DEF IsWay
<1>b. d \in [T -> 0 .. N] /\ \A w \in T : F[w] = w \/ d[F[w]] > d[w]
  BY DEF Climbs
<1> DEFINE S == {i \in 0 .. N : F[f[i]] # f[i] /\ d[f[i]] < i}
<1>0. \A w \in T : F[w] \in T /\ d[w] \in 0 .. N
  BY <1>b
<1>00. ASSUME NEW i \in 0 .. N, i \notin S, F[f[i]] # f[i] PROVE d[f[i]] >= i
  <2>1. ~(d[f[i]] < i) /\ f[i] \in T
    BY <1>00, <1>a
  <2>2. d[f[i]] \in Int /\ i \in Int
    BY <2>1, <1>0
  <2> QED
    BY <2>1, <2>2
<1> HIDE DEF S
<1>1. S = {}
  <2> SUFFICES ASSUME S # {} PROVE FALSE
    OBVIOUS
  <2>0. S \in SUBSET Nat
    BY DEF S
  <2> DEFINE m == Min(S)
  <2>1. m \in S /\ \A y \in S : m <= y
    BY <2>0, MinOfNats
  <2> HIDE DEF m
  <2>2. m \in 0 .. N /\ F[f[m]] # f[m] /\ d[f[m]] < m
    BY <2>1 DEF S
  <2>2a. f[m] \in T
    BY <2>2, <1>a
  <2>2b. d[f[m]] \in 0 .. N
    BY <2>2a, <1>0
  <2>2c. m \in Int /\ m # 0 /\ m >= 0 /\ m <= N
    BY <2>2, <2>2b
  <2>3. m \in 1 .. N /\ m - 1 \in 0 .. N /\ m - 1 \notin S
    <3>1. m \in 1 .. N /\ m - 1 \in 0 .. N /\ ~(m <= m - 1)
      BY <2>2c
    <3> QED
      BY <3>1, <2>1
  <2>4. f[m] = F[f[m - 1]] /\ f[m - 1] \in T
    BY <2>3, <1>a
  <2>5. F[f[m - 1]] # f[m - 1]
    BY <2>2, <2>4
  <2>6. d[f[m - 1]] >= m - 1
    BY <2>3, <2>5, <1>00
  <2>7. d[f[m]] > d[f[m - 1]]
    BY <2>4, <2>5, <1>b
  <2> QED
    BY <2>2, <2>3, <2>4, <2>6, <2>7, <1>0
<1>2. N \notin S /\ N \in 0 .. N /\ f[N] \in T
  BY <1>1, <1>a
<1>3. F[f[N]] # f[N] => d[f[N]] >= N
  BY <1>00, <1>2
<1> QED
  BY <1>0, <1>2, <1>3, <1>b

\* Bytes of a key: zero beyond its end and only there.
LEMMA KeyFacts ==
    ASSUME NEW key \in Keys
    PROVE  /\ key \in Seq(Byte) /\ Len(key) \in Nat
           /\ \A i \in Nat : At(key, i) \in Byte
           /\ \A i \in Nat : i < Len(key) => At(key, i) = key[i + 1] /\ At(key, i) # 0
           /\ \A i \in Nat : i >= Len(key) => At(key, i) = 0
<1>1. key \in Seq(1 .. MaxByte)
  BY KeysAssumption
<1>2. Len(key) \in Nat /\ \A i \in 1 .. Len(key) : key[i] \in 1 .. MaxByte
  BY <1>1, SeqElements
<1>3. key \in Seq(Byte)
  BY <1>1, Constants DEF Byte
<1>4. ASSUME NEW i \in Nat, i < Len(key)
      PROVE  At(key, i) = key[i + 1] /\ At(key, i) # 0 /\ At(key, i) \in Byte
  <2>1. i + 1 \in 1 .. Len(key)
    BY <1>4, <1>2
  <2> QED
    BY <2>1, <1>2, <1>4, Constants DEF At, Byte
<1>5. ASSUME NEW i \in Nat, i >= Len(key) PROVE At(key, i) = 0 /\ At(key, i) \in Byte
  BY <1>5, <1>2, Constants DEF At, Byte
<1> QED
  BY <1>2, <1>3, <1>4, <1>5

\* What is left of a key.
LEMMA FromFacts ==
    ASSUME NEW s \in Seq(Byte), NEW d \in Nat, d <= Len(s)
    PROVE  /\ From(s, d) \in Seq(Byte) /\ Len(From(s, d)) = Len(s) - d
           /\ \A i \in 1 .. Len(s) - d : From(s, d)[i] = s[d + i]
<1>1. Len(s) \in Nat
  OBVIOUS
<1>2. \A i \in d + 1 .. Len(s) : s[i] \in Byte
  BY <1>1
<1>3. From(s, d) \in Seq(Byte)
  BY <1>1, <1>2 DEF From
<1>4. Len(From(s, d)) = Len(s) - d
  BY <1>1 DEF From
<1>5. \A i \in 1 .. Len(s) - d : From(s, d)[i] = s[d + i]
  BY <1>1 DEF From
<1> QED
  BY <1>3, <1>4, <1>5

\* Where a prefix without zero bytes and the key part.
LEMMA MismatchFacts ==
    ASSUME NEW n, n.compressed \in Seq(Byte), NEW key \in Keys,
           NEW depth \in Nat, depth <= Len(key),
           \A i \in 1 .. Len(n.compressed) : n.compressed[i] # 0
    PROVE  LET mis == compressedMismatch(n, key, depth)
           IN  /\ mis \in Nat /\ mis <= Len(n.compressed) /\ depth + mis <= Len(key)
               /\ \A i \in 1 .. mis : n.compressed[i] = At(key, depth + i - 1)
               /\ mis < Len(n.compressed) => n.compressed[mis + 1] # At(key, depth + mis)
<1> DEFINE c == n.compressed
           rest == From(key, depth)
           mis == Shared(c, rest)
<1>1. /\ key \in Seq(Byte) /\ Len(key) \in Nat
      /\ \A i \in Nat : i < Len(key) => At(key, i) = key[i + 1]
      /\ \A i \in Nat : i >= Len(key) => At(key, i) = 0
  BY KeyFacts
<1>2. rest \in Seq(Byte) /\ Len(rest) = Len(key) - depth
      /\ \A i \in 1 .. Len(key) - depth : rest[i] = key[depth + i]
  BY <1>1, FromFacts
<1>3. compressedMismatch(n, key, depth) = mis
  BY <1>1 DEF compressedMismatch
<1> HIDE DEF rest
<1>4. /\ mis \in Nat /\ mis <= Len(c) /\ mis <= Len(rest)
      /\ \A i \in 1 .. mis : c[i] = rest[i]
      /\ mis < Len(c) /\ mis < Len(rest) => c[mis + 1] # rest[mis + 1]
  BY <1>2, SharedFacts
<1> HIDE DEF mis
<1>5. Len(c) \in Nat
  OBVIOUS
<1>6. ASSUME NEW i \in 1 .. mis PROVE c[i] = At(key, depth + i - 1)
  <2>1. i \in 1 .. Len(key) - depth /\ depth + i - 1 \in Nat /\ depth + i - 1 < Len(key)
    BY <1>1, <1>2, <1>4
  <2>2. (depth + i - 1) + 1 = depth + i
    OBVIOUS
  <2> QED
    BY <2>1, <2>2, <1>1, <1>2, <1>4
<1>7. ASSUME mis < Len(c) PROVE c[mis + 1] # At(key, depth + mis)
  <2>1. CASE mis < Len(rest)
    <3>1. mis + 1 \in 1 .. Len(key) - depth /\ depth + mis \in Nat /\ depth + mis < Len(key)
      BY <2>1, <1>1, <1>2, <1>4
    <3>2. (depth + mis) + 1 = depth + (mis + 1)
      BY <1>4
    <3>3. At(key, depth + mis) = rest[mis + 1]
      BY <3>1, <3>2, <1>1, <1>2
    <3> QED
      BY <3>3, <2>1, <1>4, <1>7
  <2>2. CASE mis = Len(rest)
    <3>1. depth + mis \in Nat /\ depth + mis >= Len(key)
      BY <2>2, <1>1, <1>2, <1>4
    <3>2. At(key, depth + mis) = 0
      BY <3>1, <1>1
    <3>3. mis + 1 \in 1 .. Len(c)
      BY <1>4, <1>5, <1>7
    <3> QED
      BY <3>2, <3>3
  <2>3. mis <= Len(rest) /\ mis \in Int /\ Len(rest) \in Int
    BY <1>2, <1>4, SeqElements
  <2> QED
    BY <2>1, <2>2, <2>3
<1>8. mis \in Nat /\ mis <= Len(c) /\ depth + mis <= Len(key)
  BY <1>1, <1>2, <1>4
<1> QED
  BY <1>3, <1>6, <1>7, <1>8

\* An inner node is no more than what InnerAt makes.
IsMap(f, S) == f = [b \in S |-> f[b]]

Shape(n) ==
    /\ n = InnerAt(n.compressed, n.kind, n.kids)
    /\ IsMap(n.kids, DOMAIN n.kids)

NodeOK(h, q) ==
    /\ h[q].isLeaf \in BOOLEAN
    /\ h[q].isLeaf => h[q] \in Leaves
    /\ ~h[q].isLeaf =>
          /\ Shape(h[q]) /\ h[q].compressed \in Seq(Byte)
          /\ \A b \in DOMAIN h[q].kids : b \in Byte /\ h[q].kids[b] \in 1 .. Len(h)

HeapOK(h) == IsSeq(h) /\ \A q \in 1 .. Len(h) : NodeOK(h, q)

Depths == [Nat -> Nat]
Paths == [Nat -> [Nat -> Byte]]

\* Places on the way down with a key: it has led there through the parent.
Places(h, r, A, D, P, key) ==
    {w \in [node : A, depth : Nat, above : A \cup {Nil}, byte : Byte] :
        /\ ~h[w.node].isLeaf /\ w.depth = D[w.node] /\ w.depth <= Len(key)
        /\ \A i \in 0 .. w.depth - 1 : P[w.node][i] = At(key, i)
        /\ IF w.above = Nil THEN w.node = r
           ELSE /\ ~h[w.above].isLeaf /\ w.byte \in DOMAIN h[w.above].kids
                /\ h[w.above].kids[w.byte] = w.node}

\* A call that goes on does so at another such place, further down.
LEMMA DeeperFacts ==
    ASSUME NEW h, HeapOK(h), NEW r, NEW A, NEW D \in Depths, NEW P \in Paths, NEW U,
           Radix(h, r, A, D, P, U), NEW key \in Keys,
           NEW w \in Places(h, r, A, D, P, key), NEW fits,
           fits => \A i \in 1 .. Len(h[w.node].compressed) :
                      w.depth + i <= Len(key) =>
                          h[w.node].compressed[i] = key[w.depth + i]
    PROVE  /\ Deeper(h, key, w, fits) \in Places(h, r, A, D, P, key)
           /\ \/ Deeper(h, key, w, fits) = w
              \/ Deeper(h, key, w, fits).depth > w.depth
           /\ Deeper(h, key, w, fits) = w =>
                 LET n == h[w.node]
                     k == At(key, w.depth + Len(n.compressed))
                 IN  ~(fits /\ k \in DOMAIN n.kids /\ ~h[n.kids[k]].isLeaf)
<1> DEFINE p  == w.node
           n  == h[w.node]
           d  == w.depth
           e  == w.depth + Len(n.compressed)
           k  == At(key, w.depth + Len(n.compressed))
           ch == n.kids[k]
           goes == fits /\ k \in DOMAIN n.kids /\ ~h[ch].isLeaf
           w2 == [node |-> ch, depth |-> e + 1, above |-> p, byte |-> k]
<1>1. /\ p \in A /\ ~n.isLeaf /\ d \in Nat /\ d = D[p] /\ d <= Len(key)
      /\ \A i \in 0 .. d - 1 : P[p][i] = At(key, i)
  BY DEF Places
<1>2. Deeper(h, key, w, fits) = IF goes THEN w2 ELSE w
  BY DEF Deeper
<1>3. A \subseteq 1 .. Len(h) /\ Len(h) \in Nat
  BY SeqFacts DEF HeapOK, Radix
<1>4. n.compressed \in Seq(Byte) /\ Len(n.compressed) \in Nat
  <2>1. NodeOK(h, p)
    BY <1>1, <1>3 DEF HeapOK
  <2>2. h[p].compressed \in Seq(Byte)
    BY <2>1, <1>1 DEF NodeOK
  <2> QED
    BY <2>2, SeqElements
<1>5. ASSUME goes
      PROVE  w2 \in Places(h, r, A, D, P, key)
  <2>1. ch \in A /\ D[ch] = e + 1 /\ P[ch][e] = k /\ \A i \in 0 .. e - 1 : P[ch][i] = P[p][i]
    BY <1>1, <1>5, SMTT(30) DEF Radix, Linked, LinkOK
  <2>2. \A i \in 0 .. D[ch] + Len(h[ch].compressed) - 1 : P[ch][i] # 0
    BY <2>1, <1>5 DEF Radix, Fits, InnerOK
  <2>3a. e = d + Len(n.compressed) /\ ~h[ch].isLeaf
    BY <1>5
  <2> HIDE DEF p, n, d, e, k, ch
  <2>3. Len(h[ch].compressed) \in Nat
    <3>1. ch \in 1 .. Len(h)
      BY <2>1, <1>3
    <3>2. NodeOK(h, ch)
      BY <3>1 DEF HeapOK
    <3>3. h[ch].compressed \in Seq(Byte)
      BY <3>2, <2>3a DEF NodeOK
    <3> QED
      BY <3>3, SeqElements
  <2>4. e \in Nat /\ e \in 0 .. D[ch] + Len(h[ch].compressed) - 1
    <3>1. d \in Nat /\ Len(n.compressed) \in Nat
      BY <1>1, <1>4
    <3>2. D[ch] = e + 1
      BY <2>1
    <3>3. e \in Nat
      BY <3>1, <2>3a
    <3> QED
      BY <3>2, <3>3, <2>3
  <2>5. k # 0
    BY <2>1, <2>2, <2>4
  <2>6. e < Len(key)
    BY <2>4, <2>5, KeyFacts DEF k, e, d, n
  <2>7. \A i \in 1 .. Len(n.compressed) : P[p][d + i - 1] = n.compressed[i]
    BY <1>1 DEF Radix, Fits, InnerOK, n, p, d
  <2>8. ASSUME NEW i \in 0 .. e PROVE P[ch][i] = At(key, i)
    <3>1. CASE i < d
      <4>1. i \in 0 .. d - 1 /\ i \in 0 .. e - 1
        BY <3>1, <1>1, <1>4, <2>4, <2>3a
      <4> QED
        BY <4>1, <1>1, <2>1
    <3>2. CASE i >= d /\ i < e
      <4> DEFINE j == i - d + 1
      <4>1. j \in 1 .. Len(n.compressed) /\ d + j <= Len(key) /\ d + j - 1 = i /\ d + j = i + 1
        BY <3>2, <1>1, <1>4, <2>3a, <2>4, <2>6, KeyFacts, SMTT(30)
      <4> HIDE DEF j
      <4>2. P[p][i] = key[i + 1]
        BY <4>1, <2>7, <1>5 DEF n, d
      <4>3. i \in Nat /\ i < Len(key) /\ i \in 0 .. e - 1
        BY <3>2, <2>4, <2>6, KeyFacts
      <4>4. At(key, i) = key[i + 1]
        BY <4>3, KeyFacts
      <4>5. P[ch][i] = P[p][i]
        BY <4>3, <2>1
      <4> QED
        BY <4>2, <4>4, <4>5
    <3>3. CASE i = e
      BY <3>3, <2>1 DEF k, e, d, n
    <3> QED
      BY <3>1, <3>2, <3>3, <1>1, <2>4
  <2>9. k \in Byte
    BY <2>4, KeyFacts DEF k, e, d, n
  <2>10. e + 1 \in Nat /\ e + 1 <= Len(key) /\ (e + 1) - 1 = e
    BY <2>4, <2>6, KeyFacts
  <2>11. w2 \in [node : A, depth : Nat, above : A \cup {Nil}, byte : Byte]
    BY <2>1, <2>9, <2>10, <1>1
  <2>12. p # Nil
    BY <1>1, <1>3, NilAssumption
  <2>13. \A i \in 0 .. (e + 1) - 1 : P[ch][i] = At(key, i)
    BY <2>8, <2>10
  <2>14. /\ ~h[w2.node].isLeaf /\ w2.depth = D[w2.node] /\ w2.depth <= Len(key)
         /\ \A i \in 0 .. w2.depth - 1 : P[w2.node][i] = At(key, i)
    BY <1>5, <2>1, <2>10, <2>13
  <2>15. /\ w2.above # Nil /\ ~h[w2.above].isLeaf /\ w2.byte \in DOMAIN h[w2.above].kids
         /\ h[w2.above].kids[w2.byte] = w2.node
    BY <2>12, <1>1, <1>5 DEF ch, n, p
  <2> HIDE DEF w2
  <2> QED
    BY <2>11, <2>14, <2>15 DEF Places
<1>6. w2.depth > w.depth /\ w2 # w
  <2>1. w2.depth = e + 1
    OBVIOUS
  <2>2. e + 1 > d
    BY <1>1, <1>4
  <2> HIDE DEF w2
  <2>3. w2 # w
    BY <2>1, <2>2, <1>1, <1>4
  <2> QED
    BY <2>1, <2>2, <2>3
<1> HIDE DEF w2
<1> QED
  BY <1>2, <1>5, <1>6

\* The same with the types of its parts.
PlaceOK(h, r, A, D, P, key, w) ==
    /\ w.node \in A /\ w.node \in 1 .. Len(h)
    /\ ~h[w.node].isLeaf /\ w.depth = D[w.node]
    /\ w.depth \in Nat /\ w.depth <= Len(key)
    /\ \A i \in 0 .. w.depth - 1 : P[w.node][i] = At(key, i)
    /\ h[w.node].compressed \in Seq(Byte)
    /\ \A i \in 1 .. Len(h[w.node].compressed) : h[w.node].compressed[i] # 0
    /\ w.above = Nil => w.node = r
    /\ w.above # Nil => /\ w.above \in A /\ ~h[w.above].isLeaf
                        /\ w.byte \in DOMAIN h[w.above].kids
                        /\ h[w.above].kids[w.byte] = w.node

\* In a radix tree every place is like that.
LEMMA PlaceFacts ==
    ASSUME NEW h, HeapOK(h), NEW r, NEW A, NEW D \in Depths, NEW P \in Paths, NEW U,
           Radix(h, r, A, D, P, U), NEW key \in Keys,
           NEW w \in Places(h, r, A, D, P, key)
    PROVE  PlaceOK(h, r, A, D, P, key, w)
<1>1. /\ w.node \in A /\ ~h[w.node].isLeaf /\ w.depth = D[w.node]
      /\ w.depth \in Nat /\ w.depth <= Len(key)
      /\ \A i \in 0 .. w.depth - 1 : P[w.node][i] = At(key, i)
      /\ w.above = Nil => w.node = r
      /\ w.above # Nil => /\ w.above \in A /\ ~h[w.above].isLeaf
                          /\ w.byte \in DOMAIN h[w.above].kids
                          /\ h[w.above].kids[w.byte] = w.node
  BY DEF Places
<1>2. w.node \in 1 .. Len(h)
  BY <1>1, SeqFacts DEF HeapOK, Radix
<1>3. h[w.node].compressed \in Seq(Byte)
  BY <1>1, <1>2 DEF HeapOK, NodeOK
<1>4. InnerOK(h[w.node], D[w.node], P[w.node])
  BY <1>1 DEF Radix, Fits
<1> DEFINE c == h[w.node].compressed
<1>5. ASSUME NEW i \in 1 .. Len(c) PROVE c[i] # 0
  <2>1. w.depth + i - 1 \in 0 .. w.depth + Len(c) - 1
    BY <1>1, <1>3
  <2> QED
    BY <2>1, <1>1, <1>4 DEF InnerOK
<1> QED
  BY <1>1, <1>2, <1>3, <1>5 DEF PlaceOK

\* A key that compressedMismatch finds no difference in agrees with the prefix.
LEMMA FitsInsert ==
    ASSUME NEW n, n.compressed \in Seq(Byte), NEW key \in Keys,
           NEW depth \in Nat, depth <= Len(key),
           \A i \in 1 .. Len(n.compressed) : n.compressed[i] # 0,
           compressedMismatch(n, key, depth) = Len(n.compressed)
    PROVE  \A i \in 1 .. Len(n.compressed) : n.compressed[i] = key[depth + i]
<1> SUFFICES ASSUME NEW i \in 1 .. Len(n.compressed) PROVE n.compressed[i] = key[depth + i]
  OBVIOUS
<1> DEFINE mis == compressedMismatch(n, key, depth)
<1>1. /\ mis \in Nat /\ depth + mis <= Len(key)
      /\ \A j \in 1 .. mis : n.compressed[j] = At(key, depth + j - 1)
  BY MismatchFacts
<1>2. depth + i - 1 \in Nat /\ depth + i - 1 < Len(key) /\ (depth + i - 1) + 1 = depth + i
  BY <1>1, KeyFacts
<1>3. At(key, depth + i - 1) = key[(depth + i - 1) + 1]
  BY <1>2, KeyFacts
<1> QED
  BY <1>1, <1>2, <1>3

\* A key that checkCompressed accepts agrees with the prefix, as far as it goes.
LEMMA FitsDel ==
    ASSUME NEW n, n.compressed \in Seq(Byte), NEW key \in Keys,
           NEW depth \in Nat, depth <= Len(key),
           checkCompressed(n, key, depth)
    PROVE  \A i \in 1 .. Len(n.compressed) :
              depth + i <= Len(key) => n.compressed[i] = key[depth + i]
<1> DEFINE x == Len(n.compressed)
           y == Len(key) - depth
<1>1. x \in Nat /\ y \in Nat /\ Len(key) \in Nat
  BY KeyFacts
<1>2. \A i \in 1 .. Min({x, y}) : n.compressed[i] = key[depth + i]
  BY DEF checkCompressed
<1>3. Min({x, y}) \in Nat /\ (Min({x, y}) = x \/ Min({x, y}) = y)
  BY <1>1, MinOfTwo
<1> QED
  BY <1>1, <1>2, <1>3

\* Inner.insert ends at a place of the key from which it does not go on.
LEMMA InsertWay ==
    ASSUME NEW h, HeapOK(h), NEW r, NEW A, NEW D \in Depths, NEW P \in Paths, NEW U,
           Radix(h, r, A, D, P, U), ~h[r].isLeaf, NEW key \in Keys
    PROVE  LET w == insertWay(h, r, key)
               n == h[w.node]
               k == At(key, w.depth + Len(n.compressed))
           IN  /\ w \in Places(h, r, A, D, P, key)
               /\ ~ (/\ compressedMismatch(n, key, w.depth) = Len(n.compressed)
                     /\ k \in DOMAIN n.kids /\ ~h[n.kids[k]].isLeaf)
<1>0. ASSUME NEW v \in Places(h, r, A, D, P, key)
      PROVE  /\ v.depth \in Nat /\ v.depth <= Len(key) /\ h[v.node].compressed \in Seq(Byte)
             /\ \A i \in 1 .. Len(h[v.node].compressed) : h[v.node].compressed[i] # 0
  <2>1. PlaceOK(h, r, A, D, P, key, v)
    BY PlaceFacts
  <2> QED
    BY <2>1 DEF PlaceOK
<1> DEFINE T == Places(h, r, A, D, P, key)
           N == Len(key)
           F == [v \in T |-> insertTurn(h, key, v)]
           Way(f) == [i \in 0 .. N |-> IF i = 0 THEN Entry(r) ELSE insertTurn(h, key, f[i - 1])]
           G == CHOOSE f : f = Way(f)
<1>1. ASSUME NEW v \in T
      PROVE  /\ insertTurn(h, key, v) \in T
             /\ insertTurn(h, key, v) = v \/ insertTurn(h, key, v).depth > v.depth
             /\ insertTurn(h, key, v) = v =>
                   LET n == h[v.node]
                       k == At(key, v.depth + Len(n.compressed))
                   IN  ~ (/\ compressedMismatch(n, key, v.depth) = Len(n.compressed)
                          /\ k \in DOMAIN n.kids /\ ~h[n.kids[k]].isLeaf)
  <2> DEFINE n == h[v.node]
             fits == compressedMismatch(n, key, v.depth) = Len(n.compressed)
  <2>1. /\ v.depth \in Nat /\ v.depth <= Len(key) /\ n.compressed \in Seq(Byte)
        /\ \A i \in 1 .. Len(n.compressed) : n.compressed[i] # 0
    BY <1>0
  <2>2. fits => \A i \in 1 .. Len(n.compressed) :
                   v.depth + i <= Len(key) => n.compressed[i] = key[v.depth + i]
    BY <2>1, FitsInsert
  <2>3. insertTurn(h, key, v) = Deeper(h, key, v, fits)
    BY DEF insertTurn
  <2> HIDE DEF fits
  <2>4. /\ Deeper(h, key, v, fits) \in T
        /\ \/ Deeper(h, key, v, fits) = v
           \/ Deeper(h, key, v, fits).depth > v.depth
        /\ Deeper(h, key, v, fits) = v =>
              LET k == At(key, v.depth + Len(n.compressed))
              IN  ~(fits /\ k \in DOMAIN n.kids /\ ~h[n.kids[k]].isLeaf)
    BY <2>2, DeeperFacts
  <2> HIDE DEF T
  <2> QED
    BY <2>3, <2>4 DEF fits
<1>2. Entry(r) \in T
  <2>1. r \in A /\ D[r] = 0 /\ Len(key) \in Nat /\ 0 \in Byte
    BY KeyFacts, Constants DEF Radix, Byte
  <2> QED
    BY <2>1 DEF Entry, Places
<1>3. N \in Nat
  BY KeyFacts
<1>4. \A v \in T : v.depth \in 0 .. N
  BY <1>0, <1>3
<1> HIDE DEF T, N
<1>5. F \in [T -> T] /\ \A v \in T : F[v] = insertTurn(h, key, v)
  BY <1>1
<1> HIDE DEF F
<1>6. PICK f : IsWay(f, T, F, Entry(r), N)
  BY <1>2, <1>3, <1>5, WayExists
<1>7. f = Way(f)
  <2>0. f \in [0 .. N -> T] /\ f = [i \in 0 .. N |-> IF i = 0 THEN Entry(r) ELSE F[f[i - 1]]]
    BY <1>6 DEF IsWay
  <2>1. ASSUME NEW i \in 0 .. N, i # 0 PROVE F[f[i - 1]] = insertTurn(h, key, f[i - 1])
    <3>1. i - 1 \in 0 .. N
      BY <2>1, <1>3
    <3> QED
      BY <3>1, <1>5, <2>0
  <2> QED
    BY <2>0, <2>1
<1> HIDE DEF Way
<1>8. G = Way(G)
  BY <1>7
<1>9. insertWay(h, r, key) = G[N]
  BY DEF insertWay, Way, N
<1> HIDE DEF G
<1>10. \A i \in 1 .. N : G[i - 1] \in T => G[i] \in T /\ G[i] = F[G[i - 1]]
  BY <1>1, <1>5, <1>8, <1>3 DEF Way
<1>11. G \in [0 .. N -> T]
  <2> DEFINE S == {i \in Nat : i <= N /\ G[i] \notin T}
  <2>1. S = {}
    <3> SUFFICES ASSUME S # {} PROVE FALSE
      OBVIOUS
    <3> DEFINE m == Min(S)
    <3>1. m \in S /\ \A y \in S : m <= y
      BY MinOfNats
    <3> HIDE DEF m
    <3>2. G[0] \in T
      BY <1>2, <1>3, <1>8 DEF Way
    <3>3. m \in 1 .. N /\ m - 1 \in Nat /\ m - 1 <= N /\ m - 1 \notin S
      BY <3>1, <3>2, <1>3
    <3> QED
      BY <3>1, <3>3, <1>10
  <2>2. DOMAIN G = 0 .. N /\ G = [i \in 0 .. N |-> G[i]]
    BY <1>8 DEF Way
  <2>3. \A i \in 0 .. N : G[i] \in T
    BY <2>1, <1>3
  <2> HIDE DEF S
  <2> QED
    BY <2>2, <2>3
<1>11a. \A i \in 1 .. N : G[i] = F[G[i - 1]]
  BY <1>3, <1>10, <1>11
<1>11b. IsWay(G, T, F, Entry(r), N)
  <2>1. G[0] = Entry(r)
    BY <1>3, <1>8 DEF Way
  <2>2. \A i \in 0 .. N : G[i] = IF i = 0 THEN Entry(r) ELSE F[G[i - 1]]
    BY <2>1, <1>11a, <1>3
  <2> QED
    BY <2>2, <1>11 DEF IsWay
<1> DEFINE dep == [v \in T |-> v.depth]
<1>12. Climbs(T, F, dep, N)
  <2>1. dep \in [T -> 0 .. N]
    BY <1>4
  <2>2. ASSUME NEW v \in T PROVE F[v] = v \/ dep[F[v]] > dep[v]
    BY <1>1, <1>5
  <2> HIDE DEF dep
  <2> QED
    BY <2>1, <2>2 DEF Climbs
<1> HIDE DEF dep
<1>14. F[G[N]] = G[N] /\ G[N] \in T
  BY <1>3, <1>5, <1>11b, <1>12, WayEnds
<1>15. G[N] \in T /\ insertTurn(h, key, G[N]) = G[N]
  BY <1>5, <1>14
<1> QED
  BY <1>1, <1>9, <1>15 DEF T

\* Inner.del ends at a place of the key from which it does not go on.
LEMMA DelWay ==
    ASSUME NEW h, HeapOK(h), NEW r, NEW A, NEW D \in Depths, NEW P \in Paths, NEW U,
           Radix(h, r, A, D, P, U), ~h[r].isLeaf, NEW key \in Keys
    PROVE  LET w == delWay(h, r, key)
               n == h[w.node]
               k == At(key, w.depth + Len(n.compressed))
           IN  /\ w \in Places(h, r, A, D, P, key)
               /\ ~ (/\ checkCompressed(n, key, w.depth)
                     /\ k \in DOMAIN n.kids /\ ~h[n.kids[k]].isLeaf)
<1>0. ASSUME NEW v \in Places(h, r, A, D, P, key)
      PROVE  /\ v.depth \in Nat /\ v.depth <= Len(key) /\ h[v.node].compressed \in Seq(Byte)
             /\ \A i \in 1 .. Len(h[v.node].compressed) : h[v.node].compressed[i] # 0
  <2>1. PlaceOK(h, r, A, D, P, key, v)
    BY PlaceFacts
  <2> QED
    BY <2>1 DEF PlaceOK
<1> DEFINE T == Places(h, r, A, D, P, key)
           N == Len(key)
           F == [v \in T |-> delTurn(h, key, v)]
           Way(f) == [i \in 0 .. N |-> IF i = 0 THEN Entry(r) ELSE delTurn(h, key, f[i - 1])]
           G == CHOOSE f : f = Way(f)
<1>1. ASSUME NEW v \in T
      PROVE  /\ delTurn(h, key, v) \in T
             /\ delTurn(h, key, v) = v \/ delTurn(h, key, v).depth > v.depth
             /\ delTurn(h, key, v) = v =>
                   LET n == h[v.node]
                       k == At(key, v.depth + Len(n.compressed))
                   IN  ~ (/\ checkCompressed(n, key, v.depth)
                          /\ k \in DOMAIN n.kids /\ ~h[n.kids[k]].isLeaf)
  <2> DEFINE n == h[v.node]
             fits == checkCompressed(n, key, v.depth)
  <2>1. /\ v.depth \in Nat /\ v.depth <= Len(key) /\ n.compressed \in Seq(Byte)
        /\ \A i \in 1 .. Len(n.compressed) : n.compressed[i] # 0
    BY <1>0
  <2>2. fits => \A i \in 1 .. Len(n.compressed) :
                   v.depth + i <= Len(key) => n.compressed[i] = key[v.depth + i]
    BY <2>1, FitsDel
  <2>3. delTurn(h, key, v) = Deeper(h, key, v, fits)
    BY DEF delTurn
  <2> HIDE DEF fits
  <2>4. /\ Deeper(h, key, v, fits) \in T
        /\ \/ Deeper(h, key, v, fits) = v
           \/ Deeper(h, key, v, fits).depth > v.depth
        /\ Deeper(h, key, v, fits) = v =>
              LET k == At(key, v.depth + Len(n.compressed))
              IN  ~(fits /\ k \in DOMAIN n.kids /\ ~h[n.kids[k]].isLeaf)
    BY <2>2, DeeperFacts
  <2> HIDE DEF T
  <2> QED
    BY <2>3, <2>4 DEF fits
<1>2. Entry(r) \in T
  <2>1. r \in A /\ D[r] = 0 /\ Len(key) \in Nat /\ 0 \in Byte
    BY KeyFacts, Constants DEF Radix, Byte
  <2> QED
    BY <2>1 DEF Entry, Places
<1>3. N \in Nat
  BY KeyFacts
<1>4. \A v \in T : v.depth \in 0 .. N
  BY <1>0, <1>3
<1> HIDE DEF T, N
<1>5. F \in [T -> T] /\ \A v \in T : F[v] = delTurn(h, key, v)
  BY <1>1
<1> HIDE DEF F
<1>6. PICK f : IsWay(f, T, F, Entry(r), N)
  BY <1>2, <1>3, <1>5, WayExists
<1>7. f = Way(f)
  <2>0. f \in [0 .. N -> T] /\ f = [i \in 0 .. N |-> IF i = 0 THEN Entry(r) ELSE F[f[i - 1]]]
    BY <1>6 DEF IsWay
  <2>1. ASSUME NEW i \in 0 .. N, i # 0 PROVE F[f[i - 1]] = delTurn(h, key, f[i - 1])
    <3>1. i - 1 \in 0 .. N
      BY <2>1, <1>3
    <3> QED
      BY <3>1, <1>5, <2>0
  <2> QED
    BY <2>0, <2>1
<1> HIDE DEF Way
<1>8. G = Way(G)
  BY <1>7
<1>9. delWay(h, r, key) = G[N]
  BY DEF delWay, Way, N
<1> HIDE DEF G
<1>10. \A i \in 1 .. N : G[i - 1] \in T => G[i] \in T /\ G[i] = F[G[i - 1]]
  BY <1>1, <1>5, <1>8, <1>3 DEF Way
<1>11. G \in [0 .. N -> T]
  <2> DEFINE S == {i \in Nat : i <= N /\ G[i] \notin T}
  <2>1. S = {}
    <3> SUFFICES ASSUME S # {} PROVE FALSE
      OBVIOUS
    <3> DEFINE m == Min(S)
    <3>1. m \in S /\ \A y \in S : m <= y
      BY MinOfNats
    <3> HIDE DEF m
    <3>2. G[0] \in T
      BY <1>2, <1>3, <1>8 DEF Way
    <3>3. m \in 1 .. N /\ m - 1 \in Nat /\ m - 1 <= N /\ m - 1 \notin S
      BY <3>1, <3>2, <1>3
    <3> QED
      BY <3>1, <3>3, <1>10
  <2>2. DOMAIN G = 0 .. N /\ G = [i \in 0 .. N |-> G[i]]
    BY <1>8 DEF Way
  <2>3. \A i \in 0 .. N : G[i] \in T
    BY <2>1, <1>3
  <2> HIDE DEF S
  <2> QED
    BY <2>2, <2>3
<1>11a. \A i \in 1 .. N : G[i] = F[G[i - 1]]
  BY <1>3, <1>10, <1>11
<1>11b. IsWay(G, T, F, Entry(r), N)
  <2>1. G[0] = Entry(r)
    BY <1>3, <1>8 DEF Way
  <2>2. \A i \in 0 .. N : G[i] = IF i = 0 THEN Entry(r) ELSE F[G[i - 1]]
    BY <2>1, <1>11a, <1>3
  <2> QED
    BY <2>2, <1>11 DEF IsWay
<1> DEFINE dep == [v \in T |-> v.depth]
<1>12. Climbs(T, F, dep, N)
  <2>1. dep \in [T -> 0 .. N]
    BY <1>4
  <2>2. ASSUME NEW v \in T PROVE F[v] = v \/ dep[F[v]] > dep[v]
    BY <1>1, <1>5
  <2> HIDE DEF dep
  <2> QED
    BY <2>1, <2>2 DEF Climbs
<1> HIDE DEF dep
<1>14. F[G[N]] = G[N] /\ G[N] \in T
  BY <1>3, <1>5, <1>11b, <1>12, WayEnds
<1>15. G[N] \in T /\ delTurn(h, key, G[N]) = G[N]
  BY <1>5, <1>14
<1> QED
  BY <1>1, <1>9, <1>15 DEF T

-----------------------------------------------------------------------------
(* Nodes *)

\* What InnerAt makes is an inner node with the given fields.
LEMMA NodeShape ==
    ASSUME NEW compressed, NEW kind, NEW S, NEW f, IsMap(f, S)
    PROVE  LET n == InnerAt(compressed, kind, f)
           IN  /\ Shape(n) /\ ~n.isLeaf /\ n.isLeaf \in BOOLEAN
               /\ n.compressed = compressed /\ n.kind = kind /\ n.kids = f
BY DEF Shape, InnerAt, IsMap

\* Children of changed nodes.
HasKid(f, kids, k, p) ==
    /\ IsMap(f, DOMAIN kids \cup {k})
    /\ DOMAIN f = DOMAIN kids \cup {k} /\ f[k] = p
    /\ \A b \in DOMAIN kids : b # k => f[b] = kids[b]

HasKidNot(f, kids, k) ==
    /\ IsMap(f, DOMAIN kids \ {k})
    /\ DOMAIN f = DOMAIN kids \ {k}
    /\ \A b \in DOMAIN kids : b # k => f[b] = kids[b]

\* addChild and replace: one byte is changed or added.
LEMMA WithKidFacts ==
    ASSUME NEW kids, NEW k, NEW p
    PROVE  HasKid(WithKid(kids, k, p), kids, k, p)
BY DEF WithKid, HasKid, IsMap

\* replace with nil: one byte is gone.
LEMMA WithoutKidFacts ==
    ASSUME NEW kids, NEW k
    PROVE  HasKidNot(WithoutKid(kids, k), kids, k)
BY DEF WithoutKid, HasKidNot, IsMap

\* The children of the node4 that Leaf.insert and the lazy expansion make.
LEMMA TwoKidsFacts ==
    ASSUME NEW k, NEW p, NEW l, NEW q, k # l, NEW f, f = TwoKids(k, p, l, q)
    PROVE  IsMap(f, {k, l}) /\ DOMAIN f = {k, l} /\ f[k] = p /\ f[l] = q
BY DEF TwoKids, IsMap

\* A set of bytes is finite, and all of Byte if it is that large.
LEMMA ByteSets ==
    ASSUME NEW S \in SUBSET Byte
    PROVE  /\ IsFiniteSet(S) /\ Cardinality(S) \in Nat /\ Cardinality(S) <= MaxByte + 1
           /\ Cardinality(S) = MaxByte + 1 => S = Byte
<1>1. IsFiniteSet(Byte) /\ Cardinality(Byte) = MaxByte + 1
  BY Constants, FS_Interval DEF Byte
<1>2. /\ IsFiniteSet(S) /\ Cardinality(S) <= Cardinality(Byte)
      /\ Cardinality(Byte) = Cardinality(S) => Byte = S
  BY <1>1, FS_Subset
<1> QED
  BY <1>1, <1>2, FS_CardinalityType

\* A new node4 has two children.
LEMMA SizedTwo ==
    ASSUME NEW k \in Byte, NEW l \in Byte, k # l, NEW n, n.kind = "n4", DOMAIN n.kids = {k, l}
    PROVE  Sized(n)
<1>1. Cardinality({k}) = 1 /\ IsFiniteSet({k})
  BY FS_Singleton
<1>2. Cardinality({k} \cup {l}) = 2
  BY <1>1, FS_AddElement
<1>3. Cardinality(DOMAIN n.kids) = 2
  BY <1>2
<1> QED
  BY <1>3, Constants DEF Sized, Lo, Hi

\* A node that takes a child more.
LEMMA SizedMore ==
    ASSUME NEW n, Sized(n), DOMAIN n.kids \subseteq Byte, NEW k \in Byte, k \notin DOMAIN n.kids,
           NEW m, DOMAIN m.kids = DOMAIN n.kids \cup {k},
           m.kind = IF full(n) THEN Bigger(n.kind) ELSE n.kind
    PROVE  Sized(m)
<1> DEFINE C == Cardinality(DOMAIN n.kids)
<1>1. IsFiniteSet(DOMAIN n.kids) /\ C \in Nat /\ C # MaxByte + 1 /\ C <= MaxByte + 1
  BY ByteSets
<1>2. Cardinality(DOMAIN m.kids) = C + 1
  BY <1>1, FS_AddElement
<1>3. /\ n.kind \in {"n4", "n16", "n48", "n256"} /\ Lo(n.kind) <= C /\ C <= Hi(n.kind)
  BY DEF Sized
<1>4. full(n) <=> C = Hi(n.kind)
  BY <1>3 DEF full, Hi
<1> HIDE DEF C
<1>5. CASE full(n)
  <2>1. m.kind = Bigger(n.kind) /\ C = Hi(n.kind)
    BY <1>5, <1>4
  <2> QED
    BY <2>1, <1>1, <1>2, <1>3, Constants DEF Sized, Lo, Hi, Bigger
<1>6. CASE ~full(n)
  <2>1. m.kind = n.kind /\ C # Hi(n.kind)
    BY <1>6, <1>4
  <2> QED
    BY <2>1, <1>1, <1>2, <1>3, Constants DEF Sized, Lo, Hi
<1> QED
  BY <1>5, <1>6

\* A node that loses a child and keeps two.
LEMMA SizedFewer ==
    ASSUME NEW n, Sized(n), DOMAIN n.kids \subseteq Byte, NEW k, k \in DOMAIN n.kids,
           ~(n.kind = "n4" /\ min(n)),
           NEW m, DOMAIN m.kids = DOMAIN n.kids \ {k},
           m.kind = IF min(n) THEN Smaller(n.kind) ELSE n.kind
    PROVE  Sized(m)
<1> DEFINE C == Cardinality(DOMAIN n.kids)
<1>1. IsFiniteSet(DOMAIN n.kids) /\ C \in Nat
  BY ByteSets
<1>2. Cardinality(DOMAIN m.kids) = C - 1
  BY <1>1, FS_RemoveElement
<1>3. /\ n.kind \in {"n4", "n16", "n48", "n256"} /\ Lo(n.kind) <= C /\ C <= Hi(n.kind)
  BY DEF Sized
<1>4. min(n) <=> C <= Lo(n.kind)
  BY <1>3 DEF min, Lo
<1> HIDE DEF C
<1>5. CASE min(n)
  <2>1. m.kind = Smaller(n.kind) /\ C <= Lo(n.kind) /\ n.kind # "n4"
    BY <1>5, <1>4
  <2> QED
    BY <2>1, <1>1, <1>2, <1>3, Constants DEF Sized, Lo, Hi, Smaller
<1>6. CASE ~min(n)
  <2>1. m.kind = n.kind /\ ~(C <= Lo(n.kind))
    BY <1>6, <1>4
  <2> QED
    BY <2>1, <1>1, <1>2, <1>3, Constants DEF Sized, Lo, Hi
<1> QED
  BY <1>5, <1>6

-----------------------------------------------------------------------------
(* Changes of a radix tree *)

\* The nodes below r are a radix tree.
Tree(h, r) ==
    \E A \in SUBSET Nat, D \in Depths, P \in Paths, U \in Depths : Radix(h, r, A, D, P, U)

\* The bytes of a key, as they lead to its leaf.
Bytes(key) == [i \in Nat |-> At(key, i)]

\* Byte for byte they are what Key.At answers.
LEMMA BytesFacts ==
    ASSUME NEW key \in Keys
    PROVE  Bytes(key) \in [Nat -> Byte] /\ \A i \in Nat : Bytes(key)[i] = At(key, i)
BY KeyFacts DEF Bytes

\* A link stays one as long as what leads to the child stays the same.
LEMMA LinkKept ==
    ASSUME NEW h, NEW g, NEW r, NEW s, NEW A, NEW B, NEW D, NEW E, NEW P, NEW Q, NEW U, NEW V,
           NEW q, NEW b, Linked(h, r, A, D, P, U, q, b),
           g[q].compressed = h[q].compressed, g[q].kids[b] = h[q].kids[b],
           h[q].kids[b] \in B, h[q].kids[b] # s,
           E[q] = D[q], Q[q] = P[q], D[q] \in Nat, h[q].compressed \in Seq(Byte),
           E[h[q].kids[b]] = D[h[q].kids[b]], V[h[q].kids[b]] = U[h[q].kids[b]],
           \A i \in 0 .. D[h[q].kids[b]] - 1 : Q[h[q].kids[b]][i] = P[h[q].kids[b]][i]
    PROVE  Linked(g, s, B, E, Q, V, q, b)
<1> DEFINE c == h[q].kids[b]
           e == D[q] + Len(h[q].compressed)
<1>1. /\ U[c] = q /\ D[c] = e + 1 /\ P[c][e] = b
      /\ \A i \in 0 .. e - 1 : P[c][i] = P[q][i]
  BY DEF Linked, LinkOK
<1>2. e \in Nat
  OBVIOUS
<1>3. e \in 0 .. D[c] - 1 /\ \A i \in 0 .. e - 1 : i \in 0 .. D[c] - 1
  BY <1>1, <1>2
<1>4. E[c] = e + 1 /\ Q[c][e] = b /\ \A i \in 0 .. e - 1 : Q[c][i] = Q[q][i]
  BY <1>1, <1>3
<1>5. g[q].kids[b] = c /\ E[q] + Len(g[q].compressed) = e /\ V[c] = q /\ c \in B /\ c # s
  BY <1>1
<1> HIDE DEF c, e
<1> QED
  BY <1>4, <1>5 DEF Linked, LinkOK

\* The child x takes the place for byte k at node p.  The nodes of C, to which
\* nothing else points, are detached.
HangOK(h, g, r, A, D, P, U, p, k, x, C, dx, px) ==
    /\ p \in A \ C /\ r \in A \ C /\ x \in DOMAIN g /\ x \notin C /\ p # x /\ r # x
    /\ A \subseteq DOMAIN g
    /\ \A q \in A \ C : q # p /\ q # x => g[q] = h[q]
    /\ ~h[p].isLeaf /\ ~g[p].isLeaf /\ Sized(g[p]) /\ g[p].compressed = h[p].compressed
    /\ DOMAIN g[p].kids \subseteq DOMAIN h[p].kids \cup {k} /\ g[p].kids[k] = x
    /\ \A b \in DOMAIN h[p].kids : b # k => g[p].kids[b] = h[p].kids[b]
    /\ \A q \in A \ C : q # x /\ ~h[q].isLeaf =>
          \A b \in DOMAIN h[q].kids : q # p \/ b # k => h[q].kids[b] \notin C \cup {x}
    /\ LinkOK(h[p], D[p], P[p], k, dx, px) /\ Fits(g[x], dx, px)
    /\ ~g[x].isLeaf =>
          \A b \in DOMAIN g[x].kids :
             LET c == g[x].kids[b]
             IN  c \in A \ C /\ c # r /\ c # x /\ U[c] = x
                 /\ LinkOK(g[x], dx, px, b, D[c], P[c])

\* What is left is a radix tree.  Insertions below a node, updates and collapses
\* below the root are of this form.
LEMMA Hang ==
    ASSUME NEW h, HeapOK(h), NEW g, IsSeq(g), NEW r, NEW A, NEW D \in Depths, NEW P \in Paths,
           NEW U \in Depths, Radix(h, r, A, D, P, U), NEW p, NEW k, NEW x, NEW C,
           NEW dx \in Nat, NEW px \in [Nat -> Byte],
           HangOK(h, g, r, A, D, P, U, p, k, x, C, dx, px)
    PROVE  Tree(g, r)
<1> DEFINE A2 == (A \ C) \cup {x}
           D2 == [D EXCEPT ![x] = dx]
           P2 == [P EXCEPT ![x] = px]
           U2 == [U EXCEPT ![x] = p]
<1>1. /\ p \in A /\ p \notin C /\ r \in A /\ r \notin C /\ x \in DOMAIN g /\ x \notin C
      /\ p # x /\ r # x /\ A \subseteq DOMAIN g
      /\ \A q \in A \ C : q # p /\ q # x => g[q] = h[q]
      /\ ~h[p].isLeaf /\ ~g[p].isLeaf /\ Sized(g[p]) /\ g[p].compressed = h[p].compressed
      /\ DOMAIN g[p].kids \subseteq DOMAIN h[p].kids \cup {k} /\ g[p].kids[k] = x
      /\ \A b \in DOMAIN h[p].kids : b # k => g[p].kids[b] = h[p].kids[b]
  BY DEF HangOK
<1>2. ASSUME NEW q \in A \ C, q # x, ~h[q].isLeaf, NEW b \in DOMAIN h[q].kids, q # p \/ b # k
      PROVE  h[q].kids[b] \notin C \cup {x}
  BY <1>2 DEF HangOK
<1>3. LinkOK(h[p], D[p], P[p], k, dx, px) /\ Fits(g[x], dx, px)
  BY DEF HangOK
<1>4. ASSUME ~g[x].isLeaf, NEW b \in DOMAIN g[x].kids
      PROVE  LET c == g[x].kids[b]
             IN  c \in A \ C /\ c # r /\ c # x /\ U[c] = x
                 /\ LinkOK(g[x], dx, px, b, D[c], P[c])
  BY <1>4 DEF HangOK
<1>5. /\ A \subseteq DOMAIN h /\ D[r] = 0
      /\ \A q \in A : Fits(h[q], D[q], P[q])
      /\ \A q \in A : ~h[q].isLeaf =>
            \A b \in DOMAIN h[q].kids : Linked(h, r, A, D, P, U, q, b)
  BY DEF Radix
<1>6. DOMAIN h = 1 .. Len(h) /\ DOMAIN g = 1 .. Len(g) /\ Len(h) \in Nat /\ Len(g) \in Nat
  BY SeqFacts DEF HeapOK
<1>7. x \in Nat /\ p \in Nat /\ A \subseteq Nat
  BY <1>1, <1>5, <1>6
<1>8. /\ D2 \in Depths /\ P2 \in Paths /\ U2 \in Depths
      /\ D2[x] = dx /\ P2[x] = px /\ U2[x] = p
      /\ \A q \in A : q # x => D2[q] = D[q] /\ P2[q] = P[q] /\ U2[q] = U[q]
  BY <1>7 DEF Depths, Paths
<1>9. \A q \in A : ~h[q].isLeaf => h[q].compressed \in Seq(Byte) /\ D[q] \in Nat
  <2> SUFFICES ASSUME NEW q \in A, ~h[q].isLeaf
               PROVE  h[q].compressed \in Seq(Byte) /\ D[q] \in Nat
    OBVIOUS
  <2>1. NodeOK(h, q)
    BY <1>5, <1>6 DEF HeapOK
  <2> QED
    BY <2>1, <1>7 DEF NodeOK, Depths
<1> HIDE DEF D2, P2, U2
<1>10. A2 \subseteq DOMAIN g /\ r \in A2 /\ D2[r] = 0
  BY <1>1, <1>5, <1>8
<1>11. ASSUME NEW q \in A2 PROVE Fits(g[q], D2[q], P2[q])
  <2>1. CASE q = x
    BY <2>1, <1>3, <1>8
  <2>2. CASE q = p
    <3>1. InnerOK(h[p], D[p], P[p])
      BY <1>1, <1>5 DEF Fits
    <3>2. InnerOK(g[p], D[p], P[p])
      BY <3>1, <1>1 DEF InnerOK
    <3> QED
      BY <2>2, <3>2, <1>1, <1>8 DEF Fits
  <2>3. CASE q # x /\ q # p
    BY <2>3, <1>1, <1>5, <1>8
  <2> QED
    BY <2>1, <2>2, <2>3
<1>12. ASSUME NEW q \in A2, ~g[q].isLeaf, NEW b \in DOMAIN g[q].kids
       PROVE  Linked(g, r, A2, D2, P2, U2, q, b)
  <2> DEFINE c == g[q].kids[b]
  <2>1. CASE q = x
    <3>1. c \in A \ C /\ c # r /\ c # x /\ U[c] = x /\ LinkOK(g[x], dx, px, b, D[c], P[c])
      BY <2>1, <1>4, <1>12
    <3>2. D2[c] = D[c] /\ P2[c] = P[c] /\ U2[c] = U[c]
      BY <3>1, <1>8
    <3> QED
      BY <3>1, <3>2, <2>1, <1>8 DEF Linked
  <2>2. CASE q = p /\ b = k
    <3>1. LinkOK(g[p], D[p], P[p], k, dx, px)
      BY <1>1, <1>3 DEF LinkOK
    <3> QED
      BY <3>1, <2>2, <1>1, <1>8 DEF Linked
  <2>3. CASE q # x /\ (q # p \/ b # k)
    <3>1. /\ q \in A \ C /\ ~h[q].isLeaf /\ b \in DOMAIN h[q].kids
          /\ g[q].kids[b] = h[q].kids[b] /\ g[q].compressed = h[q].compressed
      BY <2>3, <1>1, <1>12
    <3>2. h[q].kids[b] \notin C \cup {x}
      BY <3>1, <2>3, <1>2
    <3>3. Linked(h, r, A, D, P, U, q, b)
      BY <3>1, <1>5
    <3>4. h[q].kids[b] \in A /\ h[q].kids[b] # r
      BY <3>3 DEF Linked
    <3>5. /\ h[q].kids[b] \in A2 /\ D2[q] = D[q] /\ P2[q] = P[q]
          /\ D2[h[q].kids[b]] = D[h[q].kids[b]] /\ U2[h[q].kids[b]] = U[h[q].kids[b]]
          /\ P2[h[q].kids[b]] = P[h[q].kids[b]]
      BY <3>1, <3>2, <3>4, <2>3, <1>8
    <3>6. h[q].compressed \in Seq(Byte) /\ D[q] \in Nat
      BY <3>1, <1>9
    <3> HIDE DEF A2
    <3> QED
      BY <3>1, <3>3, <3>4, <3>5, <3>6, LinkKept
  <2> QED
    BY <2>1, <2>2, <2>3, <1>1
<1> HIDE DEF A2
<1>13. Radix(g, r, A2, D2, P2, U2) /\ A2 \in SUBSET Nat
  BY <1>6, <1>10, <1>11, <1>12 DEF Radix
<1> QED
  BY <1>8, <1>13 DEF Tree

\* The root makes way for its child x, and the nodes of C are detached.
RiseOK(h, g, A, D, P, U, x, C, px) ==
    /\ x \in A \ C /\ A \subseteq DOMAIN g
    /\ \A q \in A \ C : q # x => g[q] = h[q]
    /\ \A q \in A \ C : q # x /\ ~h[q].isLeaf =>
          \A b \in DOMAIN h[q].kids : h[q].kids[b] \notin C \cup {x}
    /\ Fits(g[x], 0, px)
    /\ ~g[x].isLeaf =>
          \A b \in DOMAIN g[x].kids :
             LET c == g[x].kids[b]
             IN  c \in A \ C /\ c # x /\ U[c] = x /\ LinkOK(g[x], 0, px, b, D[c], P[c])

\* What is left is a radix tree: a collapse at the root is of this form.
LEMMA Rise ==
    ASSUME NEW h, HeapOK(h), NEW g, IsSeq(g), NEW r, NEW A, NEW D \in Depths, NEW P \in Paths,
           NEW U \in Depths, Radix(h, r, A, D, P, U), NEW x, NEW C, NEW px \in [Nat -> Byte],
           RiseOK(h, g, A, D, P, U, x, C, px)
    PROVE  Tree(g, x)
<1> DEFINE A2 == A \ C
           D2 == [D EXCEPT ![x] = 0]
           P2 == [P EXCEPT ![x] = px]
<1>1. /\ x \in A \ C /\ A \subseteq DOMAIN g
      /\ \A q \in A \ C : q # x => g[q] = h[q]
      /\ Fits(g[x], 0, px)
  BY DEF RiseOK
<1>2. ASSUME NEW q \in A \ C, q # x, ~h[q].isLeaf, NEW b \in DOMAIN h[q].kids
      PROVE  h[q].kids[b] \notin C \cup {x}
  BY <1>2 DEF RiseOK
<1>4. ASSUME ~g[x].isLeaf, NEW b \in DOMAIN g[x].kids
      PROVE  LET c == g[x].kids[b]
             IN  c \in A \ C /\ c # x /\ U[c] = x /\ LinkOK(g[x], 0, px, b, D[c], P[c])
  BY <1>4 DEF RiseOK
<1>5. /\ A \subseteq DOMAIN h
      /\ \A q \in A : Fits(h[q], D[q], P[q])
      /\ \A q \in A : ~h[q].isLeaf =>
            \A b \in DOMAIN h[q].kids : Linked(h, r, A, D, P, U, q, b)
  BY DEF Radix
<1>6. DOMAIN h = 1 .. Len(h) /\ DOMAIN g = 1 .. Len(g) /\ Len(h) \in Nat /\ Len(g) \in Nat
  BY SeqFacts DEF HeapOK
<1>7. x \in Nat /\ A \subseteq Nat
  BY <1>1, <1>5, <1>6
<1>8. /\ D2 \in Depths /\ P2 \in Paths /\ D2[x] = 0 /\ P2[x] = px
      /\ \A q \in A : q # x => D2[q] = D[q] /\ P2[q] = P[q]
  BY <1>7 DEF Depths, Paths
<1>9. \A q \in A : ~h[q].isLeaf => h[q].compressed \in Seq(Byte) /\ D[q] \in Nat
  <2> SUFFICES ASSUME NEW q \in A, ~h[q].isLeaf
               PROVE  h[q].compressed \in Seq(Byte) /\ D[q] \in Nat
    OBVIOUS
  <2>1. NodeOK(h, q)
    BY <1>5, <1>6 DEF HeapOK
  <2> QED
    BY <2>1, <1>7 DEF NodeOK, Depths
<1> HIDE DEF D2, P2
<1>10. A2 \subseteq DOMAIN g /\ x \in A2 /\ D2[x] = 0
  BY <1>1, <1>8
<1>11. ASSUME NEW q \in A2 PROVE Fits(g[q], D2[q], P2[q])
  <2>1. CASE q = x
    BY <2>1, <1>1, <1>8
  <2>2. CASE q # x
    BY <2>2, <1>1, <1>5, <1>8
  <2> QED
    BY <2>1, <2>2
<1>12. ASSUME NEW q \in A2, ~g[q].isLeaf, NEW b \in DOMAIN g[q].kids
       PROVE  Linked(g, x, A2, D2, P2, U, q, b)
  <2> DEFINE c == g[q].kids[b]
  <2>1. CASE q = x
    <3>1. c \in A \ C /\ c # x /\ U[c] = x /\ LinkOK(g[x], 0, px, b, D[c], P[c])
      BY <2>1, <1>4, <1>12
    <3>2. D2[c] = D[c] /\ P2[c] = P[c]
      BY <3>1, <1>8
    <3> QED
      BY <3>1, <3>2, <2>1, <1>8 DEF Linked
  <2>3. CASE q # x
    <3>1. /\ q \in A \ C /\ ~h[q].isLeaf /\ b \in DOMAIN h[q].kids
          /\ g[q].kids[b] = h[q].kids[b] /\ g[q].compressed = h[q].compressed
      BY <2>3, <1>1, <1>12
    <3>2. h[q].kids[b] \notin C \cup {x}
      BY <3>1, <2>3, <1>2
    <3>3. Linked(h, r, A, D, P, U, q, b)
      BY <3>1, <1>5
    <3>4. h[q].kids[b] \in A /\ h[q].kids[b] # x
      BY <3>2, <3>3 DEF Linked
    <3>5. /\ h[q].kids[b] \in A2 /\ D2[q] = D[q] /\ P2[q] = P[q]
          /\ D2[h[q].kids[b]] = D[h[q].kids[b]]
          /\ P2[h[q].kids[b]] = P[h[q].kids[b]]
      BY <3>1, <3>2, <3>4, <2>3, <1>8
    <3>6. h[q].compressed \in Seq(Byte) /\ D[q] \in Nat
      BY <3>1, <1>9
    <3> HIDE DEF A2
    <3> QED
      BY <3>1, <3>3, <3>4, <3>5, <3>6, LinkKept
  <2> QED
    BY <2>1, <2>3
<1>13. A2 \in SUBSET Nat
  BY <1>7
<1> HIDE DEF A2
<1>14. Radix(g, x, A2, D2, P2, U)
  BY <1>10, <1>11, <1>12 DEF Radix
<1> QED
  BY <1>8, <1>13, <1>14 DEF Tree

\* The node p turns into one with two new children, at bytes k and l.  The second
\* may take over its former children.
ForkOK(h, g, A, D, P, p, k, l, x, y, dx, pp, px, py) ==
    /\ p \in A /\ x \in DOMAIN g \ A /\ y \in DOMAIN g \ A /\ x # y /\ A \subseteq DOMAIN g
    /\ \A q \in A : q # p => g[q] = h[q]
    /\ ~g[p].isLeaf /\ DOMAIN g[p].kids = {k, l} /\ g[p].kids[k] = x /\ g[p].kids[l] = y
    /\ InnerOK(g[p], D[p], pp)
    /\ \A i \in 0 .. D[p] - 1 : pp[i] = P[p][i]
    /\ LinkOK(g[p], D[p], pp, k, dx, px) /\ LinkOK(g[p], D[p], pp, l, dx, py)
    /\ g[x].isLeaf /\ Fits(g[x], dx, px) /\ Fits(g[y], dx, py)
    /\ ~g[y].isLeaf =>
          /\ ~h[p].isLeaf /\ DOMAIN g[y].kids = DOMAIN h[p].kids
          /\ \A b \in DOMAIN g[y].kids :
                LET c == h[p].kids[b]
                IN  g[y].kids[b] = c /\ c # p /\ LinkOK(g[y], dx, py, b, D[c], P[c])

\* What results is a radix tree.  A leaf that is split and the lazy expansion of
\* an inner node are of this form.
LEMMA Fork ==
    ASSUME NEW h, HeapOK(h), NEW g, IsSeq(g), NEW r, NEW A, NEW D \in Depths, NEW P \in Paths,
           NEW U \in Depths, Radix(h, r, A, D, P, U), NEW p, NEW k, NEW l, NEW x, NEW y,
           NEW dx \in Nat, NEW pp \in [Nat -> Byte], NEW px \in [Nat -> Byte],
           NEW py \in [Nat -> Byte],
           ForkOK(h, g, A, D, P, p, k, l, x, y, dx, pp, px, py)
    PROVE  Tree(g, r)
<1> DEFINE A2 == A \cup {x, y}
           D2 == [D EXCEPT ![x] = dx, ![y] = dx]
           P2 == [P EXCEPT ![p] = pp, ![x] = px, ![y] = py]
           U2 == [c \in Nat |-> IF c \in {x, y} THEN p ELSE IF U[c] = p THEN y ELSE U[c]]
<1>1. /\ p \in A /\ x \in DOMAIN g \ A /\ y \in DOMAIN g \ A /\ x # y /\ A \subseteq DOMAIN g
      /\ \A q \in A : q # p => g[q] = h[q]
      /\ ~g[p].isLeaf /\ DOMAIN g[p].kids = {k, l} /\ g[p].kids[k] = x /\ g[p].kids[l] = y
      /\ InnerOK(g[p], D[p], pp)
      /\ \A i \in 0 .. D[p] - 1 : pp[i] = P[p][i]
      /\ LinkOK(g[p], D[p], pp, k, dx, px) /\ LinkOK(g[p], D[p], pp, l, dx, py)
      /\ g[x].isLeaf /\ Fits(g[x], dx, px) /\ Fits(g[y], dx, py)
  BY DEF ForkOK
<1>4. ASSUME ~g[y].isLeaf, NEW b \in DOMAIN g[y].kids
      PROVE  /\ ~h[p].isLeaf /\ b \in DOMAIN h[p].kids
             /\ LET c == h[p].kids[b]
                IN  g[y].kids[b] = c /\ c # p /\ LinkOK(g[y], dx, py, b, D[c], P[c])
  BY <1>4 DEF ForkOK
<1>5. /\ A \subseteq DOMAIN h /\ r \in A /\ D[r] = 0
      /\ \A q \in A : Fits(h[q], D[q], P[q])
      /\ \A q \in A : ~h[q].isLeaf =>
            \A b \in DOMAIN h[q].kids : Linked(h, r, A, D, P, U, q, b)
  BY DEF Radix
<1>6. DOMAIN h = 1 .. Len(h) /\ DOMAIN g = 1 .. Len(g) /\ Len(h) \in Nat /\ Len(g) \in Nat
  BY SeqFacts DEF HeapOK
<1>7. x \in Nat /\ y \in Nat /\ p \in Nat /\ A \subseteq Nat /\ p # x /\ p # y /\ r # x /\ r # y
  BY <1>1, <1>5, <1>6
<1>8. /\ D2 \in Depths /\ P2 \in Paths /\ U2 \in Depths
      /\ D2[x] = dx /\ D2[y] = dx /\ P2[p] = pp /\ P2[x] = px /\ P2[y] = py
      /\ U2[x] = p /\ U2[y] = p
      /\ \A q \in A : D2[q] = D[q]
      /\ \A q \in A : q # p => P2[q] = P[q]
      /\ \A q \in A : U[q] # p => U2[q] = U[q]
      /\ \A q \in A : U[q] = p => U2[q] = y
  <2>1. D2 \in Depths /\ D2[x] = dx /\ D2[y] = dx /\ \A q \in A : D2[q] = D[q]
    BY <1>1, <1>7 DEF Depths
  <2>2. P2 \in Paths /\ P2[p] = pp /\ P2[x] = px /\ P2[y] = py
        /\ \A q \in A : q # p => P2[q] = P[q]
    BY <1>1, <1>7 DEF Paths
  <2>3. /\ U2 \in Depths
        /\ \A c \in Nat :
              U2[c] = IF c \in {x, y} THEN p ELSE IF U[c] = p THEN y ELSE U[c]
    BY <1>7 DEF Depths
  <2> HIDE DEF D2, P2, U2
  <2> QED
    BY <2>1, <2>2, <2>3, <1>1, <1>7
<1>9. \A q \in A : ~h[q].isLeaf => h[q].compressed \in Seq(Byte) /\ D[q] \in Nat
  <2> SUFFICES ASSUME NEW q \in A, ~h[q].isLeaf
               PROVE  h[q].compressed \in Seq(Byte) /\ D[q] \in Nat
    OBVIOUS
  <2>1. NodeOK(h, q)
    BY <1>5, <1>6 DEF HeapOK
  <2> QED
    BY <2>1, <1>7 DEF NodeOK, Depths
<1> HIDE DEF D2, P2, U2
<1>10. A2 \subseteq DOMAIN g /\ r \in A2 /\ D2[r] = 0
  BY <1>1, <1>5, <1>8
<1>11. ASSUME NEW q \in A2 PROVE Fits(g[q], D2[q], P2[q])
  <2>1. CASE q = x
    BY <2>1, <1>1, <1>8
  <2>2. CASE q = y
    BY <2>2, <1>1, <1>8
  <2>3. CASE q = p
    BY <2>3, <1>1, <1>8 DEF Fits
  <2>4. CASE q \in A /\ q # p
    BY <2>4, <1>1, <1>5, <1>8
  <2> QED
    BY <2>1, <2>2, <2>3, <2>4
<1>12. ASSUME NEW q \in A2, ~g[q].isLeaf, NEW b \in DOMAIN g[q].kids
       PROVE  Linked(g, r, A2, D2, P2, U2, q, b)
  <2>1. CASE q = p /\ b = k
    <3>1. g[p].kids[k] = x /\ x \in A2 /\ D2[p] = D[p]
      BY <1>1, <1>8
    <3> QED
      BY <3>1, <2>1, <1>1, <1>7, <1>8 DEF Linked
  <2>2. CASE q = p /\ b = l
    <3>1. g[p].kids[l] = y /\ y \in A2 /\ D2[p] = D[p]
      BY <1>1, <1>8
    <3> QED
      BY <3>1, <2>2, <1>1, <1>7, <1>8 DEF Linked
  <2>3. CASE q = y
    <3> DEFINE c == h[p].kids[b]
    <3>1. /\ ~h[p].isLeaf /\ b \in DOMAIN h[p].kids /\ g[y].kids[b] = c /\ c # p
          /\ LinkOK(g[y], dx, py, b, D[c], P[c])
      BY <2>3, <1>4, <1>12
    <3>2. Linked(h, r, A, D, P, U, p, b)
      BY <3>1, <1>1, <1>5
    <3>3. c \in A /\ c # r /\ U[c] = p
      BY <3>2 DEF Linked
    <3>4. c \in A2 /\ D2[c] = D[c] /\ P2[c] = P[c] /\ U2[c] = y
      BY <3>1, <3>3, <1>8
    <3> HIDE DEF c
    <3> QED
      BY <3>1, <3>3, <3>4, <2>3, <1>8 DEF Linked
  <2>4. CASE q \in A /\ q # p
    <3> DEFINE c == h[q].kids[b]
    <3>1. /\ ~h[q].isLeaf /\ b \in DOMAIN h[q].kids
          /\ g[q].kids[b] = c /\ g[q].compressed = h[q].compressed
      BY <2>4, <1>1, <1>12
    <3>2. Linked(h, r, A, D, P, U, q, b)
      BY <3>1, <2>4, <1>5
    <3>3. c \in A /\ c # r /\ U[c] = q
      BY <3>2 DEF Linked
    <3>4. c \in A2 /\ D2[q] = D[q] /\ P2[q] = P[q] /\ D2[c] = D[c] /\ U2[c] = U[c]
      BY <3>3, <2>4, <1>8
    <3>5. h[q].compressed \in Seq(Byte) /\ D[q] \in Nat
      BY <3>1, <2>4, <1>9
    <3>6. \A i \in 0 .. D[c] - 1 : P2[c][i] = P[c][i]
      BY <3>3, <1>1, <1>8
    <3> HIDE DEF A2
    <3> QED
      BY <3>1, <3>2, <3>3, <3>4, <3>5, <3>6, LinkKept
  <2> QED
    BY <2>1, <2>2, <2>3, <2>4, <1>1, <1>12
<1>13. A2 \in SUBSET Nat
  BY <1>7
<1> HIDE DEF A2
<1>14. Radix(g, r, A2, D2, P2, U2)
  BY <1>10, <1>11, <1>12 DEF Radix
<1> QED
  BY <1>8, <1>13, <1>14 DEF Tree

\* The node p loses children.
LEMMA Drop ==
    ASSUME NEW h, NEW g, IsSeq(g), Len(g) = Len(h), HeapOK(h),
           NEW r, NEW A, NEW D \in Depths, NEW P \in Paths,
           NEW U \in Depths, Radix(h, r, A, D, P, U), NEW p \in A,
           ~h[p].isLeaf, ~g[p].isLeaf, Sized(g[p]), g[p].compressed = h[p].compressed,
           DOMAIN g[p].kids \subseteq DOMAIN h[p].kids,
           \A b \in DOMAIN g[p].kids : g[p].kids[b] = h[p].kids[b],
           \A q \in A : q # p => g[q] = h[q]
    PROVE  Tree(g, r)
<1>1. /\ A \subseteq DOMAIN h /\ r \in A /\ D[r] = 0
      /\ \A q \in A : Fits(h[q], D[q], P[q])
      /\ \A q \in A : ~h[q].isLeaf =>
            \A b \in DOMAIN h[q].kids : Linked(h, r, A, D, P, U, q, b)
  BY DEF Radix
<1>2. DOMAIN h = 1 .. Len(h) /\ DOMAIN g = 1 .. Len(h) /\ Len(h) \in Nat
  BY SeqFacts DEF HeapOK
<1>3. InnerOK(g[p], D[p], P[p])
  <2>1. InnerOK(h[p], D[p], P[p])
    BY <1>1 DEF Fits
  <2> QED
    BY <2>1 DEF InnerOK
<1>4. ASSUME NEW q \in A PROVE Fits(g[q], D[q], P[q])
  BY <1>1, <1>3 DEF Fits
<1>5. ASSUME NEW q \in A, ~g[q].isLeaf, NEW b \in DOMAIN g[q].kids
      PROVE  Linked(g, r, A, D, P, U, q, b)
  <2>1. /\ ~h[q].isLeaf /\ b \in DOMAIN h[q].kids /\ g[q].kids[b] = h[q].kids[b]
        /\ g[q].compressed = h[q].compressed
    BY <1>5
  <2>2. Linked(h, r, A, D, P, U, q, b)
    BY <2>1, <1>1
  <2> QED
    BY <2>1, <2>2 DEF Linked, LinkOK
<1>6. Radix(g, r, A, D, P, U)
  BY <1>1, <1>2, <1>4, <1>5 DEF Radix
<1>7. A \in SUBSET Nat
  BY <1>1, <1>2
<1> QED
  BY <1>6, <1>7 DEF Tree

\* A tree that is a leaf.
LEMMA LeafTree ==
    ASSUME NEW h, HeapOK(h), NEW q \in 1 .. Len(h), h[q].isLeaf
    PROVE  Tree(h, q)
<1> DEFINE D == [i \in Nat |-> 0]
           P == [i \in Nat |-> [j \in Nat |-> 0]]
<1>1. DOMAIN h = 1 .. Len(h) /\ Len(h) \in Nat
  BY SeqFacts DEF HeapOK
<1>2. h[q].key \in Keys
  <2>1. NodeOK(h, q)
    BY DEF HeapOK
  <2> QED
    BY <2>1 DEF NodeOK, Leaves
<1>3. Len(h[q].key) \in Nat
  BY <1>2, KeyFacts
<1>4. D \in Depths /\ P \in Paths /\ D[q] = 0
  BY <1>1, Constants DEF Depths, Paths, Byte
<1> HIDE DEF D, P
<1>5. Fits(h[q], D[q], P[q])
  BY <1>3, <1>4 DEF Fits, LeafOK
<1>6. {q} \subseteq DOMAIN h /\ {q} \in SUBSET Nat
  BY <1>1
<1>7. Radix(h, q, {q}, D, P, D)
  BY <1>4, <1>5, <1>6 DEF Radix
<1> QED
  BY <1>4, <1>6, <1>7 DEF Tree

\* A node that does not change.
LEMMA NodeKept ==
    ASSUME NEW h, NEW g, NEW q, NodeOK(h, q), g[q] = h[q], Len(h) \in Nat, Len(g) \in Nat,
           Len(h) <= Len(g)
    PROVE  NodeOK(g, q)
BY DEF NodeOK

\* A new leaf.
LEMMA NewLeaf ==
    ASSUME NEW lf, lf.key \in Keys, lf.value \in Values \cup {Nil}
    PROVE  /\ LeafAt(lf).isLeaf /\ LeafAt(lf).key = lf.key /\ LeafAt(lf).value = lf.value
           /\ LeafAt(lf) \in Leaves /\ LeafAt(lf).isLeaf \in BOOLEAN
BY DEF LeafAt, Leaves

-----------------------------------------------------------------------------
(* Insertion *)

\* A key is known by its bytes up to and with the zero after its end.
LEMMA SameBytes ==
    ASSUME NEW k1 \in Keys, NEW k2 \in Keys,
           \A i \in 0 .. Len(k1) : At(k1, i) = At(k2, i)
    PROVE  k1 = k2
<1>1. /\ k1 \in Seq(Byte) /\ Len(k1) \in Nat
      /\ \A i \in Nat : i < Len(k1) => At(k1, i) = k1[i + 1] /\ At(k1, i) # 0
      /\ \A i \in Nat : i >= Len(k1) => At(k1, i) = 0
  BY KeyFacts
<1>2. /\ k2 \in Seq(Byte) /\ Len(k2) \in Nat
      /\ \A i \in Nat : i < Len(k2) => At(k2, i) = k2[i + 1] /\ At(k2, i) # 0
      /\ \A i \in Nat : i >= Len(k2) => At(k2, i) = 0
  BY KeyFacts
<1>3. Len(k2) <= Len(k1)
  <2>1. At(k2, Len(k1)) = 0
    BY <1>1
  <2> QED
    BY <2>1, <1>1, <1>2
<1>4. Len(k2) >= Len(k1)
  <2> SUFFICES ASSUME Len(k2) < Len(k1) PROVE FALSE
    BY <1>1, <1>2
  <2>1. At(k1, Len(k2)) # 0 /\ Len(k2) \in 0 .. Len(k1) /\ At(k2, Len(k2)) = 0
    BY <1>1, <1>2
  <2> QED
    BY <2>1
<1>5. Len(k1) = Len(k2)
  BY <1>1, <1>2, <1>3, <1>4
<1>6. ASSUME NEW i \in 1 .. Len(k1) PROVE k1[i] = k2[i]
  <2>1. i - 1 \in Nat /\ i - 1 < Len(k1) /\ i - 1 \in 0 .. Len(k1) /\ (i - 1) + 1 = i
    BY <1>1
  <2>2. At(k1, i - 1) = k1[i] /\ At(k2, i - 1) = k2[i]
    BY <2>1, <1>1, <1>2, <1>5
  <2> QED
    BY <2>1, <2>2
<1> QED
  BY <1>1, <1>2, <1>5, <1>6, SameSeq

\* Where the key of a leaf and another key that leads to it part.
LEMMA PartFacts ==
    ASSUME NEW k1 \in Keys, NEW k2 \in Keys, k1 # k2, NEW d \in Nat, d <= Len(k1) + 1,
           \A i \in 0 .. d - 1 : At(k1, i) = At(k2, i)
    PROVE  LET at == d + comparePrefix(k1, k2, d)
           IN  /\ at \in Nat /\ d <= at /\ at <= Len(k1) /\ at <= Len(k2)
               /\ \A i \in 0 .. at - 1 : At(k1, i) = At(k2, i)
               /\ At(k1, at) # At(k2, at)
<1>1. /\ k1 \in Seq(Byte) /\ Len(k1) \in Nat
      /\ \A i \in Nat : i < Len(k1) => At(k1, i) = k1[i + 1] /\ At(k1, i) # 0
  BY KeyFacts
<1>2. /\ k2 \in Seq(Byte) /\ Len(k2) \in Nat
      /\ \A i \in Nat : i < Len(k2) => At(k2, i) = k2[i + 1] /\ At(k2, i) # 0
  BY KeyFacts
<1>3. d <= Len(k1)
  <2> SUFFICES ASSUME d > Len(k1) PROVE FALSE
    BY <1>1
  <2>1. d - 1 = Len(k1)
    BY <1>1
  <2> QED
    BY <2>1, SameBytes
<1>4. d <= Len(k2)
  <2> SUFFICES ASSUME d > Len(k2) PROVE FALSE
    BY <1>2
  <2>1. \A i \in 0 .. Len(k2) : i \in 0 .. d - 1
    BY <1>2
  <2>2. \A i \in 0 .. Len(k2) : At(k2, i) = At(k1, i)
    BY <2>1
  <2> QED
    BY <2>2, SameBytes
<1> DEFINE f1 == From(k1, d)
           f2 == From(k2, d)
           m  == Shared(f1, f2)
           at == d + m
<1>5. f1 \in Seq(Byte) /\ Len(f1) = Len(k1) - d
      /\ \A i \in 1 .. Len(k1) - d : f1[i] = k1[d + i]
  BY <1>1, <1>3, FromFacts
<1>6. f2 \in Seq(Byte) /\ Len(f2) = Len(k2) - d
      /\ \A i \in 1 .. Len(k2) - d : f2[i] = k2[d + i]
  BY <1>2, <1>4, FromFacts
<1>7. comparePrefix(k1, k2, d) = m
  BY DEF comparePrefix
<1> HIDE DEF f1, f2
<1>8. /\ m \in Nat /\ m <= Len(f1) /\ m <= Len(f2)
      /\ \A i \in 1 .. m : f1[i] = f2[i]
      /\ m < Len(f1) /\ m < Len(f2) => f1[m + 1] # f2[m + 1]
  BY <1>5, <1>6, SharedFacts
<1> HIDE DEF m
<1>9. at \in Nat /\ d <= at /\ at <= Len(k1) /\ at <= Len(k2)
  BY <1>1, <1>2, <1>5, <1>6, <1>8
<1>10. ASSUME NEW i \in 0 .. at - 1 PROVE At(k1, i) = At(k2, i)
  <2>1. CASE i < d
    BY <2>1
  <2>2. CASE i >= d
    <3> DEFINE j == i - d + 1
    <3>1. /\ j \in 1 .. m /\ j \in 1 .. Len(k1) - d /\ j \in 1 .. Len(k2) - d
          /\ d + j = i + 1 /\ i \in Nat /\ i < Len(k1) /\ i < Len(k2)
      BY <2>2, <1>1, <1>2, <1>5, <1>6, <1>8, <1>9
    <3> HIDE DEF j
    <3>2. f1[j] = k1[i + 1] /\ f2[j] = k2[i + 1]
      BY <3>1, <1>5, <1>6
    <3> QED
      BY <3>1, <3>2, <1>1, <1>2, <1>8
  <2> QED
    BY <2>1, <2>2, <1>9
<1>11. At(k1, at) # At(k2, at)
  <2> SUFFICES ASSUME At(k1, at) = At(k2, at) PROVE FALSE
    OBVIOUS
  <2>1. ASSUME NEW i \in 0 .. at PROVE At(k1, i) = At(k2, i)
    <3>1. i = at \/ i \in 0 .. at - 1
      BY <1>9
    <3> QED
      BY <3>1, <1>10
  <2> HIDE DEF at
  <2>2. at # Len(k1)
    BY <2>1, SameBytes
  <2>3. at # Len(k2)
    <3> SUFFICES ASSUME at = Len(k2) PROVE FALSE
      OBVIOUS
    <3>1. \A i \in 0 .. Len(k2) : At(k2, i) = At(k1, i)
      BY <2>1
    <3> QED
      BY <3>1, SameBytes
  <2>4. at < Len(k1) /\ at < Len(k2)
    BY <2>2, <2>3, <1>1, <1>2, <1>9
  <2>5. m + 1 \in 1 .. Len(k1) - d /\ m + 1 \in 1 .. Len(k2) - d /\ d + (m + 1) = at + 1
    BY <2>4, <1>1, <1>2, <1>8 DEF at
  <2>6. f1[m + 1] = At(k1, at) /\ f2[m + 1] = At(k2, at)
    <3>1. \A i \in 1 .. Len(k1) - d : d + i = at + 1 => f1[i] = k1[at + 1]
      BY <1>5
    <3>1a. \A i \in 1 .. Len(k2) - d : d + i = at + 1 => f2[i] = k2[at + 1]
      BY <1>6
    <3>1b. f1[m + 1] = k1[at + 1] /\ f2[m + 1] = k2[at + 1]
      BY <3>1, <3>1a, <2>5, Zenon
    <3>2. At(k1, at) = k1[at + 1] /\ At(k2, at) = k2[at + 1]
      BY <2>4, <1>1, <1>2, <1>9
    <3> QED
      BY <3>1b, <3>2
  <2> QED
    BY <2>5, <2>6, <1>5, <1>6, <1>8
<1> QED
  BY <1>7, <1>9, <1>10, <1>11

\* A part of a key.
LEMMA PartOfKey ==
    ASSUME NEW s \in Seq(Byte), NEW d \in Nat, NEW e \in Nat, d <= e, e <= Len(s)
    PROVE  /\ SubSeq(s, d + 1, e) \in Seq(Byte) /\ Len(SubSeq(s, d + 1, e)) = e - d
           /\ \A i \in 1 .. e - d : SubSeq(s, d + 1, e)[i] = s[d + i]
<1>1. Len(s) \in Nat
  OBVIOUS
<1>2. \A i \in d + 1 .. e : s[i] \in Byte
  BY <1>1
<1>3. SubSeq(s, d + 1, e) \in Seq(Byte)
  BY <1>1, <1>2
<1>4. Len(SubSeq(s, d + 1, e)) = e - d
  BY <1>1
<1>5. \A i \in 1 .. e - d : SubSeq(s, d + 1, e)[i] = s[d + i]
  BY <1>1
<1> QED
  BY <1>3, <1>4, <1>5

\* Nodes are added, and no inner node turns into a leaf.
Grown(h, g) ==
    /\ Len(h) <= Len(g)
    /\ \A q \in 1 .. Len(h) : ~h[q].isLeaf => ~g[q].isLeaf

\* What an operation makes of the heap h and the tree in it.
Good(h, g, r) == HeapOK(g) /\ Tree(g, r) /\ Grown(h, g)

\* The nodes a node points to.
Kids(n) == IF n.isLeaf THEN {} ELSE {n.kids[b] : b \in DOMAIN n.kids}

\* The heap g after the node p has two new ones below, x the leaf l and y what p was.
ForkIs(h, g, A, p, x, y, l) ==
    /\ x \notin A /\ y \notin A /\ x # y
    /\ ~g[p].isLeaf /\ Kids(g[p]) = {x, y}
    /\ g[x] = l /\ l.isLeaf /\ g[y].isLeaf = h[p].isLeaf /\ (h[p].isLeaf => g[y] = h[p])
    /\ Kids(g[y]) = Kids(h[p])
    /\ \A q \in A : q # p => g[q] = h[q]

\* After the new leaf l has come to x, for byte k of node p.
HangIs(h, g, A, p, k, x, l) ==
    /\ x \notin A /\ g[x] = l /\ l.isLeaf /\ ~g[p].isLeaf
    /\ DOMAIN g[p].kids = DOMAIN h[p].kids \cup {k} /\ g[p].kids[k] = x
    /\ \A b \in DOMAIN h[p].kids : b # k => g[p].kids[b] = h[p].kids[b]
    /\ \A q \in A : q # p => g[q] = h[q]

\* After node p has lost the child for byte k.
DropIs(h, g, A, p, k) ==
    /\ ~g[p].isLeaf /\ DOMAIN g[p].kids = DOMAIN h[p].kids \ {k}
    /\ \A b \in DOMAIN g[p].kids : g[p].kids[b] = h[p].kids[b]
    /\ \A q \in A : q # p => g[q] = h[q]

\* After node x has come wherever p was.
LiftIs(h, g, A, p, x) ==
    \A q \in A \ {p} :
        /\ g[q].isLeaf = h[q].isLeaf /\ (h[q].isLeaf => g[q] = h[q])
        /\ Kids(g[q]) = {IF c = p THEN x ELSE c : c \in Kids(h[q])}

\* Leaf.insert of another key turns the leaf into an inner node.
LEMMA LeafFork ==
    ASSUME NEW h, HeapOK(h), NEW r, NEW A, NEW D \in Depths, NEW P \in Paths,
           NEW U \in Depths, Radix(h, r, A, D, P, U), NEW p \in A, h[p].isLeaf,
           NEW lf, lf.key \in Keys, lf.value \in Values \cup {Nil}, h[p].key # lf.key,
           NEW d, d = D[p], \A i \in 0 .. d - 1 : P[p][i] = At(lf.key, i)
    PROVE  /\ Good(h, leafInsertAt(h, p, lf, d).heap, r) /\ leafInsertAt(h, p, lf, d).self = p
           /\ \A q \in 1 .. Len(h) : q # p => leafInsertAt(h, p, lf, d).heap[q] = h[q]
           /\ ForkIs(h, leafInsertAt(h, p, lf, d).heap, A, p, Len(h) + 1, Len(h) + 2, LeafAt(lf))
<1> DEFINE old == h[p]
           at  == d + comparePrefix(old.key, lf.key, d)
           k   == At(lf.key, at)
           l   == At(old.key, at)
           c   == SubSeq(old.key, d + 1, at)
           x   == Len(h) + 1
           y   == Len(h) + 2
           f   == TwoKids(k, x, l, y)
           two == InnerAt(c, "n4", f)
           g   == Append(Append([h EXCEPT ![p] = two], LeafAt(lf)), LeafAt(old))
<1>1. leafInsertAt(h, p, lf, d) = [heap |-> g, self |-> p]
  BY DEF leafInsertAt
<1>2. leafInsertAt(h, p, lf, d).heap = g /\ leafInsertAt(h, p, lf, d).self = p
  BY <1>1
<1>3. Len(h) \in Nat /\ DOMAIN h = 1 .. Len(h) /\ A \subseteq 1 .. Len(h) /\ p \in 1 .. Len(h)
  BY SeqFacts DEF HeapOK, Radix
<1>4. old \in Leaves
  <2>1. NodeOK(h, p)
    BY <1>3 DEF HeapOK
  <2> QED
    BY <2>1 DEF NodeOK
<1>5. old.key \in Keys /\ old.value \in Values \cup {Nil}
  BY <1>4 DEF Leaves
<1>6. LeafOK(old, d, P[p])
  BY DEF Radix, Fits
<1>7. d \in Nat /\ d <= Len(old.key) + 1 /\ \A i \in 0 .. d - 1 : P[p][i] = At(old.key, i)
  BY <1>3, <1>6 DEF LeafOK, Depths
<1>8. \A i \in 0 .. d - 1 : At(old.key, i) = At(lf.key, i)
  BY <1>7
<1>9. /\ at \in Nat /\ d <= at /\ at <= Len(old.key) /\ at <= Len(lf.key)
      /\ \A i \in 0 .. at - 1 : At(old.key, i) = At(lf.key, i)
      /\ At(old.key, at) # At(lf.key, at)
  BY <1>5, <1>7, <1>8, PartFacts
<1> HIDE DEF at, g
<1>10. /\ old.key \in Seq(Byte) /\ Len(old.key) \in Nat
       /\ \A i \in Nat : At(old.key, i) \in Byte
       /\ \A i \in Nat : i < Len(old.key) => At(old.key, i) = old.key[i + 1] /\ At(old.key, i) # 0
  BY <1>5, KeyFacts
<1>11. /\ Len(lf.key) \in Nat /\ \A i \in Nat : At(lf.key, i) \in Byte
  BY KeyFacts
<1>12. k \in Byte /\ l \in Byte /\ k # l
  BY <1>9, <1>10, <1>11
<1>13. c \in Seq(Byte) /\ Len(c) = at - d /\ \A i \in 1 .. at - d : c[i] = old.key[d + i]
  BY <1>7, <1>9, <1>10, PartOfKey, ZenonT(60)
<1> HIDE DEF c, k, l
<1>14a. f = TwoKids(k, x, l, y)
  OBVIOUS
<1> HIDE DEF f
<1>14. IsMap(f, {k, l}) /\ DOMAIN f = {k, l} /\ f[k] = x /\ f[l] = y
  BY <1>12, <1>14a, TwoKidsFacts
<1>15. /\ Shape(two) /\ ~two.isLeaf /\ two.isLeaf \in BOOLEAN
       /\ two.compressed = c /\ two.kind = "n4" /\ two.kids = f
  BY <1>14, NodeShape
<1> HIDE DEF two
<1>16. /\ LeafAt(lf).isLeaf /\ LeafAt(lf).key = lf.key /\ LeafAt(lf) \in Leaves
       /\ LeafAt(lf).isLeaf \in BOOLEAN
  BY NewLeaf
<1>17. /\ LeafAt(old).isLeaf /\ LeafAt(old).key = old.key /\ LeafAt(old) \in Leaves
       /\ LeafAt(old).isLeaf \in BOOLEAN
  BY <1>5, NewLeaf
<1>18. IsSeq(h)
  BY DEF HeapOK
<1>19. /\ IsSeq(g) /\ Len(g) = Len(h) + 2 /\ g[p] = two
       /\ g[Len(h) + 1] = LeafAt(lf) /\ g[Len(h) + 2] = LeafAt(old)
       /\ \A q \in 1 .. Len(h) : q # p => g[q] = h[q]
  <2>1. g = Put2(h, p, two, LeafAt(lf), LeafAt(old))
    BY DEF g, Put2
  <2> QED
    BY <2>1, <1>3, <1>18, PutAppendFacts
<1>20. g[x] = LeafAt(lf) /\ g[y] = LeafAt(old) /\ DOMAIN g = 1 .. Len(h) + 2
  BY <1>19, SeqFacts
<1>21. HeapOK(g)
  <2> SUFFICES ASSUME NEW q \in 1 .. Len(g) PROVE NodeOK(g, q)
    BY <1>19 DEF HeapOK
  <2>1. CASE q = p
    <3>1. \A b \in DOMAIN f : b \in Byte /\ f[b] \in 1 .. Len(g)
      BY <1>3, <1>12, <1>14, <1>19
    <3> QED
      BY <2>1, <3>1, <1>13, <1>15, <1>19 DEF NodeOK
  <2>2. CASE q = x
    BY <2>2, <1>16, <1>20 DEF NodeOK
  <2>3. CASE q = y
    BY <2>3, <1>17, <1>20 DEF NodeOK
  <2>4. CASE q \in 1 .. Len(h) /\ q # p
    <3>1. NodeOK(h, q) /\ g[q] = h[q] /\ Len(h) <= Len(g) /\ Len(g) \in Nat
      BY <2>4, <1>3, <1>19 DEF HeapOK
    <3> QED
      BY <3>1, <1>3, NodeKept
  <2> QED
    BY <2>1, <2>2, <2>3, <2>4, <1>3, <1>19
<1>22. Grown(h, g)
  BY <1>3, <1>15, <1>19 DEF Grown
<1> DEFINE po == Bytes(old.key)
           pn == Bytes(lf.key)
<1>23. po \in [Nat -> Byte] /\ \A i \in Nat : po[i] = At(old.key, i)
  BY <1>5, BytesFacts
<1>24. pn \in [Nat -> Byte] /\ \A i \in Nat : pn[i] = At(lf.key, i)
  BY BytesFacts
<1> HIDE DEF po, pn
<1>25. d + Len(g[p].compressed) = at /\ at + 1 \in Nat
  BY <1>7, <1>9, <1>13, <1>15, <1>19
<1>26. InnerOK(g[p], d, po)
  <2>1. Sized(two)
    BY <1>12, <1>14, <1>15, SizedTwo
  <2>2. ASSUME NEW i \in 1 .. Len(c) PROVE po[d + i - 1] = c[i]
    <3>0. i \in Int /\ i >= 1 /\ i <= at - d /\ d \in Nat /\ at \in Nat /\ at <= Len(old.key)
      BY <1>7, <1>9, <1>13
    <3>1. d + i - 1 \in Nat /\ d + i - 1 < Len(old.key) /\ (d + i - 1) + 1 = d + i
      BY <3>0, <1>10
    <3>2. po[d + i - 1] = old.key[d + i]
      BY <3>1, <1>10, <1>23
    <3> QED
      BY <3>0, <3>2, <1>13
  <2>3. ASSUME NEW i \in 0 .. d + Len(c) - 1 PROVE po[i] # 0
    <3>1. i \in Nat /\ i < Len(old.key)
      BY <1>7, <1>9, <1>10, <1>13
    <3> QED
      BY <3>1, <1>10, <1>23
  <2> QED
    BY <2>1, <2>2, <2>3, <1>15, <1>19 DEF InnerOK
<1>27. LinkOK(g[p], d, po, k, at + 1, pn)
  <2>1. pn[at] = k /\ \A i \in 0 .. at - 1 : pn[i] = po[i]
    BY <1>9, <1>23, <1>24 DEF k
  <2> QED
    BY <2>1, <1>25 DEF LinkOK
<1>28. LinkOK(g[p], d, po, l, at + 1, po)
  <2>1. po[at] = l
    BY <1>9, <1>23 DEF l
  <2> QED
    BY <2>1, <1>25 DEF LinkOK
<1>29. Fits(g[x], at + 1, pn)
  <2>1. LeafOK(g[x], at + 1, pn)
    BY <1>9, <1>11, <1>16, <1>20, <1>24 DEF LeafOK
  <2> QED
    BY <2>1, <1>16, <1>20 DEF Fits
<1>30. Fits(g[y], at + 1, po)
  <2>1. LeafOK(g[y], at + 1, po)
    BY <1>9, <1>10, <1>17, <1>20, <1>23 DEF LeafOK
  <2> QED
    BY <2>1, <1>17, <1>20 DEF Fits
<1>31. ForkOK(h, g, A, D, P, p, k, l, x, y, at + 1, po, pn, po)
  <2>1. x \in DOMAIN g \ A /\ y \in DOMAIN g \ A /\ x # y /\ A \subseteq DOMAIN g
    BY <1>3, <1>20
  <2>2. \A q \in A : q # p => g[q] = h[q]
    BY <1>3, <1>19
  <2>3. ~g[p].isLeaf /\ DOMAIN g[p].kids = {k, l} /\ g[p].kids[k] = x /\ g[p].kids[l] = y
    BY <1>14, <1>15, <1>19
  <2>4. \A i \in 0 .. D[p] - 1 : po[i] = P[p][i]
    BY <1>7, <1>23
  <2>5. g[x].isLeaf /\ g[y].isLeaf
    BY <1>16, <1>17, <1>20
  <2> HIDE DEF x, y
  <2> QED
    BY <2>1, <2>2, <2>3, <2>4, <2>5, <1>26, <1>27, <1>28, <1>29, <1>30 DEF ForkOK
<1>32. Tree(g, r)
  BY <1>19, <1>23, <1>24, <1>25, <1>31, Fork
<1>33. Good(h, g, r)
  BY <1>21, <1>22, <1>32 DEF Good
<1>34. ForkIs(h, g, A, p, x, y, LeafAt(lf))
  <2>1. LeafAt(old) = old
    BY <1>4 DEF LeafAt, Leaves
  <2>2. x \notin A /\ y \notin A /\ x # y /\ \A q \in A : q # p => g[q] = h[q]
    BY <1>3, <1>19
  <2> HIDE DEF x, y
  <2>3. ~g[p].isLeaf /\ Kids(g[p]) = {x, y}
    BY <1>14, <1>15, <1>19 DEF Kids
  <2>4. g[y] = old /\ old.isLeaf /\ g[x] = LeafAt(lf)
    BY <2>1, <1>20
  <2> QED
    BY <2>2, <2>3, <2>4, <1>16 DEF ForkIs, Kids
<1> QED
  BY <1>2, <1>19, <1>33, <1>34

\* An inner node of a tree: its prefix and its children.
InnerIs(h, D, P, p) ==
    /\ p \in 1 .. Len(h) /\ D[p] \in Nat /\ P[p] \in [Nat -> Byte]
    /\ Shape(h[p]) /\ h[p].compressed \in Seq(Byte) /\ Len(h[p].compressed) \in Nat
    /\ DOMAIN h[p].kids \subseteq Byte /\ Sized(h[p])
    /\ \A b \in DOMAIN h[p].kids : h[p].kids[b] \in 1 .. Len(h)
    /\ \A i \in 1 .. Len(h[p].compressed) : P[p][D[p] + i - 1] = h[p].compressed[i]
    /\ \A i \in 0 .. D[p] + Len(h[p].compressed) - 1 : P[p][i] # 0

\* Every inner node of a radix tree is like that.
LEMMA InnerFacts ==
    ASSUME NEW h, HeapOK(h), NEW r, NEW A, NEW D \in Depths, NEW P \in Paths,
           NEW U, Radix(h, r, A, D, P, U), NEW p \in A, ~h[p].isLeaf
    PROVE  InnerIs(h, D, P, p)
<1>1. A \subseteq 1 .. Len(h) /\ Len(h) \in Nat
  BY SeqFacts DEF HeapOK, Radix
<1>2. p \in 1 .. Len(h) /\ p \in Nat
  BY <1>1
<1>3. NodeOK(h, p)
  BY <1>2 DEF HeapOK
<1>4. /\ Shape(h[p]) /\ h[p].compressed \in Seq(Byte)
      /\ \A b \in DOMAIN h[p].kids : b \in Byte /\ h[p].kids[b] \in 1 .. Len(h)
  BY <1>3 DEF NodeOK
<1>5. Len(h[p].compressed) \in Nat
  BY <1>4, SeqElements
<1>6. InnerOK(h[p], D[p], P[p])
  BY DEF Radix, Fits
<1>7. D[p] \in Nat /\ P[p] \in [Nat -> Byte]
  BY <1>2 DEF Depths, Paths
<1> QED
  BY <1>2, <1>4, <1>5, <1>6, <1>7 DEF InnerOK, InnerIs

\* Its children, one by one.
ChildIs(r, A, D, P, U, p, b, c, e) ==
    /\ c \in A /\ c # r /\ c # p /\ U[c] = p /\ e \in Nat /\ D[c] = e + 1 /\ P[c][e] = b
    /\ \A i \in 0 .. e - 1 : P[c][i] = P[p][i]
    /\ D[p] < D[c]

\* Every child in a radix tree is like that.
LEMMA ChildFacts ==
    ASSUME NEW h, HeapOK(h), NEW r, NEW A, NEW D \in Depths, NEW P \in Paths,
           NEW U, Radix(h, r, A, D, P, U), NEW p \in A, ~h[p].isLeaf,
           NEW b \in DOMAIN h[p].kids
    PROVE  ChildIs(r, A, D, P, U, p, b, h[p].kids[b], D[p] + Len(h[p].compressed))
<1> DEFINE c == h[p].kids[b]
           e == D[p] + Len(h[p].compressed)
<1>1. Linked(h, r, A, D, P, U, p, b)
  BY DEF Radix
<1>2. /\ c \in A /\ c # r /\ U[c] = p /\ D[c] = e + 1 /\ P[c][e] = b
      /\ \A i \in 0 .. e - 1 : P[c][i] = P[p][i]
  BY <1>1 DEF Linked, LinkOK
<1>3. D[p] \in Nat /\ Len(h[p].compressed) \in Nat
  <2>1. InnerIs(h, D, P, p)
    BY InnerFacts
  <2> QED
    BY <2>1 DEF InnerIs
<1>4. e \in Nat /\ D[p] < D[c]
  BY <1>2, <1>3
<1>5. c # p
  BY <1>3, <1>4
<1> HIDE DEF c, e
<1>6. ChildIs(r, A, D, P, U, p, b, c, e)
  BY <1>2, <1>4, <1>5 DEF ChildIs
<1> QED
  BY <1>6 DEF c, e

\* The bytes pp that lead through a prefix c, and those of a key that leaves it
\* after mis bytes.
Through(c, d, mis, pp, pn) ==
    /\ mis < Len(c)
    /\ \A i \in 1 .. Len(c) : pp[d + i - 1] = c[i]
    /\ \A i \in 0 .. d - 1 : pp[i] = pn[i]
    /\ \A i \in 1 .. mis : c[i] = pn[d + i - 1]

Parts(c, d, mis, pp, pn, c1, c2, e) ==
    /\ c1 \in Seq(Byte) /\ Len(c1) = mis /\ d + Len(c1) = e
    /\ c2 \in Seq(Byte) /\ (e + 1) + Len(c2) = d + Len(c) /\ Len(c2) \in Nat
    /\ e \in Nat /\ mis + 1 \in 1 .. Len(c) /\ d + mis <= d + Len(c)
    /\ \A i \in 1 .. Len(c1) : pp[d + i - 1] = c1[i]
    /\ \A i \in 1 .. Len(c2) : pp[(e + 1) + i - 1] = c2[i]
    /\ \A i \in 0 .. e - 1 : pn[i] = pp[i]
    /\ pp[e] = c[mis + 1]

\* The parts into which the lazy expansion cuts a prefix lead where it led.
LEMMA SplitPrefix ==
    ASSUME NEW c \in Seq(Byte), NEW d \in Nat, NEW mis \in Nat,
           NEW pp, NEW pn, Through(c, d, mis, pp, pn)
    PROVE  Parts(c, d, mis, pp, pn, SubSeq(c, 1, mis), From(c, mis + 1), d + mis)
<1> DEFINE c1 == SubSeq(c, 1, mis)
           c2 == From(c, mis + 1)
           e  == d + mis
<1>0. /\ mis < Len(c)
      /\ \A i \in 1 .. Len(c) : pp[d + i - 1] = c[i]
      /\ \A i \in 0 .. d - 1 : pp[i] = pn[i]
      /\ \A i \in 1 .. mis : c[i] = pn[d + i - 1]
  BY DEF Through
<1>1. Len(c) \in Nat /\ e \in Nat /\ mis + 1 \in 1 .. Len(c) /\ mis + 1 <= Len(c)
  BY <1>0, SeqElements
<1>2. c1 \in Seq(Byte) /\ Len(c1) = mis /\ \A i \in 1 .. mis : c1[i] = c[i]
  <2>1. c1 = SubSeq(c, 0 + 1, mis)
    OBVIOUS
  <2>2. /\ SubSeq(c, 0 + 1, mis) \in Seq(Byte) /\ Len(SubSeq(c, 0 + 1, mis)) = mis - 0
        /\ \A i \in 1 .. mis - 0 : SubSeq(c, 0 + 1, mis)[i] = c[0 + i]
    BY <1>1, PartOfKey
  <2> QED
    BY <2>1, <2>2
<1>3. /\ c2 \in Seq(Byte) /\ Len(c2) = Len(c) - (mis + 1)
      /\ \A i \in 1 .. Len(c) - (mis + 1) : c2[i] = c[(mis + 1) + i]
  <2> DEFINE m == mis + 1
  <2>1. m \in Nat /\ m <= Len(c)
    BY <1>1
  <2> HIDE DEF m
  <2>2. /\ From(c, m) \in Seq(Byte) /\ Len(From(c, m)) = Len(c) - m
        /\ \A i \in 1 .. Len(c) - m : From(c, m)[i] = c[m + i]
    BY <2>1, FromFacts
  <2>3. c2 = From(c, m)
    BY DEF m
  <2>4. /\ c2 \in Seq(Byte) /\ Len(c2) = Len(c) - m
        /\ \A i \in 1 .. Len(c) - m : c2[i] = c[m + i]
    BY <2>2, <2>3
  <2> QED
    BY <2>4 DEF m
<1> HIDE DEF c1, c2
<1>4. ASSUME NEW i \in 1 .. Len(c1) PROVE pp[d + i - 1] = c1[i]
  <2>1. i \in 1 .. mis /\ i \in 1 .. Len(c)
    BY <1>1, <1>2
  <2> QED
    BY <2>1, <1>0, <1>2
<1>5. ASSUME NEW i \in 1 .. Len(c2) PROVE pp[(e + 1) + i - 1] = c2[i]
  <2> DEFINE j == (mis + 1) + i
  <2>0. i \in 1 .. Len(c) - (mis + 1)
    BY <1>3
  <2>1. j \in 1 .. Len(c) /\ d + j - 1 = (e + 1) + i - 1
    BY <1>1, <2>0
  <2>2. c2[i] = c[j]
    BY <2>0, <1>3
  <2> HIDE DEF j
  <2>3. pp[d + j - 1] = c[j]
    BY <2>1, <1>0
  <2> QED
    BY <2>1, <2>2, <2>3
<1>6. ASSUME NEW i \in 0 .. e - 1 PROVE pn[i] = pp[i]
  <2>1. CASE i < d
    <3>1. i \in 0 .. d - 1
      BY <2>1, <1>1
    <3> QED
      BY <3>1, <1>0
  <2>2. CASE i >= d
    <3> DEFINE j == i - d + 1
    <3>1. j \in 1 .. mis /\ j \in 1 .. Len(c) /\ d + j - 1 = i
      BY <2>2, <1>1
    <3> HIDE DEF j
    <3>2. c[j] = pn[i] /\ c[j] = pp[i]
      BY <3>1, <1>0
    <3> QED
      BY <3>2
  <2> QED
    BY <2>1, <2>2, <1>1
<1>7. pp[e] = c[mis + 1]
  <2>1. d + (mis + 1) - 1 = e
    OBVIOUS
  <2> QED
    BY <2>1, <1>0, <1>1
<1>8. (e + 1) + Len(c2) = d + Len(c) /\ Len(c2) \in Nat /\ d + mis <= d + Len(c)
  <2>1. Len(c2) = Len(c) - (mis + 1)
    BY <1>3
  <2> QED
    BY <2>1, <1>1
<1>9. d + Len(c1) = e
  BY <1>2
<1> HIDE DEF e
<1>10. Parts(c, d, mis, pp, pn, c1, c2, e)
  <2>1. c1 \in Seq(Byte) /\ Len(c1) = mis /\ c2 \in Seq(Byte)
    BY <1>2, <1>3
  <2>2. d + mis <= d + Len(c)
    BY <1>8
  <2> QED
    BY <2>1, <2>2, <1>1, <1>4, <1>5, <1>6, <1>7, <1>8, <1>9 DEF Parts
<1> QED
  BY <1>10 DEF c1, c2, e

\* The lazy expansion of Inner.insert.
SplitCase(h, D, P, p, key, d, mis) ==
    /\ ~h[p].isLeaf /\ d = D[p] /\ d <= Len(key)
    /\ \A i \in 0 .. d - 1 : P[p][i] = At(key, i)
    /\ mis = compressedMismatch(h[p], key, d) /\ mis < Len(h[p].compressed)

\* It leaves a radix tree with the same root.
LEMMA SplitTree ==
    ASSUME NEW h, HeapOK(h), NEW r, NEW A, NEW D \in Depths, NEW P \in Paths,
           NEW U \in Depths, Radix(h, r, A, D, P, U), NEW p \in A,
           NEW lf, lf.key \in Keys, lf.value \in Values \cup {Nil},
           NEW d \in Nat, NEW mis \in Nat, SplitCase(h, D, P, p, lf.key, d, mis)
    PROVE  /\ Good(h, splitAt(h, p, lf, d, mis), r)
           /\ ForkIs(h, splitAt(h, p, lf, d, mis), A, p, Len(h) + 1, Len(h) + 2, LeafAt(lf))
<1> DEFINE n   == h[p]
           c   == n.compressed
           e   == d + mis
           k   == At(lf.key, e)
           l   == c[mis + 1]
           c1  == SubSeq(c, 1, mis)
           c2  == From(c, mis + 1)
           x   == Len(h) + 1
           y   == Len(h) + 2
           f   == TwoKids(k, x, l, y)
           two == InnerAt(c1, "n4", f)
           low == InnerAt(c2, n.kind, n.kids)
           g   == splitAt(h, p, lf, d, mis)
<1>1. g = Put2(h, p, two, LeafAt(lf), low)
  BY DEF splitAt, Put2
<1> HIDE DEF g
<1>0. ~h[p].isLeaf /\ d = D[p]
  BY DEF SplitCase
<1>2. Len(h) \in Nat /\ A \subseteq 1 .. Len(h) /\ IsSeq(h)
  BY SeqFacts DEF HeapOK, Radix
<1>3. /\ p \in 1 .. Len(h) /\ d \in Nat /\ P[p] \in [Nat -> Byte]
      /\ Shape(n) /\ c \in Seq(Byte) /\ Len(c) \in Nat
      /\ DOMAIN n.kids \subseteq Byte /\ Sized(n)
      /\ \A b \in DOMAIN n.kids : n.kids[b] \in 1 .. Len(h)
      /\ \A i \in 1 .. Len(c) : P[p][d + i - 1] = c[i]
      /\ \A i \in 0 .. d + Len(c) - 1 : P[p][i] # 0
  <2>1. InnerIs(h, D, P, p)
    BY <1>0, InnerFacts
  <2> QED
    BY <2>1, <1>0 DEF InnerIs
<1>3a. mis = compressedMismatch(n, lf.key, d) /\ mis < Len(c) /\ d <= Len(lf.key)
  BY DEF SplitCase
<1> HIDE DEF n
<1>4. \A i \in 1 .. Len(c) : c[i] # 0 /\ c[i] \in Byte
  <2> SUFFICES ASSUME NEW i \in 1 .. Len(c) PROVE c[i] # 0 /\ c[i] \in Byte
    OBVIOUS
  <2>1. d + i - 1 \in 0 .. d + Len(c) - 1
    BY <1>3
  <2>2. c[i] # 0
    BY <2>1, <1>3
  <2> QED
    BY <2>2, <1>3, SeqElements
<1>5. /\ mis \in Nat /\ mis <= Len(c) /\ d + mis <= Len(lf.key)
      /\ \A i \in 1 .. mis : c[i] = At(lf.key, d + i - 1)
      /\ mis < Len(c) => c[mis + 1] # At(lf.key, d + mis)
  <2>1. n.compressed \in Seq(Byte) /\ \A i \in 1 .. Len(n.compressed) : n.compressed[i] # 0
    BY <1>3, <1>4
  <2>2. d \in Nat
    BY <1>3
  <2> QED
    BY <2>1, <2>2, <1>3a, MismatchFacts
<1>6. mis < Len(c)
  BY <1>3a
<1> HIDE DEF c
<1>i. /\ e \in Nat /\ e <= Len(lf.key) /\ e = d + mis /\ mis + 1 \in 1 .. Len(c)
      /\ mis \in Nat /\ mis < Len(c) /\ Len(c) \in Nat /\ d \in Nat /\ mis + 1 <= Len(c)
  BY <1>3, <1>5, <1>6
<1>7. e \in Nat /\ e <= Len(lf.key) /\ e = d + mis /\ mis + 1 \in 1 .. Len(c)
  BY <1>i
<1>8. k \in Byte /\ l \in Byte /\ k # l
  BY <1>4, <1>5, <1>6, <1>7, KeyFacts
<1>9. Len(lf.key) \in Nat
  BY KeyFacts
<1> DEFINE pn == Bytes(lf.key)
           pp == P[p]
<1>24. pn \in [Nat -> Byte] /\ \A i \in Nat : pn[i] = At(lf.key, i)
  BY BytesFacts
<1>25a. pp \in [Nat -> Byte]
  BY <1>3
<1>25b. \A i \in 0 .. d - 1 : pp[i] = At(lf.key, i)
  BY DEF SplitCase
<1>25c. \A i \in 1 .. Len(c) : pp[d + i - 1] = c[i]
  BY <1>3
<1>25d. \A i \in 0 .. d + Len(c) - 1 : pp[i] # 0
  BY <1>3
<1>25e. pp = P[p]
  OBVIOUS
<1>10a. c1 = SubSeq(c, 1, mis) /\ c2 = From(c, mis + 1) /\ e = d + mis
  OBVIOUS
<1> HIDE DEF pn, pp, c1, c2, e
<1>10b. \A i \in 0 .. d - 1 : pp[i] = pn[i]
  <2> SUFFICES ASSUME NEW i \in 0 .. d - 1 PROVE pp[i] = pn[i]
    OBVIOUS
  <2>1. i \in Nat
    OBVIOUS
  <2> QED
    BY <2>1, <1>24, <1>25b
<1>10c. \A i \in 1 .. mis : c[i] = pn[d + i - 1]
  <2> SUFFICES ASSUME NEW i \in 1 .. mis PROVE c[i] = pn[d + i - 1]
    OBVIOUS
  <2>1. d + i - 1 \in Nat
    OBVIOUS
  <2> QED
    BY <2>1, <1>5, <1>24
<1>10d. c \in Seq(Byte)
  BY <1>3
<1>10f. Through(c, d, mis, pp, pn)
  BY <1>6, <1>10b, <1>10c, <1>25c DEF Through
<1>10g. Parts(c, d, mis, pp, pn, c1, c2, e)
  BY <1>10a, <1>10d, <1>10f, SplitPrefix
<1>10. /\ c1 \in Seq(Byte) /\ Len(c1) = mis /\ d + Len(c1) = e
       /\ c2 \in Seq(Byte) /\ (e + 1) + Len(c2) = d + Len(c) /\ Len(c2) \in Nat
       /\ e \in Nat /\ mis + 1 \in 1 .. Len(c) /\ d + mis <= d + Len(c)
       /\ \A i \in 1 .. Len(c1) : pp[d + i - 1] = c1[i]
       /\ \A i \in 1 .. Len(c2) : pp[(e + 1) + i - 1] = c2[i]
       /\ \A i \in 0 .. e - 1 : pn[i] = pp[i]
       /\ pp[e] = c[mis + 1]
  BY <1>10g DEF Parts
<1>11. c2 \in Seq(Byte)
  BY <1>10
<1> HIDE DEF c1, c2, k, l
<1>12a. f = TwoKids(k, x, l, y)
  OBVIOUS
<1> HIDE DEF f
<1>12. IsMap(f, {k, l}) /\ DOMAIN f = {k, l} /\ f[k] = x /\ f[l] = y
  BY <1>8, <1>12a, TwoKidsFacts
<1>13. /\ Shape(two) /\ ~two.isLeaf /\ two.isLeaf \in BOOLEAN
       /\ two.compressed = c1 /\ two.kind = "n4" /\ two.kids = f
  BY <1>12, NodeShape
<1> HIDE DEF two
<1>14. /\ Shape(low) /\ ~low.isLeaf /\ low.isLeaf \in BOOLEAN
       /\ low.compressed = c2 /\ low.kind = n.kind /\ low.kids = n.kids
  <2>1. IsMap(n.kids, DOMAIN n.kids)
    BY <1>3 DEF Shape
  <2> QED
    BY <2>1, NodeShape
<1> HIDE DEF low
<1>16. /\ LeafAt(lf).isLeaf /\ LeafAt(lf).key = lf.key /\ LeafAt(lf) \in Leaves
       /\ LeafAt(lf).isLeaf \in BOOLEAN
  BY NewLeaf
<1>19. /\ IsSeq(g) /\ Len(g) = Len(h) + 2 /\ g[p] = two
       /\ g[Len(h) + 1] = LeafAt(lf) /\ g[Len(h) + 2] = low
       /\ \A q \in 1 .. Len(h) : q # p => g[q] = h[q]
  BY <1>1, <1>2, <1>3, PutAppendFacts
<1>20. g[x] = LeafAt(lf) /\ g[y] = low /\ DOMAIN g = 1 .. Len(h) + 2
  BY <1>19, SeqFacts
<1>21. HeapOK(g)
  <2> SUFFICES ASSUME NEW q \in 1 .. Len(g) PROVE NodeOK(g, q)
    BY <1>19 DEF HeapOK
  <2>1. CASE q = p
    <3>1. \A b \in DOMAIN f : b \in Byte /\ f[b] \in 1 .. Len(g)
      BY <1>2, <1>8, <1>12, <1>19
    <3> QED
      BY <2>1, <3>1, <1>10, <1>13, <1>19 DEF NodeOK
  <2>2. CASE q = x
    BY <2>2, <1>16, <1>20 DEF NodeOK
  <2>3. CASE q = y
    <3>1. \A b \in DOMAIN n.kids : b \in Byte /\ n.kids[b] \in 1 .. Len(g)
      BY <1>2, <1>3, <1>19
    <3> QED
      BY <2>3, <3>1, <1>11, <1>14, <1>20 DEF NodeOK
  <2>4. CASE q \in 1 .. Len(h) /\ q # p
    <3>1. NodeOK(h, q) /\ g[q] = h[q] /\ Len(h) <= Len(g) /\ Len(g) \in Nat
      BY <2>4, <1>2, <1>19 DEF HeapOK
    <3> QED
      BY <3>1, <1>2, NodeKept
  <2> QED
    BY <2>1, <2>2, <2>3, <2>4, <1>2, <1>19
<1>22. Grown(h, g)
  BY <1>2, <1>13, <1>19 DEF Grown
<1>25. d + Len(g[p].compressed) = e /\ e + 1 \in Nat
  <2>1. g[p].compressed = c1
    BY <1>13, <1>19
  <2>2. d + Len(c1) = e /\ e \in Nat
    BY <1>10
  <2>3. e + 1 \in Nat
    BY <2>2
  <2> QED
    BY <2>1, <2>2, <2>3
<1>26. InnerOK(g[p], d, pp)
  <2>1. Sized(two)
    BY <1>8, <1>12, <1>13, SizedTwo
  <2>2. \A i \in 1 .. Len(c1) : pp[d + i - 1] = c1[i]
    BY <1>10
  <2>3. ASSUME NEW i \in 0 .. d + Len(c1) - 1 PROVE pp[i] # 0
    <3>1. i \in 0 .. d + Len(c) - 1
      BY <1>i, <1>10
    <3> QED
      BY <3>1, <1>25d
  <2>4. InnerOK(two, d, pp)
    BY <2>1, <2>2, <2>3, <1>13 DEF InnerOK
  <2> QED
    BY <2>4, <1>19
<1>27. LinkOK(g[p], d, pp, k, e + 1, pn)
  <2>1. pn[e] = k
    BY <1>7, <1>24 DEF k
  <2>2. \A i \in 0 .. e - 1 : pn[i] = pp[i]
    BY <1>10
  <2> QED
    BY <2>1, <2>2, <1>25 DEF LinkOK
<1>28. LinkOK(g[p], d, pp, l, e + 1, pp)
  <2>2. pp[e] = l
    BY <1>10 DEF l
  <2> QED
    BY <2>2, <1>25 DEF LinkOK
<1>29. Fits(g[x], e + 1, pn)
  <2>1. e + 1 <= Len(lf.key) + 1 /\ \A i \in 0 .. (e + 1) - 1 : i \in Nat
    BY <1>7, <1>9
  <2>2. LeafOK(g[x], e + 1, pn)
    BY <2>1, <1>16, <1>20, <1>24 DEF LeafOK
  <2> QED
    BY <2>2, <1>16, <1>20 DEF Fits
<1>30a. (e + 1) + Len(c2) = d + Len(c)
  BY <1>10
<1>30. Fits(g[y], e + 1, pp)
  <2>1. Sized(low)
    BY <1>3, <1>14 DEF Sized
  <2>2. \A i \in 1 .. Len(c2) : pp[(e + 1) + i - 1] = c2[i]
    BY <1>10
  <2>3. InnerOK(low, e + 1, pp)
    <3>1. \A i \in 0 .. (e + 1) + Len(c2) - 1 : pp[i] # 0
      <4>0. Len(c2) \in Nat /\ Len(c) \in Nat /\ e \in Nat
        BY <1>10, <1>i
      <4>1. (e + 1) + Len(c2) - 1 = d + Len(c) - 1
        BY <4>0, <1>30a
      <4> QED
        BY <4>1, <1>25d
    <3>2. low.compressed = c2
      BY <1>14
    <3> QED
      BY <2>1, <2>2, <3>1, <3>2 DEF InnerOK
  <2> QED
    BY <2>3, <1>14, <1>20 DEF Fits
<1>31. ASSUME NEW b \in DOMAIN n.kids
       PROVE  n.kids[b] # p /\ LinkOK(g[y], e + 1, pp, b, D[n.kids[b]], P[n.kids[b]])
  <2> DEFINE ch == n.kids[b]
             ee == d + Len(c)
  <2>1. /\ ch # p /\ D[ch] = ee + 1 /\ P[ch][ee] = b /\ \A i \in 0 .. ee - 1 : P[ch][i] = P[p][i]
    <3>1. ChildIs(r, A, D, P, U, p, b, ch, ee)
      BY <1>0, ChildFacts DEF n, c
    <3> QED
      BY <3>1 DEF ChildIs
  <2>2. (e + 1) + Len(g[y].compressed) = ee
    BY <1>14, <1>20, <1>30a
  <2> HIDE DEF ch, ee
  <2>3. LinkOK(g[y], e + 1, pp, b, D[ch], P[ch])
    BY <2>1, <2>2, <1>25e DEF LinkOK
  <2> QED
    BY <2>1, <2>3 DEF ch
<1>32. ForkOK(h, g, A, D, P, p, k, l, x, y, e + 1, pp, pn, pp)
  <2>1. x \in DOMAIN g \ A /\ y \in DOMAIN g \ A /\ x # y /\ A \subseteq DOMAIN g
    BY <1>2, <1>20
  <2>2. \A q \in A : q # p => g[q] = h[q]
    BY <1>2, <1>19
  <2>3. ~g[p].isLeaf /\ DOMAIN g[p].kids = {k, l} /\ g[p].kids[k] = x /\ g[p].kids[l] = y
    BY <1>12, <1>13, <1>19
  <2>4. \A i \in 0 .. D[p] - 1 : pp[i] = P[p][i]
    BY <1>25e
  <2>5. g[x].isLeaf
    BY <1>16, <1>20
  <2>6. ~h[p].isLeaf /\ DOMAIN g[y].kids = DOMAIN h[p].kids
    BY <1>0, <1>14, <1>20 DEF n
  <2>7. \A b \in DOMAIN g[y].kids :
           LET ch == h[p].kids[b]
           IN  g[y].kids[b] = ch /\ ch # p /\ LinkOK(g[y], e + 1, pp, b, D[ch], P[ch])
    BY <1>14, <1>20, <1>31 DEF n
  <2> HIDE DEF x, y
  <2> QED
    BY <2>1, <2>2, <2>3, <2>4, <2>5, <2>6, <2>7, <1>0, <1>26, <1>27, <1>28, <1>29, <1>30 DEF ForkOK
<1>33. Tree(g, r)
  BY <1>19, <1>24, <1>25, <1>25a, <1>32, Fork
<1>34. ForkIs(h, g, A, p, x, y, LeafAt(lf))
  <2>1. x \notin A /\ y \notin A /\ x # y /\ \A q \in A : q # p => g[q] = h[q]
    BY <1>2, <1>19
  <2> HIDE DEF x, y
  <2>2. ~g[p].isLeaf /\ Kids(g[p]) = {x, y}
    BY <1>12, <1>13, <1>19 DEF Kids
  <2>3. ~g[y].isLeaf /\ ~h[p].isLeaf /\ g[y].kids = h[p].kids /\ g[x] = LeafAt(lf)
    BY <1>0, <1>14, <1>20 DEF n
  <2>4. g[y].isLeaf = h[p].isLeaf
    <3>1. h[p].isLeaf \in BOOLEAN /\ g[y].isLeaf \in BOOLEAN
      BY <1>3, <1>14, <1>20 DEF n, HeapOK, NodeOK
    <3> QED
      BY <3>1, <2>3
  <2>5. Kids(g[y]) = Kids(h[p])
    BY <2>3 DEF Kids
  <2> QED
    BY <2>1, <2>2, <2>3, <2>4, <2>5, <1>16 DEF ForkIs
<1> QED
  BY <1>21, <1>22, <1>33, <1>34 DEF Good, g

\* A new leaf takes the place for byte k at the inner node p, which its key has
\* led to and through the prefix of which it leads.
HangCase(h, g, D, P, p, lf, k, e, kind) ==
    /\ ~h[p].isLeaf /\ e = D[p] + Len(h[p].compressed) /\ e <= Len(lf.key)
    /\ \A i \in 0 .. e - 1 : P[p][i] = At(lf.key, i)
    /\ k = At(lf.key, e)
    /\ IsSeq(g) /\ Len(g) = Len(h) + 1 /\ g[Len(h) + 1] = LeafAt(lf)
    /\ \A q \in 1 .. Len(h) : q # p => g[q] = h[q]
    /\ g[p] = InnerAt(h[p].compressed, kind, WithKid(h[p].kids, k, Len(h) + 1))
    /\ Sized(g[p])

\* The result is a radix tree with the same root.
LEMMA HangLeaf ==
    ASSUME NEW h, HeapOK(h), NEW r, NEW A, NEW D \in Depths, NEW P \in Paths,
           NEW U \in Depths, Radix(h, r, A, D, P, U), NEW p \in A,
           NEW lf, lf.key \in Keys, lf.value \in Values \cup {Nil},
           NEW g, NEW k, NEW e, NEW kind, HangCase(h, g, D, P, p, lf, k, e, kind)
    PROVE  Good(h, g, r) /\ HangIs(h, g, A, p, k, Len(h) + 1, LeafAt(lf))
<1> DEFINE n == h[p]
           x == Len(h) + 1
           f == WithKid(n.kids, k, x)
           pn == Bytes(lf.key)
<1>1. /\ ~n.isLeaf /\ e = D[p] + Len(n.compressed) /\ e <= Len(lf.key) /\ k = At(lf.key, e)
      /\ IsSeq(g) /\ Len(g) = Len(h) + 1 /\ g[x] = LeafAt(lf)
      /\ \A q \in 1 .. Len(h) : q # p => g[q] = h[q]
      /\ g[p] = InnerAt(n.compressed, kind, f) /\ Sized(g[p])
  BY DEF HangCase
<1>2. \A i \in 0 .. e - 1 : P[p][i] = At(lf.key, i)
  BY DEF HangCase
<1>3. Len(h) \in Nat /\ A \subseteq 1 .. Len(h) /\ IsSeq(h) /\ r \in A
  BY SeqFacts DEF HeapOK, Radix
<1>4. /\ p \in 1 .. Len(h) /\ D[p] \in Nat
      /\ n.compressed \in Seq(Byte) /\ Len(n.compressed) \in Nat
      /\ DOMAIN n.kids \subseteq Byte
      /\ \A b \in DOMAIN n.kids : n.kids[b] \in 1 .. Len(h)
  <2>1. InnerIs(h, D, P, p)
    BY <1>1, InnerFacts
  <2> QED
    BY <2>1 DEF InnerIs
<1>5. e \in Nat
  BY <1>1, <1>4
<1>6. /\ Len(lf.key) \in Nat /\ \A i \in Nat : At(lf.key, i) \in Byte
  BY KeyFacts
<1>7. k \in Byte
  BY <1>1, <1>5, <1>6
<1>8a. f = WithKid(n.kids, k, x)
  OBVIOUS
<1>9. pn \in [Nat -> Byte] /\ \A i \in Nat : pn[i] = At(lf.key, i)
  BY BytesFacts
<1> HIDE DEF n, f, pn
<1>8. /\ IsMap(f, DOMAIN n.kids \cup {k}) /\ DOMAIN f = DOMAIN n.kids \cup {k} /\ f[k] = x
      /\ \A b \in DOMAIN n.kids : b # k => f[b] = n.kids[b]
  <2>1. HasKid(f, n.kids, k, x)
    BY <1>8a, WithKidFacts
  <2> HIDE DEF x
  <2> QED
    BY <2>1 DEF HasKid
<1>10. /\ Shape(g[p]) /\ ~g[p].isLeaf /\ g[p].isLeaf \in BOOLEAN
       /\ g[p].compressed = n.compressed /\ g[p].kids = f
  BY <1>1, <1>8, NodeShape
<1>11. /\ g[x].isLeaf /\ g[x].key = lf.key /\ g[x] \in Leaves /\ g[x].isLeaf \in BOOLEAN
  BY <1>1, NewLeaf
<1>12. DOMAIN g = 1 .. Len(h) + 1 /\ x \in DOMAIN g
  BY <1>1, <1>3, SeqFacts
<1>13. x \notin 1 .. Len(h)
  BY <1>3
<1>14. HeapOK(g)
  <2> SUFFICES ASSUME NEW q \in 1 .. Len(g) PROVE NodeOK(g, q)
    BY <1>1 DEF HeapOK
  <2>1. CASE q = p
    <3>1. ASSUME NEW b \in DOMAIN f PROVE b \in Byte /\ f[b] \in 1 .. Len(g)
      <4>1. CASE b = k
        BY <4>1, <1>1, <1>3, <1>7, <1>8
      <4>2. CASE b # k
        <5>1. b \in DOMAIN n.kids /\ f[b] = n.kids[b]
          BY <4>2, <1>8
        <5> QED
          BY <5>1, <1>1, <1>3, <1>4
      <4> QED
        BY <4>1, <4>2
    <3> QED
      BY <2>1, <3>1, <1>4, <1>10 DEF NodeOK
  <2>2. CASE q = x
    BY <2>2, <1>11 DEF NodeOK
  <2>3. CASE q \in 1 .. Len(h) /\ q # p
    <3>1. NodeOK(h, q) /\ g[q] = h[q] /\ Len(h) <= Len(g) /\ Len(g) \in Nat
      BY <2>3, <1>1, <1>3 DEF HeapOK
    <3> QED
      BY <3>1, <1>3, NodeKept
  <2> QED
    BY <2>1, <2>2, <2>3, <1>1, <1>3
<1>15. Grown(h, g)
  BY <1>1, <1>3, <1>10 DEF Grown
<1>16. LinkOK(n, D[p], P[p], k, e + 1, pn)
  <2>1. pn[e] = k
    BY <1>1, <1>5, <1>9
  <2>2. ASSUME NEW i \in 0 .. e - 1 PROVE pn[i] = P[p][i]
    <3>1. i \in Nat
      BY <1>5
    <3> QED
      BY <3>1, <1>2, <1>9
  <2> QED
    BY <2>1, <2>2, <1>1 DEF LinkOK, n
<1>17. Fits(g[x], e + 1, pn)
  <2>1. e + 1 <= Len(lf.key) + 1 /\ \A i \in 0 .. (e + 1) - 1 : i \in Nat
    BY <1>1, <1>5, <1>6
  <2>2. LeafOK(g[x], e + 1, pn)
    BY <2>1, <1>9, <1>11 DEF LeafOK
  <2> QED
    BY <2>2, <1>11 DEF Fits
<1>18. HangOK(h, g, r, A, D, P, U, p, k, x, {}, e + 1, pn)
  <2>1. p \in A \ {} /\ r \in A \ {} /\ x \in DOMAIN g /\ x \notin {} /\ p # x /\ r # x
        /\ A \subseteq DOMAIN g
    BY <1>3, <1>4, <1>12, <1>13
  <2>2. \A q \in A \ {} : q # p /\ q # x => g[q] = h[q]
    BY <1>1, <1>3
  <2>3. ~h[p].isLeaf /\ g[p].compressed = h[p].compressed
    BY <1>1, <1>10 DEF n
  <2>4. /\ DOMAIN g[p].kids \subseteq DOMAIN h[p].kids \cup {k} /\ g[p].kids[k] = x
        /\ \A b \in DOMAIN h[p].kids : b # k => g[p].kids[b] = h[p].kids[b]
    BY <1>8, <1>10 DEF n
  <2>5. ASSUME NEW q \in A, ~h[q].isLeaf, NEW b \in DOMAIN h[q].kids
        PROVE  h[q].kids[b] \notin {} \cup {x}
    <3>1. ChildIs(r, A, D, P, U, q, b, h[q].kids[b], D[q] + Len(h[q].compressed))
      BY <2>5, ChildFacts
    <3>2. h[q].kids[b] \in A
      BY <3>1 DEF ChildIs
    <3> QED
      BY <3>2, <1>3, <1>13
  <2>6. LinkOK(h[p], D[p], P[p], k, e + 1, pn)
    BY <1>16 DEF n
  <2> HIDE DEF x
  <2> QED
    BY <2>1, <2>2, <2>3, <2>4, <2>5, <2>6, <1>1, <1>10, <1>11, <1>17 DEF HangOK
<1>19. Tree(g, r)
  <2>1. e + 1 \in Nat
    BY <1>5
  <2> HIDE DEF x
  <2> QED
    BY <2>1, <1>1, <1>9, <1>18, Hang
<1>20. HangIs(h, g, A, p, k, x, LeafAt(lf))
  <2>1. x \notin A /\ \A q \in A : q # p => g[q] = h[q]
    BY <1>1, <1>3, <1>13
  <2>2. /\ DOMAIN g[p].kids = DOMAIN h[p].kids \cup {k} /\ g[p].kids[k] = x
        /\ \A b \in DOMAIN h[p].kids : b # k => g[p].kids[b] = h[p].kids[b]
    BY <1>8, <1>10 DEF n
  <2> HIDE DEF x
  <2> QED
    BY <2>1, <2>2, <1>1, <1>10, <1>11 DEF HangIs
<1> QED
  BY <1>14, <1>15, <1>19, <1>20 DEF Good

\* A key that agrees with the prefix of a node leads through it.
Leads(h, D, P, p, key) ==
    LET e == D[p] + Len(h[p].compressed)
    IN  e <= Len(key) /\ \A i \in 0 .. e - 1 : P[p][i] = At(key, i)

\* That is the case where the way of insertion ends without a mismatch.
LEMMA LeadsThrough ==
    ASSUME NEW h, HeapOK(h), NEW r, NEW A, NEW D \in Depths, NEW P \in Paths,
           NEW U \in Depths, Radix(h, r, A, D, P, U), NEW key \in Keys, NEW w,
           PlaceOK(h, r, A, D, P, key, w),
           compressedMismatch(h[w.node], key, w.depth) = Len(h[w.node].compressed)
    PROVE  Leads(h, D, P, w.node, key)
<1> DEFINE p == w.node
           n == h[p]
           d == w.depth
           c == n.compressed
           e == d + Len(c)
<1>1. /\ p \in A /\ ~n.isLeaf /\ d = D[p] /\ d \in Nat /\ d <= Len(key)
      /\ \A i \in 0 .. d - 1 : P[p][i] = At(key, i)
      /\ c \in Seq(Byte) /\ \A i \in 1 .. Len(c) : c[i] # 0
  BY DEF PlaceOK
<1>2. /\ e <= Len(key) /\ \A i \in 1 .. Len(c) : c[i] = At(key, d + i - 1)
  <2>1. LET mis == compressedMismatch(n, key, d)
        IN  /\ mis \in Nat /\ mis <= Len(c) /\ d + mis <= Len(key)
            /\ \A i \in 1 .. mis : c[i] = At(key, d + i - 1)
            /\ mis < Len(c) => c[mis + 1] # At(key, d + mis)
    BY <1>1, MismatchFacts
  <2> QED
    BY <2>1
<1>3. \A i \in 1 .. Len(c) : P[p][d + i - 1] = c[i]
  <2>1. InnerIs(h, D, P, p)
    BY <1>1, InnerFacts
  <2> QED
    BY <2>1, <1>1 DEF InnerIs
<1>4. Len(c) \in Nat
  BY <1>1, SeqElements
<1>5. e = D[w.node] + Len(h[w.node].compressed)
  BY <1>1
<1> HIDE DEF p, n, c, d
<1>6. ASSUME NEW i \in 0 .. e - 1 PROVE P[p][i] = At(key, i)
  <2>1. CASE i < d
    <3>1. i \in 0 .. d - 1
      BY <2>1, <1>1, <1>4
    <3> QED
      BY <3>1, <1>1
  <2>2. CASE i >= d
    <3> DEFINE j == i - d + 1
    <3>1. j \in 1 .. Len(c) /\ d + j - 1 = i
      BY <2>2, <1>1, <1>4
    <3> HIDE DEF j
    <3> QED
      BY <3>1, <1>2, <1>3
  <2> QED
    BY <2>1, <2>2, <1>1, <1>4
<1> HIDE DEF e
<1> QED
  BY <1>2, <1>5, <1>6 DEF p, Leads

\* A leaf is added to the heap.
LEMMA AppendLeaf ==
    ASSUME NEW h, HeapOK(h), NEW lf, lf.key \in Keys, lf.value \in Values \cup {Nil}
    PROVE  LET g == Append(h, LeafAt(lf))
           IN  /\ HeapOK(g) /\ Grown(h, g) /\ Len(g) = Len(h) + 1
               /\ g[Len(h) + 1] = LeafAt(lf) /\ \A q \in 1 .. Len(h) : g[q] = h[q]
<1> DEFINE g == Append(h, LeafAt(lf))
<1>1. IsSeq(h) /\ Len(h) \in Nat
  BY SeqFacts DEF HeapOK
<1>2. /\ IsSeq(g) /\ Len(g) = Len(h) + 1 /\ g[Len(h) + 1] = LeafAt(lf)
      /\ \A q \in 1 .. Len(h) : g[q] = h[q]
  BY <1>1, AppendFacts
<1> HIDE DEF g
<1>3. LeafAt(lf).isLeaf /\ LeafAt(lf) \in Leaves /\ LeafAt(lf).isLeaf \in BOOLEAN
  BY NewLeaf
<1>4. ASSUME NEW q \in 1 .. Len(g) PROVE NodeOK(g, q)
  <2>1. CASE q = Len(h) + 1
    BY <2>1, <1>2, <1>3 DEF NodeOK
  <2>2. CASE q \in 1 .. Len(h)
    <3>1. NodeOK(h, q) /\ g[q] = h[q] /\ Len(h) <= Len(g) /\ Len(g) \in Nat
      BY <2>2, <1>1, <1>2 DEF HeapOK
    <3> QED
      BY <3>1, <1>1, NodeKept
  <2> QED
    BY <2>1, <2>2, <1>1, <1>2
<1>5. Grown(h, g)
  BY <1>1, <1>2 DEF Grown
<1> QED
  BY <1>2, <1>4, <1>5 DEF HeapOK, g

\* A tree that is the new leaf.
LEMMA NewLeafTree ==
    ASSUME NEW h, HeapOK(h), NEW lf, lf.key \in Keys, lf.value \in Values \cup {Nil}
    PROVE  Good(h, Append(h, LeafAt(lf)), Len(h) + 1)
<1> DEFINE g == Append(h, LeafAt(lf))
<1>1. /\ HeapOK(g) /\ Grown(h, g) /\ Len(g) = Len(h) + 1 /\ g[Len(h) + 1] = LeafAt(lf)
  BY AppendLeaf
<1> HIDE DEF g
<1>2. Len(h) \in Nat
  BY SeqFacts DEF HeapOK
<1>3. Len(h) + 1 \in 1 .. Len(g) /\ g[Len(h) + 1].isLeaf
  BY <1>1, <1>2, NewLeaf
<1>4. Tree(g, Len(h) + 1)
  BY <1>1, <1>3, LeafTree
<1> QED
  BY <1>1, <1>4 DEF Good, g

\* Inner.insert of a key that is not there: the node takes a leaf more.
LEMMA AddTree ==
    ASSUME NEW h, HeapOK(h), NEW r, NEW A, NEW D \in Depths, NEW P \in Paths,
           NEW U \in Depths, Radix(h, r, A, D, P, U),
           NEW lf, lf.key \in Keys, lf.value \in Values \cup {Nil}, NEW w,
           PlaceOK(h, r, A, D, P, lf.key, w),
           compressedMismatch(h[w.node], lf.key, w.depth) = Len(h[w.node].compressed),
           NEW k, k = At(lf.key, w.depth + Len(h[w.node].compressed)),
           k \notin DOMAIN h[w.node].kids
    PROVE  /\ Good(h, addAt(h, w.node, lf, k), r)
           /\ HangIs(h, addAt(h, w.node, lf, k), A, w.node, k, Len(h) + 1, LeafAt(lf))
<1> DEFINE p == w.node
           n == h[p]
           kind == IF full(n) THEN Bigger(n.kind) ELSE n.kind
           e == D[p] + Len(n.compressed)
           f == WithKid(n.kids, k, Len(h) + 1)
           two == InnerAt(n.compressed, kind, f)
           g == addAt(h, p, lf, k)
<1>1. p \in A /\ ~n.isLeaf /\ w.depth = D[p]
  BY DEF PlaceOK
<1>2. /\ e <= Len(lf.key) /\ \A i \in 0 .. e - 1 : P[p][i] = At(lf.key, i)
  <2>1. Leads(h, D, P, p, lf.key)
    BY LeadsThrough
  <2> QED
    BY <2>1 DEF Leads
<1>3. k = At(lf.key, e)
  BY <1>1
<1>4. g = Put1(h, p, two, LeafAt(lf))
  BY DEF addAt, Put1
<1>5. IsSeq(h)
  BY DEF HeapOK
<1>6. InnerIs(h, D, P, p)
  BY <1>1, InnerFacts
<1>7. p \in 1 .. Len(h) /\ DOMAIN n.kids \subseteq Byte /\ Sized(n) /\ D[p] \in Nat
      /\ Len(n.compressed) \in Nat
  BY <1>6 DEF InnerIs
<1> HIDE DEF g, two
<1>8. /\ IsSeq(g) /\ Len(g) = Len(h) + 1 /\ g[p] = two /\ g[Len(h) + 1] = LeafAt(lf)
      /\ \A q \in 1 .. Len(h) : q # p => g[q] = h[q]
  BY <1>4, <1>5, <1>7, PutAppendOne
<1>9. k \in Byte
  <2>1. e \in Nat
    BY <1>7
  <2> QED
    BY <2>1, <1>3, KeyFacts
<1>10. HasKid(f, n.kids, k, Len(h) + 1)
  BY WithKidFacts
<1>11. DOMAIN f = DOMAIN n.kids \cup {k} /\ IsMap(f, DOMAIN n.kids \cup {k})
  BY <1>10 DEF HasKid
<1> HIDE DEF f, kind
<1>12. two.kind = kind /\ two.kids = f
  BY <1>11, NodeShape DEF two
<1>13. Sized(two)
  <2>1. k \notin DOMAIN n.kids
    OBVIOUS
  <2> HIDE DEF n
  <2>2. two.kind = IF full(n) THEN Bigger(n.kind) ELSE n.kind
    BY <1>12 DEF kind
  <2>3. DOMAIN two.kids = DOMAIN n.kids \cup {k}
    BY <1>11, <1>12
  <2> QED
    BY <2>1, <2>2, <2>3, <1>7, <1>9, SizedMore
<1>14. HangCase(h, g, D, P, p, lf, k, e, kind)
  BY <1>1, <1>2, <1>3, <1>8, <1>13 DEF HangCase, two, f
<1> HIDE DEF e, n
<1> QED
  BY <1>1, <1>14, HangLeaf DEF g

\* replace in the node at p, where the leaf that was added takes the place of
\* another child.
LEMMA SwapTree ==
    ASSUME NEW h, HeapOK(h), NEW r, NEW A, NEW D \in Depths, NEW P \in Paths,
           NEW U \in Depths, Radix(h, r, A, D, P, U),
           NEW lf, lf.key \in Keys, lf.value \in Values \cup {Nil}, NEW w,
           PlaceOK(h, r, A, D, P, lf.key, w),
           compressedMismatch(h[w.node], lf.key, w.depth) = Len(h[w.node].compressed),
           NEW k, k = At(lf.key, w.depth + Len(h[w.node].compressed)),
           k \in DOMAIN h[w.node].kids
    PROVE  LET g == replaceAt(Append(h, LeafAt(lf)), w.node, k, Len(h) + 1)
           IN  Good(h, g, r) /\ HangIs(h, g, A, w.node, k, Len(h) + 1, LeafAt(lf))
<1> DEFINE p == w.node
           n == h[p]
           e == D[p] + Len(n.compressed)
           f == WithKid(n.kids, k, Len(h) + 1)
           two == InnerAt(n.compressed, n.kind, f)
           a == Append(h, LeafAt(lf))
           g == replaceAt(a, p, k, Len(h) + 1)
<1>1. p \in A /\ ~n.isLeaf /\ w.depth = D[p]
  BY DEF PlaceOK
<1>2. /\ e <= Len(lf.key) /\ \A i \in 0 .. e - 1 : P[p][i] = At(lf.key, i)
  <2>1. Leads(h, D, P, p, lf.key)
    BY LeadsThrough
  <2> QED
    BY <2>1 DEF Leads
<1>3. k = At(lf.key, e) /\ k \in DOMAIN n.kids
  BY <1>1
<1>4. /\ HeapOK(a) /\ Len(a) = Len(h) + 1
      /\ a[Len(h) + 1] = LeafAt(lf) /\ \A q \in 1 .. Len(h) : a[q] = h[q]
  BY AppendLeaf
<1>5. IsSeq(a) /\ Len(h) \in Nat
  BY <1>4, SeqFacts DEF HeapOK
<1>6. InnerIs(h, D, P, p)
  BY <1>1, InnerFacts
<1>7. p \in 1 .. Len(h) /\ Sized(n) /\ p \in 1 .. Len(a) /\ a[p] = n
  <2>1. p \in 1 .. Len(h) /\ Sized(n)
    BY <1>6 DEF InnerIs
  <2> HIDE DEF a, n
  <2> QED
    BY <2>1, <1>4, <1>5 DEF n
<1> HIDE DEF a
<1>8. g = Put(a, p, two)
  BY <1>7 DEF replaceAt, Put
<1> HIDE DEF g, two
<1>9. /\ IsSeq(g) /\ Len(g) = Len(a) /\ g[p] = two
      /\ \A q \in 1 .. Len(a) : q # p => g[q] = a[q]
  BY <1>5, <1>7, <1>8, PutFacts
<1>10. /\ IsSeq(g) /\ Len(g) = Len(h) + 1 /\ g[p] = two /\ g[Len(h) + 1] = LeafAt(lf)
       /\ \A q \in 1 .. Len(h) : q # p => g[q] = h[q]
  BY <1>4, <1>5, <1>7, <1>9
<1>11. HasKid(f, n.kids, k, Len(h) + 1)
  BY WithKidFacts
<1>12. DOMAIN f = DOMAIN n.kids \cup {k} /\ IsMap(f, DOMAIN n.kids \cup {k})
  BY <1>11 DEF HasKid
<1>13. DOMAIN n.kids \cup {k} = DOMAIN n.kids
  BY <1>3
<1> HIDE DEF f
<1>14. two.kind = n.kind /\ two.kids = f
  BY <1>12, NodeShape DEF two
<1>15. Sized(two)
  BY <1>7, <1>12, <1>13, <1>14 DEF Sized
<1>16. HangCase(h, g, D, P, p, lf, k, e, n.kind)
  BY <1>1, <1>2, <1>3, <1>10, <1>15 DEF HangCase, two, f
<1> HIDE DEF e, n
<1> QED
  BY <1>1, <1>16, HangLeaf DEF g, a

\* A node of a heap is what its fields say, so that putting it again changes nothing.
LEMMA PutSame ==
    ASSUME NEW h, IsSeq(h), NEW p \in 1 .. Len(h), ~h[p].isLeaf, Shape(h[p]),
           NEW k \in DOMAIN h[p].kids
    PROVE  replaceAt(h, p, k, h[p].kids[k]) = h
<1> DEFINE n == h[p]
           f == WithKid(n.kids, k, n.kids[k])
<1>1. f = n.kids
  <2>1. DOMAIN n.kids \cup {k} = DOMAIN n.kids
    OBVIOUS
  <2>2. n.kids = [b \in DOMAIN n.kids |-> n.kids[b]]
    BY DEF Shape, IsMap
  <2>3. f = [b \in DOMAIN n.kids |-> IF b = k THEN n.kids[k] ELSE n.kids[b]]
    BY <2>1 DEF WithKid
  <2> QED
    BY <2>2, <2>3
<1>2. InnerAt(n.compressed, n.kind, f) = n
  BY <1>1 DEF Shape
<1>3. replaceAt(h, p, k, h[p].kids[k]) = [h EXCEPT ![p] = n]
  BY <1>2 DEF replaceAt
<1> QED
  BY <1>3 DEF IsSeq

\* The key of a place leads to the leaf at its byte.
LEMMA LeadsToLeaf ==
    ASSUME NEW h, HeapOK(h), NEW r, NEW A, NEW D \in Depths, NEW P \in Paths,
           NEW U \in Depths, Radix(h, r, A, D, P, U), NEW p \in A, ~h[p].isLeaf,
           NEW key \in Keys, Leads(h, D, P, p, key), NEW k \in DOMAIN h[p].kids,
           k = At(key, D[p] + Len(h[p].compressed))
    PROVE  LET c == h[p].kids[k] IN \A i \in 0 .. D[c] - 1 : P[c][i] = At(key, i)
<1> DEFINE c == h[p].kids[k]
           e == D[p] + Len(h[p].compressed)
<1>1. /\ e \in Nat /\ D[c] = e + 1 /\ P[c][e] = k /\ \A i \in 0 .. e - 1 : P[c][i] = P[p][i]
  <2>1. ChildIs(r, A, D, P, U, p, k, c, e)
    BY ChildFacts
  <2> QED
    BY <2>1 DEF ChildIs
<1>2. \A i \in 0 .. e - 1 : P[p][i] = At(key, i)
  BY DEF Leads
<1>3. k = At(key, e)
  OBVIOUS
<1> HIDE DEF e
<1>4. ASSUME NEW i \in 0 .. D[c] - 1 PROVE P[c][i] = At(key, i)
  <2>1. i = e \/ i \in 0 .. e - 1
    BY <1>1
  <2> QED
    BY <2>1, <1>1, <1>2, <1>3
<1> QED
  BY <1>4

-----------------------------------------------------------------------------
(* The nodes below the root *)

\* A is the set of the nodes below r: with every node its children, and every node
\* but r a child of one that is nearer to r by the measure M.
Spans(h, r, A, M) ==
    /\ r \in A /\ A \subseteq 1 .. Len(h)
    /\ \A q \in A : Kids(h[q]) \subseteq A
    /\ \A q \in A : q # r => \E p \in A : q \in Kids(h[p])
    /\ \A q \in A : \A c \in Kids(h[q]) : M[q] < M[c]

\* A radix tree with the nodes A and no others.
Exact(h, r, A, D, P, U) == Radix(h, r, A, D, P, U) /\ Spans(h, r, A, D)

\* Every radix tree has a set of nodes below its root.
LEMMA ExactExists ==
    ASSUME NEW h, HeapOK(h), NEW r, NEW A, NEW D \in Depths, NEW P \in Paths, NEW U,
           Radix(h, r, A, D, P, U)
    PROVE  \E B \in SUBSET A : Exact(h, r, B, D, P, U)
<1> DEFINE Closed(C) == r \in C /\ \A q \in C : Kids(h[q]) \subseteq C
           B == {q \in A : \A C \in SUBSET A : Closed(C) => q \in C}
<1>1. A \subseteq 1 .. Len(h) /\ r \in A /\ D[r] = 0
  BY SeqFacts DEF Radix, HeapOK
<1>2. Closed(A)
  <2>1. ASSUME NEW q \in A PROVE Kids(h[q]) \subseteq A
    BY DEF Kids, Radix, Linked
  <2> QED
    BY <2>1, <1>1
<1>3. B \subseteq A /\ r \in B
  BY <1>1
<1>4. ASSUME NEW q \in B, NEW c \in Kids(h[q]) PROVE c \in B
  <2>1. c \in A
    BY <1>2, <1>3
  <2>2. ASSUME NEW C \in SUBSET A, Closed(C) PROVE c \in C
    <3>1. q \in C
      BY <2>2
    <3> QED
      BY <3>1, <2>2
  <2> QED
    BY <2>1, <2>2
<1>5. Closed(B)
  BY <1>3, <1>4
<1>6. ASSUME NEW q \in B, q # r PROVE \E p \in B : q \in Kids(h[p])
  <2> SUFFICES ASSUME ~\E p \in B : q \in Kids(h[p]) PROVE FALSE
    OBVIOUS
  <2> DEFINE C == B \ {q}
  <2>1. C \in SUBSET A /\ r \in C
    BY <1>3, <1>6
  <2>2. \A s \in C : Kids(h[s]) \subseteq C
    BY <1>4
  <2>3. Closed(C)
    BY <2>1, <2>2
  <2>4. q \in C
    <3> HIDE DEF C, Closed
    <3> QED
      BY <2>1, <2>3
  <2> QED
    BY <2>4
<1> HIDE DEF B
<1>7. ASSUME NEW q \in B, NEW c \in Kids(h[q]) PROVE D[q] < D[c]
  <2>1. q \in A
    BY <1>3
  <2>2. ~h[q].isLeaf /\ \E b \in DOMAIN h[q].kids : c = h[q].kids[b]
    BY <1>7 DEF Kids
  <2>3. PICK b \in DOMAIN h[q].kids : c = h[q].kids[b]
    BY <2>2
  <2>4. ChildIs(r, A, D, P, U, q, b, c, D[q] + Len(h[q].compressed))
    BY <2>1, <2>2, <2>3, ChildFacts
  <2> QED
    BY <2>4 DEF ChildIs
<1>8. Spans(h, r, B, D)
  BY <1>1, <1>3, <1>4, <1>6, <1>7 DEF Spans
<1>9. Radix(h, r, B, D, P, U)
  <2>1. B \subseteq DOMAIN h /\ r \in B /\ D[r] = 0 /\ \A q \in B : Fits(h[q], D[q], P[q])
    BY <1>1, <1>3 DEF Radix
  <2>2. ASSUME NEW q \in B, ~h[q].isLeaf, NEW b \in DOMAIN h[q].kids
        PROVE  Linked(h, r, B, D, P, U, q, b)
    <3>1. Linked(h, r, A, D, P, U, q, b)
      BY <2>2, <1>3 DEF Radix
    <3>2. h[q].kids[b] \in B
      BY <2>2, <1>4 DEF Kids
    <3> QED
      BY <3>1, <3>2 DEF Linked
  <2> QED
    BY <2>1, <2>2 DEF Radix
<1> QED
  BY <1>3, <1>8, <1>9 DEF Exact

\* The measure has a largest value among the nodes.
LEMMA Bounded ==
    ASSUME NEW M \in Depths, NEW N \in Nat
    PROVE  \E b \in Nat : \A i \in 1 .. N : M[i] <= b
<1> DEFINE Has(n) == \E b \in Nat : \A i \in 1 .. n : M[i] <= b
           S == {n \in Nat : ~Has(n)}
<1>0. \A i \in Nat : M[i] \in Nat
  BY DEF Depths
<1>1. Has(0)
  BY DEF Depths
<1>2. ASSUME NEW n \in Nat, Has(n) PROVE Has(n + 1)
  <2>1. PICK b \in Nat : \A i \in 1 .. n : M[i] <= b
    BY <1>2
  <2>2. M[n + 1] \in Nat
    BY <1>0
  <2>3. \A i \in 1 .. n + 1 : M[i] <= b + M[n + 1]
    <3> SUFFICES ASSUME NEW i \in 1 .. n + 1 PROVE M[i] <= b + M[n + 1]
      OBVIOUS
    <3>1. M[i] \in Nat /\ (i \in 1 .. n \/ i = n + 1)
      BY <1>0
    <3> QED
      BY <3>1, <2>1, <2>2
  <2>4. b + M[n + 1] \in Nat
    BY <2>2
  <2> QED
    BY <2>3, <2>4
<1> HIDE DEF Has
<1>3. S = {}
  <2> SUFFICES ASSUME S # {} PROVE FALSE
    OBVIOUS
  <2> DEFINE m == Min(S)
  <2>1. m \in S /\ \A y \in S : m <= y
    BY MinOfNats
  <2> HIDE DEF m
  <2>2. m \in Nat /\ m # 0 /\ ~Has(m)
    BY <2>1, <1>1
  <2>3. m - 1 \in Nat /\ m - 1 \notin S
    BY <2>1, <2>2
  <2>4. Has((m - 1) + 1)
    BY <2>3, <1>2
  <2>5. (m - 1) + 1 = m
    BY <2>2
  <2> QED
    BY <2>2, <2>4, <2>5
<1>4. Has(N)
  BY <1>3
<1> QED
  BY <1>4 DEF Has

\* A set of nodes has one that is last by the measure, ...
LEMMA LastNode ==
    ASSUME NEW M \in Depths, NEW N \in Nat, NEW S \in SUBSET (1 .. N), S # {}
    PROVE  \E q \in S : \A s \in S : M[s] <= M[q]
<1>1. PICK b \in Nat : \A i \in 1 .. N : M[i] <= b
  BY Bounded
<1> DEFINE T == {M[s] : s \in S}
<1>2. \A s \in S : M[s] \in 0 .. b
  BY <1>1 DEF Depths
<1>3. T \in SUBSET (0 .. b) /\ T # {}
  BY <1>2
<1>4. Max(T) \in T /\ \A x \in T : Max(T) >= x
  BY <1>3, MaxOfNats
<1>5. PICK q \in S : Max(T) = M[q]
  BY <1>4
<1>6. ASSUME NEW s \in S PROVE M[s] <= M[q]
  <2>0. M[s] \in 0 .. b /\ M[q] \in 0 .. b
    BY <1>2
  <2>1. M[s] \in T /\ M[s] \in Nat /\ M[q] \in Nat
    BY <2>0
  <2>2. M[q] >= M[s]
    BY <2>1, <1>4, <1>5
  <2> QED
    BY <2>1, <2>2
<1> QED
  BY <1>6

\* ... and one that is first.
LEMMA FirstNode ==
    ASSUME NEW M \in Depths, NEW S \in SUBSET Nat, S # {}
    PROVE  \E q \in S : \A s \in S : M[q] <= M[s]
<1> DEFINE T == {M[s] : s \in S}
<1>1. T \in SUBSET Nat /\ T # {}
  BY DEF Depths
<1>2. Min(T) \in T /\ \A x \in T : Min(T) <= x
  BY <1>1, MinOfNats
<1>3. PICK q \in S : Min(T) = M[q]
  BY <1>2
<1> QED
  BY <1>2, <1>3

\* A set with the root and the children of its nodes has all nodes below the root.
LEMMA SpansLeast ==
    ASSUME NEW h, HeapOK(h), NEW r, NEW A, NEW M \in Depths, Spans(h, r, A, M),
           NEW C, r \in C, \A q \in C : Kids(h[q]) \subseteq C
    PROVE  A \subseteq C
<1> SUFFICES ASSUME A \ C # {} PROVE FALSE
  OBVIOUS
<1> DEFINE S == A \ C
<1>1. A \subseteq 1 .. Len(h) /\ Len(h) \in Nat
  BY SeqFacts DEF Spans, HeapOK
<1>2. S \in SUBSET Nat /\ S # {}
  <2>1. 1 .. Len(h) \subseteq Nat
    BY <1>1
  <2> QED
    BY <2>1, <1>1
<1>3. PICK q \in S : \A s \in S : M[q] <= M[s]
  BY <1>2, FirstNode
<1>4. q \in A /\ q \notin C /\ q # r
  BY <1>3
<1>5. PICK p \in A : q \in Kids(h[p])
  BY <1>4 DEF Spans
<1>6. M[p] < M[q] /\ M[p] \in Nat /\ M[q] \in Nat
  BY <1>1, <1>4, <1>5 DEF Spans, Depths
<1>7. p \notin S
  BY <1>3, <1>6
<1> QED
  BY <1>4, <1>5, <1>7

\* What a set of nodes and all below them has in common with Reach.
Below(h, f) ==
    f = [q \in DOMAIN h |->
            IF h[q].isLeaf THEN {q}
            ELSE {q} \cup UNION {f[h[q].kids[b]] : b \in DOMAIN h[q].kids}]

\* There is such a function in every heap, ...
LEMMA BelowExists ==
    ASSUME NEW h, HeapOK(h)
    PROVE  \E f : Below(h, f)
<1> DEFINE N == 1 .. Len(h)
           Closed(C) == \A q \in C : Kids(h[q]) \subseteq C
           Cone(q) == {s \in N : \A C \in SUBSET N : q \in C /\ Closed(C) => s \in C}
           f == [q \in DOMAIN h |-> Cone(q)]
<1>1. DOMAIN h = N
  BY SeqFacts DEF HeapOK
<1>2. \A q \in N : Kids(h[q]) \subseteq N
  BY DEF HeapOK, NodeOK, Kids
<1> HIDE DEF N
<1>3. ASSUME NEW q \in N
      PROVE  Cone(q) = {q} \cup UNION {Cone(c) : c \in Kids(h[q])}
  <2> DEFINE E == {q} \cup UNION {Cone(c) : c \in Kids(h[q])}
  <2>1. \A s \in N : s \in Cone(s)
    OBVIOUS
  <2>2. ASSUME NEW s \in N, NEW x \in Cone(s), NEW y \in Kids(h[x]) PROVE y \in Cone(s)
    <3>1. x \in N /\ y \in N
      BY <2>2, <1>2
    <3>2. ASSUME NEW C \in SUBSET N, s \in C, Closed(C) PROVE y \in C
      <4>1. x \in C
        BY <2>2, <3>2
      <4> QED
        BY <4>1, <2>2, <3>2
    <3> QED
      BY <3>1, <3>2
  <2>3. E \subseteq Cone(q)
    <3>1. ASSUME NEW c \in Kids(h[q]), NEW s \in Cone(c) PROVE s \in Cone(q)
      <4>1. c \in N /\ s \in N
        BY <3>1, <1>2
      <4>2. ASSUME NEW C \in SUBSET N, q \in C, Closed(C) PROVE s \in C
        <5>1. c \in C
          BY <3>1, <4>2
        <5> QED
          BY <5>1, <3>1, <4>2
      <4> QED
        BY <4>1, <4>2
    <3> HIDE DEF Cone
    <3> QED
      BY <2>1, <3>1
  <2>4. Cone(q) \subseteq E
    <3>1. E \subseteq N /\ q \in E
      OBVIOUS
    <3>2. ASSUME NEW x \in E, NEW y \in Kids(h[x]) PROVE y \in E
      <4>1. CASE x = q
        <5>1. y \in N /\ y \in Kids(h[q])
          BY <3>2, <4>1, <1>2
        <5>2. y \in Cone(y)
          BY <5>1, <2>1
        <5> HIDE DEF Cone
        <5> QED
          BY <5>1, <5>2
      <4>2. CASE \E c \in Kids(h[q]) : x \in Cone(c)
        <5>1. PICK c \in Kids(h[q]) : x \in Cone(c)
          BY <4>2
        <5>2. c \in N
          BY <1>2
        <5>3. y \in Cone(c)
          BY <5>1, <5>2, <3>2, <2>2
        <5> HIDE DEF Cone
        <5> QED
          BY <5>1, <5>3
      <4> HIDE DEF Cone
      <4> QED
        BY <4>1, <4>2, <3>2
    <3>3. Closed(E)
      <4> HIDE DEF E
      <4> QED
        BY <3>2
    <3> HIDE DEF E, Closed
    <3> QED
      BY <3>1, <3>3
  <2> HIDE DEF Cone
  <2> QED
    BY <2>3, <2>4
<1> HIDE DEF Cone
<1>4. ASSUME NEW q \in N
      PROVE  f[q] = IF h[q].isLeaf THEN {q}
                    ELSE {q} \cup UNION {f[h[q].kids[b]] : b \in DOMAIN h[q].kids}
  <2>1. f[q] = {q} \cup UNION {Cone(c) : c \in Kids(h[q])}
    BY <1>1, <1>3
  <2>2. CASE h[q].isLeaf
    BY <2>1, <2>2 DEF Kids
  <2>3. CASE ~h[q].isLeaf
    <3>1. Kids(h[q]) = {h[q].kids[b] : b \in DOMAIN h[q].kids}
      BY <2>3 DEF Kids
    <3>2. \A b \in DOMAIN h[q].kids : f[h[q].kids[b]] = Cone(h[q].kids[b])
      BY <3>1, <1>1, <1>2
    <3>3. {Cone(c) : c \in Kids(h[q])} = {f[h[q].kids[b]] : b \in DOMAIN h[q].kids}
      <4> HIDE DEF f
      <4> QED
        BY <3>1, <3>2
    <3> QED
      BY <2>1, <2>3, <3>3
  <2> QED
    BY <2>2, <2>3
<1>5. Below(h, f)
  <2> DEFINE g == [q \in DOMAIN h |->
                      IF h[q].isLeaf THEN {q}
                      ELSE {q} \cup UNION {f[h[q].kids[b]] : b \in DOMAIN h[q].kids}]
  <2>1. \A q \in DOMAIN h : f[q] = g[q]
    BY <1>1, <1>4
  <2>2. f = [q \in DOMAIN h |-> f[q]]
    OBVIOUS
  <2>3. f = g
    <3> HIDE DEF f
    <3> QED
      BY <2>1, <2>2
  <2> QED
    BY <2>3 DEF Below
<1> QED
  BY <1>5

\* ... and at the root its value is the set of the nodes below.
LEMMA BelowIs ==
    ASSUME NEW h, HeapOK(h), NEW r, NEW A, NEW M \in Depths, Spans(h, r, A, M),
           NEW f, Below(h, f)
    PROVE  f[r] = A
<1>1. r \in A /\ A \subseteq 1 .. Len(h) /\ Len(h) \in Nat /\ DOMAIN h = 1 .. Len(h)
  BY SeqFacts DEF Spans, HeapOK
<1>2. ASSUME NEW q \in A
      PROVE  /\ Kids(h[q]) \subseteq A
             /\ f[q] = {q} \cup UNION {f[c] : c \in Kids(h[q])}
             /\ \A c \in Kids(h[q]) : c \in A /\ ~(M[c] <= M[q])
  <2>1. Kids(h[q]) \subseteq A /\ \A c \in Kids(h[q]) : M[q] < M[c]
    BY DEF Spans
  <2>2. \A s \in A : M[s] \in Nat
    BY <1>1 DEF Depths
  <2>3. f[q] = IF h[q].isLeaf THEN {q}
               ELSE {q} \cup UNION {f[h[q].kids[b]] : b \in DOMAIN h[q].kids}
    BY <1>1 DEF Below
  <2>4. CASE h[q].isLeaf
    BY <2>3, <2>4, <2>1, <2>2 DEF Kids
  <2>5. CASE ~h[q].isLeaf
    <3>1. Kids(h[q]) = {h[q].kids[b] : b \in DOMAIN h[q].kids}
      BY <2>5 DEF Kids
    <3>2. {f[c] : c \in Kids(h[q])} = {f[h[q].kids[b]] : b \in DOMAIN h[q].kids}
      BY <3>1
    <3>3. f[q] = {q} \cup UNION {f[c] : c \in Kids(h[q])}
      BY <3>2, <2>3, <2>5
    <3>4. \A c \in Kids(h[q]) : c \in A /\ ~(M[c] <= M[q])
      BY <2>1, <2>2
    <3> QED
      BY <3>3, <3>4, <2>1
  <2> QED
    BY <2>4, <2>5
<1> DEFINE Good1(q) == f[q] \subseteq A /\ \A s \in f[q] : Kids(h[s]) \subseteq f[q]
           S == {q \in A : ~Good1(q)}
<1>3. ASSUME NEW q \in A, \A c \in Kids(h[q]) : Good1(c) PROVE Good1(q)
  <2>1. f[q] = {q} \cup UNION {f[c] : c \in Kids(h[q])} /\ Kids(h[q]) \subseteq A
    BY <1>2
  <2>2. f[q] \subseteq A
    BY <2>1, <1>3
  <2>3. ASSUME NEW s \in f[q] PROVE Kids(h[s]) \subseteq f[q]
    <3>1. CASE s = q
      <4>1. ASSUME NEW c \in Kids(h[q]) PROVE c \in f[c]
        <5>1. c \in A
          BY <2>1
        <5> QED
          BY <5>1, <1>2
      <4> QED
        BY <4>1, <3>1, <2>1
    <3>2. CASE \E c \in Kids(h[q]) : s \in f[c]
      <4>1. PICK c \in Kids(h[q]) : s \in f[c]
        BY <3>2
      <4>2. Kids(h[s]) \subseteq f[c]
        BY <4>1, <1>3
      <4> QED
        BY <4>1, <4>2, <2>1
    <3> QED
      BY <3>1, <3>2, <2>1, <2>3
  <2> QED
    BY <2>2, <2>3
<1> HIDE DEF Good1
<1>4. S = {}
  <2> SUFFICES ASSUME S # {} PROVE FALSE
    OBVIOUS
  <2>1. S \in SUBSET (1 .. Len(h))
    BY <1>1
  <2>2. PICK q \in S : \A s \in S : M[s] <= M[q]
    BY <2>1, <1>1, LastNode
  <2>3. \A c \in Kids(h[q]) : c \in A /\ c \notin S
    BY <2>2, <1>2
  <2>4. \A c \in Kids(h[q]) : Good1(c)
    BY <2>3
  <2> QED
    BY <2>4, <2>2, <1>3
<1>5. Good1(r)
  BY <1>1, <1>4
<1>6. f[r] \subseteq A /\ r \in f[r] /\ \A s \in f[r] : Kids(h[s]) \subseteq f[r]
  BY <1>1, <1>2, <1>5 DEF Good1
<1>7. A \subseteq f[r]
  BY <1>6, SpansLeast
<1> QED
  BY <1>6, <1>7

\* The leaves of a set of nodes.
Content(h, A) == {h[q] : q \in {s \in A : h[s].isLeaf}}

\* The leaves below the root are those of the nodes below it.
LEMMA ContentIs ==
    ASSUME NEW h, HeapOK(h), NEW r, r # Nil, NEW A, NEW M \in Depths, Spans(h, r, A, M)
    PROVE  LeavesBelow(h, r) = Content(h, A)
<1> DEFINE G == CHOOSE f : Below(h, f)
<1>1. Below(h, G)
  BY BelowExists
<1>2. Reach(h, r) = G[r]
  BY DEF Reach, Below
<1> HIDE DEF G
<1>3. Reach(h, r) = A
  BY <1>1, <1>2, BelowIs
<1> QED
  BY <1>3 DEF LeavesBelow, Content

-----------------------------------------------------------------------------
(* The nodes that a key leads to *)

On(A, D, P, key) == {q \in A : \A i \in 0 .. D[q] - 1 : P[q][i] = At(key, i)}

\* The parent p of a node q that the key leads to.
ParentIs(h, A, D, P, key, p, q) ==
    /\ p \in On(A, D, P, key) /\ p \in A /\ ~h[p].isLeaf
    /\ Len(h[p].compressed) \in Nat /\ D[p] \in Nat
    /\ D[q] = D[p] + Len(h[p].compressed) + 1
    /\ At(key, D[p] + Len(h[p].compressed)) \in DOMAIN h[p].kids
    /\ h[p].kids[At(key, D[p] + Len(h[p].compressed))] = q
    /\ \A i \in 0 .. D[p] + Len(h[p].compressed) - 1 : P[p][i] = At(key, i)

\* A key that leads to a node leads to its parent.
LEMMA ParentFacts ==
    ASSUME NEW h, HeapOK(h), NEW r, NEW A, NEW D \in Depths, NEW P \in Paths, NEW U,
           Exact(h, r, A, D, P, U), NEW key, NEW q \in On(A, D, P, key), q # r
    PROVE  \E p \in A : ParentIs(h, A, D, P, key, p, q)
<1>1. q \in A /\ \A i \in 0 .. D[q] - 1 : P[q][i] = At(key, i)
  BY DEF On
<1>2. Radix(h, r, A, D, P, U) /\ Spans(h, r, A, D)
  BY DEF Exact
<1>3. PICK p \in A : q \in Kids(h[p])
  BY <1>1, <1>2 DEF Spans
<1>4. ~h[p].isLeaf /\ \E b \in DOMAIN h[p].kids : q = h[p].kids[b]
  BY <1>3 DEF Kids
<1>5. PICK b \in DOMAIN h[p].kids : q = h[p].kids[b]
  BY <1>4
<1> DEFINE e == D[p] + Len(h[p].compressed)
<1>6. ChildIs(r, A, D, P, U, p, b, q, e)
  BY <1>2, <1>4, <1>5, ChildFacts
<1>7. InnerIs(h, D, P, p)
  BY <1>2, <1>4, InnerFacts
<1>8. D[p] \in Nat /\ Len(h[p].compressed) \in Nat
  BY <1>7 DEF InnerIs
<1>9. /\ e \in Nat /\ D[q] = e + 1 /\ P[q][e] = b
      /\ \A i \in 0 .. e - 1 : P[q][i] = P[p][i]
  BY <1>6 DEF ChildIs
<1>10. D[p] <= e /\ D[q] = D[p] + Len(h[p].compressed) + 1
  BY <1>8, <1>9
<1> HIDE DEF e
<1>11. b = At(key, e)
  <2>1. e \in 0 .. D[q] - 1
    BY <1>9
  <2> QED
    BY <2>1, <1>1, <1>9
<1>12. \A i \in 0 .. e - 1 : P[p][i] = At(key, i)
  <2> SUFFICES ASSUME NEW i \in 0 .. e - 1 PROVE P[p][i] = At(key, i)
    OBVIOUS
  <2>1. i \in 0 .. D[q] - 1
    BY <1>9
  <2> QED
    BY <2>1, <1>1, <1>9
<1>13. p \in On(A, D, P, key)
  <2>1. \A i \in 0 .. D[p] - 1 : i \in 0 .. e - 1
    BY <1>8, <1>9, <1>10
  <2> QED
    BY <2>1, <1>12 DEF On
<1>14. ParentIs(h, A, D, P, key, p, q)
  BY <1>4, <1>5, <1>8, <1>10, <1>11, <1>12, <1>13 DEF ParentIs, e
<1> QED
  BY <1>14

\* Node b begins within node a: from its depth to the end of its prefix, or of
\* all keys if it is a leaf.
Meets(h, D, a, b) ==
    D[a] <= D[b] /\ (h[a].isLeaf \/ D[b] <= D[a] + Len(h[a].compressed))

\* Of the nodes that a key leads to no two cover the same byte.
LEMMA OneNode ==
    ASSUME NEW h, HeapOK(h), NEW r, NEW A, NEW D \in Depths, NEW P \in Paths, NEW U,
           Exact(h, r, A, D, P, U), NEW key,
           NEW x \in On(A, D, P, key), NEW y \in On(A, D, P, key), Meets(h, D, x, y)
    PROVE  x = y
<1> DEFINE O == On(A, D, P, key)
           Bad(n) == \E a, b \in O : a # b /\ Meets(h, D, a, b) /\ n = D[a] + D[b]
           S == {n \in Nat : Bad(n)}
<1>1. Radix(h, r, A, D, P, U) /\ Spans(h, r, A, D)
  BY DEF Exact
<1>2. /\ r \in A /\ D[r] = 0 /\ A \subseteq 1 .. Len(h) /\ Len(h) \in Nat
      /\ \A q \in A : D[q] \in Nat
  <2>1. A \subseteq 1 .. Len(h) /\ Len(h) \in Nat
    BY <1>1, SeqFacts DEF Spans, HeapOK
  <2> QED
    BY <2>1, <1>1, SMTT(30) DEF Radix, Depths
<1>20. \A q \in O : q \in A /\ D[q] \in Nat
  BY <1>2 DEF On
<1>3. O \subseteq A
  BY DEF On
<1>4. ASSUME NEW q \in O, q # r PROVE \E p \in A : ParentIs(h, A, D, P, key, p, q)
  BY <1>4, ParentFacts
<1>5. S = {}
  <2> SUFFICES ASSUME S # {} PROVE FALSE
    OBVIOUS
  <2> DEFINE m == Min(S)
  <2>1. m \in S /\ \A n \in S : m <= n
    BY MinOfNats
  <2> HIDE DEF m
  <2>2. PICK a \in O, b \in O : a # b /\ Meets(h, D, a, b) /\ m = D[a] + D[b]
    BY <2>1
  <2>3. a \in A /\ b \in A /\ D[a] \in Nat /\ D[b] \in Nat
    BY <1>2, <1>3
  <2>4. ASSUME NEW p \in O, NEW q \in O, D[p] + D[q] < m,
               Meets(h, D, p, q) \/ Meets(h, D, q, p)
        PROVE  p = q
    <3> SUFFICES ASSUME p # q PROVE FALSE
      OBVIOUS
    <3>1. D[p] \in Nat /\ D[q] \in Nat
      <4> HIDE DEF O, S
      <4> QED
        BY <1>20
    <3>2. D[p] + D[q] \in Nat /\ D[p] + D[q] = D[q] + D[p]
      BY <3>1
    <3>3. Bad(D[p] + D[q])
      BY <2>4, <3>2
    <3>4. D[p] + D[q] \in S
      BY <3>2, <3>3
    <3>5. m \in Nat
      BY <2>1
    <3> HIDE DEF S
    <3>6. m <= D[p] + D[q]
      BY <3>4, <2>1
    <3> QED
      BY <3>2, <3>5, <3>6, <2>4
  <2>5. D[a] <= D[b] /\ (h[a].isLeaf \/ D[b] <= D[a] + Len(h[a].compressed))
    BY <2>2 DEF Meets
  <2> HIDE DEF O, S
  <2>6. b # r
    <3> SUFFICES ASSUME b = r PROVE FALSE
      OBVIOUS
    <3>1. a # r /\ D[a] = 0
      BY <2>2, <2>3, <2>5, <1>2
    <3>2. PICK p \in A : ParentIs(h, A, D, P, key, p, a)
      BY <3>1, <1>4
    <3> QED
      BY <3>1, <3>2 DEF ParentIs
  <2>7. PICK p \in A : ParentIs(h, A, D, P, key, p, b)
    BY <2>6, <1>4
  <2> DEFINE e == D[p] + Len(h[p].compressed)
  <2>8. /\ p \in O /\ ~h[p].isLeaf /\ Len(h[p].compressed) \in Nat /\ D[p] \in Nat
        /\ D[b] = e + 1 /\ h[p].kids[At(key, e)] = b
    BY <2>7 DEF ParentIs, O
  <2>9. CASE D[a] < D[b]
    <3>1. Meets(h, D, a, p) \/ Meets(h, D, p, a)
      <4>1. CASE D[a] <= D[p]
        <5>1. D[p] < D[b]
          BY <2>8
        <5>2. h[a].isLeaf \/ D[p] <= D[a] + Len(h[a].compressed)
          <6> SUFFICES ASSUME ~h[a].isLeaf PROVE D[p] <= D[a] + Len(h[a].compressed)
            OBVIOUS
          <6>1. InnerIs(h, D, P, a)
            BY <1>1, <2>3, InnerFacts
          <6>2. Len(h[a].compressed) \in Nat
            BY <6>1 DEF InnerIs
          <6> QED
            BY <6>2, <5>1, <2>3, <2>5, <2>8
        <5> QED
          BY <4>1, <5>2 DEF Meets
      <4>2. CASE ~(D[a] <= D[p])
        <5>1. D[p] <= D[a] /\ D[a] <= e
          BY <4>2, <2>3, <2>8, <2>9
        <5> QED
          BY <5>1 DEF Meets
      <4> QED
        BY <4>1, <4>2
    <3>2. D[a] + D[p] < m
      BY <2>2, <2>3, <2>8
    <3>3. a = p
      BY <3>1, <3>2, <2>2, <2>8, <2>4
    <3> QED
      BY <3>3, <2>5, <2>8
  <2>10. CASE D[a] = D[b]
    <3>1. a # r
      BY <2>8, <2>10, <1>2
    <3>2. PICK q \in A : ParentIs(h, A, D, P, key, q, a)
      BY <3>1, <1>4
    <3>3. /\ q \in O /\ ~h[q].isLeaf /\ Len(h[q].compressed) \in Nat /\ D[q] \in Nat
          /\ D[a] = D[q] + Len(h[q].compressed) + 1
          /\ h[q].kids[At(key, D[q] + Len(h[q].compressed))] = a
      BY <3>2 DEF ParentIs, O
    <3> HIDE DEF e
    <3>4. D[q] + Len(h[q].compressed) = e /\ D[q] <= e /\ D[p] <= e
      <4>1. e = D[p] + Len(h[p].compressed)
        BY DEF e
      <4>2. e \in Nat /\ D[p] <= e
        BY <4>1, <2>8
      <4> DEFINE v == D[q] + Len(h[q].compressed)
      <4>3. v \in Nat /\ D[q] <= v
        BY <3>3
      <4>4. v + 1 = e + 1
        BY <3>3, <2>8, <2>10
      <4> HIDE DEF v
      <4>5. v = e
        BY <4>2, <4>3, <4>4
      <4> QED
        BY <4>2, <4>3, <4>5 DEF v
    <3>5. Meets(h, D, p, q) \/ Meets(h, D, q, p)
      BY <3>3, <3>4, <2>8 DEF Meets, e
    <3>6. D[p] + D[q] < m
      <4>1. D[q] < D[a] /\ D[p] < D[b]
        BY <3>3, <3>4, <2>8, <2>10
      <4> QED
        BY <4>1, <2>2, <2>3, <2>8, <3>3
    <3>7. p = q
      BY <3>3, <3>5, <3>6, <2>8, <2>4
    <3> QED
      BY <3>3, <3>4, <3>7, <2>2, <2>8
  <2> QED
    BY <2>3, <2>5, <2>9, <2>10
<1>6. D[x] + D[y] \in Nat
  <2>1. x \in O /\ y \in O
    OBVIOUS
  <2> HIDE DEF O, S, Bad
  <2>2. D[x] \in Nat /\ D[y] \in Nat
    BY <2>1, <1>20
  <2> QED
    BY <2>2
<1>7. ~Bad(D[x] + D[y])
  BY <1>5, <1>6
<1> QED
  BY <1>7

\* No two leaves of a radix tree have the same key.
LEMMA OneLeaf ==
    ASSUME NEW h, HeapOK(h), NEW r, NEW A, NEW D \in Depths, NEW P \in Paths, NEW U,
           Exact(h, r, A, D, P, U), NEW a \in A, NEW b \in A, h[a].isLeaf, h[b].isLeaf,
           h[a].key = h[b].key
    PROVE  a = b
<1> DEFINE key == h[a].key
<1>1. A \subseteq 1 .. Len(h) /\ Len(h) \in Nat /\ Radix(h, r, A, D, P, U)
  BY SeqFacts DEF Exact, Spans, HeapOK
<1>2. D[a] \in Nat /\ D[b] \in Nat
  BY <1>1 DEF Depths
<1>3. LeafOK(h[a], D[a], P[a]) /\ LeafOK(h[b], D[b], P[b])
  BY <1>1 DEF Radix, Fits
<1>4. a \in On(A, D, P, key) /\ b \in On(A, D, P, key)
  BY <1>3 DEF On, LeafOK
<1> HIDE DEF key
<1>5. CASE D[a] <= D[b]
  <2>1. Meets(h, D, a, b)
    BY <1>5 DEF Meets
  <2> QED
    BY <2>1, <1>4, OneNode
<1>6. CASE D[b] <= D[a]
  <2>1. Meets(h, D, b, a)
    BY <1>6 DEF Meets
  <2> QED
    BY <2>1, <1>4, OneNode
<1> QED
  BY <1>2, <1>5, <1>6

-----------------------------------------------------------------------------
(* The nodes below the root after a change *)

\* The new nodes X come below p, which may give its former children to them.
MoreNodes(h, g, A, X, p) ==
    /\ p \in A /\ X \subseteq Kids(g[p])
    /\ \A q \in A \cup X : Kids(g[q]) \subseteq A \cup X
    /\ \A q \in A : q # p => Kids(h[q]) \subseteq Kids(g[q])
    /\ \A c \in Kids(h[p]) : \E s \in {p} \cup X : c \in Kids(g[s])

\* They are all that is new below the root.
LEMMA NodesMore ==
    ASSUME NEW h, HeapOK(h), NEW g, HeapOK(g), NEW r,
           NEW A, NEW M \in Depths, Spans(h, r, A, M),
           NEW B, NEW N \in Depths, Spans(g, r, B, N),
           NEW X, NEW p, MoreNodes(h, g, A, X, p)
    PROVE  B = A \cup X
<1>0. /\ p \in A /\ X \subseteq Kids(g[p])
      /\ \A q \in A \cup X : Kids(g[q]) \subseteq A \cup X
      /\ \A q \in A : q # p => Kids(h[q]) \subseteq Kids(g[q])
      /\ \A c \in Kids(h[p]) : \E s \in {p} \cup X : c \in Kids(g[s])
  BY DEF MoreNodes
<1>1. r \in A /\ r \in B /\ (\A q \in A : Kids(h[q]) \subseteq A)
      /\ \A q \in B : Kids(g[q]) \subseteq B
  BY DEF Spans
<1>2. B \subseteq A \cup X
  <2> DEFINE C == A \cup X
  <2>1. r \in C /\ \A q \in C : Kids(g[q]) \subseteq C
    BY <1>0, <1>1
  <2> HIDE DEF C
  <2>2. B \subseteq C
    BY <2>1, SpansLeast
  <2> QED
    BY <2>2 DEF C
<1>3. A \subseteq B
  <2> DEFINE C == A \cap B
  <2>1. ASSUME NEW q \in C, NEW c \in Kids(h[q]) PROVE c \in C
    <3>1. c \in A
      BY <1>1
    <3>2. CASE q # p
      BY <3>1, <3>2, <1>0, <1>1
    <3>3. CASE q = p
      <4>1. PICK s \in {p} \cup X : c \in Kids(g[s])
        BY <3>3, <1>0
      <4>2. s \in B
        BY <1>0, <1>1, <3>3
      <4> QED
        BY <3>1, <4>1, <4>2, <1>1
    <3> QED
      BY <3>2, <3>3
  <2>2. r \in C /\ \A q \in C : Kids(h[q]) \subseteq C
    BY <2>1, <1>1
  <2> HIDE DEF C
  <2>3. A \subseteq C
    BY <2>2, SpansLeast
  <2> QED
    BY <2>3 DEF C
<1>4. X \subseteq B
  BY <1>0, <1>1, <1>3
<1> QED
  BY <1>2, <1>3, <1>4

\* The leaf c leaves the tree, and the new nodes X come below p.
FewerNodes(h, g, r, A, X, p, c) ==
    /\ r # c /\ h[c].isLeaf /\ c \notin X /\ p \in A /\ p # c /\ X \subseteq Kids(g[p])
    /\ \A q \in (A \ {c}) \cup X : Kids(g[q]) \subseteq (A \ {c}) \cup X
    /\ \A q \in A : q # c => Kids(h[q]) \subseteq Kids(g[q]) \cup {c}

\* That is all that changes below the root.
LEMMA NodesFewer ==
    ASSUME NEW h, HeapOK(h), NEW g, HeapOK(g), NEW r,
           NEW A, NEW M \in Depths, Spans(h, r, A, M),
           NEW B, NEW N \in Depths, Spans(g, r, B, N),
           NEW X, NEW p, NEW c, FewerNodes(h, g, r, A, X, p, c)
    PROVE  B = (A \ {c}) \cup X
<1>0. /\ r # c /\ h[c].isLeaf /\ c \notin X /\ p \in A /\ p # c /\ X \subseteq Kids(g[p])
      /\ \A q \in (A \ {c}) \cup X : Kids(g[q]) \subseteq (A \ {c}) \cup X
      /\ \A q \in A : q # c => Kids(h[q]) \subseteq Kids(g[q]) \cup {c}
  BY DEF FewerNodes
<1>1. r \in A /\ r \in B /\ (\A q \in A : Kids(h[q]) \subseteq A)
      /\ \A q \in B : Kids(g[q]) \subseteq B
  BY DEF Spans
<1>2. B \subseteq (A \ {c}) \cup X
  <2> DEFINE C == (A \ {c}) \cup X
  <2>1. r \in C /\ \A q \in C : Kids(g[q]) \subseteq C
    BY <1>0, <1>1
  <2> HIDE DEF C
  <2>2. B \subseteq C
    BY <2>1, SpansLeast
  <2> QED
    BY <2>2 DEF C
<1>3. A \subseteq B \cup {c}
  <2> DEFINE C == (A \cap B) \cup {c}
  <2>1. ASSUME NEW q \in C, NEW s \in Kids(h[q]) PROVE s \in C
    <3>1. CASE q # c
      BY <3>1, <1>0, <1>1
    <3>2. CASE q = c
      BY <3>2, <1>0 DEF Kids
    <3> QED
      BY <3>1, <3>2
  <2>2. r \in C /\ \A q \in C : Kids(h[q]) \subseteq C
    BY <2>1, <1>1
  <2> HIDE DEF C
  <2>3. A \subseteq C
    BY <2>2, SpansLeast
  <2> QED
    BY <2>3 DEF C
<1>4. X \subseteq B
  BY <1>0, <1>1, <1>3
<1> QED
  BY <1>2, <1>3, <1>4

\* The node p and the leaf c leave the tree, and x takes the place of p in it; the
\* root was r and is s.
LiftedNodes(h, g, r, s, R, p, c, x) ==
    /\ s \in R /\ (r = p => s = x) /\ (r # p => s = r) /\ h[c].isLeaf
    /\ \A q \in R : Kids(g[q]) \subseteq R
    /\ \A q \in R : Kids(h[q]) \subseteq Kids(g[q]) \cup {p}
    /\ \A q \in R : p \in Kids(h[q]) => x \in Kids(g[q])
    /\ Kids(h[p]) \subseteq {c, x}

\* The others stay.
LEMMA NodesLifted ==
    ASSUME NEW h, HeapOK(h), NEW g, HeapOK(g), NEW r, NEW s,
           NEW A, NEW M \in Depths, Spans(h, r, A, M),
           NEW B, NEW N \in Depths, Spans(g, s, B, N),
           NEW p \in A, NEW c, NEW x, NEW R, R = A \ {p, c},
           LiftedNodes(h, g, r, s, R, p, c, x)
    PROVE  B = R
<1>0. /\ s \in R /\ (r = p => s = x) /\ (r # p => s = r) /\ h[c].isLeaf
      /\ \A q \in R : Kids(g[q]) \subseteq R
      /\ \A q \in R : Kids(h[q]) \subseteq Kids(g[q]) \cup {p}
      /\ \A q \in R : p \in Kids(h[q]) => x \in Kids(g[q])
      /\ Kids(h[p]) \subseteq {c, x}
  BY DEF LiftedNodes
<1>1. r \in A /\ s \in B /\ (\A q \in A : Kids(h[q]) \subseteq A)
      /\ \A q \in B : Kids(g[q]) \subseteq B
  BY DEF Spans
<1>2. B \subseteq R
  BY <1>0, SpansLeast
<1>3. x \in B
  <2> SUFFICES ASSUME x \notin B PROVE FALSE
    OBVIOUS
  <2>1. r \in B
    BY <1>0, <1>1
  <2>2. ASSUME NEW q \in B, NEW t \in Kids(h[q]) PROVE t \in B
    BY <2>2, <1>0, <1>1, <1>2
  <2>3. A \subseteq B
    BY <2>1, <2>2, SpansLeast
  <2> QED
    BY <2>3, <1>2
<1>4. A \subseteq B \cup {p, c}
  <2> DEFINE C == B \cup {p, c}
  <2>1. ASSUME NEW q \in C, NEW t \in Kids(h[q]) PROVE t \in C
    <3>1. CASE q = p
      BY <3>1, <2>1, <1>0, <1>3
    <3>2. CASE q = c
      BY <3>2, <2>1, <1>0 DEF Kids
    <3>3. CASE q \in B
      BY <3>3, <2>1, <1>0, <1>1, <1>2
    <3> QED
      BY <3>1, <3>2, <3>3
  <2>2. r \in C /\ \A q \in C : Kids(h[q]) \subseteq C
    BY <2>1, <1>0, <1>1
  <2> HIDE DEF C
  <2>3. A \subseteq C
    BY <2>2, SpansLeast
  <2> QED
    BY <2>3 DEF C
<1> QED
  BY <1>2, <1>4

-----------------------------------------------------------------------------
(* The leaves below the root after a change *)

\* No leaf has the key.
Lacks(h, A, key) == \A q \in A : h[q].isLeaf => h[q].key # key

\* No two leaves have the same key.
Unique(h, A) == \A a, b \in A : h[a].isLeaf /\ h[b].isLeaf /\ h[a].key = h[b].key => a = b

\* The leaves are those of before but the one with the key, and what is new.
Becomes(h, A, g, B, key, new) == Content(g, B) = {l \in Content(h, A) : l.key # key} \cup new

\* p turns into, or stays, an inner node with the new leaf x below; what was at p
\* is at y.
MoreLeaves(h, g, A, B, p, x, y, l) ==
    /\ p \in A /\ l.isLeaf /\ x \notin A /\ x \in B /\ y \in B /\ x # y
    /\ A \subseteq B /\ B \subseteq A \cup {x, y} /\ (y \in A => y = p)
    /\ g[x] = l /\ ~g[p].isLeaf /\ \A q \in A : q # p => g[q] = h[q]
    /\ (g[y].isLeaf => h[p].isLeaf) /\ (h[p].isLeaf => g[y] = h[p])

\* If then every leaf has a key of its own, that of the new leaf was not there.
LEMMA ContentMore ==
    ASSUME NEW h, NEW g, NEW A, NEW B, NEW p, NEW x, NEW y, NEW l,
           MoreLeaves(h, g, A, B, p, x, y, l), Unique(g, B)
    PROVE  Lacks(h, A, l.key) /\ Becomes(h, A, g, B, l.key, {l})
<1>0. /\ p \in A /\ l.isLeaf /\ x \notin A /\ x \in B /\ y \in B /\ x # y
      /\ A \subseteq B /\ B \subseteq A \cup {x, y} /\ (y \in A => y = p)
      /\ g[x] = l /\ ~g[p].isLeaf /\ \A q \in A : q # p => g[q] = h[q]
      /\ (g[y].isLeaf => h[p].isLeaf) /\ (h[p].isLeaf => g[y] = h[p])
  BY DEF MoreLeaves
<1>1. ASSUME NEW q \in A, h[q].isLeaf
      PROVE  \E s \in B : s # x /\ g[s] = h[q]
  <2>1. CASE q = p
    BY <2>1, <1>0, <1>1
  <2>2. CASE q # p
    BY <2>2, <1>0, <1>1
  <2> QED
    BY <2>1, <2>2
<1>2. Lacks(h, A, l.key)
  <2> SUFFICES ASSUME NEW q \in A, h[q].isLeaf, h[q].key = l.key PROVE FALSE
    BY DEF Lacks
  <2>1. PICK s \in B : s # x /\ g[s] = h[q]
    BY <1>1
  <2> QED
    BY <2>1, <1>0 DEF Unique
<1>3. ASSUME NEW q \in B, g[q].isLeaf
      PROVE  g[q] = l \/ \E s \in A : h[s].isLeaf /\ g[q] = h[s]
  <2>1. CASE q = x
    BY <2>1, <1>0
  <2>2. CASE q = y
    BY <2>2, <1>0, <1>3
  <2>3. CASE q \in A
    BY <2>3, <1>0, <1>3
  <2> QED
    BY <2>1, <2>2, <2>3, <1>0
<1>4. ASSUME NEW v PROVE v \in Content(g, B) <=> v \in Content(h, A) \cup {l}
  <2>1. ASSUME v \in Content(g, B) PROVE v \in Content(h, A) \cup {l}
    <3>1. PICK q \in B : g[q].isLeaf /\ v = g[q]
      BY <2>1 DEF Content
    <3> QED
      BY <3>1, <1>3 DEF Content
  <2>2. ASSUME v \in Content(h, A) PROVE v \in Content(g, B)
    <3>1. PICK q \in A : h[q].isLeaf /\ v = h[q]
      BY <2>2 DEF Content
    <3>2. PICK s \in B : g[s] = h[q]
      BY <3>1, <1>1
    <3> QED
      BY <3>1, <3>2 DEF Content
  <2>3. l \in Content(g, B)
    BY <1>0 DEF Content
  <2> QED
    BY <2>1, <2>2, <2>3
<1>5. \A v \in Content(h, A) : v.key # l.key
  BY <1>2 DEF Lacks, Content
<1>6. Content(g, B) = {v \in Content(h, A) : v.key # l.key} \cup {l}
  BY <1>4, <1>5
<1> QED
  BY <1>2, <1>6 DEF Becomes

\* The leaf c leaves with other nodes C that are none, and the leaves new come with
\* the nodes X.
FewerLeaves(h, g, A, B, C, X, c, new) ==
    /\ B = (A \ C) \cup X /\ c \in A /\ c \in C /\ h[c].isLeaf
    /\ \A q \in C : h[q].isLeaf <=> q = c
    /\ \A q \in A \ C : g[q].isLeaf = h[q].isLeaf /\ (h[q].isLeaf => g[q] = h[q])
    /\ \A v : v \in new <=> \E q \in X : g[q].isLeaf /\ v = g[q]

\* If every leaf had a key of its own, no other leaf with its key is there.
LEMMA ContentFewer ==
    ASSUME NEW h, NEW g, NEW A, NEW B, NEW C, NEW X, NEW c, NEW new,
           FewerLeaves(h, g, A, B, C, X, c, new), Unique(h, A)
    PROVE  Becomes(h, A, g, B, h[c].key, new)
<1>0. /\ B = (A \ C) \cup X /\ c \in A /\ c \in C /\ h[c].isLeaf
      /\ \A q \in C : h[q].isLeaf <=> q = c
      /\ \A q \in A \ C : g[q].isLeaf = h[q].isLeaf /\ (h[q].isLeaf => g[q] = h[q])
      /\ \A v : v \in new <=> \E q \in X : g[q].isLeaf /\ v = g[q]
  BY DEF FewerLeaves
<1>1. ASSUME NEW v
      PROVE  v \in Content(g, B) <=> (v \in Content(h, A) /\ v.key # h[c].key) \/ v \in new
  <2>1. ASSUME v \in Content(g, B)
        PROVE  (v \in Content(h, A) /\ v.key # h[c].key) \/ v \in new
    <3>1. PICK q \in B : g[q].isLeaf /\ v = g[q]
      BY <2>1 DEF Content
    <3>2. CASE q \in X
      BY <3>1, <3>2, <1>0
    <3>3. CASE q \in A \ C
      <4>1. h[q].isLeaf /\ v = h[q] /\ q # c
        BY <3>1, <3>3, <1>0
      <4>2. h[q].key # h[c].key
        BY <4>1, <3>3, <1>0 DEF Unique
      <4> QED
        BY <4>1, <4>2, <3>3 DEF Content
    <3> QED
      BY <3>1, <3>2, <3>3, <1>0
  <2>2. ASSUME v \in Content(h, A), v.key # h[c].key PROVE v \in Content(g, B)
    <3>1. PICK q \in A : h[q].isLeaf /\ v = h[q]
      BY <2>2 DEF Content
    <3>2. q \in A \ C
      BY <3>1, <2>2, <1>0
    <3> QED
      BY <3>1, <3>2, <1>0 DEF Content
  <2>3. ASSUME v \in new PROVE v \in Content(g, B)
    <3>1. PICK q \in X : g[q].isLeaf /\ v = g[q]
      BY <2>3, <1>0
    <3> QED
      BY <3>1, <1>0 DEF Content
  <2> QED
    BY <2>1, <2>2, <2>3
<1>2. Content(g, B) = {v \in Content(h, A) : v.key # h[c].key} \cup new
  BY <1>1
<1> QED
  BY <1>2 DEF Becomes

\* A radix tree has one leaf for a key.
LEMMA ExactUnique ==
    ASSUME NEW h, HeapOK(h), NEW r, NEW A, NEW D \in Depths, NEW P \in Paths, NEW U,
           Exact(h, r, A, D, P, U)
    PROVE  Unique(h, A)
BY OneLeaf DEF Unique

\* A child in a radix tree has one parent, ...
LEMMA OneParent ==
    ASSUME NEW h, HeapOK(h), NEW r, NEW A, NEW D \in Depths, NEW P \in Paths, NEW U,
           Radix(h, r, A, D, P, U), NEW q \in A, NEW c \in Kids(h[q])
    PROVE  c \in A /\ c # r /\ c # q /\ U[c] = q /\ ~h[q].isLeaf
<1>1. ~h[q].isLeaf /\ \E b \in DOMAIN h[q].kids : c = h[q].kids[b]
  BY DEF Kids
<1>2. PICK b \in DOMAIN h[q].kids : c = h[q].kids[b]
  BY <1>1
<1>3. ChildIs(r, A, D, P, U, q, b, c, D[q] + Len(h[q].compressed))
  BY <1>1, <1>2, ChildFacts
<1> QED
  BY <1>1, <1>3 DEF ChildIs

\* ... and there one byte.
LEMMA OneByte ==
    ASSUME NEW h, HeapOK(h), NEW r, NEW A, NEW D \in Depths, NEW P \in Paths, NEW U,
           Radix(h, r, A, D, P, U), NEW q \in A, ~h[q].isLeaf,
           NEW a \in DOMAIN h[q].kids, NEW b \in DOMAIN h[q].kids, h[q].kids[a] = h[q].kids[b]
    PROVE  a = b
<1> DEFINE e == D[q] + Len(h[q].compressed)
<1>1. ChildIs(r, A, D, P, U, q, a, h[q].kids[a], e)
  BY ChildFacts
<1>2. ChildIs(r, A, D, P, U, q, b, h[q].kids[b], e)
  BY ChildFacts
<1> QED
  BY <1>1, <1>2 DEF ChildIs

\* What a change makes of the leaves below the root.
Sets(h, r, g, s, key, new) ==
    LeavesBelow(g, s) = {l \in LeavesBelow(h, r) : l.key # key} \cup new

\* That is what it makes of the leaves of its nodes.
LEMMA SetsIs ==
    ASSUME NEW h, HeapOK(h), NEW r, NEW A, NEW M \in Depths, Spans(h, r, A, M),
           NEW g, HeapOK(g), NEW s, NEW B, NEW N \in Depths, Spans(g, s, B, N),
           NEW key, NEW new, Becomes(h, A, g, B, key, new)
    PROVE  Sets(h, r, g, s, key, new)
<1>1. r \in 1 .. Len(h) /\ s \in 1 .. Len(g) /\ Len(h) \in Nat /\ Len(g) \in Nat
  BY SeqFacts DEF Spans, HeapOK
<1>2. r # Nil /\ s # Nil
  <2>1. r \in Nat /\ s \in Nat
    BY <1>1
  <2> QED
    BY <2>1, NilAssumption
<1>3. LeavesBelow(h, r) = Content(h, A) /\ LeavesBelow(g, s) = Content(g, B)
  BY <1>2, ContentIs
<1> QED
  BY <1>3 DEF Becomes, Sets

\* What a good change leaves is known with all its nodes.
LEMMA GoodExact ==
    ASSUME NEW h, NEW g, NEW s, Good(h, g, s)
    PROVE  /\ HeapOK(g)
           /\ \E B \in SUBSET Nat, E \in Depths : Spans(g, s, B, E) /\ Unique(g, B)
<1>1. HeapOK(g) /\ Tree(g, s)
  BY DEF Good
<1>2. PICK A \in SUBSET Nat, D \in Depths, P \in Paths, U \in Depths : Radix(g, s, A, D, P, U)
  BY <1>1 DEF Tree
<1>3. PICK B \in SUBSET A : Exact(g, s, B, D, P, U)
  BY <1>1, <1>2, ExactExists
<1>4. Spans(g, s, B, D) /\ Unique(g, B)
  BY <1>1, <1>3, ExactUnique DEF Exact
<1>5. B \in SUBSET Nat
  BY <1>2, <1>3
<1> QED
  BY <1>1, <1>4, <1>5

\* The new leaf is one more, and its key was not there.
LEMMA ForkSets ==
    ASSUME NEW h, HeapOK(h), NEW r, NEW A, NEW D \in Depths, Spans(h, r, A, D),
           NEW g, Good(h, g, r), NEW p \in A, NEW x, NEW y, NEW l, ForkIs(h, g, A, p, x, y, l)
    PROVE  Lacks(h, A, l.key) /\ Sets(h, r, g, r, l.key, {l})
<1>1. HeapOK(g)
  BY GoodExact
<1>2. PICK B \in SUBSET Nat, E \in Depths : Spans(g, r, B, E) /\ Unique(g, B)
  BY GoodExact
<1>3. /\ p \in A /\ x \notin A /\ y \notin A /\ x # y
      /\ ~g[p].isLeaf /\ Kids(g[p]) = {x, y}
      /\ g[x] = l /\ l.isLeaf /\ g[y].isLeaf = h[p].isLeaf /\ (h[p].isLeaf => g[y] = h[p])
      /\ Kids(g[y]) = Kids(h[p]) /\ Kids(g[x]) = {}
      /\ \A q \in A : q # p => g[q] = h[q]
  BY DEF ForkIs, Kids
<1> DEFINE X == {x, y}
<1>4. \A q \in A : Kids(h[q]) \subseteq A
  BY DEF Spans
<1>5. ASSUME NEW q \in A \cup X PROVE Kids(g[q]) \subseteq A \cup X
  BY <1>3, <1>4
<1>6. \A q \in A : q # p => Kids(h[q]) \subseteq Kids(g[q])
  BY <1>3
<1>7. \A c \in Kids(h[p]) : \E s \in {p} \cup X : c \in Kids(g[s])
  BY <1>3
<1>8. X \subseteq Kids(g[p])
  BY <1>3
<1> HIDE DEF X
<1>9. B = A \cup X
  <2>1. MoreNodes(h, g, A, X, p)
    BY <1>5, <1>6, <1>7, <1>8 DEF MoreNodes
  <2> QED
    BY <2>1, <1>1, <1>2, NodesMore
<1>10. x \in B /\ A \subseteq B /\ B \subseteq A \cup {x, y} /\ y \in B
  BY <1>9 DEF X
<1>11. Lacks(h, A, l.key) /\ Becomes(h, A, g, B, l.key, {l})
  <2>1. MoreLeaves(h, g, A, B, p, x, y, l)
    BY <1>3, <1>10 DEF MoreLeaves
  <2> QED
    BY <2>1, <1>2, ContentMore
<1> QED
  BY <1>1, <1>2, <1>11, SetsIs

\* A new leaf for another byte is one more, and its key was not there; one that
\* takes the place of the leaf with its key replaces it.
LEMMA HangSets ==
    ASSUME NEW h, HeapOK(h), NEW r, NEW A, NEW D \in Depths, NEW P \in Paths, NEW U,
           Exact(h, r, A, D, P, U), NEW g, Good(h, g, r), NEW p \in A, ~h[p].isLeaf,
           NEW k, NEW x, NEW l, HangIs(h, g, A, p, k, x, l),
           k \in DOMAIN h[p].kids => h[h[p].kids[k]].isLeaf /\ h[h[p].kids[k]].key = l.key
    PROVE  /\ k \notin DOMAIN h[p].kids => Lacks(h, A, l.key)
           /\ Sets(h, r, g, r, l.key, {l})
<1>1. HeapOK(g)
  BY GoodExact
<1>2. PICK B \in SUBSET Nat, E \in Depths : Spans(g, r, B, E) /\ Unique(g, B)
  BY GoodExact
<1>3. Radix(h, r, A, D, P, U) /\ Spans(h, r, A, D) /\ Unique(h, A)
  BY ExactUnique DEF Exact
<1>4. /\ x \notin A /\ g[x] = l /\ l.isLeaf /\ ~g[p].isLeaf /\ Kids(g[x]) = {}
      /\ DOMAIN g[p].kids = DOMAIN h[p].kids \cup {k} /\ g[p].kids[k] = x
      /\ \A b \in DOMAIN h[p].kids : b # k => g[p].kids[b] = h[p].kids[b]
      /\ \A q \in A : q # p => g[q] = h[q]
  BY DEF HangIs, Kids
<1>5. \A q \in A : Kids(h[q]) \subseteq A
  BY <1>3 DEF Spans
<1>6. x \in Kids(g[p])
  BY <1>4 DEF Kids
<1>7. CASE k \notin DOMAIN h[p].kids
  <2>1. Kids(g[p]) = Kids(h[p]) \cup {x}
    BY <1>4, <1>7 DEF Kids
  <2>2. ASSUME NEW q \in A \cup {x} PROVE Kids(g[q]) \subseteq A \cup {x}
    BY <2>1, <1>4, <1>5
  <2>3. /\ \A q \in A : q # p => Kids(h[q]) \subseteq Kids(g[q])
        /\ \A c \in Kids(h[p]) : \E s \in {p} \cup {x} : c \in Kids(g[s])
    BY <2>1, <1>4
  <2>4. B = A \cup {x}
    <3>1. MoreNodes(h, g, A, {x}, p)
      BY <2>2, <2>3, <1>6 DEF MoreNodes
    <3> QED
      BY <3>1, <1>1, <1>2, <1>3, NodesMore
  <2>5. x \in B /\ A \subseteq B /\ B \subseteq A \cup {x, p} /\ p \in B /\ x # p
    BY <2>4, <1>4
  <2>6. Lacks(h, A, l.key) /\ Becomes(h, A, g, B, l.key, {l})
    <3>1. MoreLeaves(h, g, A, B, p, x, p, l)
      BY <2>5, <1>4 DEF MoreLeaves
    <3> QED
      BY <3>1, <1>2, ContentMore
  <2> QED
    BY <2>6, <1>1, <1>2, <1>3, SetsIs
<1>8. CASE k \in DOMAIN h[p].kids
  <2> DEFINE c == h[p].kids[k]
  <2>1. c \in Kids(h[p]) /\ h[c].isLeaf /\ h[c].key = l.key
    BY <1>8 DEF Kids
  <2>2. ASSUME NEW b \in DOMAIN h[p].kids, h[p].kids[b] = c PROVE b = k
    BY <2>2, <1>3, <1>8, OneByte
  <2>3. Kids(g[p]) = (Kids(h[p]) \ {c}) \cup {x}
    <3>1. \A b \in DOMAIN g[p].kids : b = k \/ (b \in DOMAIN h[p].kids /\ b # k)
      BY <1>4
    <3>2. Kids(g[p]) \subseteq (Kids(h[p]) \ {c}) \cup {x}
      BY <3>1, <2>2, <1>4 DEF Kids
    <3>3. (Kids(h[p]) \ {c}) \cup {x} \subseteq Kids(g[p])
      BY <1>4, <1>6 DEF Kids
    <3> QED
      BY <3>2, <3>3
  <2> HIDE DEF c
  <2>4. c \in A /\ c # r /\ c # p /\ U[c] = p
    BY <2>1, <1>3, OneParent
  <2>5. ASSUME NEW q \in A, q # p PROVE c \notin Kids(h[q])
    BY <2>4, <2>5, <1>3, OneParent
  <2> DEFINE X == {x}
  <2>6. ASSUME NEW q \in (A \ {c}) \cup X PROVE Kids(g[q]) \subseteq (A \ {c}) \cup X
    <3>1. CASE q = x
      BY <3>1, <1>4
    <3>2. CASE q = p
      BY <3>2, <2>3, <1>5
    <3>3. CASE q \in A /\ q # p
      BY <3>3, <2>5, <1>4, <1>5
    <3> QED
      BY <3>1, <3>2, <3>3
  <2>7. ASSUME NEW q \in A, q # c PROVE Kids(h[q]) \subseteq Kids(g[q]) \cup {c}
    BY <2>3, <1>4
  <2>8. X \subseteq Kids(g[p]) /\ c \notin X
    BY <2>4, <1>4, <1>6
  <2> HIDE DEF X
  <2>9. B = (A \ {c}) \cup X
    <3>1. FewerNodes(h, g, r, A, X, p, c)
      BY <2>1, <2>4, <2>6, <2>7, <2>8 DEF FewerNodes
    <3> QED
      BY <3>1, <1>1, <1>2, <1>3, NodesFewer
  <2>10. ASSUME NEW q \in A \ {c}
         PROVE  g[q].isLeaf = h[q].isLeaf /\ (h[q].isLeaf => g[q] = h[q])
    <3>1. CASE q = p
      <4>1. p \in 1 .. Len(h) /\ p \in 1 .. Len(g)
        BY <2>4, <2>9, <1>2, <1>3 DEF Spans
      <4>2. h[p].isLeaf \in BOOLEAN /\ g[p].isLeaf \in BOOLEAN
        BY <4>1, <1>1 DEF HeapOK, NodeOK
      <4> QED
        BY <4>2, <3>1, <1>4
    <3>2. CASE q # p
      BY <3>2, <1>4
    <3> QED
      BY <3>1, <3>2
  <2>11. \A v : v \in {l} <=> \E q \in X : g[q].isLeaf /\ v = g[q]
    BY <1>4 DEF X
  <2>12. Becomes(h, A, g, B, h[c].key, {l})
    <3> DEFINE C == {c}
    <3>1. /\ B = (A \ C) \cup X /\ (\A q \in C : h[q].isLeaf <=> q = c) /\ c \in C
          /\ \A q \in A \ C : g[q].isLeaf = h[q].isLeaf /\ (h[q].isLeaf => g[q] = h[q])
      BY <2>1, <2>9, <2>10
    <3> HIDE DEF C
    <3>2. FewerLeaves(h, g, A, B, C, X, c, {l})
      BY <3>1, <2>1, <2>4, <2>11 DEF FewerLeaves
    <3> QED
      BY <3>2, <1>3, ContentFewer
  <2> QED
    BY <2>1, <2>12, <1>1, <1>2, <1>3, <1>8, SetsIs
<1> QED
  BY <1>7, <1>8

\* Without its leaf for byte k a node leaves all others in the tree.
LEMMA DropSets ==
    ASSUME NEW h, HeapOK(h), NEW r, NEW A, NEW D \in Depths, NEW P \in Paths, NEW U,
           Exact(h, r, A, D, P, U), NEW g, Good(h, g, r), NEW p \in A, ~h[p].isLeaf,
           NEW k \in DOMAIN h[p].kids, DropIs(h, g, A, p, k),
           NEW c, c = h[p].kids[k], h[c].isLeaf
    PROVE  Sets(h, r, g, r, h[c].key, {})
<1>1. HeapOK(g)
  BY GoodExact
<1>2. PICK B \in SUBSET Nat, E \in Depths : Spans(g, r, B, E) /\ Unique(g, B)
  BY GoodExact
<1>3. Radix(h, r, A, D, P, U) /\ Spans(h, r, A, D) /\ Unique(h, A)
  BY ExactUnique DEF Exact
<1>4. /\ ~g[p].isLeaf /\ DOMAIN g[p].kids = DOMAIN h[p].kids \ {k}
      /\ \A b \in DOMAIN g[p].kids : g[p].kids[b] = h[p].kids[b]
      /\ \A q \in A : q # p => g[q] = h[q]
  BY DEF DropIs
<1>5. \A q \in A : Kids(h[q]) \subseteq A
  BY <1>3 DEF Spans
<1>6. c \in Kids(h[p])
  BY DEF Kids
<1>7. ASSUME NEW b \in DOMAIN h[p].kids, h[p].kids[b] = c PROVE b = k
  BY <1>7, <1>3, OneByte
<1>8. Kids(g[p]) = Kids(h[p]) \ {c}
  <2>1. Kids(g[p]) \subseteq Kids(h[p]) \ {c}
    BY <1>4, <1>7 DEF Kids
  <2>2. Kids(h[p]) \ {c} \subseteq Kids(g[p])
    BY <1>4 DEF Kids
  <2> QED
    BY <2>1, <2>2
<1>9a. \A q \in A : \A d \in Kids(h[q]) : d \in A /\ d # r /\ d # q /\ U[d] = q
  <2> SUFFICES ASSUME NEW q \in A, NEW d \in Kids(h[q])
               PROVE  d \in A /\ d # r /\ d # q /\ U[d] = q
    OBVIOUS
  <2> QED
    BY <1>3, OneParent
<1>9. c \in A /\ c # r /\ c # p /\ U[c] = p
  BY <1>6, <1>9a
<1>10. ASSUME NEW q \in A, q # p PROVE c \notin Kids(h[q])
  <2> SUFFICES ASSUME c \in Kids(h[q]) PROVE FALSE
    OBVIOUS
  <2>1. U[c] = q
    BY <1>9a
  <2> QED
    BY <2>1, <1>9, <1>10
<1> DEFINE X == {}
<1>11. ASSUME NEW q \in (A \ {c}) \cup X PROVE Kids(g[q]) \subseteq (A \ {c}) \cup X
  <2>1. CASE q = p
    BY <2>1, <1>5, <1>8
  <2>2. CASE q # p
    BY <2>2, <1>4, <1>5, <1>10
  <2> QED
    BY <2>1, <2>2
<1>12. ASSUME NEW q \in A, q # c PROVE Kids(h[q]) \subseteq Kids(g[q]) \cup {c}
  BY <1>4, <1>8
<1>13. X \subseteq Kids(g[p]) /\ c \notin X /\ \A q : q \notin X
  OBVIOUS
<1> HIDE DEF X
<1>14. B = (A \ {c}) \cup X
  <2>1. FewerNodes(h, g, r, A, X, p, c)
    BY <1>9, <1>11, <1>12, <1>13 DEF FewerNodes
  <2> QED
    BY <2>1, <1>1, <1>2, <1>3, NodesFewer
<1>15. ASSUME NEW q \in A \ {c}
       PROVE  g[q].isLeaf = h[q].isLeaf /\ (h[q].isLeaf => g[q] = h[q])
  <2>1. CASE q = p
    <3>1. p \in 1 .. Len(h) /\ p \in 1 .. Len(g)
      BY <1>2, <1>3, <1>9, <1>14 DEF Spans
    <3>2. h[p].isLeaf \in BOOLEAN /\ g[p].isLeaf \in BOOLEAN
      BY <3>1, <1>1 DEF HeapOK, NodeOK
    <3> QED
      BY <3>2, <2>1, <1>4
  <2>2. CASE q # p
    BY <2>2, <1>4
  <2> QED
    BY <2>1, <2>2
<1>16. Becomes(h, A, g, B, h[c].key, {})
  <2> DEFINE C == {c}
  <2>1. /\ B = (A \ C) \cup X /\ (\A q \in C : h[q].isLeaf <=> q = c) /\ c \in C
        /\ \A q \in A \ C : g[q].isLeaf = h[q].isLeaf /\ (h[q].isLeaf => g[q] = h[q])
    BY <1>14, <1>15
  <2> HIDE DEF C
  <2>2. FewerLeaves(h, g, A, B, C, X, c, {})
    BY <2>1, <1>9, <1>13 DEF FewerLeaves
  <2> QED
    BY <2>2, <1>3, ContentFewer
<1> QED
  BY <1>1, <1>2, <1>3, <1>16, SetsIs

\* Nor does a node take a leaf with it but the one for byte k, if its other child
\* takes its place.
LEMMA LiftSets ==
    ASSUME NEW h, HeapOK(h), NEW r, NEW A, NEW D \in Depths, NEW P \in Paths, NEW U,
           Exact(h, r, A, D, P, U), NEW p \in A, ~h[p].isLeaf,
           NEW k \in DOMAIN h[p].kids, NEW b \in DOMAIN h[p].kids, b # k,
           DOMAIN h[p].kids = {k, b}, NEW c, c = h[p].kids[k], h[c].isLeaf,
           NEW x, x = h[p].kids[b], NEW g, LiftIs(h, g, A, p, x),
           NEW s, r = p => s = x, r # p => s = r, Good(h, g, s)
    PROVE  Sets(h, r, g, s, h[c].key, {})
<1> DEFINE R == A \ {p, c}
<1>1. HeapOK(g)
  BY GoodExact
<1>2. PICK B \in SUBSET Nat, E \in Depths : Spans(g, s, B, E) /\ Unique(g, B)
  BY GoodExact
<1>3. Radix(h, r, A, D, P, U) /\ Spans(h, r, A, D) /\ Unique(h, A)
  BY ExactUnique DEF Exact
<1>4. \A q \in A : Kids(h[q]) \subseteq A
  BY <1>3 DEF Spans
<1>5. c \in Kids(h[p]) /\ x \in Kids(h[p]) /\ Kids(h[p]) = {c, x}
  BY DEF Kids
<1>5a. \A q \in A : \A d \in Kids(h[q]) : d \in A /\ d # r /\ d # q /\ U[d] = q
  <2> SUFFICES ASSUME NEW q \in A, NEW d \in Kids(h[q])
               PROVE  d \in A /\ d # r /\ d # q /\ U[d] = q
    OBVIOUS
  <2> QED
    BY <1>3, OneParent
<1>6. c \in A /\ c # r /\ c # p /\ U[c] = p
  BY <1>5, <1>5a
<1>7. x \in A /\ x # r /\ x # p /\ U[x] = p
  BY <1>5, <1>5a
<1>8. x # c
  <2> SUFFICES ASSUME h[p].kids[b] = h[p].kids[k] PROVE FALSE
    OBVIOUS
  <2>1. b = k
    BY <1>3, OneByte
  <2> QED
    BY <2>1
<1>9. ASSUME NEW q \in R PROVE c \notin Kids(h[q])
  <2> SUFFICES ASSUME c \in Kids(h[q]) PROVE FALSE
    OBVIOUS
  <2>1. q \in A /\ q # p
    OBVIOUS
  <2>2. U[c] = q
    BY <2>1, <1>5a
  <2> QED
    BY <2>1, <2>2, <1>6
<1>10. ASSUME NEW q \in R
       PROVE  /\ g[q].isLeaf = h[q].isLeaf /\ (h[q].isLeaf => g[q] = h[q])
              /\ Kids(g[q]) = {IF d = p THEN x ELSE d : d \in Kids(h[q])}
  BY DEF LiftIs
<1>11. r \in A
  BY <1>3 DEF Spans
<1>12. LiftedNodes(h, g, r, s, R, p, c, x)
  <2>1. s \in R
    BY <1>6, <1>7, <1>8, <1>11
  <2>2. ASSUME NEW q \in R, NEW d \in Kids(g[q]) PROVE d \in R
    <3>1. PICK v \in Kids(h[q]) : d = IF v = p THEN x ELSE v
      BY <1>10, <2>2
    <3>2. v \in A /\ v # c
      BY <1>4, <1>9
    <3> QED
      BY <3>1, <3>2, <1>7, <1>8
  <2>3. ASSUME NEW q \in R PROVE Kids(h[q]) \subseteq Kids(g[q]) \cup {p}
    BY <1>10
  <2>4. ASSUME NEW q \in R, p \in Kids(h[q]) PROVE x \in Kids(g[q])
    BY <1>10, <2>4
  <2> HIDE DEF R
  <2> QED
    BY <2>1, <2>2, <2>3, <2>4, <1>5 DEF LiftedNodes
<1>13. B = R
  <2>1. R = A \ {p, c}
    OBVIOUS
  <2> HIDE DEF R
  <2> QED
    BY <2>1, <1>1, <1>2, <1>3, <1>12, NodesLifted
<1>14. Becomes(h, A, g, B, h[c].key, {})
  <2> DEFINE C == {p, c}
             X == {}
  <2>1. /\ B = (A \ C) \cup X /\ (\A q \in C : h[q].isLeaf <=> q = c) /\ c \in C
        /\ (\A q \in A \ C : g[q].isLeaf = h[q].isLeaf /\ (h[q].isLeaf => g[q] = h[q]))
        /\ \A q : q \notin X
    BY <1>6, <1>10, <1>13
  <2> HIDE DEF C, X
  <2>2. FewerLeaves(h, g, A, B, C, X, c, {})
    BY <2>1, <1>6 DEF FewerLeaves
  <2> QED
    BY <2>2, <1>3, ContentFewer
<1> QED
  BY <1>1, <1>2, <1>3, <1>14, SetsIs

\* A tree that is a leaf holds that leaf.
LEMMA LeafAlone ==
    ASSUME NEW h, HeapOK(h), NEW r, Tree(h, r), h[r].isLeaf
    PROVE  LeavesBelow(h, r) = {h[r]}
<1>1. PICK A \in SUBSET Nat, D \in Depths, P \in Paths, U \in Depths : Radix(h, r, A, D, P, U)
  BY DEF Tree
<1>2. PICK B \in SUBSET A : Exact(h, r, B, D, P, U)
  BY <1>1, ExactExists
<1>3. Spans(h, r, B, D) /\ r \in B /\ r \in 1 .. Len(h) /\ Len(h) \in Nat
  BY <1>2, SeqFacts DEF Exact, Spans, HeapOK
<1>4. Kids(h[r]) = {}
  BY DEF Kids
<1>5. B \subseteq {r}
  <2> DEFINE C == {r}
  <2>1. r \in C /\ \A q \in C : Kids(h[q]) \subseteq C
    BY <1>4
  <2> HIDE DEF C
  <2>2. B \subseteq C
    BY <2>1, <1>3, SpansLeast
  <2> QED
    BY <2>2 DEF C
<1>6. r # Nil
  <2>1. r \in Nat
    BY <1>3
  <2> QED
    BY <2>1, NilAssumption
<1>7. LeavesBelow(h, r) = Content(h, B)
  BY <1>3, <1>6, ContentIs
<1>8. B = {r}
  BY <1>3, <1>5
<1> QED
  BY <1>7, <1>8 DEF Content

\* A deletion that ends at w without a leaf to remove.
Misses(h, key, w) ==
    LET n   == h[w.node]
        k   == At(key, w.depth + Len(n.compressed))
        hit == checkCompressed(n, key, w.depth) /\ k \in DOMAIN n.kids
    IN  /\ ~(hit /\ ~h[n.kids[k]].isLeaf)
        /\ ~(hit /\ h[n.kids[k]].isLeaf /\ h[n.kids[k]].key = key)

\* The way of a deletion that finds no leaf ends where an insertion could add the
\* key: it is not in the tree.
LEMMA MissLacks ==
    ASSUME NEW h, HeapOK(h), NEW r, NEW A, NEW D \in Depths, NEW P \in Paths,
           NEW U \in Depths, Exact(h, r, A, D, P, U), NEW key \in Keys, NEW w,
           PlaceOK(h, r, A, D, P, key, w), Misses(h, key, w)
    PROVE  Lacks(h, A, key)
<1> DEFINE lf  == [key |-> key, value |-> Nil]
           p   == w.node
           n   == h[p]
           k   == At(key, w.depth + Len(n.compressed))
           mis == compressedMismatch(n, key, w.depth)
<1>1. Radix(h, r, A, D, P, U) /\ Spans(h, r, A, D)
  BY DEF Exact
<1>2. lf.key = key /\ lf.key \in Keys /\ lf.value \in Values \cup {Nil}
  OBVIOUS
<1> HIDE DEF lf
<1>3. LeafAt(lf).key = key
  BY <1>2, NewLeaf
<1>4. /\ p \in A /\ ~h[p].isLeaf /\ w.depth = D[p]
      /\ w.depth \in Nat /\ w.depth <= Len(key)
      /\ \A i \in 0 .. w.depth - 1 : P[p][i] = At(key, i)
      /\ n.compressed \in Seq(Byte)
      /\ \A i \in 1 .. Len(n.compressed) : n.compressed[i] # 0
  BY DEF PlaceOK
<1>5. mis \in Nat /\ mis <= Len(n.compressed) /\ Len(n.compressed) \in Nat
  BY <1>4, MismatchFacts, SMTT(30)
<1>6. CASE mis < Len(n.compressed)
  <2>1. SplitCase(h, D, P, p, lf.key, w.depth, mis)
    BY <1>2, <1>4, <1>6 DEF SplitCase
  <2> HIDE DEF mis
  <2> DEFINE g == splitAt(h, p, lf, w.depth, mis)
  <2>2. Good(h, g, r) /\ ForkIs(h, g, A, p, Len(h) + 1, Len(h) + 2, LeafAt(lf))
    BY <2>1, <1>1, <1>2, <1>4, <1>5, SplitTree
  <2> HIDE DEF g
  <2> QED
    BY <2>2, <1>1, <1>3, <1>4, ForkSets
<1>7. CASE mis = Len(n.compressed)
  <2>1. compressedMismatch(h[w.node], lf.key, w.depth) = Len(h[w.node].compressed)
    BY <1>2, <1>7
  <2>2. checkCompressed(n, key, w.depth)
    <3>1. \A i \in 1 .. Len(n.compressed) : n.compressed[i] = key[w.depth + i]
      BY <1>4, <1>7, FitsInsert
    <3> DEFINE m == Min({Len(n.compressed), Len(key) - w.depth})
    <3>2. Len(key) \in Nat
      BY KeyFacts
    <3>3. Len(key) - w.depth \in Nat
      BY <3>2, <1>4
    <3>4. m \in Nat /\ m <= Len(n.compressed)
      BY <3>3, <1>5, MinOfTwo
    <3> HIDE DEF m
    <3>5. \A i \in 1 .. m : i \in 1 .. Len(n.compressed)
      BY <3>4, <1>5
    <3>6. \A i \in 1 .. m : n.compressed[i] = key[w.depth + i]
      BY <3>1, <3>5
    <3> QED
      BY <3>6 DEF checkCompressed, m
  <2>3. PlaceOK(h, r, A, D, P, lf.key, w) /\ k = At(lf.key, w.depth + Len(h[w.node].compressed))
    BY <1>2
  <2>6. k \in DOMAIN n.kids => h[n.kids[k]].isLeaf /\ h[n.kids[k]].key # key
    BY <2>2 DEF Misses
  <2>7. k = At(key, D[p] + Len(h[p].compressed))
    BY <1>4
  <2> HIDE DEF mis, k
  <2>4. CASE k \notin DOMAIN n.kids
    <3> DEFINE g == addAt(h, w.node, lf, k)
    <3>1. k \notin DOMAIN h[w.node].kids
      BY <2>4
    <3>2. Good(h, g, r) /\ HangIs(h, g, A, p, k, Len(h) + 1, LeafAt(lf))
      BY <3>1, <2>1, <2>3, <1>1, <1>2, AddTree
    <3> HIDE DEF g, p
    <3>3. Lacks(h, A, LeafAt(lf).key)
      BY <3>1, <3>2, <1>4, HangSets DEF p
    <3> QED
      BY <3>3, <1>3
  <2>5. CASE k \in DOMAIN n.kids
    <3> DEFINE c == n.kids[k]
               d == D[p] + Len(n.compressed) + 1
    <3>1. h[c].isLeaf /\ h[c].key # lf.key
      BY <2>5, <2>6, <1>2
    <3>2. ChildIs(r, A, D, P, U, p, k, c, D[p] + Len(n.compressed))
      BY <2>5, <1>1, <1>4, ChildFacts
    <3>3. c \in A /\ d = D[c]
      BY <3>2 DEF ChildIs
    <3>4. Leads(h, D, P, p, key)
      BY <2>1, <1>1, <1>2, LeadsThrough
    <3>5. \A i \in 0 .. D[c] - 1 : P[c][i] = At(lf.key, i)
      BY <2>5, <2>7, <3>4, <1>1, <1>2, <1>4, LeadsToLeaf
    <3> HIDE DEF c, d
    <3> DEFINE g == leafInsertAt(h, c, lf, d).heap
    <3>6. \A i \in 0 .. d - 1 : P[c][i] = At(lf.key, i)
      BY <3>3, <3>5
    <3>7. Good(h, g, r) /\ ForkIs(h, g, A, c, Len(h) + 1, Len(h) + 2, LeafAt(lf))
      BY <3>1, <3>3, <3>6, <1>1, <1>2, LeafFork
    <3> HIDE DEF g
    <3> QED
      BY <3>3, <3>7, <1>1, <1>3, ForkSets
  <2> QED
    BY <2>4, <2>5
<1> QED
  BY <1>5, <1>6, <1>7

-----------------------------------------------------------------------------
(* What InsertLeaf and Remove make of the tree *)

\* Inner.insert.
LEMMA InsertAtTree ==
    ASSUME NEW h, HeapOK(h), NEW r, NEW A, NEW D \in Depths, NEW P \in Paths,
           NEW U \in Depths, Exact(h, r, A, D, P, U), ~h[r].isLeaf,
           NEW lf, lf.key \in Keys, lf.value \in Values \cup {Nil}
    PROVE  /\ Good(h, insertAt(h, r, lf), r)
           /\ Sets(h, r, insertAt(h, r, lf), r, lf.key, {LeafAt(lf)})
<1>r. Radix(h, r, A, D, P, U) /\ Spans(h, r, A, D)
  BY DEF Exact
<1>l. LeafAt(lf).key = lf.key
  BY NewLeaf
<1> DEFINE w   == insertWay(h, r, lf.key)
           p   == w.node
           n   == h[p]
           mis == compressedMismatch(n, lf.key, w.depth)
           k   == At(lf.key, w.depth + mis)
           c   == n.kids[k]
           sub == leafInsertAt(h, c, lf, w.depth + mis + 1)
<1>1. /\ w \in Places(h, r, A, D, P, lf.key)
      /\ ~ (/\ mis = Len(n.compressed)
            /\ At(lf.key, w.depth + Len(n.compressed)) \in DOMAIN n.kids
            /\ ~h[n.kids[At(lf.key, w.depth + Len(n.compressed))]].isLeaf)
  BY <1>r, InsertWay
<1>2. insertAt(h, r, lf) =
         CASE mis < Len(n.compressed) -> splitAt(h, p, lf, w.depth, mis)
           [] mis = Len(n.compressed) /\ k \notin DOMAIN n.kids -> addAt(h, p, lf, k)
           [] OTHER -> replaceAt(sub.heap, p, k, sub.self)
  BY DEF insertAt
<1> HIDE DEF w
<1>3. PlaceOK(h, r, A, D, P, lf.key, w)
  BY <1>r, <1>1, PlaceFacts
<1>4. /\ p \in A /\ p \in 1 .. Len(h) /\ ~n.isLeaf /\ w.depth = D[p]
      /\ w.depth \in Nat /\ w.depth <= Len(lf.key)
      /\ \A i \in 0 .. w.depth - 1 : P[p][i] = At(lf.key, i)
      /\ n.compressed \in Seq(Byte)
      /\ \A i \in 1 .. Len(n.compressed) : n.compressed[i] # 0
  BY <1>3 DEF PlaceOK
<1>5. mis \in Nat /\ mis <= Len(n.compressed) /\ Len(n.compressed) \in Nat
  BY <1>4, MismatchFacts, SMTT(30)
<1>6. CASE mis < Len(n.compressed)
  <2>1. insertAt(h, r, lf) = splitAt(h, p, lf, w.depth, mis)
    BY <1>2, <1>6
  <2>2. SplitCase(h, D, P, p, lf.key, w.depth, mis)
    BY <1>4, <1>6 DEF SplitCase
  <2> HIDE DEF mis
  <2> DEFINE g == splitAt(h, p, lf, w.depth, mis)
  <2>3. Good(h, g, r) /\ ForkIs(h, g, A, p, Len(h) + 1, Len(h) + 2, LeafAt(lf))
    BY <2>2, <1>r, <1>4, <1>5, SplitTree
  <2> HIDE DEF g
  <2>4. Sets(h, r, g, r, lf.key, {LeafAt(lf)})
    BY <2>3, <1>r, <1>l, <1>4, ForkSets
  <2> QED
    BY <2>1, <2>3, <2>4 DEF g
<1>7. CASE mis = Len(n.compressed) /\ k \notin DOMAIN n.kids
  <2>1. insertAt(h, r, lf) = addAt(h, p, lf, k)
    BY <1>2, <1>5, <1>7
  <2>2. k = At(lf.key, w.depth + Len(h[p].compressed))
    BY <1>7
  <2>3. compressedMismatch(h[w.node], lf.key, w.depth) = Len(h[w.node].compressed)
    BY <1>7
  <2>4. k \notin DOMAIN h[w.node].kids
    BY <1>7
  <2> HIDE DEF k
  <2> DEFINE g == addAt(h, w.node, lf, k)
  <2>5. Good(h, g, r) /\ HangIs(h, g, A, p, k, Len(h) + 1, LeafAt(lf))
    BY <2>2, <2>3, <2>4, <1>r, <1>3, AddTree
  <2>6. p \in A /\ ~h[p].isLeaf /\ k \notin DOMAIN h[p].kids
    BY <2>4, <1>4
  <2> HIDE DEF g, p
  <2>7. Sets(h, r, g, r, LeafAt(lf).key, {LeafAt(lf)})
    BY <2>5, <2>6, HangSets
  <2> QED
    BY <2>1, <2>5, <2>7, <1>l DEF g, p
<1>8. CASE mis = Len(n.compressed) /\ k \in DOMAIN n.kids
  <2>1. insertAt(h, r, lf) = replaceAt(sub.heap, p, k, sub.self)
    BY <1>2, <1>5, <1>8
  <2>2. k = At(lf.key, w.depth + Len(h[w.node].compressed))
    BY <1>8
  <2>3. compressedMismatch(h[w.node], lf.key, w.depth) = Len(h[w.node].compressed)
    BY <1>8
  <2>4. k \in DOMAIN h[w.node].kids
    BY <1>8
  <2>5. h[c].isLeaf
    BY <1>1, <1>8, <2>2
  <2>6. w.depth + mis + 1 = D[p] + Len(n.compressed) + 1
    BY <1>4, <1>8
  <2> HIDE DEF k, mis
  <2>7. ChildIs(r, A, D, P, U, p, k, c, D[p] + Len(n.compressed))
    BY <2>4, <1>r, <1>4, ChildFacts
  <2>8. c \in A /\ c # p /\ D[c] = D[p] + Len(n.compressed) + 1
    BY <2>7 DEF ChildIs
  <2>9. Leads(h, D, P, p, lf.key)
    BY <2>3, <1>r, <1>3, LeadsThrough
  <2>10. k = At(lf.key, D[p] + Len(h[p].compressed))
    BY <2>2, <1>4
  <2>11. \A i \in 0 .. D[c] - 1 : P[c][i] = At(lf.key, i)
    BY <2>4, <2>9, <2>10, <1>r, <1>4, LeadsToLeaf
  <2>12. CASE h[c].key = lf.key
    <3>1. sub.heap = Append(h, LeafAt(lf)) /\ sub.self = Len(h) + 1
      BY <2>12 DEF leafInsertAt
    <3> DEFINE g == replaceAt(Append(h, LeafAt(lf)), p, k, Len(h) + 1)
    <3>2. Good(h, g, r) /\ HangIs(h, g, A, p, k, Len(h) + 1, LeafAt(lf))
      BY <2>2, <2>3, <2>4, <1>r, <1>3, SwapTree
    <3>3. insertAt(h, r, lf) = g
      <4> HIDE DEF sub
      <4> QED
        BY <3>1, <2>1
    <3>4. /\ p \in A /\ ~h[p].isLeaf
          /\ h[h[p].kids[k]].isLeaf /\ h[h[p].kids[k]].key = LeafAt(lf).key
      BY <2>5, <2>12, <1>l, <1>4
    <3> HIDE DEF g, p, sub
    <3>5. Sets(h, r, g, r, LeafAt(lf).key, {LeafAt(lf)})
      BY <3>2, <3>4, HangSets
    <3> QED
      BY <3>2, <3>3, <3>5, <1>l
  <2>13. CASE h[c].key # lf.key
    <3> DEFINE d == w.depth + mis + 1
    <3>1. d = D[c]
      BY <2>6, <2>8
    <3>2. sub = leafInsertAt(h, c, lf, d)
      OBVIOUS
    <3> HIDE DEF d, sub, c
    <3>3. /\ Good(h, leafInsertAt(h, c, lf, d).heap, r) /\ leafInsertAt(h, c, lf, d).self = c
          /\ \A q \in 1 .. Len(h) : q # c => leafInsertAt(h, c, lf, d).heap[q] = h[q]
          /\ ForkIs(h, leafInsertAt(h, c, lf, d).heap, A, c, Len(h) + 1, Len(h) + 2, LeafAt(lf))
      BY <3>1, <2>5, <2>8, <2>11, <2>13, <1>r, LeafFork
    <3> DEFINE g == sub.heap
    <3>4. /\ Good(h, g, r) /\ sub.self = c /\ g[p] = h[p]
          /\ ForkIs(h, g, A, c, Len(h) + 1, Len(h) + 2, LeafAt(lf))
      BY <3>2, <3>3, <2>8, <1>4
    <3> HIDE DEF g
    <3>11. Sets(h, r, g, r, lf.key, {LeafAt(lf)})
      BY <3>4, <2>8, <1>r, <1>l, ForkSets
    <3>5. IsSeq(g) /\ Len(g) \in Nat /\ Len(h) <= Len(g)
      BY <3>4, SeqFacts DEF Good, HeapOK, Grown
    <3>6. p \in 1 .. Len(g)
      BY <3>5, <1>4
    <3>7. Shape(g[p]) /\ ~g[p].isLeaf
      <4>1. InnerIs(h, D, P, p)
        BY <1>r, <1>4, InnerFacts
      <4> QED
        BY <4>1, <3>4, <1>4 DEF InnerIs
    <3>8. k \in DOMAIN g[p].kids /\ g[p].kids[k] = c
      BY <3>4, <2>4 DEF c
    <3>9. replaceAt(g, p, k, g[p].kids[k]) = g
      BY <3>5, <3>6, <3>7, <3>8, PutSame
    <3>10. insertAt(h, r, lf) = g
      BY <3>4, <3>8, <3>9, <2>1 DEF g
    <3> QED
      BY <3>4, <3>10, <3>11
  <2> QED
    BY <2>12, <2>13
<1> QED
  BY <1>5, <1>6, <1>7, <1>8

\* InsertLeaf keeps the tree a radix tree, which the new address leads to, and puts
\* the new leaf in the place of any with its key.
LEMMA InsertedTree ==
    ASSUME NEW h, HeapOK(h), NEW r, r = Nil \/ Tree(h, r),
           NEW lf, lf.key \in Keys, lf.value \in Values \cup {Nil}
    PROVE  LET new == Inserted(h, r, lf)
           IN  /\ Good(h, new.heap, new.self)
               /\ Sets(h, r, new.heap, new.self, lf.key, {LeafAt(lf)})
<1>1. CASE r = Nil \/ (h[r].isLeaf /\ h[r].key = lf.key)
  <2> DEFINE g == Append(h, LeafAt(lf))
             x == Len(h) + 1
  <2>1. Inserted(h, r, lf).heap = g /\ Inserted(h, r, lf).self = x
    <3>1. CASE r = Nil
      BY <3>1 DEF Inserted
    <3>2. CASE r # Nil
      <4>1. Inserted(h, r, lf) = leafInsertAt(h, r, lf, 0)
        BY <1>1, <3>2 DEF Inserted
      <4> QED
        BY <4>1, <1>1, <3>2 DEF leafInsertAt
    <3> QED
      BY <3>1, <3>2
  <2>2. Good(h, g, x)
    BY NewLeafTree
  <2>3. g[x] = LeafAt(lf) /\ LeafAt(lf).isLeaf
    BY AppendLeaf, NewLeaf
  <2> HIDE DEF g, x
  <2>4. LeavesBelow(g, x) = {LeafAt(lf)}
    <3>1. HeapOK(g) /\ Tree(g, x) /\ g[x].isLeaf
      BY <2>2, <2>3 DEF Good
    <3> QED
      BY <3>1, <2>3, LeafAlone
  <2>5. {l \in LeavesBelow(h, r) : l.key # lf.key} = {}
    <3>1. CASE r = Nil
      BY <3>1 DEF LeavesBelow
    <3>2. CASE r # Nil
      <4>1. LeavesBelow(h, r) = {h[r]}
        BY <1>1, <3>2, LeafAlone
      <4> QED
        BY <4>1, <1>1, <3>2
    <3> QED
      BY <3>1, <3>2
  <2>6. Sets(h, r, g, x, lf.key, {LeafAt(lf)})
    BY <2>4, <2>5 DEF Sets
  <2> QED
    BY <2>1, <2>2, <2>6
<1>2. CASE r # Nil /\ ~(h[r].isLeaf /\ h[r].key = lf.key)
  <2>1. PICK A1 \in SUBSET Nat, D \in Depths, P \in Paths, U \in Depths : Radix(h, r, A1, D, P, U)
    BY <1>2 DEF Tree
  <2>2. PICK A \in SUBSET A1 : Exact(h, r, A, D, P, U)
    BY <2>1, ExactExists
  <2>3. Radix(h, r, A, D, P, U) /\ Spans(h, r, A, D)
    BY <2>2 DEF Exact
  <2>4. r \in A /\ D[r] = 0
    BY <2>3 DEF Radix
  <2>5. CASE h[r].isLeaf
    <3> DEFINE g == leafInsertAt(h, r, lf, 0).heap
    <3>1. Inserted(h, r, lf) = leafInsertAt(h, r, lf, 0)
      BY <1>2, <2>5 DEF Inserted
    <3>2. 0 = D[r] /\ \A i \in 0 .. 0 - 1 : P[r][i] = At(lf.key, i)
      BY <2>4
    <3>3. /\ Good(h, g, r) /\ leafInsertAt(h, r, lf, 0).self = r
          /\ ForkIs(h, g, A, r, Len(h) + 1, Len(h) + 2, LeafAt(lf))
      BY <3>2, <1>2, <2>3, <2>4, <2>5, LeafFork
    <3>4. LeafAt(lf).key = lf.key
      BY NewLeaf
    <3>5. Inserted(h, r, lf).heap = g /\ Inserted(h, r, lf).self = r
      BY <3>1, <3>3
    <3> HIDE DEF g
    <3>6. Sets(h, r, g, r, lf.key, {LeafAt(lf)})
      BY <3>3, <3>4, <2>3, <2>4, ForkSets
    <3> QED
      BY <3>3, <3>5, <3>6
  <2>6. CASE ~h[r].isLeaf
    <3>1. Inserted(h, r, lf).heap = insertAt(h, r, lf) /\ Inserted(h, r, lf).self = r
      BY <1>2, <2>6 DEF Inserted
    <3>2. /\ Good(h, insertAt(h, r, lf), r)
          /\ Sets(h, r, insertAt(h, r, lf), r, lf.key, {LeafAt(lf)})
      BY <2>2, <2>6, InsertAtTree
    <3> QED
      BY <3>1, <3>2
  <2> QED
    BY <2>5, <2>6
<1> QED
  BY <1>1, <1>2

-----------------------------------------------------------------------------
(* Deletion *)

\* A prefix of a parent, the byte of a child and the prefix of that child.
Joins(j, c, b, c2) ==
    /\ j \in Seq(Byte) /\ Len(j) = Len(c) + 1 + Len(c2)
    /\ \A i \in 1 .. Len(c) : j[i] = c[i]
    /\ j[Len(c) + 1] = b
    /\ \A i \in 1 .. Len(c2) : j[Len(c) + 1 + i] = c2[i]

\* addPrefixBefore makes such a prefix.
LEMMA JoinPrefix ==
    ASSUME NEW c \in Seq(Byte), NEW b \in Byte, NEW c2 \in Seq(Byte)
    PROVE  Joins(c \o <<b>> \o c2, c, b, c2)
<1> DEFINE a == c \o <<b>>
           j == a \o c2
<1>1. Len(c) \in Nat /\ Len(c2) \in Nat
  BY SeqElements
<1>2. <<b>> \in Seq(Byte) /\ Len(<<b>>) = 1 /\ <<b>>[1] = b
  OBVIOUS
<1>3. /\ a \in Seq(Byte) /\ Len(a) = Len(c) + 1
      /\ \A i \in 1 .. Len(c) : a[i] = c[i]
      /\ a[Len(c) + 1] = b
  BY <1>1, <1>2
<1> HIDE DEF a
<1>4. j \in Seq(Byte) /\ Len(j) = Len(a) + Len(c2)
  BY <1>3
<1>5. \A i \in 1 .. Len(a) : j[i] = a[i]
  BY <1>3
<1>6. ASSUME NEW i \in 1 .. Len(c2) PROVE j[Len(c) + 1 + i] = c2[i]
  <2>1. Len(a) + i \in 1 .. Len(a) + Len(c2) /\ Len(a) + i > Len(a) /\ (Len(a) + i) - Len(a) = i
    BY <1>1, <1>3
  <2>2. j[Len(a) + i] = c2[i]
    BY <2>1, <1>3
  <2> QED
    BY <2>2, <1>3
<1> HIDE DEF j
<1>7. Len(j) = Len(c) + 1 + Len(c2)
  BY <1>1, <1>3, <1>4
<1>8. \A i \in 1 .. Len(c) : i \in 1 .. Len(a)
  BY <1>1, <1>3
<1>9. Len(c) + 1 \in 1 .. Len(a)
  BY <1>1, <1>3
<1>10. Joins(j, c, b, c2)
  BY <1>3, <1>4, <1>5, <1>6, <1>7, <1>8, <1>9 DEF Joins
<1> QED
  BY <1>10 DEF j, a

\* The bytes that lead through both.
ThroughBoth(c, b, c2, d, e, pp, px) ==
    /\ e = d + Len(c)
    /\ \A i \in 1 .. Len(c) : pp[d + i - 1] = c[i]
    /\ \A i \in 0 .. e - 1 : px[i] = pp[i]
    /\ px[e] = b
    /\ \A i \in 1 .. Len(c2) : px[(e + 1) + i - 1] = c2[i]

JoinedPath(j, c2, d, e, px) ==
    /\ \A i \in 1 .. Len(j) : px[d + i - 1] = j[i]
    /\ d + Len(j) = (e + 1) + Len(c2)
    /\ Len(j) \in Nat

\* The joined prefix leads where parent, byte and child led.
LEMMA JoinPath ==
    ASSUME NEW c \in Seq(Byte), NEW b, NEW c2 \in Seq(Byte), NEW j, Joins(j, c, b, c2),
           NEW d \in Nat, NEW e \in Nat, NEW pp, NEW px, ThroughBoth(c, b, c2, d, e, pp, px)
    PROVE  JoinedPath(j, c2, d, e, px)
<1>0. /\ e = d + Len(c)
      /\ \A i \in 1 .. Len(c) : pp[d + i - 1] = c[i]
      /\ \A i \in 0 .. e - 1 : px[i] = pp[i]
      /\ px[e] = b
      /\ \A i \in 1 .. Len(c2) : px[(e + 1) + i - 1] = c2[i]
  BY DEF ThroughBoth
<1>1. /\ Len(j) = Len(c) + 1 + Len(c2)
      /\ \A i \in 1 .. Len(c) : j[i] = c[i]
      /\ j[Len(c) + 1] = b
      /\ \A i \in 1 .. Len(c2) : j[Len(c) + 1 + i] = c2[i]
  BY DEF Joins
<1>2. Len(c) \in Nat /\ Len(c2) \in Nat
  BY SeqElements
<1>3. ASSUME NEW i \in 1 .. Len(j) PROVE px[d + i - 1] = j[i]
  <2>0. i \in Nat /\ i >= 1 /\ i <= Len(c) + 1 + Len(c2)
    BY <1>1, <1>2
  <2>1. CASE i <= Len(c)
    <3>1. i \in 1 .. Len(c) /\ d + i - 1 \in 0 .. e - 1
      BY <2>0, <2>1, <1>0, <1>2
    <3> QED
      BY <3>1, <1>0, <1>1
  <2>2. CASE i = Len(c) + 1
    <3>1. d + i - 1 = e
      BY <2>0, <2>2, <1>0, <1>2
    <3> QED
      BY <3>1, <2>2, <1>0, <1>1
  <2>3. CASE i > Len(c) + 1
    <3> DEFINE m == i - (Len(c) + 1)
    <3>1. m \in 1 .. Len(c2) /\ Len(c) + 1 + m = i /\ (e + 1) + m - 1 = d + i - 1
      BY <2>0, <2>3, <1>0, <1>2
    <3> HIDE DEF m
    <3>2. j[Len(c) + 1 + m] = c2[m] /\ px[(e + 1) + m - 1] = c2[m]
      BY <3>1, <1>0, <1>1
    <3> QED
      BY <3>1, <3>2
  <2> QED
    BY <2>0, <2>1, <2>2, <2>3, <1>2
<1>4. d + Len(j) = (e + 1) + Len(c2) /\ Len(j) \in Nat
  BY <1>0, <1>1, <1>2
<1> QED
  BY <1>3, <1>4 DEF JoinedPath

\* A child of p that can take the place of p.
RaisedIs(h, D, P, p, x, m) ==
    /\ Fits(m, D[p], P[x]) /\ m.isLeaf = h[x].isLeaf
    /\ h[x].isLeaf => m = h[x]
    /\ ~h[x].isLeaf =>
          /\ Shape(m) /\ m.compressed \in Seq(Byte) /\ m.kids = h[x].kids
          /\ m.isLeaf \in BOOLEAN
          /\ \A b \in DOMAIN m.kids : LinkOK(m, D[p], P[x], b, D[m.kids[b]], P[m.kids[b]])

\* addPrefixBefore makes one of either child of a node4.
LEMMA Raised ==
    ASSUME NEW h, HeapOK(h), NEW r, NEW A, NEW D \in Depths, NEW P \in Paths,
           NEW U \in Depths, Radix(h, r, A, D, P, U), NEW p \in A, ~h[p].isLeaf,
           NEW b \in DOMAIN h[p].kids, NEW x, x = h[p].kids[b]
    PROVE  RaisedIs(h, D, P, p, x, addPrefixBefore(h[p], b, h[x]))
<1> DEFINE d == D[p]
           c == h[p].compressed
           e == d + Len(c)
           m == addPrefixBefore(h[p], b, h[x])
           pp == P[p]
           px == P[x]
<1>1. InnerIs(h, D, P, p)
  BY InnerFacts
<1>2. /\ d \in Nat /\ c \in Seq(Byte) /\ Len(c) \in Nat /\ b \in Byte
      /\ \A i \in 1 .. Len(c) : pp[d + i - 1] = c[i]
  BY <1>1 DEF InnerIs
<1>3. ChildIs(r, A, D, P, U, p, b, x, e)
  BY ChildFacts
<1>4. /\ x \in A /\ e \in Nat /\ D[x] = e + 1 /\ px[e] = b
      /\ \A i \in 0 .. e - 1 : px[i] = pp[i]
  BY <1>3 DEF ChildIs
<1>5. CASE h[x].isLeaf
  <2>1. m = h[x]
    BY <1>5 DEF addPrefixBefore
  <2>2. LeafOK(h[x], D[x], px)
    BY <1>4, <1>5 DEF Radix, Fits
  <2>3. /\ D[x] <= Len(h[x].key) + 1 /\ \A i \in 0 .. D[x] - 1 : px[i] = At(h[x].key, i)
    BY <2>2 DEF LeafOK
  <2>4. Len(h[x].key) \in Nat
    <3>1. x \in 1 .. Len(h)
      BY <1>4, SeqFacts DEF HeapOK, Radix
    <3>2. NodeOK(h, x)
      BY <3>1 DEF HeapOK
    <3>3. h[x].key \in Keys
      BY <3>2, <1>5 DEF NodeOK, Leaves
    <3> QED
      BY <3>3, KeyFacts
  <2>5. d <= D[x] /\ D[x] \in Nat
    BY <1>2, <1>4
  <2> HIDE DEF d, m
  <2>6. d <= Len(h[x].key) + 1 /\ \A i \in 0 .. d - 1 : i \in 0 .. D[x] - 1
    BY <2>3, <2>4, <2>5, <1>2
  <2>7. LeafOK(h[x], d, px)
    BY <2>3, <2>6 DEF LeafOK
  <2>8. Fits(m, d, px)
    BY <2>1, <2>7, <1>5 DEF Fits
  <2> QED
    BY <2>1, <2>8, <1>5 DEF RaisedIs, m, d
<1>6. CASE ~h[x].isLeaf
  <2> DEFINE c2 == h[x].compressed
             j  == c \o <<b>> \o c2
  <2>1. m = InnerAt(j, h[x].kind, h[x].kids)
    BY <1>6 DEF addPrefixBefore
  <2>2. InnerIs(h, D, P, x)
    BY <1>4, <1>6, InnerFacts
  <2>3. /\ c2 \in Seq(Byte) /\ Len(c2) \in Nat /\ Shape(h[x]) /\ Sized(h[x])
        /\ \A i \in 1 .. Len(c2) : px[D[x] + i - 1] = c2[i]
        /\ \A i \in 0 .. D[x] + Len(c2) - 1 : px[i] # 0
    BY <2>2 DEF InnerIs
  <2>4. \A i \in 1 .. Len(c2) : px[(e + 1) + i - 1] = c2[i]
    BY <2>3, <1>4
  <2>5. Joins(j, c, b, c2)
    BY <2>3, <1>2, JoinPrefix
  <2>6. j \in Seq(Byte)
    BY <2>5 DEF Joins
  <2>7. IsMap(h[x].kids, DOMAIN h[x].kids)
    BY <2>3 DEF Shape
  <2> HIDE DEF j, m, px, pp
  <2>8. /\ Shape(m) /\ ~m.isLeaf /\ m.isLeaf \in BOOLEAN
        /\ m.compressed = j /\ m.kind = h[x].kind /\ m.kids = h[x].kids
    <3> DEFINE f == h[x].kids
               kind == h[x].kind
    <3>1. m = InnerAt(j, kind, f) /\ IsMap(f, DOMAIN f)
      BY <2>1, <2>7
    <3> HIDE DEF f, kind
    <3>2. /\ Shape(m) /\ ~m.isLeaf /\ m.isLeaf \in BOOLEAN
          /\ m.compressed = j /\ m.kind = kind /\ m.kids = f
      BY <3>1, NodeShape
    <3> QED
      BY <3>2 DEF f, kind
  <2>9a. e = d + Len(c)
    OBVIOUS
  <2> HIDE DEF e, d, c, c2
  <2>9. /\ \A i \in 1 .. Len(j) : px[d + i - 1] = j[i]
        /\ d + Len(j) = (e + 1) + Len(c2) /\ Len(j) \in Nat
    <3>1. ThroughBoth(c, b, c2, d, e, pp, px)
      BY <2>4, <2>9a, <1>2, <1>4 DEF ThroughBoth
    <3>2. c \in Seq(Byte) /\ c2 \in Seq(Byte) /\ d \in Nat /\ e \in Nat
      BY <2>3, <1>2, <1>4
    <3>3. JoinedPath(j, c2, d, e, px)
      BY <3>1, <3>2, <2>5, JoinPath
    <3> QED
      BY <3>3 DEF JoinedPath
  <2>10. InnerOK(m, d, px)
    <3>1. Sized(m)
      BY <2>3, <2>8 DEF Sized
    <3>2. d + Len(j) = D[x] + Len(c2)
      BY <2>9, <1>4
    <3>3. \A i \in 0 .. d + Len(j) - 1 : px[i] # 0
      <4>0. /\ d \in Nat /\ Len(j) \in Nat
            /\ D[x] \in Nat /\ Len(c2) \in Nat
        BY <1>2, <1>4, <2>3, <2>9
      <4>1. D[x] + Len(c2) - 1 = d + Len(j) - 1
        BY <3>2, <4>0
      <4>2. \A i \in 0 .. D[x] + Len(c2) - 1 : px[i] # 0
        BY <2>3 DEF px
      <4> QED
        BY <4>1, <4>2
    <3> QED
      BY <3>1, <3>3, <2>8, <2>9 DEF InnerOK
  <2>11. ASSUME NEW a \in DOMAIN m.kids
         PROVE  LinkOK(m, d, px, a, D[m.kids[a]], P[m.kids[a]])
    <3> DEFINE ch == h[x].kids[a]
               e2 == D[x] + Len(c2)
    <3>1. ChildIs(r, A, D, P, U, x, a, ch, e2)
      BY <2>8, <1>4, <1>6, ChildFacts DEF c2
    <3>2. D[ch] = e2 + 1 /\ P[ch][e2] = a /\ \A i \in 0 .. e2 - 1 : P[ch][i] = px[i]
      BY <3>1 DEF ChildIs, px
    <3>3. d + Len(m.compressed) = e2
      BY <2>8, <2>9, <1>4
    <3> HIDE DEF ch, e2
    <3>4. LinkOK(m, d, px, a, D[ch], P[ch])
      BY <3>2, <3>3 DEF LinkOK
    <3> QED
      BY <3>4, <2>8 DEF ch
  <2>12. Fits(m, d, px)
    BY <2>8, <2>10 DEF Fits
  <2>13. m.isLeaf = h[x].isLeaf
    <3>1. NodeOK(h, x)
      BY <1>4, SeqFacts DEF HeapOK, Radix
    <3>2. h[x].isLeaf \in BOOLEAN
      BY <3>1 DEF NodeOK
    <3> QED
      BY <3>2, <2>8, <1>6
  <2> QED
    BY <2>6, <2>8, <2>11, <2>12, <2>13, <1>6 DEF RaisedIs, m, d, px
<1> QED
  BY <1>5, <1>6

\* Inner.del of a child of a node that keeps two.
LEMMA DropTree ==
    ASSUME NEW h, HeapOK(h), NEW r, NEW A, NEW D \in Depths, NEW P \in Paths,
           NEW U \in Depths, Radix(h, r, A, D, P, U), NEW p \in A, ~h[p].isLeaf,
           NEW k \in DOMAIN h[p].kids, ~(h[p].kind = "n4" /\ min(h[p]))
    PROVE  Good(h, dropAt(h, p, k), r) /\ DropIs(h, dropAt(h, p, k), A, p, k)
<1> DEFINE n == h[p]
           kind == IF min(n) THEN Smaller(n.kind) ELSE n.kind
           f == WithoutKid(n.kids, k)
           m == InnerAt(n.compressed, kind, f)
           g == dropAt(h, p, k)
<1>1. InnerIs(h, D, P, p)
  BY InnerFacts
<1>2. /\ p \in 1 .. Len(h) /\ DOMAIN n.kids \subseteq Byte /\ Sized(n)
      /\ n.compressed \in Seq(Byte)
      /\ \A b \in DOMAIN n.kids : n.kids[b] \in 1 .. Len(h)
  BY <1>1 DEF InnerIs
<1>3. IsSeq(h) /\ Len(h) \in Nat /\ DOMAIN h = 1 .. Len(h)
  BY SeqFacts DEF HeapOK
<1>4. g = Put(h, p, m)
  BY DEF dropAt, Put
<1>5. HasKidNot(f, n.kids, k)
  BY WithoutKidFacts
<1>6. /\ IsMap(f, DOMAIN n.kids \ {k}) /\ DOMAIN f = DOMAIN n.kids \ {k}
      /\ \A b \in DOMAIN f : f[b] = n.kids[b]
  BY <1>5 DEF HasKidNot
<1> HIDE DEF f, kind
<1>7. /\ Shape(m) /\ ~m.isLeaf /\ m.isLeaf \in BOOLEAN
      /\ m.compressed = n.compressed /\ m.kind = kind /\ m.kids = f
  BY <1>6, NodeShape
<1> HIDE DEF g, m
<1>8. /\ IsSeq(g) /\ Len(g) = Len(h) /\ g[p] = m
      /\ \A q \in 1 .. Len(h) : q # p => g[q] = h[q]
  BY <1>2, <1>3, <1>4, PutFacts
<1>9. Sized(m)
  <2>1. k \in DOMAIN n.kids /\ ~(n.kind = "n4" /\ min(n))
    OBVIOUS
  <2> HIDE DEF n
  <2>2. m.kind = IF min(n) THEN Smaller(n.kind) ELSE n.kind
    BY <1>7 DEF kind
  <2>3. DOMAIN m.kids = DOMAIN n.kids \ {k}
    BY <1>6, <1>7
  <2> QED
    BY <2>1, <2>2, <2>3, <1>2, SizedFewer
<1>10. ~n.isLeaf
  OBVIOUS
<1>11. Tree(g, r)
  <2>1. /\ ~g[p].isLeaf /\ Sized(g[p]) /\ g[p].compressed = h[p].compressed
        /\ DOMAIN g[p].kids \subseteq DOMAIN h[p].kids
        /\ \A b \in DOMAIN g[p].kids : g[p].kids[b] = h[p].kids[b]
    BY <1>6, <1>7, <1>8, <1>9
  <2>2. \A q \in A : q # p => g[q] = h[q]
    BY <1>3, <1>8 DEF Radix
  <2> QED
    BY <2>1, <2>2, <1>8, Drop
<1>12. ASSUME NEW q \in 1 .. Len(g) PROVE NodeOK(g, q)
  <2>1. CASE q = p
    <3>1. \A b \in DOMAIN m.kids : b \in Byte /\ m.kids[b] \in 1 .. Len(g)
      BY <1>2, <1>6, <1>7, <1>8
    <3> QED
      BY <3>1, <2>1, <1>2, <1>7, <1>8 DEF NodeOK
  <2>2. CASE q # p
    <3>1. NodeOK(h, q) /\ g[q] = h[q]
      BY <2>2, <1>8 DEF HeapOK
    <3> QED
      BY <3>1, <1>3, <1>8, NodeKept
  <2> QED
    BY <2>1, <2>2
<1>13. HeapOK(g)
  BY <1>8, <1>12 DEF HeapOK
<1>14. Grown(h, g)
  BY <1>3, <1>7, <1>8 DEF Grown
<1>15. DropIs(h, g, A, p, k)
  <2>1. \A q \in A : q # p => g[q] = h[q]
    BY <1>3, <1>8 DEF Radix
  <2> QED
    BY <2>1, <1>6, <1>7, <1>8 DEF DropIs
<1> QED
  BY <1>11, <1>13, <1>14, <1>15 DEF Good, g

\* A node with two children or more has another one, whichever it loses.
LEMMA OtherKid ==
    ASSUME NEW n, Sized(n), DOMAIN n.kids \subseteq Byte, NEW k \in DOMAIN n.kids,
           NEW b, b = Min(DOMAIN WithoutKid(n.kids, k))
    PROVE  b \in DOMAIN n.kids /\ b # k /\ WithoutKid(n.kids, k)[b] = n.kids[b]
<1> DEFINE S == DOMAIN n.kids \ {k}
<1>1. HasKidNot(WithoutKid(n.kids, k), n.kids, k)
  BY WithoutKidFacts
<1>2. /\ DOMAIN WithoutKid(n.kids, k) = S
      /\ \A a \in DOMAIN n.kids : a # k => WithoutKid(n.kids, k)[a] = n.kids[a]
  BY <1>1 DEF HasKidNot
<1>3. /\ n.kind \in {"n4", "n16", "n48", "n256"}
      /\ Lo(n.kind) <= Cardinality(DOMAIN n.kids)
  BY DEF Sized
<1>4. Lo(n.kind) \in Nat /\ Lo(n.kind) >= 2
  BY <1>3, Constants DEF Lo
<1>5. IsFiniteSet(DOMAIN n.kids) /\ Cardinality(DOMAIN n.kids) \in Nat
  BY ByteSets
<1>6. Cardinality(DOMAIN n.kids) >= 2
  BY <1>3, <1>4, <1>5
<1>7. Cardinality(S) = Cardinality(DOMAIN n.kids) - 1
  BY <1>5, FS_RemoveElement
<1>8. S # {}
  BY <1>5, <1>6, <1>7, FS_EmptySet
<1>9. S \in SUBSET Nat
  BY Constants DEF Byte
<1> HIDE DEF S
<1>10. b \in S
  BY <1>2, <1>8, <1>9, MinOfNats
<1> QED
  BY <1>2, <1>10 DEF S

\* The heap after the node p has made way for its child x, which is m now.
CollapseIs(h, g, p, x, m) ==
    /\ HeapOK(g) /\ Len(g) = Len(h) /\ Grown(h, g) /\ g[x] = m
    /\ \A q \in 1 .. Len(h) : q # p /\ q # x => g[q] = h[q]

\* Inner.del writes to the node that it leaves behind and to the child.
LEMMA CollapseHeap ==
    ASSUME NEW h, HeapOK(h), NEW r, NEW A, NEW D \in Depths, NEW P \in Paths,
           NEW U \in Depths, Radix(h, r, A, D, P, U), NEW p \in A, ~h[p].isLeaf,
           NEW k, NEW b \in DOMAIN h[p].kids, NEW x, x = h[p].kids[b],
           NEW m, RaisedIs(h, D, P, p, x, m),
           NEW stub, stub = InnerAt(h[p].compressed, h[p].kind, WithoutKid(h[p].kids, k))
    PROVE  CollapseIs(h, Put(Put(h, p, stub), x, m), p, x, m)
<1> DEFINE n == h[p]
           f == WithoutKid(n.kids, k)
           u == Put(h, p, stub)
           g == Put(u, x, m)
<1>1. InnerIs(h, D, P, p)
  BY InnerFacts
<1>2. /\ p \in 1 .. Len(h) /\ DOMAIN n.kids \subseteq Byte /\ n.compressed \in Seq(Byte)
      /\ \A a \in DOMAIN n.kids : n.kids[a] \in 1 .. Len(h)
  BY <1>1 DEF InnerIs
<1>3. IsSeq(h) /\ Len(h) \in Nat
  BY SeqFacts DEF HeapOK
<1>4. x # p
  <2>1. ChildIs(r, A, D, P, U, p, b, h[p].kids[b], D[p] + Len(h[p].compressed))
    BY ChildFacts
  <2> QED
    BY <2>1 DEF ChildIs
<1>5. x \in 1 .. Len(h)
  BY <1>2
<1>6. HasKidNot(f, n.kids, k)
  BY WithoutKidFacts
<1>7. /\ IsMap(f, DOMAIN n.kids \ {k}) /\ DOMAIN f = DOMAIN n.kids \ {k}
      /\ \A a \in DOMAIN f : f[a] = n.kids[a]
  BY <1>6 DEF HasKidNot
<1> HIDE DEF f
<1>8. /\ Shape(stub) /\ ~stub.isLeaf /\ stub.isLeaf \in BOOLEAN
      /\ stub.compressed = n.compressed /\ stub.kids = f
  <2>1. stub = InnerAt(n.compressed, n.kind, f)
    BY DEF f
  <2> QED
    BY <2>1, <1>7, NodeShape
<1> HIDE DEF u, g
<1>9. /\ IsSeq(u) /\ Len(u) = Len(h) /\ u[p] = stub
      /\ \A q \in 1 .. Len(h) : q # p => u[q] = h[q]
  BY <1>2, <1>3, PutFacts DEF u
<1>10. /\ IsSeq(g) /\ Len(g) = Len(h) /\ g[x] = m
       /\ \A q \in 1 .. Len(h) : q # x => g[q] = u[q]
  <2>1. x \in 1 .. Len(u)
    BY <1>5, <1>9
  <2>2. /\ IsSeq(g) /\ Len(g) = Len(u) /\ g[x] = m
        /\ \A q \in 1 .. Len(u) : q # x => g[q] = u[q]
    BY <2>1, <1>9, PutFacts DEF g
  <2> QED
    BY <2>2, <1>9
<1>11. g[p] = stub /\ \A q \in 1 .. Len(h) : q # p /\ q # x => g[q] = h[q]
  BY <1>2, <1>4, <1>9, <1>10
<1>12. NodeOK(h, x)
  BY <1>5 DEF HeapOK
<1>13. NodeOK(g, x) /\ (~h[x].isLeaf => ~g[x].isLeaf)
  <2>1. CASE h[x].isLeaf
    <3>1. g[x] = h[x]
      BY <2>1, <1>10 DEF RaisedIs
    <3>2. Len(g) \in Nat /\ Len(h) <= Len(g)
      BY <1>3, <1>10
    <3>3. NodeOK(g, x)
      BY <3>1, <3>2, <1>3, <1>12, NodeKept
    <3> QED
      BY <3>1, <3>3
  <2>2. CASE ~h[x].isLeaf
    <3>1. /\ Shape(m) /\ m.compressed \in Seq(Byte) /\ m.kids = h[x].kids
          /\ m.isLeaf \in BOOLEAN /\ m.isLeaf = h[x].isLeaf
      BY <2>2 DEF RaisedIs
    <3>2. \A a \in DOMAIN m.kids : a \in Byte /\ m.kids[a] \in 1 .. Len(g)
      BY <3>1, <2>2, <1>10, <1>12 DEF NodeOK
    <3> QED
      BY <3>1, <3>2, <2>2, <1>10 DEF NodeOK
  <2> QED
    BY <2>1, <2>2
<1>14. NodeOK(g, p)
  <2>1. \A a \in DOMAIN stub.kids : a \in Byte /\ stub.kids[a] \in 1 .. Len(g)
    BY <1>2, <1>7, <1>8, <1>10
  <2> QED
    BY <2>1, <1>2, <1>8, <1>11 DEF NodeOK
<1>15. ASSUME NEW q \in 1 .. Len(g), q # p, q # x PROVE NodeOK(g, q)
  <2>1. NodeOK(h, q) /\ g[q] = h[q]
    BY <1>10, <1>11, <1>15 DEF HeapOK
  <2> QED
    BY <2>1, <1>3, <1>10, NodeKept
<1>16. HeapOK(g)
  BY <1>10, <1>13, <1>14, <1>15 DEF HeapOK
<1>17. Grown(h, g)
  BY <1>3, <1>8, <1>10, <1>11, <1>13 DEF Grown
<1>18. CollapseIs(h, g, p, x, m)
  BY <1>10, <1>11, <1>16, <1>17 DEF CollapseIs
<1> QED
  BY <1>18 DEF g, u

\* The other child of a root becomes the root.
LEMMA CollapseRoot ==
    ASSUME NEW h, HeapOK(h), NEW r, NEW A, NEW D \in Depths, NEW P \in Paths,
           NEW U \in Depths, Radix(h, r, A, D, P, U), ~h[r].isLeaf,
           NEW b \in DOMAIN h[r].kids, NEW x, x = h[r].kids[b],
           NEW m, RaisedIs(h, D, P, r, x, m), NEW g, CollapseIs(h, g, r, x, m)
    PROVE  Good(h, g, x) /\ LiftIs(h, g, A, r, x)
<1>1. A \subseteq 1 .. Len(h) /\ Len(h) \in Nat /\ r \in A /\ D[r] = 0
  BY SeqFacts DEF HeapOK, Radix
<1>2. /\ HeapOK(g) /\ Len(g) = Len(h) /\ Grown(h, g) /\ g[x] = m
      /\ \A q \in 1 .. Len(h) : q # r /\ q # x => g[q] = h[q]
  BY DEF CollapseIs
<1>3. IsSeq(g) /\ DOMAIN g = 1 .. Len(h)
  BY <1>2, SeqFacts DEF HeapOK
<1>4. ChildIs(r, A, D, P, U, r, b, x, D[r] + Len(h[r].compressed))
  BY <1>1, ChildFacts
<1>5. x \in A /\ x # r /\ U[x] = r
  BY <1>4 DEF ChildIs
<1>6. \A q \in A : ~h[q].isLeaf =>
         \A a \in DOMAIN h[q].kids :
            LET c == h[q].kids[a] IN c \in A /\ c # r /\ c # q /\ U[c] = q
  <2>1. SUFFICES ASSUME NEW q \in A, ~h[q].isLeaf, NEW a \in DOMAIN h[q].kids
                 PROVE  LET c == h[q].kids[a] IN c \in A /\ c # r /\ c # q /\ U[c] = q
    OBVIOUS
  <2>2. ChildIs(r, A, D, P, U, q, a, h[q].kids[a], D[q] + Len(h[q].compressed))
    BY <2>1, ChildFacts
  <2> QED
    BY <2>2 DEF ChildIs
<1>7. \A q \in A \ {r} : q # x /\ ~h[q].isLeaf =>
         \A a \in DOMAIN h[q].kids : h[q].kids[a] \notin {r} \cup {x}
  BY <1>5, <1>6
<1>8. Fits(g[x], 0, P[x])
  BY <1>1, <1>2 DEF RaisedIs
<1>9. ~g[x].isLeaf =>
         \A a \in DOMAIN g[x].kids :
            LET c == g[x].kids[a]
            IN  c \in A \ {r} /\ c # x /\ U[c] = x /\ LinkOK(g[x], 0, P[x], a, D[c], P[c])
  <2>1. SUFFICES ASSUME ~m.isLeaf, NEW a \in DOMAIN m.kids
                 PROVE  LET c == m.kids[a]
                        IN  /\ c \in A \ {r} /\ c # x /\ U[c] = x
                            /\ LinkOK(m, 0, P[x], a, D[c], P[c])
    BY <1>2
  <2>2. ~h[x].isLeaf
    BY <2>1 DEF RaisedIs
  <2>3. m.kids = h[x].kids /\ LinkOK(m, 0, P[x], a, D[m.kids[a]], P[m.kids[a]])
    BY <2>1, <2>2, <1>1 DEF RaisedIs
  <2>4. a \in DOMAIN h[x].kids
    BY <2>1, <2>3
  <2> DEFINE c == h[x].kids[a]
  <2>5. c \in A /\ c # r /\ c # x /\ U[c] = x
    BY <2>2, <2>4, <1>5, <1>6
  <2>6. m.kids[a] = c
    BY <2>3
  <2> HIDE DEF c
  <2> QED
    BY <2>3, <2>5, <2>6
<1>10. RiseOK(h, g, A, D, P, U, x, {r}, P[x])
  BY <1>1, <1>2, <1>3, <1>5, <1>7, <1>8, <1>9 DEF RiseOK
<1>11. P[x] \in [Nat -> Byte]
  BY <1>1, <1>5 DEF Paths
<1>12. Tree(g, x)
  BY <1>3, <1>10, <1>11, Rise
<1>13. ASSUME NEW q \in A, q # r
       PROVE  /\ g[q].isLeaf = h[q].isLeaf /\ (h[q].isLeaf => g[q] = h[q])
              /\ Kids(g[q]) = {IF c = r THEN x ELSE c : c \in Kids(h[q])}
  <2>1. r \notin Kids(h[q])
    BY <1>6 DEF Kids
  <2>2. CASE q = x
    <3>1. m.isLeaf = h[x].isLeaf /\ (h[x].isLeaf => m = h[x]) /\ Kids(m) = Kids(h[x])
      BY DEF RaisedIs, Kids
    <3> QED
      BY <3>1, <2>1, <2>2, <1>2
  <2>3. CASE q # x
    BY <2>1, <2>3, <1>1, <1>2, <1>13
  <2> QED
    BY <2>2, <2>3
<1>14. LiftIs(h, g, A, r, x)
  BY <1>13 DEF LiftIs
<1> QED
  BY <1>2, <1>12, <1>14 DEF Good

\* The other child of a node takes its place in the parent a.
LEMMA CollapseInner ==
    ASSUME NEW h, HeapOK(h), NEW r, NEW A, NEW D \in Depths, NEW P \in Paths,
           NEW U \in Depths, Radix(h, r, A, D, P, U), NEW p \in A, ~h[p].isLeaf,
           NEW b \in DOMAIN h[p].kids, NEW x, x = h[p].kids[b],
           NEW m, RaisedIs(h, D, P, p, x, m), NEW u, CollapseIs(h, u, p, x, m),
           NEW a \in A, ~h[a].isLeaf, NEW k \in DOMAIN h[a].kids, h[a].kids[k] = p
    PROVE  Good(h, replaceAt(u, a, k, x), r) /\ LiftIs(h, replaceAt(u, a, k, x), A, p, x)
<1> DEFINE n == h[a]
           f == WithKid(n.kids, k, x)
           two == InnerAt(n.compressed, n.kind, f)
           g == replaceAt(u, a, k, x)
           e == D[a] + Len(n.compressed)
           l == D[p] + Len(h[p].compressed)
<1>1. A \subseteq 1 .. Len(h) /\ Len(h) \in Nat /\ r \in A
  BY SeqFacts DEF HeapOK, Radix
<1>2. /\ HeapOK(u) /\ Len(u) = Len(h) /\ Grown(h, u) /\ u[x] = m
      /\ \A q \in 1 .. Len(h) : q # p /\ q # x => u[q] = h[q]
  BY DEF CollapseIs
<1>3. ChildIs(r, A, D, P, U, a, k, p, e) /\ ChildIs(r, A, D, P, U, p, b, x, l)
  BY ChildFacts
<1>4. /\ p # r /\ p # a /\ U[p] = a /\ e \in Nat /\ D[p] = e + 1 /\ P[p][e] = k
      /\ \A i \in 0 .. e - 1 : P[p][i] = P[a][i]
      /\ D[a] < D[p]
  BY <1>3 DEF ChildIs
<1>5. /\ x \in A /\ x # r /\ x # p /\ U[x] = p /\ l \in Nat /\ D[x] = l + 1
      /\ \A i \in 0 .. l - 1 : P[x][i] = P[p][i]
      /\ D[p] < D[x]
  BY <1>3 DEF ChildIs
<1>6. InnerIs(h, D, P, a) /\ InnerIs(h, D, P, p)
  BY InnerFacts
<1>7. /\ a \in 1 .. Len(h) /\ D[a] \in Nat /\ D[p] \in Nat /\ Sized(n)
      /\ Len(h[p].compressed) \in Nat /\ n.compressed \in Seq(Byte)
      /\ DOMAIN n.kids \subseteq Byte /\ \A q \in DOMAIN n.kids : n.kids[q] \in 1 .. Len(h)
  BY <1>6 DEF InnerIs
<1>8. a # x
  <2>1. D[x] \in Nat
    BY <1>5
  <2> QED
    BY <2>1, <1>4, <1>5, <1>7, SMTT(30)
<1>9. u[a] = n
  BY <1>2, <1>4, <1>7, <1>8
<1>10. HasKid(f, n.kids, k, x)
  BY WithKidFacts
<1>11. /\ IsMap(f, DOMAIN n.kids) /\ DOMAIN f = DOMAIN n.kids /\ f[k] = x
       /\ \A q \in DOMAIN n.kids : q # k => f[q] = n.kids[q]
  <2>1. DOMAIN n.kids \cup {k} = DOMAIN n.kids
    OBVIOUS
  <2> QED
    BY <2>1, <1>10 DEF HasKid
<1>12. g = Put(u, a, two)
  BY <1>9 DEF replaceAt, Put
<1> HIDE DEF f
<1>13. /\ Shape(two) /\ ~two.isLeaf /\ two.isLeaf \in BOOLEAN
       /\ two.compressed = n.compressed /\ two.kind = n.kind /\ two.kids = f
  BY <1>11, NodeShape
<1> HIDE DEF two, g
<1>14. /\ IsSeq(g) /\ Len(g) = Len(h) /\ g[a] = two
       /\ \A q \in 1 .. Len(h) : q # a => g[q] = u[q]
  <2>1. IsSeq(u) /\ a \in 1 .. Len(u)
    BY <1>2, <1>7 DEF HeapOK
  <2>2. /\ IsSeq(g) /\ Len(g) = Len(u) /\ g[a] = two
        /\ \A q \in 1 .. Len(u) : q # a => g[q] = u[q]
    BY <2>1, <1>12, PutFacts
  <2> QED
    BY <2>2, <1>2
<1>15. DOMAIN g = 1 .. Len(h)
  BY <1>14, SeqFacts
<1>16. g[x] = m
  BY <1>1, <1>2, <1>5, <1>8, <1>14
<1>17. \A q \in A \ {p} : q # a /\ q # x => g[q] = h[q]
  BY <1>1, <1>2, <1>14
<1>18. Sized(two)
  BY <1>7, <1>11, <1>13 DEF Sized
<1>19. \A q \in A : ~h[q].isLeaf =>
          \A y \in DOMAIN h[q].kids :
             LET c == h[q].kids[y]
             IN  /\ c \in A /\ c # r /\ c # q /\ U[c] = q
                 /\ P[c][D[q] + Len(h[q].compressed)] = y
  <2>1. SUFFICES ASSUME NEW q \in A, ~h[q].isLeaf, NEW y \in DOMAIN h[q].kids
                 PROVE  LET c == h[q].kids[y]
                        IN  /\ c \in A /\ c # r /\ c # q /\ U[c] = q
                            /\ P[c][D[q] + Len(h[q].compressed)] = y
    OBVIOUS
  <2>2. ChildIs(r, A, D, P, U, q, y, h[q].kids[y], D[q] + Len(h[q].compressed))
    BY <2>1, ChildFacts
  <2> QED
    BY <2>2 DEF ChildIs
<1>20. \A q \in A \ {p} : q # x /\ ~h[q].isLeaf =>
          \A y \in DOMAIN h[q].kids : q # a \/ y # k => h[q].kids[y] \notin {p} \cup {x}
  <2>1. SUFFICES ASSUME NEW q \in A \ {p}, q # x, ~h[q].isLeaf, NEW y \in DOMAIN h[q].kids,
                        q # a \/ y # k
                 PROVE  h[q].kids[y] \notin {p} \cup {x}
    OBVIOUS
  <2> DEFINE c == h[q].kids[y]
  <2>2. U[c] = q /\ P[c][D[q] + Len(h[q].compressed)] = y
    BY <2>1, <1>19
  <2>3. c # x
    BY <2>1, <2>2, <1>5
  <2>4. ASSUME c = p PROVE FALSE
    <3>1. q = a
      BY <2>2, <2>4, <1>4
    <3>2. y = k
      BY <3>1, <2>2, <2>4, <1>4
    <3> QED
      BY <3>1, <3>2, <2>1
  <2> QED
    BY <2>3, <2>4
<1>21. LinkOK(n, D[a], P[a], k, D[p], P[x])
  <2>1. e \in 0 .. l - 1 /\ \A i \in 0 .. e - 1 : i \in 0 .. l - 1
    BY <1>4, <1>5, <1>7
  <2> HIDE DEF l
  <2>2. P[x][e] = k /\ \A i \in 0 .. e - 1 : P[x][i] = P[a][i]
    BY <2>1, <1>4, <1>5
  <2> QED
    BY <2>2, <1>4 DEF LinkOK
<1>22. Fits(m, D[p], P[x])
  BY DEF RaisedIs
<1>23. ~m.isLeaf =>
          \A y \in DOMAIN m.kids :
             LET c == m.kids[y]
             IN  c \in A \ {p} /\ c # r /\ c # x /\ U[c] = x
                 /\ LinkOK(m, D[p], P[x], y, D[c], P[c])
  <2>1. SUFFICES ASSUME ~m.isLeaf, NEW y \in DOMAIN m.kids
                 PROVE  LET c == m.kids[y]
                        IN  c \in A \ {p} /\ c # r /\ c # x /\ U[c] = x
                            /\ LinkOK(m, D[p], P[x], y, D[c], P[c])
    OBVIOUS
  <2>2. ~h[x].isLeaf
    BY <2>1 DEF RaisedIs
  <2>3. m.kids = h[x].kids /\ LinkOK(m, D[p], P[x], y, D[m.kids[y]], P[m.kids[y]])
    BY <2>1, <2>2 DEF RaisedIs
  <2>4. y \in DOMAIN h[x].kids
    BY <2>1, <2>3
  <2> DEFINE c == h[x].kids[y]
  <2>5. c \in A /\ c # r /\ c # x /\ U[c] = x
    BY <2>2, <2>4, <1>5, <1>19
  <2>6. m.kids[y] = c
    BY <2>3
  <2> HIDE DEF c
  <2>7. c # p
    BY <2>5, <1>4, <1>8
  <2> QED
    BY <2>3, <2>5, <2>6, <2>7
<1>24. /\ a \in A \ {p} /\ r \in A \ {p} /\ x \in DOMAIN g /\ x \notin {p} /\ a # x /\ r # x
       /\ A \subseteq DOMAIN g
  BY <1>1, <1>4, <1>5, <1>8, <1>15
<1>25. /\ ~h[a].isLeaf /\ ~g[a].isLeaf /\ Sized(g[a]) /\ g[a].compressed = h[a].compressed
       /\ DOMAIN g[a].kids \subseteq DOMAIN h[a].kids \cup {k} /\ g[a].kids[k] = x
       /\ \A q \in DOMAIN h[a].kids : q # k => g[a].kids[q] = h[a].kids[q]
  BY <1>11, <1>13, <1>14, <1>18
<1> HIDE DEF e, l
<1>26. HangOK(h, g, r, A, D, P, U, a, k, x, {p}, D[p], P[x])
  BY <1>16, <1>17, <1>20, <1>21, <1>22, <1>23, <1>24, <1>25 DEF HangOK
<1>27. P[x] \in [Nat -> Byte]
  BY <1>1, <1>5 DEF Paths
<1> HIDE DEF n
<1>28. Tree(g, r)
  BY <1>7, <1>14, <1>26, <1>27, Hang
<1>29. ASSUME NEW q \in 1 .. Len(g) PROVE NodeOK(g, q)
  <2>1. CASE q = a
    <3>1. \A y \in DOMAIN two.kids : y \in Byte /\ two.kids[y] \in 1 .. Len(g)
      BY <1>1, <1>5, <1>7, <1>11, <1>13, <1>14
    <3> QED
      BY <3>1, <2>1, <1>7, <1>13, <1>14 DEF NodeOK
  <2>2. CASE q # a
    <3>1. NodeOK(u, q) /\ g[q] = u[q] /\ Len(u) \in Nat /\ Len(g) \in Nat /\ Len(u) <= Len(g)
      BY <2>2, <1>1, <1>2, <1>14 DEF HeapOK
    <3> QED
      BY <3>1, NodeKept
  <2> QED
    BY <2>1, <2>2
<1>30. HeapOK(g)
  BY <1>14, <1>29 DEF HeapOK
<1>31. Grown(h, g)
  BY <1>1, <1>2, <1>13, <1>14 DEF Grown
<1>32. ASSUME NEW q \in A, q # p
       PROVE  /\ g[q].isLeaf = h[q].isLeaf /\ (h[q].isLeaf => g[q] = h[q])
              /\ Kids(g[q]) = {IF c = p THEN x ELSE c : c \in Kids(h[q])}
  <2>1. CASE q = a
    <3>1. g[a].isLeaf = h[a].isLeaf /\ ~h[a].isLeaf
      <4>1. h[a].isLeaf \in BOOLEAN
        BY <1>7 DEF HeapOK, NodeOK
      <4> QED
        BY <4>1, <1>13, <1>14
    <3>2. /\ DOMAIN g[a].kids = DOMAIN h[a].kids /\ g[a].kids[k] = x
          /\ \A y \in DOMAIN h[a].kids : y # k => g[a].kids[y] = h[a].kids[y]
      BY <1>11, <1>13, <1>14 DEF n
    <3>3. \A y \in DOMAIN h[a].kids : h[a].kids[y] = p <=> y = k
      BY <1>4, <1>19
    <3>4. \A y \in DOMAIN h[a].kids :
             g[a].kids[y] = IF h[a].kids[y] = p THEN x ELSE h[a].kids[y]
      BY <3>2, <3>3
    <3>5. Kids(g[a]) = {IF c = p THEN x ELSE c : c \in Kids(h[a])}
      BY <3>1, <3>2, <3>4 DEF Kids
    <3> QED
      BY <3>1, <3>5, <2>1
  <2>2. CASE q # a
    <3>1. p \notin Kids(h[q])
      BY <2>2, <1>4, <1>19 DEF Kids
    <3>2. CASE q = x
      <4>1. m.isLeaf = h[x].isLeaf /\ (h[x].isLeaf => m = h[x]) /\ Kids(m) = Kids(h[x])
        BY DEF RaisedIs, Kids
      <4> QED
        BY <4>1, <3>1, <3>2, <1>16
    <3>3. CASE q # x
      BY <3>1, <3>3, <2>2, <1>17, <1>32
    <3> QED
      BY <3>2, <3>3
  <2> QED
    BY <2>1, <2>2
<1>33. LiftIs(h, g, A, p, x)
  BY <1>32 DEF LiftIs
<1> QED
  BY <1>28, <1>30, <1>31, <1>33 DEF Good, g

\* Inner.del of one of the two children of a node4: the node makes way for the
\* other child, in its parent or as the root.
LEMMA CollapseTree ==
    ASSUME NEW h, HeapOK(h), NEW r, NEW A, NEW D \in Depths, NEW P \in Paths,
           NEW U \in Depths, Radix(h, r, A, D, P, U), NEW key, NEW w,
           PlaceOK(h, r, A, D, P, key, w), NEW k \in DOMAIN h[w.node].kids
    PROVE  LET new == collapseAt(h, w, k)
           IN  /\ Good(h, new.heap, IF w.above = Nil THEN new.self ELSE r)
               /\ LiftIs(h, new.heap, A, w.node, new.self)
               /\ \E b \in DOMAIN h[w.node].kids : b # k /\ new.self = h[w.node].kids[b]
<1> DEFINE p == w.node
           n == h[p]
           rest == WithoutKid(n.kids, k)
           b == Min(DOMAIN rest)
           x == n.kids[b]
           m == addPrefixBefore(n, b, h[x])
           stub == InnerAt(n.compressed, n.kind, rest)
           u == Put(Put(h, p, stub), x, m)
<1>1. /\ p \in A /\ ~n.isLeaf
      /\ w.above = Nil => p = r
      /\ w.above # Nil => /\ w.above \in A /\ ~h[w.above].isLeaf
                          /\ w.byte \in DOMAIN h[w.above].kids
                          /\ h[w.above].kids[w.byte] = p
  BY DEF PlaceOK
<1>2. InnerIs(h, D, P, p)
  BY <1>1, InnerFacts
<1>3. p \in 1 .. Len(h) /\ DOMAIN n.kids \subseteq Byte /\ Sized(n)
  BY <1>2 DEF InnerIs
<1>4. b \in DOMAIN n.kids /\ rest[b] = x /\ b # k
  <2>1. k \in DOMAIN n.kids
    OBVIOUS
  <2> HIDE DEF n
  <2> QED
    BY <2>1, <1>3, OtherKid DEF rest, b, x
<1>5. ChildIs(r, A, D, P, U, p, b, x, D[p] + Len(n.compressed))
  BY <1>1, <1>4, ChildFacts
<1>6. x \in A /\ x # p
  BY <1>5 DEF ChildIs
<1> HIDE DEF b, x
<1>7. RaisedIs(h, D, P, p, x, m)
  BY <1>1, <1>4, Raised DEF x
<1>8. CollapseIs(h, u, p, x, m)
  <2>1. x = h[p].kids[b]
    BY DEF x
  <2>2. stub = InnerAt(h[p].compressed, h[p].kind, WithoutKid(h[p].kids, k))
    OBVIOUS
  <2>3. b \in DOMAIN h[p].kids /\ ~h[p].isLeaf
    BY <1>1, <1>4
  <2> HIDE DEF m, stub, n, p
  <2> QED
    BY <2>1, <2>2, <2>3, <1>1, <1>7, CollapseHeap
<1>9. /\ collapseAt(h, w, k).heap = IF w.above = Nil THEN u ELSE replaceAt(u, w.above, w.byte, x)
      /\ collapseAt(h, w, k).self = x
  <2>1. IsSeq(h) /\ DOMAIN h = 1 .. Len(h)
    BY SeqFacts DEF HeapOK
  <2>2. [h EXCEPT ![p] = stub, ![rest[b]] = addPrefixBefore(n, b, @)] = u
    <3>1. p \in DOMAIN h /\ x \in DOMAIN h
      BY <1>1, <1>6 DEF Radix
    <3> HIDE DEF p, n, stub, rest
    <3>2. [h EXCEPT ![p] = stub, ![x] = addPrefixBefore(n, b, @)]
             = [[h EXCEPT ![p] = stub] EXCEPT ![x] = addPrefixBefore(n, b, h[x])]
      BY <3>1, <1>6
    <3> QED
      BY <3>2, <1>4 DEF Put
  <2> QED
    BY <2>2, <1>4 DEF collapseAt, b
<1> HIDE DEF m, u
<1>10. CASE w.above = Nil
  <2>1. p = r
    BY <1>1, <1>10
  <2>2. /\ ~h[r].isLeaf /\ b \in DOMAIN h[r].kids /\ x = h[r].kids[b]
        /\ RaisedIs(h, D, P, r, x, m) /\ CollapseIs(h, u, r, x, m)
    BY <2>1, <1>1, <1>4, <1>7, <1>8 DEF x
  <2>3. Good(h, u, x) /\ LiftIs(h, u, A, p, x)
    BY <2>1, <2>2, CollapseRoot
  <2> QED
    BY <2>3, <1>4, <1>9, <1>10 DEF x
<1>11. CASE w.above # Nil
  <2> DEFINE a == w.above
             y == w.byte
  <2>1. a \in A /\ ~h[a].isLeaf /\ y \in DOMAIN h[a].kids /\ h[a].kids[y] = p
    BY <1>1, <1>11
  <2>2. p \in A /\ ~h[p].isLeaf /\ b \in DOMAIN h[p].kids /\ x = h[p].kids[b]
    BY <1>1, <1>4 DEF x
  <2>3. collapseAt(h, w, k).heap = replaceAt(u, a, y, x)
    BY <1>9, <1>11
  <2> HIDE DEF a, y, p
  <2>4. Good(h, replaceAt(u, a, y, x), r) /\ LiftIs(h, replaceAt(u, a, y, x), A, p, x)
    BY <2>1, <2>2, <1>7, <1>8, CollapseInner
  <2> QED
    BY <2>2, <2>3, <2>4, <1>4, <1>9, <1>11 DEF p
<1> QED
  BY <1>10, <1>11

\* A set of two bytes has no third.
LEMMA TwoBytes ==
    ASSUME NEW S \in SUBSET Byte, Cardinality(S) <= 2, NEW a \in S, NEW b \in S, a # b
    PROVE  S = {a, b}
<1>1. IsFiniteSet(S) /\ Cardinality(S) \in Nat
  BY ByteSets
<1>2a. Cardinality({a}) = 1 /\ IsFiniteSet({a})
  BY FS_Singleton
<1>2b. Cardinality({a} \cup {b}) = 2
  BY <1>2a, FS_AddElement
<1>2. Cardinality({a, b}) = 2 /\ {a, b} = {a} \cup {b}
  BY <1>2b
<1>3. {a, b} \subseteq S
  OBVIOUS
<1> QED
  BY <1>1, <1>2, <1>3, FS_Subset, FS_CardinalityType

\* Remove keeps the tree a radix tree, if any is left, and takes the leaf with the
\* key away, if there is one, and no other.
LEMMA RemovedTree ==
    ASSUME NEW h, HeapOK(h), NEW r, Tree(h, r), NEW key \in Keys
    PROVE  LET new == Removed(h, r, key)
           IN  /\ Good(h, new.heap, new.self) \/ (new.heap = h /\ new.self = Nil)
               /\ Sets(h, r, new.heap, new.self, key, {})
<1>1. PICK A1 \in SUBSET Nat, D \in Depths, P \in Paths, U \in Depths : Radix(h, r, A1, D, P, U)
  BY DEF Tree
<1>e. PICK A \in SUBSET A1 : Exact(h, r, A, D, P, U)
  BY <1>1, ExactExists
<1>r. Radix(h, r, A, D, P, U) /\ Spans(h, r, A, D)
  BY <1>e DEF Exact
<1>o. \A a \in A : \A c \in Kids(h[a]) : c \in A /\ c # r /\ c # a /\ U[c] = a
  BY <1>r, OneParent
<1>2. Good(h, h, r)
  <2>1. Len(h) \in Nat
    BY SeqFacts DEF HeapOK
  <2>2. Grown(h, h)
    BY <2>1 DEF Grown
  <2> QED
    BY <2>2 DEF Good
<1>3. CASE h[r].isLeaf
  <2>1. Removed(h, r, key).heap = h /\ Removed(h, r, key).self = IF h[r].key = key THEN Nil ELSE r
    BY <1>3 DEF Removed
  <2>2. LeavesBelow(h, r) = {h[r]} /\ LeavesBelow(h, Nil) = {}
    BY <1>3, LeafAlone DEF LeavesBelow
  <2>3. CASE h[r].key = key
    BY <2>1, <2>2, <2>3 DEF Sets
  <2>4. CASE h[r].key # key
    BY <2>1, <2>2, <2>4, <1>2 DEF Sets
  <2> QED
    BY <2>3, <2>4
<1>4. CASE ~h[r].isLeaf
  <2> DEFINE w   == delWay(h, r, key)
             n   == h[w.node]
             k   == At(key, w.depth + Len(n.compressed))
             hit == /\ checkCompressed(n, key, w.depth) /\ k \in DOMAIN n.kids
                    /\ h[n.kids[k]].isLeaf /\ h[n.kids[k]].key = key
             c   == collapseAt(h, w, k)
  <2>1. /\ w \in Places(h, r, A, D, P, key)
        /\ ~(checkCompressed(n, key, w.depth) /\ k \in DOMAIN n.kids /\ ~h[n.kids[k]].isLeaf)
    BY <1>r, <1>4, DelWay
  <2>2. Removed(h, r, key) =
          CASE ~hit -> [heap |-> h, self |-> r]
            [] hit /\ n.kind = "n4" /\ min(n) ->
                  [heap |-> c.heap, self |-> IF w.above = Nil THEN c.self ELSE r]
            [] OTHER -> [heap |-> dropAt(h, w.node, k), self |-> r]
    BY <1>4 DEF Removed, delAt
  <2> HIDE DEF w
  <2>8. ~hit => Misses(h, key, w)
    BY <2>1 DEF Misses
  <2> HIDE DEF k
  <2>3. PlaceOK(h, r, A, D, P, key, w)
    BY <2>1, <1>r, PlaceFacts
  <2>4. w.node \in A /\ ~h[w.node].isLeaf
    BY <2>3 DEF PlaceOK
  <2>5. CASE ~hit
    <3>1. Removed(h, r, key) = [heap |-> h, self |-> r]
      BY <2>2, <2>5
    <3>2. Lacks(h, A, key)
      BY <2>3, <2>5, <2>8, <1>e, MissLacks
    <3>3. Becomes(h, A, h, A, key, {})
      BY <3>2 DEF Lacks, Becomes, Content
    <3>4. Sets(h, r, h, r, key, {})
      BY <3>3, <1>r, SetsIs
    <3> QED
      BY <3>1, <3>4, <1>2
  <2>h. ASSUME hit
        PROVE  k \in DOMAIN h[w.node].kids /\ h[h[w.node].kids[k]].isLeaf
               /\ h[h[w.node].kids[k]].key = key
    BY <2>h
  <2>6. CASE hit /\ n.kind = "n4" /\ min(n)
    <3> DEFINE p == w.node
    <3>1. k \in DOMAIN h[p].kids /\ h[h[p].kids[k]].isLeaf /\ h[h[p].kids[k]].key = key
      BY <2>6, <2>h
    <3>2. Removed(h, r, key) = [heap |-> c.heap, self |-> IF w.above = Nil THEN c.self ELSE r]
      <4> HIDE DEF hit, n, c
      <4> QED
        BY <2>2, <2>6
    <3>3. h[p].kind = "n4" /\ min(h[p])
      BY <2>6
    <3> HIDE DEF hit, n
    <3> DEFINE s == IF w.above = Nil THEN c.self ELSE r
               g == c.heap
               x == c.self
    <3>4. /\ Good(h, g, s) /\ LiftIs(h, g, A, p, x)
          /\ \E b \in DOMAIN h[p].kids : b # k /\ x = h[p].kids[b]
      BY <3>1, <2>3, <1>r, CollapseTree
    <3>5. PICK b \in DOMAIN h[p].kids : b # k /\ x = h[p].kids[b]
      BY <3>4
    <3>6. DOMAIN h[p].kids = {k, b}
      <4>1. InnerIs(h, D, P, p)
        BY <2>4, <1>r, InnerFacts
      <4>2. DOMAIN h[p].kids \in SUBSET Byte /\ Cardinality(DOMAIN h[p].kids) <= 2
        BY <4>1, <3>3 DEF InnerIs, min
      <4> QED
        BY <4>2, <3>1, <3>5, TwoBytes
    <3>7. (r = p => s = x) /\ (r # p => s = r)
      <4>1. w.above = Nil => p = r
        BY <2>3 DEF PlaceOK
      <4>2. ASSUME w.above # Nil PROVE p # r
        <5> DEFINE a == w.above
        <5>1. a \in A /\ ~h[a].isLeaf /\ w.byte \in DOMAIN h[a].kids /\ h[a].kids[w.byte] = p
          BY <2>3, <4>2 DEF PlaceOK
        <5>2. p \in Kids(h[a])
          BY <5>1 DEF Kids
        <5> HIDE DEF a, p
        <5> QED
          BY <5>1, <5>2, <1>o
      <4> QED
        BY <4>1, <4>2
    <3>8. Removed(h, r, key).heap = g /\ Removed(h, r, key).self = s
      BY <3>2
    <3> HIDE DEF c, s, g, x, p
    <3>9. p \in A /\ ~h[p].isLeaf
      BY <2>4 DEF p
    <3>10. Sets(h, r, g, s, key, {})
      <4> DEFINE q == h[p].kids[k]
      <4>1. h[q].isLeaf /\ h[q].key = key /\ q = h[p].kids[k]
        BY <3>1
      <4> HIDE DEF q
      <4>2. Sets(h, r, g, s, h[q].key, {})
        BY <4>1, <3>1, <3>4, <3>5, <3>6, <3>7, <3>9, <1>e, LiftSets
      <4> QED
        BY <4>1, <4>2
    <3> QED
      BY <3>4, <3>8, <3>10
  <2>7. CASE hit /\ ~(n.kind = "n4" /\ min(n))
    <3> DEFINE p == w.node
               g == dropAt(h, p, k)
    <3>1. k \in DOMAIN h[p].kids /\ h[h[p].kids[k]].isLeaf /\ h[h[p].kids[k]].key = key
      BY <2>7, <2>h
    <3>2. ~(h[p].kind = "n4" /\ min(h[p]))
      BY <2>7
    <3>3. Removed(h, r, key) = [heap |-> g, self |-> r]
      <4> HIDE DEF hit, n, c
      <4> QED
        BY <2>2, <2>7
    <3> HIDE DEF hit, n, c
    <3>4. Good(h, g, r) /\ DropIs(h, g, A, p, k)
      BY <3>1, <3>2, <2>4, <1>r, DropTree
    <3> HIDE DEF g, p
    <3>5. p \in A /\ ~h[p].isLeaf
      BY <2>4 DEF p
    <3>6. Sets(h, r, g, r, key, {})
      <4> DEFINE q == h[p].kids[k]
      <4>1. h[q].isLeaf /\ h[q].key = key /\ q = h[p].kids[k]
        BY <3>1
      <4> HIDE DEF q
      <4>2. Sets(h, r, g, r, h[q].key, {})
        BY <4>1, <3>1, <3>4, <3>5, <1>e, DropSets
      <4> QED
        BY <4>1, <4>2
    <3> QED
      BY <3>3, <3>4, <3>6
  <2> HIDE DEF hit, n, c
  <2> QED
    BY <2>5, <2>6, <2>7
<1> QED
  BY <1>3, <1>4

-----------------------------------------------------------------------------
(* The order of what an iterator returns *)

\* bytes.Compare answers with the order of the keys.
LEMMA CompareFacts ==
    ASSUME NEW a \in Seq(Byte), NEW b \in Seq(Byte)
    PROVE  /\ Compare(a, b) > 0 => Less(b, a)
           /\ Compare(a, b) < 0 => Less(a, b)
           /\ Compare(a, b) <= 0 => ~Less(b, a)
           /\ Compare(a, b) >= 0 => ~Less(a, b)
<1>1. CASE a = b
  <2>1. ~Less(a, a)
    BY LessAsymmetric
  <2>2. ~Less(a, b) /\ ~Less(b, a)
    BY <1>1, <2>1
  <2>3. Compare(a, b) = 0
    BY <1>1, <2>2 DEF Compare
  <2> QED
    BY <2>2, <2>3
<1>2. CASE a # b /\ Less(a, b)
  <2>1. Compare(a, b) = -1
    BY <1>2 DEF Compare
  <2>2. ~Less(b, a)
    BY <1>2, LessAsymmetric
  <2> QED
    BY <1>2, <2>1, <2>2
<1>3. CASE a # b /\ ~Less(a, b)
  <2>1. Compare(a, b) = 1
    BY <1>3 DEF Compare
  <2>2. Less(b, a)
    BY <1>3, LessTotal
  <2> QED
    BY <1>3, <2>1, <2>2
<1> QED
  BY <1>1, <1>2, <1>3

\* No key is below the empty one.
LEMMA NothingBelow ==
    ASSUME NEW a \in Seq(Byte)
    PROVE  ~Less(a, <<>>)
<1>1. <<>> \in Seq(Byte) /\ Len(<<>>) = 0
  OBVIOUS
<1>2. Shared(a, <<>>) \in Nat
  BY <1>1, SharedFacts
<1> QED
  BY <1>1, <1>2 DEF Less

\* What the range r, the iterator i and the keys s it has returned have to do
\* with each other: the far bound stays, and the cursor stands at the near
\* bound at first and then at the last key.
Cursor(r, i, s) ==
    /\ r.reverse = i.reverse
    /\ i.terminate = IF i.reverse THEN r.lo ELSE r.hi
    /\ s = <<>> => i.cursor = IF i.reverse THEN r.hi ELSE r.lo
    /\ s # <<>> /\ ~i.closed => i.cursor = s[Len(s)]

\* The n-th of the keys s, which come in the order of the iteration.
Emptied(reverse, s, n) == reverse /\ \E j \in 1 .. n - 1 : s[j] = <<>>

OrderAt(r, s, n) ==
    ~Emptied(r.reverse, s, n) =>
        /\ InInterval(r, s[n])
        /\ n > 1 => IF r.reverse THEN Less(s[n], s[n - 1]) ELSE Less(s[n - 1], s[n])

Ordered(r, s) == \A n \in 1 .. Len(s) : OrderAt(r, s, n)

\* A key that inRange admits is in the range and comes after the last one.
LEMMA InRangeFacts ==
    ASSUME NEW r \in Intervals, NEW i \in Iterators, ~i.closed, NEW s \in Seq(Keys),
           Cursor(r, i, s), Ordered(r, s), NEW k \in Keys, inRange(i, k),
           ~Emptied(r.reverse, s, Len(s) + 1)
    PROVE  /\ InInterval(r, k)
           /\ s # <<>> => IF r.reverse THEN Less(k, s[Len(s)]) ELSE Less(s[Len(s)], k)
<1>1. /\ r.lo \in Seq(Byte) /\ r.hi \in Seq(Byte) /\ r.reverse \in BOOLEAN
      /\ i.cursor \in Seq(Byte) /\ i.terminate \in Seq(Byte) /\ i.reverse = r.reverse
  BY DEF Intervals, Iterators, Cursor
<1>2. k \in Seq(Byte) /\ <<>> \in Seq(Byte)
  BY KeyFacts
<1>3. ASSUME ~r.reverse
      PROVE  InInterval(r, k) /\ (s # <<>> => Less(s[Len(s)], k))
  <2>1. i.terminate = r.hi /\ (s = <<>> => i.cursor = r.lo) /\ (s # <<>> => i.cursor = s[Len(s)])
    BY <1>1, <1>3 DEF Cursor
  <2>2. Compare(k, i.cursor) > 0 /\ (r.hi = <<>> \/ Compare(k, r.hi) <= 0)
    BY <2>1, <1>1, <1>3 DEF inRange
  <2>3. Less(i.cursor, k) /\ (r.hi = <<>> \/ ~Less(r.hi, k))
    BY <2>2, <1>1, <1>2, CompareFacts
  <2>4. Less(r.lo, k)
    <3>1. CASE s = <<>>
      BY <3>1, <2>1, <2>3
    <3>2. CASE s # <<>>
      <4>1. Len(s) \in 1 .. Len(s) /\ s[Len(s)] \in Keys
        BY <3>2
      <4>2. OrderAt(r, s, Len(s))
        BY <4>1 DEF Ordered
      <4>3. InInterval(r, s[Len(s)])
        BY <4>2, <1>3 DEF OrderAt, Emptied
      <4>4. Less(r.lo, s[Len(s)])
        BY <4>3, <1>3 DEF InInterval
      <4>5. s[Len(s)] \in Seq(Byte) /\ Less(s[Len(s)], k)
        BY <4>1, <3>2, <2>1, <2>3, KeyFacts
      <4> QED
        BY <4>4, <4>5, <1>1, <1>2, LessTransitive
    <3> QED
      BY <3>1, <3>2
  <2> QED
    BY <2>1, <2>3, <2>4, <1>3 DEF InInterval
<1>4. ASSUME r.reverse
      PROVE  InInterval(r, k) /\ (s # <<>> => Less(k, s[Len(s)]))
  <2>1. i.terminate = r.lo /\ (s = <<>> => i.cursor = r.hi) /\ (s # <<>> => i.cursor = s[Len(s)])
    BY <1>1, <1>4 DEF Cursor
  <2>2. /\ Compare(k, i.cursor) < 0 \/ i.cursor = <<>>
        /\ r.lo = <<>> \/ Compare(k, r.lo) >= 0
    BY <2>1, <1>1, <1>4 DEF inRange
  <2>3. Less(k, i.cursor) \/ i.cursor = <<>>
    BY <2>2, <1>1, <1>2, CompareFacts
  <2>4. ~Less(k, r.lo)
    BY <2>2, <1>1, <1>2, CompareFacts, NothingBelow
  <2>5. CASE s = <<>>
    BY <2>1, <2>3, <2>4, <2>5, <1>4 DEF InInterval
  <2>6. CASE s # <<>>
    <3> DEFINE N == Len(s)
    <3>1. N \in Nat /\ N >= 1 /\ s[N] \in Keys
      BY <2>6
    <3>2. \A j \in 1 .. N : s[j] # <<>>
      <4>1. \A j \in 1 .. (Len(s) + 1) - 1 : s[j] # <<>>
        BY <1>4 DEF Emptied
      <4>2. (N + 1) - 1 = N
        BY <3>1
      <4> QED
        BY <4>1, <4>2
    <3>3. ~Emptied(r.reverse, s, N)
      <4>1. \A j \in 1 .. N - 1 : j \in 1 .. N
        BY <3>1
      <4> QED
        BY <4>1, <3>2 DEF Emptied
    <3>4. OrderAt(r, s, N)
      BY <3>1 DEF Ordered
    <3>5. InInterval(r, s[N])
      BY <3>3, <3>4 DEF OrderAt
    <3>6. r.hi = <<>> \/ Less(s[N], r.hi)
      BY <3>5, <1>4 DEF InInterval
    <3>7. s[N] # <<>> /\ i.cursor = s[N]
      BY <3>1, <3>2, <2>1, <2>6
    <3>8. Less(k, s[N]) /\ s[N] \in Seq(Byte)
      BY <3>1, <3>7, <2>3, KeyFacts
    <3>9. r.hi = <<>> \/ Less(k, r.hi)
      BY <3>6, <3>8, <1>1, <1>2, LessTransitive
    <3> QED
      BY <3>8, <3>9, <2>4, <1>4 DEF InInterval
  <2> QED
    BY <2>5, <2>6
<1> QED
  BY <1>1, <1>3, <1>4

\* The iterator i returns k after the keys s, which makes them t.
Admits(r, i, s, k) == ~i.closed /\ Cursor(r, i, s) /\ Ordered(r, s) /\ inRange(i, k)
Ends(r, t, k) == t \in Seq(Keys) /\ t # <<>> /\ t[Len(t)] = k /\ Ordered(r, t)

\* A key that is added keeps the order.
LEMMA OrderedAppend ==
    ASSUME NEW r \in Intervals, NEW i \in Iterators, NEW s \in Seq(Keys), NEW k \in Keys,
           Admits(r, i, s, k)
    PROVE  Ends(r, Append(s, k), k)
<1> DEFINE N == Len(s)
           t == Append(s, k)
<1>0. ~i.closed /\ Cursor(r, i, s) /\ Ordered(r, s) /\ inRange(i, k)
  BY DEF Admits
<1>1. N \in Nat /\ Len(t) = N + 1 /\ t[N + 1] = k /\ t \in Seq(Keys)
  OBVIOUS
<1>2. \A j \in 1 .. N : t[j] = s[j]
  OBVIOUS
<1> HIDE DEF N, t
<1>3. \A n \in 1 .. N + 1 : \A j \in 1 .. n - 1 : j \in 1 .. N
  BY <1>1
<1>4. \A n \in 1 .. N + 1 : Emptied(r.reverse, t, n) <=> Emptied(r.reverse, s, n)
  BY <1>2, <1>3 DEF Emptied
<1>5. ASSUME NEW n \in 1 .. N PROVE OrderAt(r, t, n)
  <2>1. OrderAt(r, s, n)
    BY <1>0 DEF Ordered, N
  <2>2. Emptied(r.reverse, t, n) <=> Emptied(r.reverse, s, n)
    BY <1>1, <1>4
  <2>3. t[n] = s[n] /\ (n > 1 => t[n - 1] = s[n - 1])
    BY <1>1, <1>2
  <2> QED
    BY <2>1, <2>2, <2>3 DEF OrderAt
<1>6. OrderAt(r, t, N + 1)
  <2>1. SUFFICES ASSUME ~Emptied(r.reverse, s, N + 1) PROVE OrderAt(r, t, N + 1)
    BY <1>1, <1>4 DEF OrderAt
  <2>2. /\ InInterval(r, k)
        /\ s # <<>> => IF r.reverse THEN Less(k, s[N]) ELSE Less(s[N], k)
    BY <2>1, <1>0, InRangeFacts DEF N
  <2>3. N + 1 > 1 => s # <<>> /\ t[(N + 1) - 1] = s[N]
    <3>1. (N + 1) - 1 = N /\ (N + 1 > 1 => N \in 1 .. N)
      BY <1>1
    <3>2. N + 1 > 1 => s # <<>>
      BY <1>1 DEF N
    <3> QED
      BY <3>1, <3>2, <1>2
  <2> QED
    BY <2>2, <2>3, <1>1 DEF OrderAt
<1>7. Ordered(r, t)
  <2>1. \A n \in 1 .. N + 1 : n \in 1 .. N \/ n = N + 1
    BY <1>1
  <2> QED
    BY <2>1, <1>1, <1>5, <1>6 DEF Ordered
<1>8. Ends(r, t, k)
  BY <1>1, <1>7 DEF Ends
<1> QED
  BY <1>8 DEF t

-----------------------------------------------------------------------------
(* Steps of an iterator *)

\* An iterator as a record.
LEMMA IteratorFields ==
    ASSUME NEW i \in Iterators
    PROVE  /\ i = [stack |-> i.stack, closed |-> i.closed, cursor |-> i.cursor,
                   terminate |-> i.terminate, reverse |-> i.reverse,
                   key |-> i.key, value |-> i.value, leaf |-> i.leaf]
           /\ i.stack \in Seq([node : Nat, curkey : Byte \cup {Nil}])
           /\ i.closed \in BOOLEAN /\ i.reverse \in BOOLEAN
           /\ i.cursor \in Seq(Byte) /\ i.terminate \in Seq(Byte)
           /\ i.key \in Keys \cup {Nil} /\ i.value \in Values \cup {Nil}
           /\ i.leaf \in Leaves \cup {Nil}
BY DEF Iterators

\* The nodes of a stack are inner nodes of the heap.
Stacked(h, s) == \A j \in 1 .. Len(s) : s[j].node \in 1 .. Len(h) /\ ~h[s[j].node].isLeaf

\* What a step within a call leaves alone.
Kept(i, j) == j.cursor = i.cursor /\ j.terminate = i.terminate /\ j.reverse = i.reverse

\* tail.curkey = &curkey
LEMMA AdvancedFacts ==
    ASSUME NEW h, NEW i \in Iterators, i.stack # <<>>, Stacked(h, i.stack), NEW b \in Byte,
           NEW j, j = Advanced(i, b)
    PROVE  /\ j \in Iterators /\ j.stack # <<>> /\ Stacked(h, j.stack)
           /\ Kept(i, j) /\ j.closed = i.closed
<1> DEFINE s == i.stack
           N == Len(s)
           c == [s[N] EXCEPT !.curkey = b]
           t == [s EXCEPT ![N] = c]
           T == [node : Nat, curkey : Byte \cup {Nil}]
<1>1. s \in Seq(T) /\ N \in Nat /\ N # 0
  BY DEF Iterators
<1>2. s[N] \in T
  <2>1. N \in 1 .. N
    BY <1>1
  <2> HIDE DEF s, N, T
  <2> QED
    BY <2>1, <1>1, SeqElements DEF N
<1>3. c \in T /\ c.node = s[N].node
  BY <1>2
<1> HIDE DEF c, T
<1>4. /\ t \in Seq(T) /\ Len(t) = N /\ t[N] = c
      /\ \A m \in 1 .. N : m # N => t[m] = s[m]
  BY <1>1, <1>3
<1>5. \A m \in 1 .. N : t[m].node = s[m].node
  BY <1>1, <1>3, <1>4
<1>6. j = [i EXCEPT !.stack = t]
  BY DEF Advanced, c
<1> HIDE DEF t
<1>7. j \in Iterators
  BY <1>4, <1>6 DEF Iterators, T
<1>8. j.stack = t /\ Kept(i, j) /\ j.closed = i.closed
  BY <1>6 DEF Iterators, Kept
<1>9. Stacked(h, t) /\ t # <<>>
  BY <1>1, <1>4, <1>5 DEF Stacked
<1> QED
  BY <1>7, <1>8, <1>9

\* The fields that a leaf sets.
LEMMA YieldedFacts ==
    ASSUME NEW i \in Iterators, NEW lf \in Leaves, NEW j, j = Yielded(i, lf)
    PROVE  /\ j \in Iterators /\ j.stack = i.stack /\ j.closed = i.closed
           /\ j.terminate = i.terminate /\ j.reverse = i.reverse
           /\ j.cursor = lf.key /\ j.key = lf.key /\ lf.key \in Keys
<1>1. lf.key \in Keys /\ lf.value \in Values \cup {Nil}
  BY DEF Leaves
<1>2. lf.key \in Seq(Byte)
  BY <1>1, KeyFacts
<1> QED
  BY <1>1, <1>2 DEF Yielded, Iterators

\* iterator.next finds a child of the top of the stack, or none.
LEMMA FoundFacts ==
    ASSUME HeapOK(heap), it \in Iterators, it.stack # <<>>, Stacked(heap, it.stack),
           Found # Nil
    PROVE  Found \in Byte /\ Child \in 1 .. Len(heap)
<1> DEFINE n == heap[Top.node]
           S == DOMAIN n.kids
           c == Top.curkey
<1>1. it.stack \in Seq([node : Nat, curkey : Byte \cup {Nil}])
  BY DEF Iterators
<1>2. Len(it.stack) \in 1 .. Len(it.stack)
  BY <1>1
<1>3. Top.node \in 1 .. Len(heap) /\ ~n.isLeaf /\ Top.curkey \in Byte \cup {Nil}
  <2>1. \A j \in 1 .. Len(it.stack) : it.stack[j] \in [node : Nat, curkey : Byte \cup {Nil}]
    BY <1>1, SeqElements
  <2>2. Top \in [node : Nat, curkey : Byte \cup {Nil}]
    BY <2>1, <1>2 DEF Top
  <2>3. Top.node \in 1 .. Len(heap) /\ ~heap[Top.node].isLeaf
    BY <1>2 DEF Stacked, Top
  <2> QED
    BY <2>2, <2>3
<1>4. NodeOK(heap, Top.node)
  BY <1>3 DEF HeapOK
<1>5. \A b \in S : b \in Byte /\ n.kids[b] \in 1 .. Len(heap)
  BY <1>3, <1>4 DEF NodeOK
<1> HIDE DEF n, S, c
<1>6. Found \in S
  <2>1. CASE it.reverse
    <3> DEFINE k == IF c = Nil THEN MaxByte + 1 ELSE c
               R == {b \in S : b < k /\ (n.kind = "n256" => b < Cardinality(S))}
    <3>1. Found = IF R = {} THEN Nil ELSE Max(R)
      BY <2>1 DEF Found, nextChild, prev, n, S, c
    <3>2. R # {}
      BY <3>1
    <3>3. R \in SUBSET (0 .. MaxByte) /\ MaxByte \in Nat
      BY <1>5, Constants DEF Byte
    <3> HIDE DEF R
    <3>4. Max(R) \in R
      BY <3>2, <3>3, MaxOfNats
    <3> QED
      BY <3>1, <3>2, <3>4 DEF R
  <2>2. CASE ~it.reverse
    <3> DEFINE k == IF c = Nil THEN -1 ELSE c
               R == {b \in S : b > k}
    <3>1. Found = IF R = {} THEN Nil ELSE Min(R)
      BY <2>2 DEF Found, nextChild, next, n, S, c
    <3>2. R # {}
      BY <3>1
    <3>3. R \in SUBSET Nat
      BY <1>5, Constants DEF Byte
    <3> HIDE DEF R
    <3>4. Min(R) \in R
      BY <3>2, <3>3, MinOfNats
    <3> QED
      BY <3>1, <3>2, <3>4 DEF R
  <2> QED
    BY <2>1, <2>2
<1> QED
  BY <1>5, <1>6 DEF Child, n

-----------------------------------------------------------------------------
(* The invariant *)

\* The tree is a radix tree.
TreeOK(h, r) == HeapOK(h) /\ (r = Nil \/ Tree(h, r))

TreePart == TreeOK(heap, root) /\ todo \in Seq(Keys)

TypePart ==
    /\ returned \in Seq(Keys) /\ asked \in Intervals \cup {Nil}
    /\ busy \in BOOLEAN /\ ok \in BOOLEAN
    /\ jumped \in SUBSET Keys /\ gapped \in SUBSET Keys /\ outdated \in SUBSET Keys
    /\ changes \in 0 .. MaxChanges

\* The iterator and its pointers, and what a call under way has done.
StackPart ==
    /\ it \in Iterators \cup {Nil}
    /\ it # Nil => Stacked(heap, it.stack)
    /\ busy => it # Nil /\ asked # Nil /\ ~it.closed /\ it.stack # <<>>

\* The range, the cursor and the keys returned.
OrderPart ==
    /\ asked = Nil => returned = <<>> /\ (it # Nil => it.stack = <<>>)
    /\ asked # Nil => it # Nil /\ Cursor(asked, it, returned) /\ Ordered(asked, returned)
    /\ it # Nil => (it.stack = <<>> /\ ~it.closed => returned = <<>>)

IteratorInv == TreePart /\ TypePart /\ StackPart /\ OrderPart

\* An iterator is not Nil.
LEMMA IteratorIsNotNil ==
    /\ \A i \in Iterators : i # Nil
    /\ \A r \in Intervals : r # Nil
BY NilIsNoObject

\* Pointers on a stack stay pointers to inner nodes.
LEMMA StackedGrown ==
    ASSUME NEW h, NEW g, HeapOK(h), HeapOK(g), Grown(h, g), NEW s, Stacked(h, s)
    PROVE  Stacked(g, s)
<1>1. Len(h) \in Nat /\ Len(g) \in Nat
  BY SeqFacts DEF HeapOK
<1> QED
  BY <1>1 DEF Stacked, Grown

\* The root of a tree is a node of the heap.
LEMMA RootFacts ==
    ASSUME NEW h, NEW r, HeapOK(h), Tree(h, r)
    PROVE  r \in 1 .. Len(h) /\ (h[r].isLeaf => h[r] \in Leaves)
<1>1. PICK A \in SUBSET Nat, D \in Depths, P \in Paths, U \in Depths : Radix(h, r, A, D, P, U)
  BY DEF Tree
<1>2. r \in 1 .. Len(h)
  BY <1>1, SeqFacts DEF HeapOK, Radix
<1>3. NodeOK(h, r)
  BY <1>2 DEF HeapOK
<1> QED
  BY <1>2, <1>3 DEF NodeOK

\* A change of the tree that keeps it one keeps the iterator valid.
LEMMA TreeChange ==
    ASSUME StackPart, OrderPart, HeapOK(heap), HeapOK(heap'), Grown(heap, heap'),
           UNCHANGED <<it, busy, asked, returned>>
    PROVE  StackPart' /\ OrderPart'
<1>1. it # Nil => Stacked(heap', it.stack)
  BY StackedGrown DEF StackPart
<1>2. StackPart'
  BY <1>1 DEF StackPart
<1>3. OrderPart'
  BY DEF OrderPart
<1> QED
  BY <1>2, <1>3

\* Fill keeps the invariant.
LEMMA FillInv ==
    ASSUME IteratorInv, Fill
    PROVE  IteratorInv'
<1> DEFINE lf == [key |-> Head(todo), value |-> Nil]
           new == Inserted(heap, root, lf)
<1>1. HeapOK(heap) /\ (root = Nil \/ Tree(heap, root)) /\ todo \in Seq(Keys)
  BY DEF IteratorInv, TreePart, TreeOK
<1>2. todo # <<>> /\ todo' = Tail(todo) /\ heap' = new.heap /\ root' = new.self
  BY DEF Fill
<1>3. lf.key \in Keys /\ lf.value \in Values \cup {Nil} /\ todo' \in Seq(Keys)
  BY <1>1, <1>2
<1>4. UNCHANGED <<it, busy, ok, changes, asked, returned, want, jumped, gapped, outdated>>
  BY DEF Fill, history
<1> HIDE DEF lf
<1>5. Good(heap, new.heap, new.self)
  BY <1>1, <1>3, InsertedTree
<1> HIDE DEF new
<1>6. HeapOK(heap') /\ Tree(heap', root') /\ Grown(heap, heap')
  BY <1>2, <1>5 DEF Good
<1>7. StackPart' /\ OrderPart'
  BY <1>1, <1>4, <1>6, TreeChange DEF IteratorInv
<1>8. TreePart'
  BY <1>3, <1>6 DEF TreePart, TreeOK
<1>9. TypePart'
  BY <1>4 DEF IteratorInv, TypePart
<1> QED
  BY <1>7, <1>8, <1>9 DEF IteratorInv

\* A change by another caller keeps the invariant if the tree stays one.
LEMMA ChangeInv ==
    ASSUME IteratorInv, NEW k \in Keys, NEW new, Change(k, new), jumped' \in SUBSET Keys,
           HeapOK(new.heap), new.self = Nil \/ Tree(new.heap, new.self), Grown(heap, new.heap)
    PROVE  IteratorInv'
<1>1. /\ changes < MaxChanges /\ changes' = changes + 1
      /\ heap' = new.heap /\ root' = new.self /\ outdated' \in SUBSET Keys
      /\ UNCHANGED <<todo, it, busy, ok, asked, returned, gapped>>
  BY DEF Change, IteratorInv, TypePart
<1>2. changes' \in 0 .. MaxChanges
  BY <1>1, KeysAssumption DEF IteratorInv, TypePart
<1>3. HeapOK(heap) /\ todo \in Seq(Keys)
  BY DEF IteratorInv, TreePart, TreeOK
<1>4. StackPart' /\ OrderPart'
  BY <1>1, <1>3, TreeChange DEF IteratorInv
<1>5. TreePart'
  BY <1>1, <1>3 DEF TreePart, TreeOK
<1>6. TypePart'
  BY <1>1, <1>2 DEF IteratorInv, TypePart
<1> QED
  BY <1>4, <1>5, <1>6 DEF IteratorInv

\* Insert keeps the invariant.
LEMMA InsertInv ==
    ASSUME IteratorInv, NEW k \in Keys, NEW v \in Values, Insert(k, v)
    PROVE  IteratorInv'
<1> DEFINE lf == [key |-> k, value |-> v]
           new == Inserted(heap, root, lf)
<1>1. HeapOK(heap) /\ (root = Nil \/ Tree(heap, root))
  BY DEF IteratorInv, TreePart, TreeOK
<1>2. Change(k, new) /\ jumped' \in SUBSET Keys
  BY DEF Insert, JumpedOver, IteratorInv, TypePart
<1>3. lf.key \in Keys /\ lf.value \in Values \cup {Nil}
  OBVIOUS
<1> HIDE DEF lf
<1>4. Good(heap, new.heap, new.self)
  BY <1>1, <1>3, InsertedTree
<1> HIDE DEF new
<1> QED
  BY <1>2, <1>4, ChangeInv DEF Good

\* Remove keeps the invariant.
LEMMA RemoveInv ==
    ASSUME IteratorInv, NEW k \in Keys, Remove(k)
    PROVE  IteratorInv'
<1> DEFINE new == Removed(heap, root, k)
<1>1. HeapOK(heap) /\ Tree(heap, root)
  BY DEF IteratorInv, TreePart, TreeOK, Remove
<1>2. Change(k, new) /\ jumped' \in SUBSET Keys
  BY DEF Remove, IteratorInv, TypePart
<1>3. Good(heap, new.heap, new.self) \/ (new.heap = heap /\ new.self = Nil)
  BY <1>1, RemovedTree
<1> HIDE DEF new
<1>4. Grown(heap, heap)
  <2>1. Len(heap) \in Nat
    BY <1>1, SeqFacts DEF HeapOK
  <2> QED
    BY <2>1 DEF Grown
<1>5. /\ HeapOK(new.heap) /\ Grown(heap, new.heap)
      /\ new.self = Nil \/ Tree(new.heap, new.self)
  BY <1>1, <1>3, <1>4 DEF Good
<1> QED
  BY <1>2, <1>5, ChangeInv

\* A new iterator keeps the invariant.
LEMMA MakeInv ==
    ASSUME IteratorInv, NEW c \in Seq(Byte), NEW t \in Seq(Byte), NEW reverse \in BOOLEAN,
           MakeIterator(c, t, reverse)
    PROVE  IteratorInv'
<1>1. /\ it = Nil /\ UNCHANGED <<heap, root, todo, busy, ok, changes, asked, returned,
                                 jumped, gapped, outdated>>
      /\ it' = [stack |-> <<>>, closed |-> FALSE, cursor |-> c, terminate |-> t,
                reverse |-> reverse, key |-> Nil, value |-> Nil, leaf |-> Nil]
  BY DEF MakeIterator, tree, history
<1>2. it' \in Iterators /\ it'.stack = <<>>
  BY <1>1 DEF Iterators
<1>3. asked = Nil /\ returned = <<>> /\ ~busy
  BY <1>1 DEF IteratorInv, OrderPart, StackPart
<1>4. Stacked(heap', it'.stack)
  BY <1>2 DEF Stacked
<1>5. StackPart' /\ OrderPart'
  BY <1>1, <1>2, <1>3, <1>4 DEF StackPart, OrderPart
<1>6. TreePart' /\ TypePart'
  BY <1>1 DEF IteratorInv, TreePart, TypePart
<1> QED
  BY <1>5, <1>6 DEF IteratorInv

\* Reverse keeps the invariant.
LEMMA ReverseInv ==
    ASSUME IteratorInv, ReverseRange
    PROVE  IteratorInv'
<1>1. /\ it # Nil /\ asked = Nil
      /\ it' = [it EXCEPT !.cursor = it.terminate, !.terminate = it.cursor, !.reverse = TRUE]
      /\ UNCHANGED <<heap, root, todo, busy, ok, changes, asked, returned, jumped, gapped, outdated>>
  BY DEF ReverseRange, tree, history
<1>2. it \in Iterators /\ it.stack = <<>> /\ returned = <<>> /\ ~busy
  BY <1>1 DEF IteratorInv, OrderPart, StackPart
<1>3. it' \in Iterators /\ it'.stack = <<>>
  BY <1>1, <1>2 DEF Iterators
<1>4. Stacked(heap', it'.stack)
  BY <1>3 DEF Stacked
<1>5. StackPart' /\ OrderPart'
  BY <1>1, <1>2, <1>3, <1>4 DEF StackPart, OrderPart
<1>6. TreePart' /\ TypePart'
  BY <1>1 DEF IteratorInv, TreePart, TypePart
<1> QED
  BY <1>5, <1>6 DEF IteratorInv

\* The first call of Next fixes a range that fits the iterator.
LEMMA BeginFacts ==
    ASSUME IteratorInv, it # Nil, ~it.closed, it.stack = <<>>, Begin
    PROVE  /\ asked' \in Intervals /\ returned = <<>>
           /\ Cursor(asked', it, returned) /\ Ordered(asked', returned)
<1>1. it \in Iterators /\ returned = <<>>
  BY DEF IteratorInv, StackPart, OrderPart
<1>2. CASE asked # Nil
  <2>1. asked' = asked
    BY <1>2 DEF Begin
  <2> QED
    BY <2>1, <1>1, <1>2 DEF IteratorInv, TypePart, OrderPart
<1>3. CASE asked = Nil
  <2>1. asked' = IF it.reverse
                 THEN [lo |-> it.terminate, hi |-> it.cursor, reverse |-> TRUE]
                 ELSE [lo |-> it.cursor, hi |-> it.terminate, reverse |-> FALSE]
    BY <1>3 DEF Begin
  <2>2. /\ it.reverse \in BOOLEAN /\ it.cursor \in Seq(Byte) /\ it.terminate \in Seq(Byte)
    BY <1>1, IteratorFields
  <2>3. /\ asked' \in Intervals /\ asked'.reverse = it.reverse
        /\ asked'.lo = IF it.reverse THEN it.terminate ELSE it.cursor
        /\ asked'.hi = IF it.reverse THEN it.cursor ELSE it.terminate
    BY <2>1, <2>2 DEF Intervals
  <2>4. Cursor(asked', it, returned)
    BY <2>3, <1>1 DEF Cursor
  <2>5. Ordered(asked', returned)
    <3>1. Len(returned) = 0
      BY <1>1
    <3> QED
      BY <3>1 DEF Ordered
  <2> QED
    BY <2>3, <2>4, <2>5, <1>1
<1> QED
  BY <1>2, <1>3

\* A call of Next that ends at once keeps the invariant.
LEMMA InitExitsInv ==
    ASSUME IteratorInv, InitExits
    PROVE  IteratorInv'
<1> DEFINE hit == root # Nil /\ inRange(it, heap[root].key)
<1>1. /\ it # Nil /\ ~it.closed /\ ~busy /\ it.stack = <<>>
      /\ root # Nil => heap[root].isLeaf
      /\ it' = [it EXCEPT !.closed = TRUE,
                          !.key = IF hit THEN heap[root].key ELSE @,
                          !.value = IF hit THEN heap[root].value ELSE @]
      /\ Return(hit) /\ Begin
      /\ UNCHANGED <<heap, root, todo, changes, jumped, gapped, outdated>>
  BY DEF InitExits, tree
<1>2. it \in Iterators
  BY <1>1 DEF IteratorInv, StackPart
<1>3. root # Nil => heap[root] \in Leaves
  BY <1>1, RootFacts DEF IteratorInv, TreePart, TreeOK
<1>4. root # Nil => heap[root].key \in Keys /\ heap[root].value \in Values \cup {Nil}
  BY <1>3 DEF Leaves
<1> HIDE DEF hit
<1>5. hit => root # Nil
  BY DEF hit
<1>6. /\ it' \in Iterators /\ it'.stack = <<>> /\ it'.closed /\ Kept(it, it')
      /\ hit => it'.key = heap[root].key
  BY <1>1, <1>2, <1>4, <1>5 DEF Iterators, Kept
<1>7. /\ asked' \in Intervals /\ returned = <<>>
      /\ Cursor(asked', it, returned) /\ Ordered(asked', returned)
  BY <1>1, BeginFacts
<1>8. asked' # Nil /\ it' # Nil
  BY <1>6, <1>7, IteratorIsNotNil
<1>9. hit \in BOOLEAN
  BY DEF hit
<1>10. busy' = FALSE /\ ok' \in BOOLEAN
  BY <1>1, <1>9 DEF Return
<1>11. returned' \in Seq(Keys) /\ Ordered(asked', returned') /\ Cursor(asked', it', returned')
  <2>1. CASE ~hit
    <3>1. returned' = returned
      BY <2>1, <1>1 DEF Return
    <3> QED
      BY <3>1, <1>6, <1>7 DEF Cursor, Kept, IteratorInv, TypePart
  <2>2. CASE hit
    <3> DEFINE k == heap[root].key
    <3>1. returned' = Append(returned, k) /\ inRange(it, k) /\ k \in Keys
      BY <2>2, <1>1, <1>4, <1>6 DEF Return, hit
    <3> HIDE DEF k
    <3>2. returned \in Seq(Keys)
      BY DEF IteratorInv, TypePart
    <3>3. Admits(asked', it, returned, k)
      BY <3>1, <1>1, <1>7 DEF Admits
    <3>4. Ends(asked', Append(returned, k), k)
      BY <3>1, <3>2, <3>3, <1>2, <1>7, OrderedAppend
    <3>5. returned' \in Seq(Keys) /\ returned' # <<>> /\ Ordered(asked', returned')
      BY <3>1, <3>4 DEF Ends
    <3> QED
      BY <3>5, <1>6, <1>7 DEF Cursor, Kept
  <2> QED
    BY <2>1, <2>2
<1>12. Stacked(heap', it'.stack)
  BY <1>6 DEF Stacked
<1>13. StackPart'
  BY <1>6, <1>8, <1>10, <1>12 DEF StackPart
<1>14. OrderPart'
  BY <1>6, <1>8, <1>11 DEF OrderPart
<1>15. TreePart' /\ TypePart'
  BY <1>1, <1>7, <1>10, <1>11 DEF IteratorInv, TreePart, TypePart
<1> QED
  BY <1>13, <1>14, <1>15 DEF IteratorInv

\* The first call of Next on a larger tree keeps the invariant.
LEMMA InitStackInv ==
    ASSUME IteratorInv, InitStack
    PROVE  IteratorInv'
<1> DEFINE s == <<[node |-> root, curkey |-> Nil]>>
<1>1. /\ it # Nil /\ ~it.closed /\ ~busy /\ it.stack = <<>>
      /\ root # Nil /\ ~heap[root].isLeaf
      /\ it' = [it EXCEPT !.stack = s]
      /\ busy' = TRUE /\ Begin
      /\ UNCHANGED <<heap, root, todo, ok, changes, returned, jumped, gapped, outdated>>
  BY DEF InitStack, tree
<1>2. it \in Iterators
  BY <1>1 DEF IteratorInv, StackPart
<1>3. root \in 1 .. Len(heap) /\ Len(heap) \in Nat
  BY <1>1, RootFacts, SeqFacts DEF IteratorInv, TreePart, TreeOK, HeapOK
<1>4. /\ s \in Seq([node : Nat, curkey : Byte \cup {Nil}]) /\ s # <<>>
      /\ Len(s) = 1 /\ s[1].node = root
  BY <1>3
<1> HIDE DEF s
<1>5. it' \in Iterators /\ it'.stack = s /\ ~it'.closed /\ it'.closed = it.closed /\ Kept(it, it')
  BY <1>1, <1>2, <1>4 DEF Iterators, Kept
<1>6. /\ asked' \in Intervals /\ returned = <<>>
      /\ Cursor(asked', it, returned) /\ Ordered(asked', returned)
  BY <1>1, BeginFacts
<1>7. asked' # Nil /\ it' # Nil
  BY <1>5, <1>6, IteratorIsNotNil
<1>8. Stacked(heap', it'.stack)
  <2>1. Stacked(heap, s)
    <3>1. \A j \in 1 .. Len(s) : j = 1
      BY <1>4
    <3> QED
      BY <3>1, <1>1, <1>3, <1>4 DEF Stacked
  <2> QED
    BY <2>1, <1>1, <1>5
<1>9. Cursor(asked', it', returned')
  BY <1>1, <1>5, <1>6 DEF Cursor, Kept
<1>10. StackPart'
  BY <1>1, <1>4, <1>5, <1>7, <1>8 DEF StackPart
<1>11. OrderPart'
  BY <1>1, <1>4, <1>5, <1>6, <1>7, <1>9 DEF OrderPart
<1>12. TreePart' /\ TypePart'
  BY <1>1, <1>6 DEF IteratorInv, TreePart, TypePart
<1> QED
  BY <1>10, <1>11, <1>12 DEF IteratorInv

\* What prev overlooks are keys.
LEMMA OverlookedKeys == Overlooked \in SUBSET Keys
<1> DEFINE n == heap[Top.node]
           P(k) == /\ it.reverse /\ n.kind = "n256"
                   /\ \E b \in DOMAIN n.kids :
                         /\ b >= Cardinality(DOMAIN n.kids)
                         /\ Top.curkey = Nil \/ b < Top.curkey
                         /\ k \in KeysBelow(heap, n.kids[b])
<1>1. Overlooked = {k \in Keys : P(k)}
  BY DEF Overlooked
<1> HIDE DEF P
<1> QED
  BY <1>1

\* A step that ends at a leaf keeps the invariant.
LEMMA StepLeafInv ==
    ASSUME IteratorInv, StepLeaf
    PROVE  IteratorInv'
<1> DEFINE lf == heap[Child]
           on == Advanced(it, Found)
<1>1. /\ busy /\ it.stack # <<>> /\ Found # Nil /\ lf.isLeaf
      /\ IF inRange(it, lf.key)
         THEN it' = Yielded(on, lf) /\ Return(TRUE)
         ELSE it' = on /\ UNCHANGED <<busy, ok, returned>>
      /\ gapped' \in SUBSET Keys
      /\ UNCHANGED <<heap, root, todo, changes, asked, jumped, outdated>>
  BY OverlookedKeys DEF StepLeaf, tree, IteratorInv, TypePart
<1>2. /\ it \in Iterators /\ it # Nil /\ Stacked(heap, it.stack) /\ asked # Nil /\ ~it.closed
      /\ asked \in Intervals /\ Cursor(asked, it, returned) /\ Ordered(asked, returned)
      /\ returned \in Seq(Keys) /\ HeapOK(heap)
  BY <1>1 DEF IteratorInv, TreePart, TreeOK, TypePart, StackPart, OrderPart
<1>3. Found \in Byte /\ Child \in 1 .. Len(heap)
  BY <1>1, <1>2, FoundFacts
<1>4. lf \in Leaves
  <2>1. NodeOK(heap, Child)
    BY <1>2, <1>3 DEF HeapOK
  <2> QED
    BY <2>1, <1>1 DEF NodeOK
<1>5. /\ on \in Iterators /\ on.stack # <<>> /\ Stacked(heap, on.stack)
      /\ Kept(it, on) /\ on.closed = it.closed
  BY <1>1, <1>2, <1>3, AdvancedFacts
<1> HIDE DEF on, lf
<1>6. TreePart'
  BY <1>1 DEF IteratorInv, TreePart
<1>7. CASE ~inRange(it, lf.key)
  <2>1. it' = on /\ UNCHANGED <<busy, ok, returned, heap, asked>>
    BY <1>1, <1>7
  <2>2. on # Nil
    BY <1>5, IteratorIsNotNil
  <2>3. StackPart'
    BY <2>1, <2>2, <1>2, <1>5 DEF StackPart
  <2>4. Cursor(asked, on, returned)
    BY <1>2, <1>5 DEF Cursor, Kept
  <2>5. OrderPart'
    BY <2>1, <2>2, <2>4, <1>2, <1>5 DEF OrderPart
  <2>6. TypePart'
    BY <2>1, <1>1 DEF IteratorInv, TypePart
  <2> QED
    BY <2>3, <2>5, <2>6, <1>6 DEF IteratorInv
<1>8. CASE inRange(it, lf.key)
  <2> DEFINE k == lf.key
  <2>1. it' = Yielded(on, lf) /\ Return(TRUE)
    BY <1>1, <1>8
  <2>2. /\ it' \in Iterators /\ it'.stack = on.stack /\ it'.closed = on.closed
        /\ it'.terminate = on.terminate /\ it'.reverse = on.reverse
        /\ it'.cursor = k /\ it'.key = k /\ k \in Keys
    BY <2>1, <1>4, <1>5, YieldedFacts
  <2>3. busy' = FALSE /\ ok' = TRUE /\ returned' = Append(returned, k)
    BY <2>1, <2>2 DEF Return
  <2>4. Admits(asked, it, returned, k)
    BY <1>2, <1>8 DEF Admits
  <2>5. k \in Keys
    BY <2>2
  <2> HIDE DEF k
  <2>6. Ends(asked, Append(returned, k), k)
    BY <2>4, <2>5, <1>2, OrderedAppend
  <2>7. /\ returned' \in Seq(Keys) /\ returned' # <<>> /\ returned'[Len(returned')] = k
        /\ Ordered(asked, returned')
    BY <2>3, <2>6 DEF Ends
  <2>8. it' # Nil
    BY <2>2, IteratorIsNotNil
  <2>9. StackPart'
    BY <2>2, <2>3, <2>8, <1>1, <1>5 DEF StackPart
  <2>10. Cursor(asked, it', returned')
    BY <2>2, <2>7, <1>2, <1>5 DEF Cursor, Kept
  <2>11. OrderPart'
    BY <2>2, <2>7, <2>8, <2>10, <1>1, <1>2, <1>5 DEF OrderPart
  <2>12. TypePart'
    BY <2>3, <2>7, <1>1 DEF IteratorInv, TypePart
  <2> QED
    BY <2>9, <2>11, <2>12, <1>6 DEF IteratorInv
<1> QED
  BY <1>7, <1>8

\* A step down keeps the invariant.
LEMMA StepDownInv ==
    ASSUME IteratorInv, StepDown
    PROVE  IteratorInv'
<1> DEFINE on == Advanced(it, Found)
           e == [node |-> Child, curkey |-> Nil]
           s == Append(on.stack, e)
           T == [node : Nat, curkey : Byte \cup {Nil}]
<1>1. /\ busy /\ it.stack # <<>> /\ Found # Nil /\ ~heap[Child].isLeaf
      /\ it' = [on EXCEPT !.stack = s]
      /\ gapped' \in SUBSET Keys
      /\ UNCHANGED <<heap, root, todo, busy, ok, changes, asked, returned, jumped, outdated>>
  BY OverlookedKeys DEF StepDown, tree, IteratorInv, TypePart
<1>2. /\ it \in Iterators /\ it # Nil /\ Stacked(heap, it.stack) /\ asked # Nil /\ ~it.closed
      /\ asked \in Intervals /\ Cursor(asked, it, returned) /\ Ordered(asked, returned)
      /\ HeapOK(heap)
  BY <1>1 DEF IteratorInv, TreePart, TreeOK, TypePart, StackPart, OrderPart
<1>3. Found \in Byte /\ Child \in 1 .. Len(heap)
  BY <1>1, <1>2, FoundFacts
<1>4. /\ on \in Iterators /\ on.stack # <<>> /\ Stacked(heap, on.stack)
      /\ Kept(it, on) /\ on.closed = it.closed
  BY <1>1, <1>2, <1>3, AdvancedFacts
<1> HIDE DEF on
<1>5. on.stack \in Seq(T)
  BY <1>4 DEF Iterators
<1>6. e \in T /\ e.node = Child
  <2>1. Len(heap) \in Nat
    BY <1>2, SeqFacts DEF HeapOK
  <2> QED
    BY <2>1, <1>3
<1> DEFINE N == Len(on.stack)
<1> HIDE DEF T, e
<1>7. /\ s \in Seq(T) /\ N \in Nat /\ Len(s) = N + 1 /\ s[N + 1] = e
      /\ \A j \in 1 .. N : s[j] = on.stack[j]
  BY <1>5, <1>6
<1> HIDE DEF s
<1>8. s # <<>>
  <2>1. Len(s) # 0 /\ Len(<<>>) = 0
    BY <1>7
  <2> QED
    BY <2>1
<1>9. Stacked(heap, s)
  <2>1. \A j \in 1 .. N + 1 : j \in 1 .. N \/ j = N + 1
    BY <1>7
  <2>2. \A j \in 1 .. N : s[j].node \in 1 .. Len(heap) /\ ~heap[s[j].node].isLeaf
    BY <1>4, <1>7 DEF Stacked
  <2> QED
    BY <2>1, <2>2, <1>1, <1>3, <1>6, <1>7 DEF Stacked
<1>10. it' \in Iterators /\ it'.stack = s /\ it'.closed = on.closed /\ Kept(on, it')
  BY <1>1, <1>4, <1>7 DEF Iterators, Kept, T
<1>11. it' # Nil
  BY <1>10, IteratorIsNotNil
<1>12. Cursor(asked, it', returned)
  BY <1>2, <1>4, <1>10 DEF Cursor, Kept
<1>13. StackPart'
  BY <1>1, <1>2, <1>4, <1>8, <1>9, <1>10, <1>11 DEF StackPart
<1>14. OrderPart'
  BY <1>1, <1>2, <1>8, <1>10, <1>11, <1>12 DEF OrderPart
<1>15. TreePart' /\ TypePart'
  BY <1>1 DEF IteratorInv, TreePart, TypePart
<1> QED
  BY <1>13, <1>14, <1>15 DEF IteratorInv

\* The stack without its top.
LEMMA Popped ==
    ASSUME NEW T, NEW s \in Seq(T), Len(s) >= 1, NEW up, up = SubSeq(s, 1, Len(s) - 1)
    PROVE  up \in Seq(T) /\ Len(up) = Len(s) - 1 /\ \A j \in 1 .. Len(s) - 1 : up[j] = s[j]
<1> DEFINE n == Len(s) - 1
<1>1. n \in Nat /\ n + 1 = Len(s)
  OBVIOUS
<1>2. \A i \in 1 .. n : s[i] \in T
  BY <1>1
<1>3. up = SubSeq(s, 1, n)
  OBVIOUS
<1> HIDE DEF n
<1>4. up \in Seq(T) /\ Len(up) = n
  BY <1>1, <1>2, <1>3
<1>5. ASSUME NEW j \in 1 .. n PROVE up[j] = s[j]
  <2>1. j \in Nat /\ 1 + j - 1 = j /\ j \in 1 .. (n - 1) + 1
    BY <1>1
  <2> QED
    BY <2>1, <1>1, <1>3
<1> QED
  BY <1>4, <1>5 DEF n

\* A step up keeps the invariant.
LEMMA StepUpInv ==
    ASSUME IteratorInv, StepUp
    PROVE  IteratorInv'
<1> DEFINE s == it.stack
           N == Len(s)
           up == SubSeq(s, 1, N - 1)
           T == [node : Nat, curkey : Byte \cup {Nil}]
<1>1. /\ busy /\ s # <<>>
      /\ it' = [it EXCEPT !.stack = up, !.closed = (up = <<>>)]
      /\ IF up = <<>> THEN Return(FALSE) ELSE UNCHANGED <<busy, ok, returned>>
      /\ gapped' \in SUBSET Keys
      /\ UNCHANGED <<heap, root, todo, changes, asked, jumped, outdated>>
  BY OverlookedKeys DEF StepUp, tree, IteratorInv, TypePart
<1>2. /\ it \in Iterators /\ it # Nil /\ Stacked(heap, s) /\ asked # Nil /\ ~it.closed
      /\ Cursor(asked, it, returned) /\ Ordered(asked, returned)
  BY <1>1 DEF IteratorInv, StackPart, OrderPart
<1>3. s \in Seq(T)
  BY <1>2 DEF Iterators
<1> HIDE DEF T
<1>4. N \in Nat /\ N >= 1
  <2> HIDE DEF s
  <2> QED
    BY <1>1, <1>3
<1>5. up \in Seq(T) /\ Len(up) = N - 1 /\ \A j \in 1 .. N - 1 : up[j] = s[j]
  <2> HIDE DEF s
  <2> QED
    BY <1>3, <1>4, Popped
<1> HIDE DEF up
<1>6. Stacked(heap, up)
  <2>1. \A j \in 1 .. Len(up) : j \in 1 .. N /\ up[j] = s[j]
    BY <1>4, <1>5
  <2> QED
    BY <2>1, <1>2 DEF Stacked
<1>7. it' \in Iterators /\ it'.stack = up /\ it'.closed = (up = <<>>) /\ Kept(it, it')
  BY <1>1, <1>2, <1>5 DEF Iterators, Kept, T
<1>8. it' # Nil
  BY <1>7, IteratorIsNotNil
<1>9. returned' = returned /\ busy' = (up # <<>>) /\ ok' \in BOOLEAN
  BY <1>1 DEF Return, IteratorInv, TypePart
<1>10. Cursor(asked, it', returned)
  BY <1>2, <1>7 DEF Cursor, Kept
<1>11. StackPart'
  BY <1>1, <1>2, <1>6, <1>7, <1>8, <1>9 DEF StackPart
<1>12. OrderPart'
  BY <1>1, <1>2, <1>7, <1>8, <1>9, <1>10 DEF OrderPart
<1>13. busy' \in BOOLEAN
  BY <1>9
<1>14. TreePart' /\ TypePart'
  BY <1>1, <1>9, <1>13 DEF IteratorInv, TreePart, TypePart
<1> QED
  BY <1>11, <1>12, <1>14 DEF IteratorInv

\* The other steps of Next, and steps that change nothing.
LEMMA QuietInv ==
    ASSUME IteratorInv, NextClosed \/ Resume \/ UNCHANGED vars
    PROVE  IteratorInv'
<1>1. CASE NextClosed
  <2>1. ok' = FALSE /\ UNCHANGED <<heap, root, todo, it, busy, changes, asked, returned,
                                   jumped, gapped, outdated>>
    BY <1>1 DEF NextClosed, tree, history
  <2> QED
    BY <2>1 DEF IteratorInv, TreePart, TypePart, StackPart, OrderPart
<1>2. CASE Resume
  <2>1. /\ it # Nil /\ ~it.closed /\ it.stack # <<>> /\ busy' = TRUE
        /\ UNCHANGED <<heap, root, todo, it, ok, changes, asked, returned, jumped, gapped, outdated>>
    BY <1>2 DEF Resume, tree, history
  <2> QED
    BY <2>1 DEF IteratorInv, TreePart, TypePart, StackPart, OrderPart
<1>3. CASE UNCHANGED vars
  BY <1>3 DEF vars, IteratorInv, TreePart, TypePart, StackPart, OrderPart
<1> QED
  BY <1>1, <1>2, <1>3

\* The invariant holds at first.
LEMMA InitInv ==
    ASSUME Init
    PROVE  IteratorInv
<1>1. HeapOK(heap)
  <2>1. heap \in Seq({}) /\ Len(heap) = 0
    BY DEF Init
  <2> QED
    BY <2>1 DEF HeapOK, IsSeq
<1>2. todo \in Seq(Keys)
  BY KeysAssumption DEF Init
<1>3. TreePart
  BY <1>1, <1>2 DEF TreePart, TreeOK, Init
<1>4. TypePart
  <2>1. 0 \in 0 .. MaxChanges /\ <<>> \in Seq(Keys)
    BY KeysAssumption
  <2> QED
    BY <2>1 DEF TypePart, Init
<1>5. StackPart /\ OrderPart
  BY DEF StackPart, OrderPart, Init
<1> QED
  BY <1>3, <1>4, <1>5 DEF IteratorInv

\* Every step keeps the invariant.
LEMMA NextInv ==
    ASSUME IteratorInv, [Next]_vars
    PROVE  IteratorInv'
<1>1. CASE Fill
  BY <1>1, FillInv
<1>2. CASE \E r \in Ranges : NewIterator(r[1], r[2]) \/ ReverseIterator(r[1], r[2])
  <2>1. PICK r \in Ranges : NewIterator(r[1], r[2]) \/ ReverseIterator(r[1], r[2])
    BY <1>2
  <2>2. r[1] \in Seq(Byte) /\ r[2] \in Seq(Byte)
    BY KeysAssumption
  <2>3. MakeIterator(r[1], r[2], FALSE) \/ MakeIterator(r[2], r[1], TRUE)
    BY <2>1 DEF NewIterator, ReverseIterator
  <2> QED
    BY <2>2, <2>3, MakeInv
<1>3. CASE ReverseRange
  BY <1>3, ReverseInv
<1>4. CASE NextClosed \/ Resume \/ UNCHANGED vars
  BY <1>4, QuietInv
<1>5. CASE InitExits
  BY <1>5, InitExitsInv
<1>6. CASE InitStack
  BY <1>6, InitStackInv
<1>7. CASE Step
  BY <1>7, StepLeafInv, StepDownInv, StepUpInv DEF Step
<1>8. CASE \E k \in Keys, v \in Values : Insert(k, v)
  BY <1>8, InsertInv
<1>9. CASE \E k \in Keys : Remove(k)
  BY <1>9, RemoveInv
<1> QED
  BY <1>1, <1>2, <1>3, <1>4, <1>5, <1>6, <1>7, <1>8, <1>9 DEF Next

\* The tree is a radix tree, the iterator's pointers lead to inner nodes, and its
\* cursor, its range and the keys it has returned fit together, whatever the
\* callers insert and remove between its calls of Next.
THEOREM IteratorInvariant == Spec => []IteratorInv
<1>1. Init => IteratorInv
  BY InitInv
<1>2. IteratorInv /\ [Next]_vars => IteratorInv'
  BY NextInv
<1> QED
  BY <1>1, <1>2, PTL DEF Spec

\* Pointers to nodes stay valid: a stack holds inner nodes of the heap, whatever
\* splits, shrinks and collapses meanwhile, and every value has its type.
THEOREM IteratorTypes == Spec => []TypeOK
<1>1. ASSUME IteratorInv PROVE TypeOK
  <2>1. HeapOK(heap) /\ (root = Nil \/ Tree(heap, root)) /\ todo \in Seq(Keys)
    BY <1>1 DEF IteratorInv, TreePart, TreeOK
  <2>2. DOMAIN heap = 1 .. Len(heap)
    BY <2>1, SeqFacts DEF HeapOK
  <2>3. root \in DOMAIN heap \cup {Nil}
    BY <2>1, <2>2, RootFacts
  <2>4. ASSUME NEW p \in DOMAIN heap
        PROVE  IF heap[p].isLeaf THEN heap[p] \in Leaves
               ELSE \A b \in DOMAIN heap[p].kids : b \in Byte /\ heap[p].kids[b] \in DOMAIN heap
    <3>1. NodeOK(heap, p)
      BY <2>1, <2>2 DEF HeapOK
    <3> QED
      BY <3>1, <2>2 DEF NodeOK
  <2>5. it \in Iterators \cup {Nil}
    BY <1>1 DEF IteratorInv, StackPart
  <2>6. it # Nil => StackNodes(it) \subseteq {p \in DOMAIN heap : ~heap[p].isLeaf}
    <3>1. SUFFICES ASSUME it # Nil
                   PROVE  StackNodes(it) \subseteq {p \in DOMAIN heap : ~heap[p].isLeaf}
      OBVIOUS
    <3>2. it \in Iterators /\ Stacked(heap, it.stack)
      BY <3>1, <1>1 DEF IteratorInv, StackPart
    <3>3. DOMAIN it.stack = 1 .. Len(it.stack)
      BY <3>2, IteratorFields
    <3> QED
      BY <3>1, <3>2, <3>3, <2>2 DEF StackNodes, Stacked
  <2>7. TypePart
    BY <1>1 DEF IteratorInv
  <2> QED
    BY <2>1, <2>3, <2>4, <2>5, <2>6, <2>7 DEF TypeOK, TypePart
<1> QED
  BY <1>1, IteratorInvariant, PTL

\* Next returns keys of the range, in order and once, whatever is inserted and
\* removed between its calls: up to the empty key, for a reverse iterator.
THEOREM IteratorOrder == Spec => []InOrder
<1>1. ASSUME IteratorInv PROVE InOrder
  <2>1. SUFFICES ASSUME NEW i \in DOMAIN returned, ~Unbounded(i)
                 PROVE  /\ InInterval(asked, returned[i])
                        /\ i > 1 => IF it.reverse THEN Less(returned[i], returned[i - 1])
                                    ELSE Less(returned[i - 1], returned[i])
    BY DEF InOrder
  <2>2. returned \in Seq(Keys) /\ DOMAIN returned = 1 .. Len(returned)
    BY <1>1 DEF IteratorInv, TypePart
  <2>3. returned # <<>>
    BY <2>1
  <2>4. asked # Nil
    BY <2>3, <1>1 DEF IteratorInv, OrderPart
  <2>5. asked.reverse = it.reverse /\ Ordered(asked, returned)
    BY <2>4, <1>1 DEF IteratorInv, OrderPart, Cursor
  <2>6. OrderAt(asked, returned, i)
    BY <2>1, <2>2, <2>5 DEF Ordered
  <2>7. ~Emptied(asked.reverse, returned, i)
    BY <2>1, <2>5 DEF Emptied, Unbounded
  <2> QED
    BY <2>5, <2>6, <2>7 DEF OrderAt
<1> QED
  BY <1>1, IteratorInvariant, PTL

\* The tree that insertions and removals leave, through bnodes that they share,
\* change in place and detach, is a radix tree.
THEOREM TreeStaysRadix == Spec => [](root = Nil \/ Tree(heap, root))
<1>1. IteratorInv => (root = Nil \/ Tree(heap, root))
  BY DEF IteratorInv, TreePart, TreeOK
<1> QED
  BY <1>1, IteratorInvariant, PTL

\* No two stored leaves have the same key.
THEOREM OneLeafPerKey == Spec => [](\A a, b \in Stored : a.key = b.key => a = b)
<1>1. ASSUME IteratorInv PROVE \A a, b \in Stored : a.key = b.key => a = b
  <2>1. HeapOK(heap) /\ (root = Nil \/ Tree(heap, root))
    BY <1>1 DEF IteratorInv, TreePart, TreeOK
  <2>2. CASE root = Nil
    BY <2>2 DEF Stored, LeavesBelow
  <2>3. CASE root # Nil
    <3>1. PICK A1 \in SUBSET Nat, D \in Depths, P \in Paths, U \in Depths :
                  Radix(heap, root, A1, D, P, U)
      BY <2>1, <2>3 DEF Tree
    <3>2. PICK A \in SUBSET A1 : Exact(heap, root, A, D, P, U)
      BY <2>1, <3>1, ExactExists
    <3>3. Spans(heap, root, A, D) /\ Unique(heap, A)
      BY <2>1, <3>2, ExactUnique DEF Exact
    <3>4. Stored = Content(heap, A)
      BY <2>1, <2>3, <3>3, ContentIs DEF Stored
    <3> QED
      BY <3>3, <3>4 DEF Content, Unique
  <2> QED
    BY <2>2, <2>3
<1> QED
  BY <1>1, IteratorInvariant, PTL

\* An insertion puts its leaf in the place of any with that key and a removal takes
\* it away; all other leaves stay, whatever becomes of the nodes: the tree of
\* InsertLeaf and Remove is a map from keys to values.
THEOREM TreeStaysMap == Spec => TreeIsMap
<1>1. ASSUME IteratorInv, NEW lf, lf.key \in Keys, lf.value \in Values \cup {Nil},
             heap' = Inserted(heap, root, lf).heap, root' = Inserted(heap, root, lf).self
      PROVE  Stored' = Others(lf.key) \cup {LeafAt(lf)}
  <2>1. HeapOK(heap) /\ (root = Nil \/ Tree(heap, root))
    BY <1>1 DEF IteratorInv, TreePart, TreeOK
  <2>2. Sets(heap, root, heap', root', lf.key, {LeafAt(lf)})
    BY <1>1, <2>1, InsertedTree
  <2> QED
    BY <2>2 DEF Sets, Stored, Others
<1>2. ASSUME IteratorInv, NEW k \in Keys, Remove(k) PROVE Stored' = Others(k)
  <2>1. HeapOK(heap) /\ Tree(heap, root)
    BY <1>2 DEF IteratorInv, TreePart, TreeOK, Remove
  <2>2. heap' = Removed(heap, root, k).heap /\ root' = Removed(heap, root, k).self
    BY <1>2 DEF Remove, Change
  <2>3. Sets(heap, root, heap', root', k, {})
    BY <2>1, <2>2, RemovedTree
  <2> QED
    BY <2>3 DEF Sets, Stored, Others
<1>3. ASSUME IteratorInv, NEW k \in Keys, NEW v \in Values, Insert(k, v)
      PROVE  Stored' = Others(k) \cup {LeafAt([key |-> k, value |-> v])}
  <2> DEFINE lf == [key |-> k, value |-> v]
  <2>1. heap' = Inserted(heap, root, lf).heap /\ root' = Inserted(heap, root, lf).self
    BY <1>3 DEF Insert, Change
  <2>2. lf.key = k /\ lf.key \in Keys /\ lf.value \in Values \cup {Nil}
    OBVIOUS
  <2> HIDE DEF lf
  <2>3. Stored' = Others(lf.key) \cup {LeafAt(lf)}
    BY <2>1, <2>2, <1>1, <1>3
  <2> QED
    BY <2>2, <2>3 DEF lf
<1>4. ASSUME IteratorInv, Fill
      PROVE  Stored' = Others(Head(todo)) \cup {LeafAt([key |-> Head(todo), value |-> Nil])}
  <2> DEFINE lf == [key |-> Head(todo), value |-> Nil]
  <2>1. heap' = Inserted(heap, root, lf).heap /\ root' = Inserted(heap, root, lf).self
    BY <1>4 DEF Fill
  <2>2. Head(todo) \in Keys
    BY <1>4 DEF Fill, IteratorInv, TreePart
  <2>3. lf.key = Head(todo) /\ lf.key \in Keys /\ lf.value \in Values \cup {Nil}
    BY <2>2
  <2> HIDE DEF lf
  <2>4. Stored' = Others(lf.key) \cup {LeafAt(lf)}
    BY <2>1, <2>3, <1>1, <1>4
  <2> QED
    BY <2>3, <2>4 DEF lf
<1>5. IteratorInv => MapStep
  BY <1>2, <1>3, <1>4 DEF MapStep
<1> QED
  BY <1>5, IteratorInvariant, PTL DEF TreeIsMap

=============================================================================
