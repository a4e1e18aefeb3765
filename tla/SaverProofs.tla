---------------------------- MODULE SaverProofs ----------------------------
(***************************************************************************)
(* Proofs about Saver for all trees, all leaves, all files of other        *)
(* versions and any number of calls.                                       *)
(***************************************************************************)
EXTENDS Saver, CodecProofs

-----------------------------------------------------------------------------
(* Streams *)

\* What an encoder writes is part of a file.
LEMMA StructTokensAreTokens ==
    ASSUME NEW s \in Seq(StructTokens)
    PROVE  s \in Seq(Tokens)
  BY DEF Tokens

\* The stream of NewTreeSaver: a magic number, the header and no leaf.
LEMMA StreamStart ==
    ASSUME NEW st, st = << <<"magic", 0>>, TreeHeader >>, NEW at, at = [i \in 1 .. 1 |-> 3]
    PROVE  st \in Seq(Tokens) /\ at \in [1 .. Len(<<>>) + 1 -> Nat] /\ IsStream(st, <<>>, at)
<1> DEFINE hdr == MarshalMsg(TreeType, ZeroOf(TreeType))
<1>1. hdr \in Seq(StructTokens) /\ Len(hdr) >= 1 /\ IsStruct(hdr, 1, TreeType, ZeroOf(TreeType))
  BY HeaderIsStruct
<1>2. TreeHeader = <<"bin", hdr>>
  BY DEF TreeHeader
<1> HIDE DEF hdr
<1>3. <<"magic", 0>> \in Tokens
  BY DEF Tokens
<1>4. TreeHeader \in Tokens
  BY <1>1, <1>2 DEF Tokens
<1>5. st \in Seq(Tokens) /\ Len(st) = 2
  BY <1>3, <1>4
<1>6. st[2][2] = hdr
  BY <1>2
<1>7. Len(<<>>) = 0 /\ at[1] = 3 /\ DOMAIN at = 1 .. 1
  OBVIOUS
<1>8. at \in [1 .. Len(<<>>) + 1 -> Nat]
  BY <1>7
<1>9. \A i \in 1 .. Len(<<>>) : FALSE
  BY <1>7
<1>10. at[Len(<<>>) + 1] = Len(st) + 1
  BY <1>5, <1>7
<1> QED
  BY <1>1, <1>5, <1>6, <1>7, <1>8, <1>9, <1>10 DEF IsStream

\* The stream after one more leaf.
LEMMA StreamExtended ==
    ASSUME NEW st \in Seq(Tokens), NEW leaves \in Seq(EncodedLeaves),
           NEW at \in [1 .. Len(leaves) + 1 -> Nat], IsStream(st, leaves, at),
           NEW z \in EncodedLeaves,
           NEW sn, sn = st \o EncodeMsg(LeafType, z),
           NEW ln, ln = Append(leaves, z),
           NEW an, an = [i \in 1 .. Len(ln) + 1 |-> IF i <= Len(leaves) + 1 THEN at[i] ELSE Len(sn) + 1]
    PROVE  /\ EncodeMsg(LeafType, z) \in Seq(Tokens) /\ EncodeMsg(LeafType, z) # <<>>
           /\ sn \in Seq(Tokens) /\ ln \in Seq(EncodedLeaves)
           /\ an \in [1 .. Len(ln) + 1 -> Nat] /\ IsStream(sn, ln, an)
<1> DEFINE e == EncodeMsg(LeafType, z)
           n == Len(leaves)
<1>1. e \in Seq(StructTokens) /\ IsStruct(e, 1, LeafType, z) /\ Len(e) = 1 + 2 * FieldCount(e, 1)
  BY EncodeIsStruct, TypesGood DEF EncodedLeaves
<1>2. e \in Seq(Tokens) /\ Len(e) \in Nat /\ Len(e) >= 1
  <2>1. Len(e) >= 1 /\ Len(e) \in Nat
    BY <1>1 DEF IsStruct
  <2> QED
    BY <1>1, <2>1, StructTokensAreTokens
<1>3. sn = st \o e
  OBVIOUS
<1> HIDE DEF e
<1>4. /\ sn \in Seq(Tokens) /\ Len(sn) = Len(st) + Len(e)
      /\ \A i \in 1 .. Len(st) : sn[i] = st[i]
  BY <1>2, <1>3, Concatenation
<1>5. /\ ln \in Seq(EncodedLeaves) /\ Len(ln) = n + 1 /\ ln[n + 1] = z /\ n \in Nat
      /\ \A i \in 1 .. n : ln[i] = leaves[i]
  OBVIOUS
<1>6. Len(st) \in Nat /\ Len(st) >= 2 /\ Len(sn) \in Nat
  BY <1>4 DEF IsStream
<1> HIDE DEF n
<1>7. at \in [1 .. n + 1 -> Nat]
  BY DEF n
<1>8. /\ \A i \in 1 .. n + 1 : an[i] = at[i]
      /\ an[n + 2] = Len(sn) + 1
      /\ an \in [1 .. Len(ln) + 1 -> Nat]
  <2>1. an = [i \in 1 .. n + 2 |-> IF i <= n + 1 THEN at[i] ELSE Len(sn) + 1]
    BY <1>5 DEF n
  <2>2. \A i \in 1 .. n + 1 : i \in 1 .. n + 2 /\ i <= n + 1
    BY <1>5
  <2>3. n + 2 \in 1 .. n + 2 /\ ~(n + 2 <= n + 1)
    BY <1>5
  <2>4. \A i \in 1 .. n + 2 : i <= n + 1 => i \in 1 .. n + 1
    BY <1>5
  <2>5. Len(sn) + 1 \in Nat
    BY <1>6
  <2>6. an \in [1 .. n + 2 -> Nat]
    BY <1>7, <2>1, <2>4, <2>5
  <2>7. Len(ln) + 1 = n + 2
    BY <1>5
  <2> QED
    BY <2>1, <2>2, <2>3, <2>6, <2>7
<1>9. at[1] = 3 /\ at[n + 1] = Len(st) + 1
  BY DEF IsStream, n
<1>10. ASSUME NEW i \in 1 .. n
       PROVE  /\ IsStruct(sn, an[i], LeafType, ln[i])
              /\ an[i + 1] = an[i] + 1 + 2 * FieldCount(sn, an[i])
  <2>1. IsStruct(st, at[i], LeafType, leaves[i]) /\ at[i + 1] = at[i] + 1 + 2 * FieldCount(st, at[i])
    BY DEF IsStream, n
  <2>2. IsStruct(sn, at[i], LeafType, leaves[i]) /\ FieldCount(sn, at[i]) = FieldCount(st, at[i])
    BY <1>2, <1>3, <2>1, StructKept
  <2>3. i \in 1 .. n + 1 /\ i + 1 \in 1 .. n + 1
    BY <1>5
  <2> QED
    BY <1>5, <1>8, <2>1, <2>2, <2>3
<1>11. /\ IsStruct(sn, an[n + 1], LeafType, ln[n + 1])
       /\ an[n + 1 + 1] = an[n + 1] + 1 + 2 * FieldCount(sn, an[n + 1])
  <2>1. n + 1 \in 1 .. n + 1 /\ n + 1 + 1 = n + 2
    BY <1>5
  <2>2. an[n + 1] = Len(st) + 1
    BY <1>8, <1>9, <2>1
  <2>3. IsStruct(sn, an[n + 1], LeafType, z) /\ FieldCount(sn, an[n + 1]) = FieldCount(e, 1)
    BY <1>1, <1>2, <1>3, <2>2, StructAppended
  <2>4. Len(sn) + 1 = (Len(st) + 1) + 1 + 2 * FieldCount(e, 1)
    <3> DEFINE c == FieldCount(e, 1)
    <3>1. c \in Nat
      BY <1>1, WordAssumption DEF IsStruct
    <3>2. Len(e) = 1 + 2 * c /\ Len(sn) = Len(st) + Len(e)
      BY <1>1, <1>4
    <3> HIDE DEF c
    <3>3. Len(sn) + 1 = (Len(st) + 1) + 1 + 2 * c
      BY <1>6, <3>1, <3>2
    <3> QED
      BY <3>3 DEF c
  <2> QED
    BY <1>5, <1>8, <2>1, <2>2, <2>3, <2>4
<1>12. \A i \in 1 .. Len(ln) : /\ IsStruct(sn, an[i], LeafType, ln[i])
                               /\ an[i + 1] = an[i] + 1 + 2 * FieldCount(sn, an[i])
  <2>1. \A i \in 1 .. Len(ln) : i \in 1 .. n \/ i = n + 1
    BY <1>5
  <2> QED
    BY <1>10, <1>11, <2>1
<1>13. /\ sn[2] = st[2] /\ Len(sn) >= 2
       /\ an[1] = 3 /\ an[Len(ln) + 1] = Len(sn) + 1
  <2>1. 2 \in 1 .. Len(st) /\ 1 \in 1 .. n + 1 /\ Len(ln) + 1 = n + 2
    BY <1>5, <1>6
  <2>2. Len(sn) >= 2
    BY <1>2, <1>4, <1>6
  <2> QED
    BY <1>4, <1>8, <1>9, <2>1, <2>2
<1>14. st[2][2] \in Seq(StructTokens) /\ Len(st[2][2]) >= 1 /\ IsStruct(st[2][2], 1, TreeType, ZeroOf(TreeType))
  BY DEF IsStream
<1>15. IsStream(sn, ln, an)
  BY <1>12, <1>13, <1>14 DEF IsStream
<1>16. e # <<>>
  BY <1>2
<1> QED
  BY <1>2, <1>4, <1>5, <1>8, <1>15, <1>16 DEF e

-----------------------------------------------------------------------------
(* The inductive invariant *)

\* The variables of the saver: types, and the file is whole while the writer is
\* closed.
SaverOK ==
    /\ sv \in Savers \cup GoneSavers \cup {Nil}
    /\ buf \in Seq(Tokens) /\ file \in Seq(Tokens) /\ whole \in BOOLEAN
    /\ saved \in Seq(EncodedLeaves)
    /\ sv = Nil => file = <<>> /\ saved = <<>> /\ buf = <<>> /\ ~whole
    /\ sv \in Savers => (whole <=> sv.closed)

GoodTree(t) == DOMAIN t \in SUBSET Keys /\ t \in [DOMAIN t -> LeafRecords]

\* The keys that Save has passed when its iterator is at c.
Reached(c) == {k \in DOMAIN tree : 0 < k /\ k <= c}

\* What is in the stream was in the tree, and Save has left out nothing so far.
SavedOK ==
    /\ \A i \in 1 .. Len(saved) : /\ saved[i].Key \in DOMAIN tree \ {0}
                                  /\ saved[i].X = BytesOf(tree[saved[i].Key])
    /\ whole => DOMAIN tree \ {0} \subseteq KeysUpTo(Len(saved))
    /\ sv \in Savers => (sv.pc = "saving" /\ ~sv.closed => Reached(sv.cursor) \subseteq KeysUpTo(Len(saved)))

\* No call of Save on this tree panics.
NoPanic ==
    /\ ~(Cardinality(DOMAIN tree) = 1 /\ 0 \notin DOMAIN tree)
    /\ \A k \in DOMAIN tree \ {0} : tree[k].vkind # "other"

\* What numLeafWrit counts: it is never reset, but a second Save after a first
\* one that wrote leaves cannot return nil.
CountOK ==
    /\ sv \in Savers =>
          /\ sv.pc = "saving" =>
                /\ sv.ret = Nil
                /\ \A k \in Reached(sv.cursor) : tree[k].vkind # "other"
                /\ Reached(sv.cursor) # {} => ~TheLeafIsNil
                /\ ~sv.broken /\ ~sv.closed /\ NoPanic =>
                      sv.numLeafWrit = Cardinality(Reached(sv.cursor))
                /\ sv.closed /\ buf = <<>> => sv.cursor = 0
          /\ sv.pc = "idle" /\ ~sv.broken /\ ~sv.closed /\ NoPanic => sv.numLeafWrit = 0
          /\ DOMAIN tree \ {0} = {} => sv.numLeafWrit = 0
    /\ sv # Nil =>
          /\ sv.ret = "ok" => sv.numLeafWrit = Cardinality(DOMAIN tree \ {0})
          /\ sv.ret = "panic" => ~NoPanic

TreeOK ==
    \/ GoodTree(tree) /\ SavedOK /\ CountOK
    \/ tree = Nil /\ sv \in GoneSavers

IsPrefixOf(s, t) == Len(s) <= Len(t) /\ \A i \in 1 .. Len(s) : s[i] = t[i]

\* st is the stream of all that was encoded: the file has the beginning of it.
StreamOK(st, at) ==
    /\ IsStream(st, saved, at)
    /\ IsPrefixOf(file, st)
    /\ whole => file = st
    /\ sv \in Savers => (~sv.broken /\ ~sv.closed => st = file \o buf)

\* The loader has the leaves it counts.
LoadedOK ==
    /\ sv # Nil => sv.pc # "saving"
    /\ ld.n \in 0 .. Len(saved)
    /\ DOMAIN loaded = KeysUpTo(ld.n)
    /\ \A k \in DOMAIN loaded : /\ loaded[k].value = LastWith(k, ld.n).X
                                /\ loaded[k].vkind = "bsv"

ReturnOK ==
    /\ whole /\ ld.ret = "ok" => ld.n = Len(saved)
    /\ ld.ret = "panic" => \E i \in DOMAIN saved : saved[i].XTyp # 0
    /\ ld.pc # "end" => ld.ret = Nil

\* It is within the header, or within the next leaf.
InHeader ==
    /\ ld.n = 0 /\ Len(file) >= 2 /\ ld.src = file[2][2]
    /\ Decodes(ld.d, ld.src, 1, TreeType, ZeroOf(TreeType), ld.at)

InLeaf(st, at) ==
    /\ ld.n < Len(saved) /\ ld.src = file
    /\ Decodes(ld.d, st, at[ld.n + 1], LeafType, saved[ld.n + 1], ld.at)

PlaceOK(st, at) ==
    /\ ld.pc = "leaf" => ld.src = file /\ ld.at = at[ld.n + 1] /\ ld.d.nils = 0
    /\ ld.pc = "fields" => InHeader \/ InLeaf(st, at)

LoaderOK(st, at) ==
    /\ ld \in Loaders \cup NoLoaders \cup {Nil}
    /\ ld # Nil => LoadedOK /\ ReturnOK /\ PlaceOK(st, at)

IInv ==
    /\ SaverOK /\ TreeOK
    /\ \E st \in Seq(Tokens), at \in [1 .. Len(saved) + 1 -> Nat] :
          StreamOK(st, at) /\ LoaderOK(st, at)

-----------------------------------------------------------------------------
(* The steps of the saver *)

\* The fields of a saver that runs, and of one that has ended.
LEMMA SaverFields ==
    /\ \A s \in Savers :
          /\ s.pc \in {"idle", "saving"} /\ s.cursor \in Nat /\ s.numLeafWrit \in Nat
          /\ s.ret \in Returns \cup {Nil} /\ s.closed \in BOOLEAN /\ s.broken \in BOOLEAN
          /\ s.saves \in Nat /\ s.flushes \in Nat /\ s # Nil
    /\ \A s \in GoneSavers :
          s.pc = "gone" /\ s.ret \in Returns \cup {Nil} /\ s.numLeafWrit \in Nat /\ s # Nil
<1>1. ASSUME NEW s \in Savers
      PROVE  /\ s.pc \in {"idle", "saving"} /\ s.cursor \in Nat /\ s.numLeafWrit \in Nat
             /\ s.ret \in Returns \cup {Nil} /\ s.closed \in BOOLEAN /\ s.broken \in BOOLEAN
             /\ s.saves \in Nat /\ s.flushes \in Nat /\ s # Nil
  <2>1. s # Nil
    BY NilAssumption
  <2> QED
    BY <2>1 DEF Savers
<1>2. ASSUME NEW s \in GoneSavers
      PROVE  s.pc = "gone" /\ s.ret \in Returns \cup {Nil} /\ s.numLeafWrit \in Nat /\ s # Nil
  <2>1. s # Nil
    BY NilAssumption
  <2> QED
    BY <2>1 DEF GoneSavers
<1> QED
  BY <1>1, <1>2

\* A saver with another program counter than "gone" is one that runs.
LEMMA RunningSaver ==
    ASSUME SaverOK, sv # Nil, sv.pc # "gone"
    PROVE  sv \in Savers
<1>1. sv \in Savers \cup GoneSavers
  BY DEF SaverOK
<1>2. sv \notin GoneSavers
  BY SaverFields
<1> QED
  BY <1>1, <1>2

\* More of the stream gets into the file.
LEMMA PrefixAppended ==
    ASSUME NEW S, NEW f \in Seq(S), NEW b \in Seq(S), NEW p \in Seq(S), IsPrefixOf(p, b)
    PROVE  f \o p \in Seq(S) /\ IsPrefixOf(f \o p, f \o b)
<1> DEFINE g == f \o p
           h == f \o b
<1>1. Len(f) \in Nat /\ Len(p) \in Nat /\ Len(b) \in Nat /\ Len(p) <= Len(b)
  BY DEF IsPrefixOf
<1>2. /\ g \in Seq(S) /\ Len(g) = Len(f) + Len(p)
      /\ \A i \in 1 .. Len(f) : g[i] = f[i]
      /\ \A i \in 1 .. Len(p) : g[Len(f) + i] = p[i]
  BY Concatenation
<1>3. /\ h \in Seq(S) /\ Len(h) = Len(f) + Len(b)
      /\ \A i \in 1 .. Len(f) : h[i] = f[i]
      /\ \A i \in 1 .. Len(b) : h[Len(f) + i] = b[i]
  BY Concatenation
<1> HIDE DEF g, h
<1>4. ASSUME NEW i \in 1 .. Len(g) PROVE g[i] = h[i]
  <2>1. CASE i <= Len(f)
    BY <1>1, <1>2, <1>3, <2>1
  <2>2. CASE i > Len(f)
    <3> DEFINE j == i - Len(f)
    <3>1. j \in 1 .. Len(p) /\ j \in 1 .. Len(b) /\ i = Len(f) + j
      BY <1>1, <1>2, <2>2
    <3> HIDE DEF j
    <3>2. p[j] = b[j]
      BY <3>1 DEF IsPrefixOf
    <3> QED
      BY <1>2, <1>3, <3>1, <3>2
  <2> QED
    BY <1>1, <1>2, <2>1, <2>2
<1>5. Len(g) <= Len(h)
  BY <1>1, <1>2, <1>3
<1> QED
  BY <1>2, <1>4, <1>5 DEF IsPrefixOf, g, h

\* The file if n of the tokens on their way get through.
Through(f, b, n) == f \o SubSeq(b, 1, n)

\* What gets through is the beginning of what is on its way.
LEMMA PartThrough ==
    ASSUME NEW S, NEW f \in Seq(S), NEW b \in Seq(S), NEW n \in 0 .. Len(b),
           NEW g, g = Through(f, b, n)
    PROVE  g \in Seq(S) /\ IsPrefixOf(g, f \o b) /\ (n = 0 => g = f)
<1> DEFINE p == SubSeq(b, 1, n)
<1>1. p \in Seq(S) /\ Len(p) = n /\ n <= Len(b)
  OBVIOUS
<1>2. \A i \in 1 .. n : p[i] = b[i]
  OBVIOUS
<1>3. g = f \o p
  BY DEF Through
<1>4. IsPrefixOf(p, b)
  <2> HIDE DEF p
  <2> QED
    BY <1>1, <1>2 DEF IsPrefixOf
<1>5. n = 0 => p = <<>>
  <2> HIDE DEF p
  <2> QED
    BY <1>1
<1> HIDE DEF p
<1>6. f \o p \in Seq(S) /\ IsPrefixOf(f \o p, f \o b)
  BY <1>1, <1>4, PrefixAppended
<1>7. f \o <<>> = f
  OBVIOUS
<1> QED
  BY <1>3, <1>5, <1>6, <1>7, Zenon

\* Nothing gets through.
LEMMA NoneThrough ==
    ASSUME NEW S, NEW f \in Seq(S), NEW b
    PROVE  Through(f, b, 0) = f
<1>1. SubSeq(b, 1, 0) = <<>>
  OBVIOUS
<1>2. f \o <<>> = f
  OBVIOUS
<1> QED
  BY <1>1, <1>2, Zenon DEF Through

\* NewTreeSaver begins the stream, or there is no saver and no file.
LEMMA NewTreeSaverStep ==
    ASSUME SaverOK, TreeOK, NEW st \in Seq(Tokens), NEW at \in [1 .. Len(saved) + 1 -> Nat],
           StreamOK(st, at), NewTreeSaver
    PROVE  /\ SaverOK' /\ TreeOK'
           /\ \E sn \in Seq(Tokens), an \in [1 .. Len(saved') + 1 -> Nat] : StreamOK(sn, an)'
<1>1. /\ sv = Nil /\ file = <<>> /\ saved = <<>> /\ buf = <<>> /\ whole = FALSE
      /\ tree' = tree /\ saved' = <<>> /\ saved' = saved
  BY DEF SaverOK, NewTreeSaver
<1>2. GoodTree(tree) /\ GoodTree(tree)'
  BY <1>1, SaverFields DEF TreeOK, GoodTree
<1>3. Len(saved') = 0 /\ \A i \in 1 .. Len(saved') : FALSE
  BY <1>1
<1>4. CASE /\ sv' = [pc |-> "idle", cursor |-> 0, numLeafWrit |-> 0, ret |-> Nil,
                     closed |-> FALSE, broken |-> FALSE, saves |-> 0, flushes |-> 0]
           /\ file' = << <<"magic", 0>> >> /\ buf' = <<TreeHeader>> /\ whole' = whole
  <2> DEFINE sn == << <<"magic", 0>>, TreeHeader >>
             an == [i \in 1 .. 1 |-> 3]
  <2>1. sn \in Seq(Tokens) /\ an \in [1 .. Len(<<>>) + 1 -> Nat] /\ IsStream(sn, <<>>, an)
    BY StreamStart
  <2>2. <<"magic", 0>> \in Tokens /\ TreeHeader \in Tokens
    <3>1. sn[1] \in Tokens /\ sn[2] \in Tokens
      BY <2>1
    <3> QED
      BY <3>1
  <2>3. file' \in Seq(Tokens) /\ buf' \in Seq(Tokens) /\ Len(file') = 1 /\ file'[1] = sn[1] /\ Len(sn) = 2
    BY <1>4, <2>2
  <2>4. sn = file' \o buf'
    BY <1>4
  <2>5. /\ sv' \in Savers /\ sv'.closed = FALSE /\ sv'.pc = "idle" /\ sv'.numLeafWrit = 0
        /\ sv'.ret = Nil
    BY <1>4 DEF Savers
  <2>6. sv' # Nil /\ whole' = FALSE /\ Nil \notin {"ok", "panic"}
    BY <1>1, <1>4, <2>5, SaverFields, NilAssumption DEF Returns
  <2>7. SaverOK'
    BY <1>1, <2>3, <2>5, <2>6 DEF SaverOK
  <2>8. SavedOK'
    BY <1>3, <2>5, <2>6 DEF SavedOK
  <2>9. CountOK'
    BY <2>5, <2>6 DEF CountOK
  <2>10. TreeOK'
    BY <1>2, <2>8, <2>9 DEF TreeOK
  <2> HIDE DEF sn, an
  <2>11. IsPrefixOf(file', sn)
    BY <2>3 DEF IsPrefixOf
  <2>12. IsStream(sn, saved', an) /\ an \in [1 .. Len(saved') + 1 -> Nat]
    BY <1>1, <2>1
  <2>13. StreamOK(sn, an)'
    BY <2>4, <2>6, <2>11, <2>12 DEF StreamOK
  <2> QED
    BY <2>1, <2>7, <2>10, <2>12, <2>13
<1>5. CASE /\ sv' = [pc |-> "gone", ret |-> "error", numLeafWrit |-> 0]
           /\ file' = file /\ buf' = buf /\ whole' = whole
  <2>1. sv' \in GoneSavers /\ sv'.ret = "error" /\ sv'.pc = "gone"
    BY <1>5 DEF GoneSavers, Returns
  <2>2. sv' \notin Savers /\ sv' # Nil
    BY <2>1, SaverFields
  <2>3. SaverOK'
    BY <1>1, <1>5, <2>1, <2>2 DEF SaverOK
  <2>4. SavedOK' /\ CountOK'
    BY <1>1, <1>3, <1>5, <2>1, <2>2 DEF SavedOK, CountOK
  <2>5. StreamOK(st, at)'
    BY <1>1, <1>5, <2>2 DEF StreamOK
  <2>6. TreeOK'
    BY <1>2, <2>4 DEF TreeOK
  <2> QED
    BY <1>1, <2>3, <2>5, <2>6
<1> QED
  BY <1>4, <1>5 DEF NewTreeSaver

\* SaveBegin: the iterator is at the beginning.
LEMMA SaveBeginStep ==
    ASSUME SaverOK, TreeOK, NEW st \in Seq(Tokens), NEW at \in [1 .. Len(saved) + 1 -> Nat],
           StreamOK(st, at), SaveBegin
    PROVE  /\ SaverOK' /\ TreeOK'
           /\ \E sn \in Seq(Tokens), an \in [1 .. Len(saved') + 1 -> Nat] : StreamOK(sn, an)'
<1>1. /\ sv # Nil /\ sv.pc = "idle"
      /\ sv' = [sv EXCEPT !.pc = "saving", !.cursor = 0, !.ret = Nil, !.saves = @ + 1]
      /\ UNCHANGED <<tree, buf, file, whole, saved>>
  BY DEF SaveBegin
<1>2. sv \in Savers
  BY <1>1, RunningSaver
<1>3. /\ sv' \in Savers /\ sv'.pc = "saving" /\ sv'.cursor = 0 /\ sv'.ret = Nil
      /\ sv'.closed = sv.closed /\ sv'.broken = sv.broken /\ sv'.numLeafWrit = sv.numLeafWrit
  <2>1. sv.saves + 1 \in Nat
    BY <1>2, SaverFields
  <2>2. sv' = [sv EXCEPT !.pc = "saving", !.cursor = 0, !.ret = Nil, !.saves = sv.saves + 1]
    BY <1>1
  <2> QED
    BY <1>2, <2>1, <2>2 DEF Savers
<1>4. sv' # Nil /\ Nil \notin {"ok", "panic"}
  BY <1>3, SaverFields, NilAssumption DEF Returns
<1>5. SaverOK'
  BY <1>1, <1>2, <1>3, <1>4 DEF SaverOK
<1>6. GoodTree(tree) /\ SavedOK /\ CountOK
  BY <1>1, SaverFields DEF TreeOK
<1>7. Reached(0)' = {} /\ GoodTree(tree)'
  <2>1. \A k \in DOMAIN tree : k \in Nat
    BY <1>6, KeysAssumption DEF GoodTree
  <2> QED
    BY <1>1, <1>6, <2>1 DEF GoodTree, Reached
<1>8. Cardinality(Reached(0)') = 0
  BY <1>7, FS_EmptySet
<1>9. SavedOK'
  BY <1>1, <1>2, <1>3, <1>6, <1>7 DEF SavedOK, BytesOf, KeysUpTo
<1>10. NoPanic' <=> NoPanic
  BY <1>1 DEF NoPanic
<1>11. CountOK'
  <2>1. sv.pc # "saving"
    BY <1>1
  <2>2. ~sv'.broken /\ ~sv'.closed /\ NoPanic' => sv'.numLeafWrit = Cardinality(Reached(0)')
    BY <1>1, <1>2, <1>3, <1>6, <1>8, <1>10 DEF CountOK
  <2>3. DOMAIN tree' \ {0} = {} => sv'.numLeafWrit = 0
    BY <1>1, <1>2, <1>3, <1>6 DEF CountOK
  <2>4. Reached(sv.cursor)' = {} /\ Cardinality(Reached(sv.cursor)') = Cardinality(Reached(0)')
    BY <1>3, <1>7 DEF Reached
  <2> QED
    BY <1>3, <1>4, <2>2, <2>3, <2>4 DEF CountOK
<1>12. StreamOK(st, at)'
  BY <1>1, <1>2, <1>3 DEF StreamOK
<1>13. TreeOK'
  BY <1>7, <1>9, <1>11 DEF TreeOK
<1> QED
  BY <1>1, <1>5, <1>12, <1>13

\* A write that fails leaves the beginning of what was on its way.
LEMMA FailedWrite ==
    ASSUME SaverOK, sv \in Savers, buf' \in Seq(Tokens), WriteFails
    PROVE  /\ file' \in Seq(Tokens) /\ whole' = whole
           /\ IsPrefixOf(file', file \o buf')
           /\ sv.broken \/ sv.closed => file' = file
<1>1. PICK n \in 0 .. (IF sv.broken \/ sv.closed THEN 0 ELSE Len(buf')) :
         file' = Through(file, buf', n)
  BY DEF WriteFails, Through
<1>2. file \in Seq(Tokens) /\ Len(buf') \in Nat /\ whole' = whole
  BY DEF SaverOK, WriteFails
<1>3. n \in 0 .. Len(buf') /\ (sv.broken \/ sv.closed => n = 0)
  BY <1>2
<1>4. file' \in Seq(Tokens) /\ IsPrefixOf(file', file \o buf') /\ (n = 0 => file' = file)
  BY <1>1, <1>2, <1>3, PartThrough
<1> QED
  BY <1>2, <1>3, <1>4

\* A beginning of a sequence is one of a longer sequence.
LEMMA PrefixOfLonger ==
    ASSUME NEW S, NEW f \in Seq(S), NEW s \in Seq(S), NEW t \in Seq(S), IsPrefixOf(f, s)
    PROVE  IsPrefixOf(f, s \o t)
<1> DEFINE h == s \o t
<1>1. /\ h \in Seq(S) /\ Len(h) = Len(s) + Len(t)
      /\ \A i \in 1 .. Len(s) : h[i] = s[i]
  BY Concatenation
<1>2. Len(f) \in Nat /\ Len(s) \in Nat /\ Len(t) \in Nat /\ Len(f) <= Len(s)
      /\ \A i \in 1 .. Len(f) : f[i] = s[i]
  BY DEF IsPrefixOf
<1> HIDE DEF h
<1>3. Len(f) <= Len(h) /\ \A i \in 1 .. Len(f) : f[i] = h[i]
  BY <1>1, <1>2
<1> QED
  BY <1>3 DEF IsPrefixOf, h

Join(s, t) == s \o t

\* Concatenation is associative.
LEMMA ConcatAssoc ==
    ASSUME NEW f \in Seq(Tokens), NEW b \in Seq(Tokens), NEW e \in Seq(Tokens)
    PROVE  Join(Join(f, b), e) = Join(f, Join(b, e))
  BY DEF Join

\* The next key of the iterator, and the leaf as PreSaveHook makes it.
LEMMA NextKeyFacts ==
    ASSUME GoodTree(tree), sv \in Savers, Ahead # {},
           NEW k, k = NextKey, NEW z, z = Hooked(k, tree[k])
    PROVE  /\ k \in DOMAIN tree /\ k \in Nat /\ k > sv.cursor /\ k > 0
           /\ \A j \in DOMAIN tree : j \in Nat /\ (j > sv.cursor => k <= j)
           /\ z \in EncodedLeaves /\ z.Key = k /\ z.X = BytesOf(tree[k])
           /\ z.XTyp \in Nat /\ z.X \in Nat
<1>1. \A j \in DOMAIN tree : j \in Nat
  BY KeysAssumption DEF GoodTree
<1>2. Ahead \in SUBSET Nat
  BY <1>1 DEF Ahead
<1>3. k = Min(Ahead)
  BY DEF NextKey, Min
<1>4. k \in Ahead /\ \A j \in Ahead : k <= j
  BY <1>2, <1>3, MinOfNats
<1>5. k \in DOMAIN tree /\ k \in Nat /\ k > sv.cursor /\ sv.cursor \in Nat
  BY <1>1, <1>4, SaverFields DEF Ahead
<1>6. tree[k] \in LeafRecords
  BY <1>5 DEF GoodTree
<1>7. tree[k].Keybyte \in Nat /\ tree[k].XTyp \in Nat /\ tree[k].X \in Nat /\ tree[k].value \in Nat
  BY <1>6 DEF LeafRecords
<1> DEFINE w == IF tree[k].vkind = "nil" THEN tree[k].XTyp ELSE 0
           x == IF tree[k].vkind = "nil" THEN tree[k].X ELSE tree[k].value
<1>8. z = [Key |-> k, Keybyte |-> tree[k].Keybyte, XTyp |-> w, X |-> x]
  BY DEF Hooked
<1>9. w \in Nat /\ x \in Nat /\ x = BytesOf(tree[k])
  BY <1>7 DEF BytesOf
<1> HIDE DEF w, x
<1>10. z \in [{"Key", "Keybyte", "XTyp", "X"} -> Nat] /\ z.Key = k /\ z.X = x /\ z.XTyp = w
  BY <1>5, <1>7, <1>8, <1>9
<1>11. z \in EncodedLeaves
  BY <1>10, LeafFields DEF EncodedLeaves
<1>12. \A j \in DOMAIN tree : j > sv.cursor => k <= j
  BY <1>4 DEF Ahead
<1> QED
  BY <1>1, <1>5, <1>9, <1>10, <1>11, <1>12

\* The tree after PreSaveHook on the leaf of k.
AfterHook(k, w, x) == [tree EXCEPT ![k].XTyp = w, ![k].X = x]

\* PreSaveHook leaves the tree the same keys, types and bytes.
LEMMA HookFacts ==
    ASSUME GoodTree(tree), NEW k \in DOMAIN tree, NEW w \in Nat, NEW x \in Nat,
           x = BytesOf(tree[k]), NEW t, t = AfterHook(k, w, x)
    PROVE  /\ GoodTree(t) /\ DOMAIN t = DOMAIN tree
           /\ \A j \in DOMAIN tree : t[j].vkind = tree[j].vkind /\ BytesOf(t[j]) = BytesOf(tree[j])
<1>1. tree \in [DOMAIN tree -> LeafRecords] /\ DOMAIN tree \in SUBSET Keys
  BY DEF GoodTree
<1> DEFINE lf == tree[k]
           lg == [lf EXCEPT !.XTyp = w, !.X = x]
<1>2. lf \in LeafRecords
  BY <1>1
<1>3. lg \in LeafRecords /\ lg.vkind = lf.vkind /\ lg.value = lf.value /\ lg.X = x
  BY <1>2 DEF LeafRecords
<1>4. t = [tree EXCEPT ![k] = lg]
  BY <1>1, <1>2 DEF LeafRecords, AfterHook
<1>5. BytesOf(lg) = BytesOf(lf)
  BY <1>3 DEF BytesOf
<1> HIDE DEF lg
<1>6. t \in [DOMAIN tree -> LeafRecords] /\ DOMAIN t = DOMAIN tree
  BY <1>1, <1>3, <1>4
<1>7. \A j \in DOMAIN tree : t[j] = IF j = k THEN lg ELSE tree[j]
  BY <1>1, <1>4
<1> QED
  BY <1>1, <1>3, <1>5, <1>6, <1>7 DEF GoodTree

\* The keys passed after one more turn of the loop in Save.
LEMMA ReachedNext ==
    ASSUME GoodTree(tree), sv \in Savers, NEW k \in DOMAIN tree, k > sv.cursor, k > 0,
           \A j \in DOMAIN tree : j \in Nat /\ (j > sv.cursor => k <= j)
    PROVE  /\ Reached(k) = Reached(sv.cursor) \cup {k}
           /\ Cardinality(Reached(k)) = Cardinality(Reached(sv.cursor)) + 1
<1>1. sv.cursor \in Nat /\ k \in Nat
  BY SaverFields
<1>2. \A j \in DOMAIN tree : j <= k <=> j <= sv.cursor \/ j = k
  BY <1>1
<1>3. Reached(k) = Reached(sv.cursor) \cup {k}
  BY <1>2 DEF Reached
<1>4. k \notin Reached(sv.cursor)
  BY <1>1 DEF Reached
<1>5. IsFiniteSet(Reached(sv.cursor))
  <2>1. Reached(sv.cursor) \in SUBSET Keys
    BY DEF Reached, GoodTree
  <2> QED
    BY <2>1, KeysAssumption, FS_Subset
<1> QED
  BY <1>3, <1>4, <1>5, FS_AddElement

\* Save panics: the leaf is nil or of a type that PreSaveHook does not know.
LEMMA SavePanicStep ==
    ASSUME SaverOK, GoodTree(tree), SavedOK, CountOK, sv \in Savers, sv.pc = "saving",
           NEW k \in DOMAIN tree, k \in Nat, k > 0, TheLeafIsNil \/ PreSavePanics(tree[k]),
           sv' = [sv EXCEPT !.numLeafWrit = sv.numLeafWrit + 1, !.cursor = k, !.pc = "idle",
                            !.ret = "panic"],
           UNCHANGED <<tree, buf, file, whole, saved>>,
           NEW st, NEW at, StreamOK(st, at)
    PROVE  SaverOK' /\ TreeOK' /\ StreamOK(st, at)'
<1>1. sv.numLeafWrit + 1 \in Nat
  BY SaverFields
<1>2. /\ sv' \in Savers /\ sv'.pc = "idle" /\ sv'.ret = "panic"
      /\ sv'.closed = sv.closed /\ sv'.broken = sv.broken
  BY <1>1 DEF Savers, Returns
<1>3. sv' # Nil
  BY <1>2, SaverFields
<1>4. ~NoPanic
  <2>1. CASE TheLeafIsNil
    <3>1. IsFiniteSet(DOMAIN tree)
      BY KeysAssumption, FS_Subset DEF GoodTree
    <3>2. PICK x : DOMAIN tree = {x}
      BY <2>1, <3>1, FS_Singleton DEF TheLeafIsNil
    <3>3. x = k /\ k # 0
      BY <3>2
    <3> QED
      BY <2>1, <3>2, <3>3 DEF NoPanic, TheLeafIsNil
  <2>2. CASE PreSavePanics(tree[k])
    BY <2>2 DEF NoPanic, PreSavePanics
  <2> QED
    BY <2>1, <2>2
<1>5. ~NoPanic'
  BY <1>4 DEF NoPanic
<1>6. SaverOK'
  BY <1>2, <1>3 DEF SaverOK
<1>7. SavedOK'
  BY <1>2 DEF SavedOK, BytesOf, KeysUpTo
<1>8. DOMAIN tree' \ {0} # {}
  OBVIOUS
<1>9. CountOK'
  BY <1>2, <1>3, <1>5, <1>8 DEF CountOK
<1>10. GoodTree(tree)'
  BY DEF GoodTree
<1>11. TreeOK'
  BY <1>7, <1>9, <1>10 DEF TreeOK
<1>12. StreamOK(st, at)'
  BY <1>2 DEF StreamOK
<1> QED
  BY <1>6, <1>11, <1>12

\* A leaf is encoded: what holds of the tree and of the leaves in the stream,
\* whether or not the write fails.
LEMMA SaveLeafTree ==
    ASSUME SaverOK, GoodTree(tree), SavedOK, CountOK, sv \in Savers, sv.pc = "saving", Ahead # {},
           NEW k, k = NextKey, NEW z, z = Hooked(k, tree[k]),
           ~TheLeafIsNil, ~PreSavePanics(tree[k]),
           tree' = AfterHook(k, z.XTyp, z.X),
           saved' = (IF sv.closed THEN saved ELSE Append(saved, z)),
           buf' # <<>>, whole' = whole,
           sv' \in Savers, sv'.closed = sv.closed, sv'.numLeafWrit = sv.numLeafWrit + 1,
           sv'.cursor = k,
           \/ sv'.pc = "saving" /\ sv'.ret = sv.ret /\ sv'.broken = sv.broken
           \/ sv'.pc = "idle" /\ sv'.ret = "error" /\ sv'.broken
    PROVE  TreeOK'
<1>1. /\ k \in DOMAIN tree /\ k \in Nat /\ k > sv.cursor /\ k > 0
      /\ \A j \in DOMAIN tree : j \in Nat /\ (j > sv.cursor => k <= j)
      /\ z \in EncodedLeaves /\ z.Key = k /\ z.X = BytesOf(tree[k])
      /\ z.XTyp \in Nat /\ z.X \in Nat
  BY NextKeyFacts
<1>2. /\ GoodTree(tree)' /\ DOMAIN tree' = DOMAIN tree
      /\ \A j \in DOMAIN tree : tree'[j].vkind = tree[j].vkind /\ BytesOf(tree'[j]) = BytesOf(tree[j])
  <2>1. GoodTree(tree')
    BY <1>1, HookFacts
  <2> QED
    BY <1>1, <2>1, HookFacts DEF GoodTree
<1>3. NoPanic' <=> NoPanic
  BY <1>2 DEF NoPanic
<1>4. TheLeafIsNil' <=> TheLeafIsNil
  BY <1>2 DEF TheLeafIsNil
<1>5. /\ Reached(k) = Reached(sv.cursor) \cup {k}
      /\ Cardinality(Reached(k)) = Cardinality(Reached(sv.cursor)) + 1
  BY <1>1, ReachedNext
<1>6. Reached(sv.cursor)' = Reached(k)
  BY <1>2 DEF Reached
<1>7. sv' # Nil /\ sv # Nil
  BY SaverFields
<1>8. SavedOK'
  <2>1. whole' <=> sv'.closed
    BY DEF SaverOK
  <2>2. CASE sv.closed
    <3>1. saved' = saved
      BY <2>2
    <3> QED
      BY <1>2, <2>1, <2>2, <3>1 DEF SavedOK, KeysUpTo
  <2>3. CASE ~sv.closed
    <3>1. saved' = Append(saved, z) /\ saved \in Seq(EncodedLeaves)
      BY <2>3 DEF SaverOK
    <3>2. /\ Len(saved') = Len(saved) + 1 /\ Len(saved) \in Nat
          /\ saved'[Len(saved) + 1] = z
          /\ \A i \in 1 .. Len(saved) : saved'[i] = saved[i]
      BY <1>1, <3>1
    <3>3. \A i \in 1 .. Len(saved') : i \in 1 .. Len(saved) \/ i = Len(saved) + 1
      BY <3>2
    <3>4. ASSUME NEW i \in 1 .. Len(saved')
          PROVE  saved'[i].Key \in DOMAIN tree' \ {0} /\ saved'[i].X = BytesOf(tree'[saved'[i].Key])
      <4>1. CASE i \in 1 .. Len(saved)
        <5>1. saved'[i] = saved[i] /\ saved[i].Key \in DOMAIN tree \ {0} /\ saved[i].X = BytesOf(tree[saved[i].Key])
          BY <3>2, <4>1 DEF SavedOK
        <5> QED
          BY <1>2, <5>1
      <4>2. CASE i = Len(saved) + 1
        BY <1>1, <1>2, <3>2, <4>2
      <4> QED
        BY <3>3, <4>1, <4>2
    <3>5. KeysUpTo(Len(saved)) \cup {k} \subseteq KeysUpTo(Len(saved))'
      <4>1. ASSUME NEW i \in 1 .. Len(saved) PROVE saved[i].Key \in KeysUpTo(Len(saved))'
        <5>1. i \in 1 .. Len(saved') /\ saved'[i] = saved[i]
          BY <3>2
        <5> QED
          BY <5>1 DEF KeysUpTo
      <4>2. k \in KeysUpTo(Len(saved))'
        <5>1. Len(saved) + 1 \in 1 .. Len(saved') /\ saved'[Len(saved) + 1].Key = k
          BY <1>1, <3>2
        <5> QED
          BY <5>1 DEF KeysUpTo
      <4> QED
        BY <4>1, <4>2 DEF KeysUpTo
    <3>6. Reached(sv.cursor) \subseteq KeysUpTo(Len(saved))
      BY <2>3 DEF SavedOK
    <3>7. Reached(sv.cursor)' \subseteq KeysUpTo(Len(saved))'
      BY <1>5, <1>6, <3>5, <3>6
    <3> QED
      BY <2>1, <2>3, <3>4, <3>7 DEF SavedOK
  <2> QED
    BY <2>2, <2>3
<1>9. CountOK'
  <2>1. DOMAIN tree' \ {0} # {}
    BY <1>1, <1>2
  <2>2. CASE sv'.pc = "saving" /\ sv'.ret = sv.ret /\ sv'.broken = sv.broken
    <3>1. /\ sv.ret = Nil
          /\ \A j \in Reached(sv.cursor) : tree[j].vkind # "other"
          /\ ~sv.broken /\ ~sv.closed /\ NoPanic => sv.numLeafWrit = Cardinality(Reached(sv.cursor))
      BY DEF CountOK
    <3>2. \A j \in Reached(sv.cursor)' : tree'[j].vkind # "other"
      <4>1. tree[k].vkind # "other"
        BY DEF PreSavePanics
      <4>2. \A j \in Reached(sv.cursor) : j \in DOMAIN tree
        BY DEF Reached
      <4> QED
        BY <1>1, <1>2, <1>5, <1>6, <3>1, <4>1, <4>2
    <3>3. ~sv'.broken /\ ~sv'.closed /\ NoPanic' => sv'.numLeafWrit = Cardinality(Reached(sv.cursor)')
      BY <1>3, <1>5, <1>6, <2>2, <3>1
    <3>4. Nil \notin {"ok", "panic"}
      BY NilAssumption DEF Returns
    <3> QED
      BY <1>4, <2>1, <2>2, <3>1, <3>2, <3>3, <3>4 DEF CountOK
  <2>3. CASE sv'.pc = "idle" /\ sv'.ret = "error" /\ sv'.broken
    BY <2>1, <2>3 DEF CountOK
  <2> QED
    BY <2>2, <2>3
<1> QED
  BY <1>2, <1>8, <1>9 DEF TreeOK

\* SaveLeaf: the stream gets the leaf, or the saver panics.
LEMMA SaveLeafStep ==
    ASSUME SaverOK, TreeOK, NEW st \in Seq(Tokens), NEW at \in [1 .. Len(saved) + 1 -> Nat],
           StreamOK(st, at), SaveLeaf
    PROVE  /\ SaverOK' /\ TreeOK'
           /\ \E sn \in Seq(Tokens), an \in [1 .. Len(saved') + 1 -> Nat] : StreamOK(sn, an)'
<1> DEFINE k == NextKey
           z == Hooked(k, tree[k])
           on == [sv EXCEPT !.numLeafWrit = @ + 1, !.cursor = k]
           e == EncodeMsg(LeafType, z)
<1>1. sv # Nil /\ sv.pc = "saving" /\ Ahead # {}
  BY DEF SaveLeaf
<1>2. sv \in Savers
  BY <1>1, RunningSaver
<1>3. GoodTree(tree) /\ SavedOK /\ CountOK
  BY <1>1, SaverFields DEF TreeOK
<1>4. /\ k \in DOMAIN tree /\ k \in Nat /\ k > sv.cursor /\ k > 0
      /\ z \in EncodedLeaves
  BY <1>1, <1>2, <1>3, NextKeyFacts
<1>5. CASE /\ TheLeafIsNil \/ PreSavePanics(tree[k])
           /\ sv' = [on EXCEPT !.pc = "idle", !.ret = "panic"]
           /\ UNCHANGED <<tree, buf, file, whole, saved>>
  <2>1. sv' = [sv EXCEPT !.numLeafWrit = sv.numLeafWrit + 1, !.cursor = k, !.pc = "idle", !.ret = "panic"]
    BY <1>2, <1>5 DEF Savers
  <2> HIDE DEF k, z, on
  <2>2. SaverOK' /\ TreeOK' /\ StreamOK(st, at)'
    BY <1>1, <1>2, <1>3, <1>4, <1>5, <2>1, SavePanicStep
  <2> QED
    BY <1>5, <2>2
<1>6. CASE /\ ~TheLeafIsNil /\ ~PreSavePanics(tree[k])
           /\ tree' = AfterHook(k, z.XTyp, z.X)
           /\ buf' = buf \o e
           /\ saved' = IF sv.closed THEN saved ELSE Append(saved, z)
           /\ \/ sv' = on /\ file' = file /\ whole' = whole
              \/ /\ WriteFails
                 /\ sv' = [on EXCEPT !.pc = "idle", !.ret = "error", !.broken = TRUE]
  <2> DEFINE am == [i \in 1 .. Len(Append(saved, z)) + 1 |->
                      IF i <= Len(saved) + 1 THEN at[i] ELSE Len(st \o e) + 1]
  <2>1. on = [sv EXCEPT !.numLeafWrit = sv.numLeafWrit + 1, !.cursor = k]
    OBVIOUS
  <2>2. sv.numLeafWrit + 1 \in Nat /\ sv.closed \in BOOLEAN /\ sv.broken \in BOOLEAN
    BY <1>2, SaverFields
  <2> HIDE DEF k, z
  <2>3. /\ on \in Savers /\ on.closed = sv.closed /\ on.numLeafWrit = sv.numLeafWrit + 1
        /\ on.cursor = k /\ on.pc = "saving" /\ on.ret = sv.ret /\ on.broken = sv.broken
    BY <1>1, <1>2, <1>4, <2>1, <2>2 DEF Savers
  <2> HIDE DEF on
  <2>4. /\ sv' \in Savers /\ sv'.closed = sv.closed /\ sv'.numLeafWrit = sv.numLeafWrit + 1
        /\ sv'.cursor = k
        /\ \/ sv'.pc = "saving" /\ sv'.ret = sv.ret /\ sv'.broken = sv.broken
           \/ sv'.pc = "idle" /\ sv'.ret = "error" /\ sv'.broken
    <3>1. CASE sv' = on
      BY <2>3, <3>1
    <3>2. CASE sv' = [on EXCEPT !.pc = "idle", !.ret = "error", !.broken = TRUE]
      BY <2>3, <3>2 DEF Savers, Returns
    <3> QED
      BY <1>6, <3>1, <3>2
  <2>5. /\ e \in Seq(Tokens) /\ e # <<>>
        /\ st \o e \in Seq(Tokens) /\ Append(saved, z) \in Seq(EncodedLeaves)
        /\ am \in [1 .. Len(Append(saved, z)) + 1 -> Nat]
        /\ IsStream(st \o e, Append(saved, z), am)
    BY <1>4, StreamExtended DEF SaverOK, StreamOK
  <2> HIDE DEF e, am
  <2>6. buf \in Seq(Tokens) /\ file \in Seq(Tokens) /\ saved \in Seq(EncodedLeaves)
    BY DEF SaverOK
  <2>7. buf' \in Seq(Tokens) /\ buf' # <<>>
    <3>1. Len(e) \in Nat /\ Len(e) # 0 /\ Len(buf) \in Nat
      BY <2>5, <2>6
    <3>2. buf' \in Seq(Tokens) /\ Len(buf') = Len(buf) + Len(e)
      BY <1>6, <2>5, <2>6, Concatenation
    <3>3. Len(buf') # 0
      BY <3>1, <3>2
    <3> QED
      BY <3>2, <3>3
  <2>8. PICK sn \in Seq(Tokens), an \in [1 .. Len(saved') + 1 -> Nat] :
           /\ sn = IF sv.closed THEN st ELSE st \o e
           /\ IsStream(sn, saved', an) /\ saved' \in Seq(EncodedLeaves)
    <3>1. CASE sv.closed
      BY <1>6, <2>6, <3>1 DEF StreamOK
    <3>2. CASE ~sv.closed
      BY <1>6, <2>5, <3>2
    <3> QED
      BY <3>1, <3>2
  <2>9. ASSUME ~sv.broken, ~sv.closed PROVE sn = file \o buf'
    <3>1. st = Join(file, buf)
      BY <1>2, <2>9 DEF StreamOK, Join
    <3>2. buf' = Join(buf, e) /\ sn = Join(st, e)
      BY <1>6, <2>8, <2>9 DEF Join
    <3>3. Join(Join(file, buf), e) = Join(file, Join(buf, e))
      BY <2>5, <2>6, ConcatAssoc
    <3>4. sn = Join(file, buf')
      BY <3>1, <3>2, <3>3
    <3> QED
      BY <3>4 DEF Join
  <2>10. IsPrefixOf(file, sn)
    <3>1. IsPrefixOf(file, st)
      BY DEF StreamOK
    <3>2. IsPrefixOf(file, st \o e)
      BY <2>5, <2>6, <3>1, PrefixOfLonger
    <3> QED
      BY <2>8, <3>1, <3>2
  <2>11. whole => sv.closed /\ file = st
    BY <1>2 DEF SaverOK, StreamOK
  <2> DEFINE ok == sv' = on /\ file' = file /\ whole' = whole
             failed == WriteFails /\ sv' = [on EXCEPT !.pc = "idle", !.ret = "error", !.broken = TRUE]
  <2>12. /\ file' \in Seq(Tokens) /\ whole' = whole /\ IsPrefixOf(file', sn)
         /\ whole => file' = file
         /\ ~sv'.broken => ~sv.broken /\ file' = file
    <3>1. CASE ok
      BY <2>3, <2>6, <2>10, <3>1
    <3>2. CASE failed
      <4>1. /\ file' \in Seq(Tokens) /\ whole' = whole
            /\ IsPrefixOf(file', file \o buf')
            /\ sv.broken \/ sv.closed => file' = file
        BY <1>2, <2>7, <3>2, FailedWrite
      <4>2. sv'.broken
        BY <2>3, <3>2 DEF Savers
      <4>3. IsPrefixOf(file', sn)
        BY <2>9, <2>10, <4>1
      <4> QED
        BY <2>11, <4>1, <4>2, <4>3
    <3> QED
      BY <1>6, <3>1, <3>2
  <2>13. sv' # Nil
    BY <2>4, SaverFields
  <2>14. SaverOK'
    BY <1>2, <2>4, <2>7, <2>8, <2>12, <2>13 DEF SaverOK
  <2>15. TreeOK'
    <3>1. k = NextKey /\ z = Hooked(k, tree[k])
      BY DEF k, z
    <3> QED
      BY <1>1, <1>2, <1>3, <1>6, <2>4, <2>7, <2>12, <3>1, SaveLeafTree
  <2>16. whole' => file' = sn
    BY <2>8, <2>11, <2>12
  <2>17. ~sv'.broken /\ ~sv'.closed => sn = file' \o buf'
    BY <2>4, <2>9, <2>12
  <2>18. StreamOK(sn, an)'
    BY <2>8, <2>12, <2>16, <2>17 DEF StreamOK
  <2> QED
    BY <2>8, <2>14, <2>15, <2>18
<1>7. \/ /\ TheLeafIsNil \/ PreSavePanics(tree[k])
         /\ sv' = [on EXCEPT !.pc = "idle", !.ret = "panic"]
         /\ UNCHANGED <<tree, buf, file, whole, saved>>
      \/ /\ ~TheLeafIsNil /\ ~PreSavePanics(tree[k])
         /\ tree' = AfterHook(k, z.XTyp, z.X)
         /\ buf' = buf \o e
         /\ saved' = IF sv.closed THEN saved ELSE Append(saved, z)
         /\ \/ sv' = on /\ file' = file /\ whole' = whole
            \/ /\ WriteFails
               /\ sv' = [on EXCEPT !.pc = "idle", !.ret = "error", !.broken = TRUE]
  BY DEF SaveLeaf, AfterHook
<1> QED
  BY <1>5, <1>6, <1>7

\* What follows from the stream when a write of all that is on its way succeeds.
LEMMA AllThrough ==
    ASSUME SaverOK, sv \in Savers, NEW st \in Seq(Tokens), NEW at, StreamOK(st, at),
           ~sv.broken, sv.closed => buf = <<>>, file' = file \o buf, buf' = <<>>
    PROVE  /\ file' \in Seq(Tokens) /\ buf' \in Seq(Tokens) /\ file' = st
           /\ IsPrefixOf(file', st) /\ st = file' \o buf'
           /\ sv.closed => file' = file
<1>1. file \in Seq(Tokens) /\ buf \in Seq(Tokens) /\ whole \in BOOLEAN /\ (whole <=> sv.closed)
  BY DEF SaverOK
<1>2. file' \in Seq(Tokens)
  BY <1>1
<1>3. sv.closed => file' = file
  BY <1>1
<1>4. file' = st
  <2>1. CASE sv.closed
    BY <1>1, <1>3, <2>1 DEF StreamOK
  <2>2. CASE ~sv.closed
    BY <2>2 DEF StreamOK
  <2> QED
    BY <2>1, <2>2
<1>5. IsPrefixOf(st, st)
  BY DEF IsPrefixOf
<1>6. st = st \o <<>>
  OBVIOUS
<1> QED
  BY <1>2, <1>3, <1>4, <1>5, <1>6

\* SaveEnd: the file is whole, or the writer is broken.
LEMMA SaveEndStep ==
    ASSUME SaverOK, TreeOK, NEW st \in Seq(Tokens), NEW at \in [1 .. Len(saved) + 1 -> Nat],
           StreamOK(st, at), SaveEnd
    PROVE  /\ SaverOK' /\ TreeOK'
           /\ \E sn \in Seq(Tokens), an \in [1 .. Len(saved') + 1 -> Nat] : StreamOK(sn, an)'
<1>1. sv # Nil /\ sv.pc = "saving" /\ Ahead = {} /\ tree' = tree /\ saved' = saved
  BY DEF SaveEnd
<1>2. sv \in Savers /\ sv.cursor \in Nat
  BY <1>1, RunningSaver, SaverFields
<1>3. GoodTree(tree) /\ SavedOK /\ CountOK /\ GoodTree(tree)'
  BY <1>1, SaverFields DEF TreeOK, GoodTree
<1>4. Reached(sv.cursor) = DOMAIN tree \ {0}
  <2>1. \A k \in DOMAIN tree : k \in Nat
    BY <1>3, KeysAssumption DEF GoodTree
  <2>2. \A k \in DOMAIN tree : ~(k > sv.cursor)
    BY <1>1 DEF Ahead
  <2>3. \A k \in DOMAIN tree : 0 < k /\ k <= sv.cursor <=> k # 0
    BY <1>2, <2>1, <2>2
  <2> QED
    BY <2>3 DEF Reached
<1>5. NoPanic' <=> NoPanic
  BY <1>1 DEF NoPanic
<1>6. CASE /\ ~sv.broken /\ (sv.closed => buf = <<>>)
           /\ file' = file \o buf /\ buf' = <<>> /\ whole' = TRUE
           /\ sv' = [sv EXCEPT !.pc = "idle", !.ret = "ok", !.closed = TRUE]
  <2>1. /\ file' \in Seq(Tokens) /\ buf' \in Seq(Tokens) /\ file' = st
        /\ IsPrefixOf(file', st) /\ st = file' \o buf'
    BY <1>2, <1>6, AllThrough
  <2>2. /\ sv' \in Savers /\ sv'.pc = "idle" /\ sv'.ret = "ok" /\ sv'.closed = TRUE
        /\ sv'.numLeafWrit = sv.numLeafWrit
    BY <1>2, <1>6 DEF Savers, Returns
  <2>3. sv' # Nil
    BY <2>2, SaverFields
  <2>4. SaverOK'
    BY <1>1, <1>6, <2>1, <2>2, <2>3 DEF SaverOK
  <2>5. DOMAIN tree \ {0} \subseteq KeysUpTo(Len(saved))
    <3>1. CASE sv.closed
      BY <1>2, <1>3, <3>1 DEF SavedOK, SaverOK
    <3>2. CASE ~sv.closed
      BY <1>1, <1>2, <1>3, <1>4, <3>2 DEF SavedOK
    <3> QED
      BY <3>1, <3>2
  <2>6. SavedOK'
    BY <1>1, <1>3, <2>2, <2>5 DEF SavedOK, KeysUpTo, BytesOf
  <2>7. sv.numLeafWrit = Cardinality(DOMAIN tree \ {0})
    <3>1. CASE sv.closed
      <4>1. sv.cursor = 0
        BY <1>1, <1>2, <1>3, <1>6, <3>1 DEF CountOK
      <4>2. DOMAIN tree \ {0} = {}
        <5>1. \A k \in DOMAIN tree : k \in Nat
          BY <1>3, KeysAssumption DEF GoodTree
        <5>2. \A k \in DOMAIN tree : ~(0 < k /\ k <= 0)
          BY <5>1
        <5>3. Reached(0) = {}
          BY <5>2 DEF Reached
        <5>4. Reached(sv.cursor) = Reached(0)
          BY <4>1
        <5> QED
          BY <1>4, <5>3, <5>4
      <4>3. sv.numLeafWrit = 0
        BY <1>2, <1>3, <4>2 DEF CountOK
      <4> QED
        BY <4>2, <4>3, FS_EmptySet
    <3>2. CASE ~sv.closed
      <4>1. /\ \A k \in Reached(sv.cursor) : tree[k].vkind # "other"
            /\ Reached(sv.cursor) # {} => ~TheLeafIsNil
            /\ NoPanic => sv.numLeafWrit = Cardinality(Reached(sv.cursor))
        BY <1>1, <1>2, <1>3, <1>6, <3>2 DEF CountOK
      <4>2. ASSUME Cardinality(DOMAIN tree) = 1, 0 \notin DOMAIN tree PROVE FALSE
        <5>1. Reached(sv.cursor) = DOMAIN tree
          BY <1>4, <4>2
        <5>2. DOMAIN tree # {}
          <6>1. Cardinality({}) = 0
            BY FS_EmptySet
          <6>2. Cardinality({}) # 1
            BY <6>1
          <6> QED
            BY <4>2, <6>2, Zenon
        <5> QED
          BY <4>1, <4>2, <5>1, <5>2 DEF TheLeafIsNil
      <4>3. NoPanic
        BY <1>4, <4>1, <4>2 DEF NoPanic
      <4> QED
        BY <1>4, <4>1, <4>3
    <3> QED
      BY <3>1, <3>2
  <2>8. CountOK'
    <3>1. sv'.numLeafWrit = Cardinality(DOMAIN tree' \ {0})
      BY <1>1, <2>2, <2>7
    <3>2. DOMAIN tree' \ {0} = {} => sv'.numLeafWrit = 0
      BY <1>1, <1>2, <1>3, <2>2 DEF CountOK
    <3> QED
      BY <2>2, <3>1, <3>2 DEF CountOK
  <2>9. StreamOK(st, at)'
    BY <1>1, <2>1, <2>2 DEF StreamOK
  <2>10. TreeOK'
    BY <1>3, <2>6, <2>8 DEF TreeOK
  <2> QED
    BY <1>1, <2>4, <2>9, <2>10
<1>7. CASE /\ sv' = [sv EXCEPT !.pc = "idle", !.ret = "error", !.broken = TRUE]
           /\ buf' = buf /\ WriteFails
  <2>1. buf \in Seq(Tokens) /\ buf' \in Seq(Tokens)
    BY <1>7 DEF SaverOK
  <2>2. /\ file' \in Seq(Tokens) /\ whole' = whole
        /\ IsPrefixOf(file', file \o buf')
        /\ sv.broken \/ sv.closed => file' = file
    BY <1>2, <1>7, <2>1, FailedWrite
  <2>3. /\ sv' \in Savers /\ sv'.pc = "idle" /\ sv'.ret = "error" /\ sv'.closed = sv.closed
        /\ sv'.broken = TRUE /\ sv'.numLeafWrit = sv.numLeafWrit
    BY <1>2, <1>7 DEF Savers, Returns
  <2>4. sv' # Nil
    BY <2>3, SaverFields
  <2>5. SaverOK'
    BY <1>1, <1>2, <2>1, <2>2, <2>3, <2>4 DEF SaverOK
  <2>6. SavedOK'
    BY <1>1, <1>3, <2>2, <2>3 DEF SavedOK, KeysUpTo, BytesOf
  <2>7. CountOK'
    BY <1>1, <1>2, <1>3, <2>3, <2>4 DEF CountOK
  <2>8. IsPrefixOf(file', st)
    BY <1>2, <1>7, <2>2 DEF StreamOK
  <2>9. whole => sv.closed
    BY <1>2 DEF SaverOK
  <2>10. StreamOK(st, at)'
    BY <1>1, <2>2, <2>3, <2>8, <2>9 DEF StreamOK
  <2>11. TreeOK'
    BY <1>3, <2>6, <2>7 DEF TreeOK
  <2> QED
    BY <1>1, <2>5, <2>10, <2>11
<1> QED
  BY <1>6, <1>7 DEF SaveEnd

\* Flush moves tokens into the file.
LEMMA FlushStep ==
    ASSUME SaverOK, TreeOK, NEW st \in Seq(Tokens), NEW at \in [1 .. Len(saved) + 1 -> Nat],
           StreamOK(st, at), Flush
    PROVE  /\ SaverOK' /\ TreeOK'
           /\ \E sn \in Seq(Tokens), an \in [1 .. Len(saved') + 1 -> Nat] : StreamOK(sn, an)'
<1>1. /\ sv # Nil /\ sv.pc = "idle"
      /\ tree' = tree /\ saved' = saved
  BY DEF Flush
<1>2. sv \in Savers /\ sv.flushes + 1 \in Nat
  BY <1>1, RunningSaver, SaverFields
<1>3. GoodTree(tree) /\ SavedOK /\ CountOK /\ GoodTree(tree)'
  BY <1>1, SaverFields DEF TreeOK, GoodTree
<1>4. NoPanic' <=> NoPanic
  BY <1>1 DEF NoPanic
<1>5. ASSUME sv' \in Savers, sv'.pc = sv.pc, sv'.ret = sv.ret, sv'.closed = sv.closed,
             sv'.numLeafWrit = sv.numLeafWrit, sv.broken => sv'.broken, whole' = whole
      PROVE  TreeOK'
  <2>1. sv' # Nil
    BY <1>5, SaverFields
  <2>2. SavedOK'
    BY <1>1, <1>3, <1>5 DEF SavedOK, KeysUpTo, BytesOf
  <2>3. sv'.pc = "idle" /\ (DOMAIN tree \ {0} = {} => sv.numLeafWrit = 0)
    BY <1>1, <1>2, <1>3, <1>5 DEF CountOK
  <2>4. /\ ~sv.broken /\ ~sv.closed /\ NoPanic => sv.numLeafWrit = 0
        /\ sv.ret = "ok" => sv.numLeafWrit = Cardinality(DOMAIN tree \ {0})
        /\ sv.ret = "panic" => ~NoPanic
    BY <1>1, <1>2, <1>3 DEF CountOK
  <2>5. CountOK'
    BY <1>1, <1>4, <1>5, <2>3, <2>4 DEF CountOK
  <2> QED
    BY <1>3, <2>2, <2>5 DEF TreeOK
<1>6. CASE /\ ~sv.broken /\ (sv.closed => buf = <<>>)
           /\ sv' = [sv EXCEPT !.flushes = @ + 1]
           /\ file' = file \o buf /\ buf' = <<>> /\ whole' = whole
  <2>1. /\ file' \in Seq(Tokens) /\ buf' \in Seq(Tokens) /\ file' = st
        /\ IsPrefixOf(file', st) /\ st = file' \o buf'
    BY <1>1, <1>2, <1>6, AllThrough
  <2>2. sv' = [sv EXCEPT !.flushes = sv.flushes + 1]
    BY <1>6
  <2>3. /\ sv' \in Savers /\ sv'.pc = sv.pc /\ sv'.ret = sv.ret /\ sv'.closed = sv.closed
        /\ sv'.broken = sv.broken /\ sv'.numLeafWrit = sv.numLeafWrit
    BY <1>2, <2>2 DEF Savers
  <2>4. sv' # Nil
    BY <2>3, SaverFields
  <2>5. SaverOK'
    BY <1>1, <1>2, <1>6, <2>1, <2>3, <2>4 DEF SaverOK
  <2>6. StreamOK(st, at)'
    BY <1>1, <1>6, <2>1, <2>3 DEF StreamOK
  <2> QED
    BY <1>1, <1>5, <1>6, <2>3, <2>5, <2>6
<1>7. CASE /\ sv' = [sv EXCEPT !.flushes = @ + 1, !.broken = TRUE]
           /\ buf' = buf /\ WriteFails
  <2>1. buf \in Seq(Tokens) /\ buf' \in Seq(Tokens)
    BY <1>7 DEF SaverOK
  <2>2. /\ file' \in Seq(Tokens) /\ whole' = whole
        /\ IsPrefixOf(file', file \o buf')
        /\ sv.broken \/ sv.closed => file' = file
    BY <1>2, <1>7, <2>1, FailedWrite
  <2>3. sv' = [sv EXCEPT !.flushes = sv.flushes + 1, !.broken = TRUE]
    BY <1>7
  <2>4. /\ sv' \in Savers /\ sv'.pc = sv.pc /\ sv'.ret = sv.ret /\ sv'.closed = sv.closed
        /\ sv'.broken = TRUE /\ sv'.numLeafWrit = sv.numLeafWrit
    BY <1>2, <2>3 DEF Savers
  <2>5. sv' # Nil
    BY <2>4, SaverFields
  <2>6. SaverOK'
    BY <1>1, <1>2, <2>1, <2>2, <2>4, <2>5 DEF SaverOK
  <2>7. IsPrefixOf(file', st) /\ (whole => sv.closed)
    BY <1>2, <1>7, <2>2 DEF StreamOK, SaverOK
  <2>8. StreamOK(st, at)'
    BY <1>1, <2>2, <2>4, <2>7 DEF StreamOK
  <2> QED
    BY <1>1, <1>5, <2>2, <2>4, <2>6, <2>8
<1> QED
  BY <1>6, <1>7 DEF Flush

\* Crash leaves the beginning of the stream.
LEMMA CrashStep ==
    ASSUME SaverOK, TreeOK, NEW st \in Seq(Tokens), NEW at \in [1 .. Len(saved) + 1 -> Nat],
           StreamOK(st, at), Crash
    PROVE  /\ SaverOK' /\ TreeOK'
           /\ \E sn \in Seq(Tokens), an \in [1 .. Len(saved') + 1 -> Nat] : StreamOK(sn, an)'
<1>1. /\ sv # Nil /\ sv.pc # "gone" /\ tree' = tree /\ saved' = saved /\ whole' = whole
      /\ sv' = [pc |-> "gone", ret |-> sv.ret, numLeafWrit |-> sv.numLeafWrit] /\ buf' = <<>>
  BY DEF Crash
<1>2. sv \in Savers
  BY <1>1, RunningSaver
<1>3. GoodTree(tree) /\ SavedOK /\ CountOK /\ GoodTree(tree)'
  BY <1>1, SaverFields DEF TreeOK, GoodTree
<1>4. /\ sv' \in GoneSavers /\ sv'.ret = sv.ret /\ sv'.numLeafWrit = sv.numLeafWrit
      /\ sv' \notin Savers /\ sv' # Nil
  <2>1. sv.ret \in Returns \cup {Nil} /\ sv.numLeafWrit \in Nat
    BY <1>2, SaverFields
  <2>2. sv' \in GoneSavers /\ sv'.pc = "gone" /\ sv'.ret = sv.ret /\ sv'.numLeafWrit = sv.numLeafWrit
    BY <1>1, <2>1 DEF GoneSavers
  <2> QED
    BY <2>2, SaverFields
<1>5. PICK n \in 0 .. (IF sv.broken \/ sv.closed THEN 0 ELSE Len(buf)) :
         file' = Through(file, buf, n)
  BY DEF Crash, Through
<1>6. file \in Seq(Tokens) /\ buf \in Seq(Tokens) /\ Len(buf) \in Nat /\ (whole => sv.closed)
  BY <1>2 DEF SaverOK
<1>7. n \in 0 .. Len(buf) /\ (sv.broken \/ sv.closed => n = 0)
  BY <1>6
<1>8. file' \in Seq(Tokens) /\ IsPrefixOf(file', file \o buf) /\ (n = 0 => file' = file)
  BY <1>5, <1>6, <1>7, PartThrough
<1>9. SaverOK'
  BY <1>1, <1>4, <1>8 DEF SaverOK
<1>10. NoPanic' <=> NoPanic
  BY <1>1 DEF NoPanic
<1>11. SavedOK'
  BY <1>1, <1>3, <1>4 DEF SavedOK, KeysUpTo, BytesOf
<1>12. CountOK'
  BY <1>1, <1>3, <1>4, <1>10 DEF CountOK
<1>13. IsPrefixOf(file', st)
  BY <1>2, <1>7, <1>8 DEF StreamOK
<1>14. StreamOK(st, at)'
  BY <1>1, <1>4, <1>6, <1>7, <1>8, <1>13 DEF StreamOK
<1>15. TreeOK'
  BY <1>3, <1>11, <1>12 DEF TreeOK
<1> QED
  BY <1>1, <1>9, <1>14, <1>15

-----------------------------------------------------------------------------
(* The steps of the loader *)

\* The fields of a loader, and of what is left of one that failed.
LEMMA LoaderFields ==
    /\ \A l \in Loaders :
          /\ l.pc \in {"fields", "leaf", "end"} /\ l.src \in Seq(Tokens) /\ l.at \in Nat
          /\ l.n \in Nat /\ l.ret \in Returns \cup {Nil}
          /\ l.d \in Decoders(TreeType) \cup Decoders(LeafType) /\ l # Nil
    /\ \A l \in NoLoaders : l.pc = "end" /\ l.n = 0 /\ l.ret = "error" /\ l # Nil
<1>1. ASSUME NEW l \in Loaders
      PROVE  /\ l.pc \in {"fields", "leaf", "end"} /\ l.src \in Seq(Tokens) /\ l.at \in Nat
             /\ l.n \in Nat /\ l.ret \in Returns \cup {Nil}
             /\ l.d \in Decoders(TreeType) \cup Decoders(LeafType) /\ l # Nil
  <2>1. l # Nil
    BY NilAssumption
  <2> QED
    BY <2>1 DEF Loaders
<1>2. ASSUME NEW l \in NoLoaders
      PROVE  l.pc = "end" /\ l.n = 0 /\ l.ret = "error" /\ l # Nil
  <2>1. l # Nil
    BY NilAssumption
  <2> QED
    BY <2>1 DEF NoLoaders
<1> QED
  BY <1>1, <1>2

\* A loader that has not ended has all the fields.
LEMMA RunningLoader ==
    ASSUME NEW st, NEW at, LoaderOK(st, at), Loading
    PROVE  ld \in Loaders /\ ld # Nil /\ LoadedOK /\ ReturnOK /\ PlaceOK(st, at) /\ ld.ret = Nil
<1>1. ld # Nil /\ ld.pc # "end"
  BY DEF Loading
<1>2. LoadedOK /\ ReturnOK /\ PlaceOK(st, at) /\ ld \in Loaders \cup NoLoaders
  BY <1>1 DEF LoaderOK
<1>3. ld.ret = Nil
  BY <1>1, <1>2 DEF ReturnOK
<1>4. ld \notin NoLoaders
  BY <1>1, LoaderFields
<1> QED
  BY <1>1, <1>2, <1>3, <1>4

\* A step of the loader leaves the saver, the tree and the file alone.
LEMMA SaverKept ==
    ASSUME SaverOK, TreeOK, NEW st, NEW at, StreamOK(st, at), UNCHANGED <<tree, SaverVars>>
    PROVE  SaverOK' /\ TreeOK' /\ StreamOK(st, at)'
<1>1. /\ tree' = tree /\ sv' = sv /\ buf' = buf /\ file' = file /\ whole' = whole /\ saved' = saved
  BY DEF SaverVars
<1>2. SaverOK'
  BY <1>1 DEF SaverOK
<1>3. StreamOK(st, at)'
  BY <1>1 DEF StreamOK
<1>4. NoPanic' = NoPanic
  BY <1>1 DEF NoPanic
<1>5. SavedOK' = SavedOK
  BY <1>1 DEF SavedOK, KeysUpTo, Reached, BytesOf
<1>6. CountOK' = CountOK
  BY <1>1, <1>4 DEF CountOK, Reached, TheLeafIsNil
<1>7. TreeOK'
  BY <1>1, <1>5, <1>6 DEF TreeOK, GoodTree
<1> QED
  BY <1>2, <1>3, <1>7

\* What the stream says about the file and about where the leaves are in it.
LEMMA StreamFacts ==
    ASSUME SaverOK, NEW st \in Seq(Tokens), NEW at \in [1 .. Len(saved) + 1 -> Nat], StreamOK(st, at)
    PROVE  /\ file \in Seq(Tokens) /\ saved \in Seq(EncodedLeaves) /\ whole \in BOOLEAN
           /\ Len(file) \in Nat /\ Len(st) \in Nat /\ Len(saved) \in Nat /\ Len(file) <= Len(st)
           /\ \A i \in 1 .. Len(file) : file[i] = st[i]
           /\ whole => file = st
           /\ at[1] = 3 /\ at[Len(saved) + 1] = Len(st) + 1
           /\ \A i \in 1 .. Len(saved) :
                 /\ IsStruct(st, at[i], LeafType, saved[i])
                 /\ at[i + 1] = at[i] + 1 + 2 * FieldCount(st, at[i])
                 /\ saved[i] \in EncodedLeaves
<1>1. file \in Seq(Tokens) /\ saved \in Seq(EncodedLeaves) /\ whole \in BOOLEAN
  BY DEF SaverOK
<1>2. IsStream(st, saved, at) /\ IsPrefixOf(file, st) /\ (whole => file = st)
  BY DEF StreamOK
<1>3. Len(file) <= Len(st) /\ \A i \in 1 .. Len(file) : file[i] = st[i]
  BY <1>2 DEF IsPrefixOf
<1>4. at[1] = 3 /\ at[Len(saved) + 1] = Len(st) + 1
  BY <1>2 DEF IsStream
<1>5. \A i \in 1 .. Len(saved) : /\ IsStruct(st, at[i], LeafType, saved[i])
                                 /\ at[i + 1] = at[i] + 1 + 2 * FieldCount(st, at[i])
  BY <1>2 DEF IsStream
<1>6. \A i \in 1 .. Len(saved) : saved[i] \in EncodedLeaves
  BY <1>1
<1>7. Len(file) \in Nat /\ Len(st) \in Nat /\ Len(saved) \in Nat
  BY <1>1
<1> QED
  BY <1>1, <1>2, <1>3, <1>4, <1>5, <1>6, <1>7

\* The header in a file that has one.
LEMMA HeaderFacts ==
    ASSUME SaverOK, NEW st \in Seq(Tokens), NEW at \in [1 .. Len(saved) + 1 -> Nat], StreamOK(st, at),
           Len(file) >= 2, NEW hdr, hdr = file[2][2]
    PROVE  /\ hdr \in Seq(Tokens)
           /\ IsStruct(hdr, 1, TreeType, ZeroOf(TreeType))
           /\ FieldCount(hdr, 1) \in 0 .. Word - 1
<1>1. file[2] = st[2]
  BY StreamFacts
<1>2. st[2][2] \in Seq(StructTokens) /\ IsStruct(st[2][2], 1, TreeType, ZeroOf(TreeType))
  BY DEF StreamOK, IsStream
<1>3. hdr \in Seq(StructTokens) /\ IsStruct(hdr, 1, TreeType, ZeroOf(TreeType))
  BY <1>1, <1>2
<1>4. FieldCount(hdr, 1) \in 0 .. Word - 1
  BY <1>3 DEF IsStruct
<1> QED
  BY <1>3, <1>4, StructTokensAreTokens

\* NewTreeLoader: nothing is loaded yet, and the decoder is in the header.
LEMMA NewTreeLoaderStep ==
    ASSUME SaverOK, NEW st \in Seq(Tokens), NEW at \in [1 .. Len(saved) + 1 -> Nat], StreamOK(st, at),
           NewTreeLoader
    PROVE  LoaderOK(st, at)'
<1>1. /\ sv # Nil => sv.pc # "saving"
      /\ loaded' = <<>> /\ sv' = sv /\ file' = file /\ whole' = whole /\ saved' = saved
  BY DEF NewTreeLoader, SaverVars
<1>2. Len(saved) \in Nat
  BY StreamFacts
<1>3. ASSUME ld'.n = 0
      PROVE  LoadedOK'
  <2>1. DOMAIN loaded' = {}
    BY <1>1
  <2>2. KeysUpTo(0)' = {}
    BY DEF KeysUpTo
  <2>3. KeysUpTo(ld.n)' = {}
    BY <1>3, <2>2
  <2> QED
    BY <1>1, <1>2, <1>3, <2>1, <2>3 DEF LoadedOK
<1>4. Nil \notin Returns
  BY NilAssumption
<1>5. CASE Len(file) >= 2
  <2> DEFINE hdr == file[2][2]
             d == StartFields(TreeType, FieldCount(hdr, 1), hdr[1][1] = "nil")
  <2>1. ld' = [pc |-> "fields", src |-> hdr, at |-> 2, n |-> 0, ret |-> Nil, d |-> d]
    BY <1>5 DEF NewTreeLoader
  <2>2. hdr \in Seq(Tokens) /\ FieldCount(hdr, 1) \in 0 .. Word - 1
    BY <1>5, HeaderFacts
  <2>3. hdr = file'[2][2] /\ Len(file') >= 2
    BY <1>1, <1>5
  <2>4. Decodes(d, hdr, 1, TreeType, ZeroOf(TreeType), 1 + 1)
    BY <2>2, TypesGood, StartDecodes
  <2>5. d \in Decoders(TreeType)
    BY <2>4 DEF Decodes
  <2> HIDE DEF hdr, d
  <2>6. ld' \in Loaders
    BY <2>1, <2>2, <2>5 DEF Loaders
  <2>7. /\ ld'.pc = "fields" /\ ld'.src = hdr /\ ld'.at = 2 /\ ld'.n = 0 /\ ld'.ret = Nil /\ ld'.d = d
    BY <2>1
  <2>8. InHeader'
    BY <2>3, <2>4, <2>7 DEF InHeader
  <2>9. PlaceOK(st, at)' /\ ReturnOK'
    BY <1>4, <2>7, <2>8 DEF PlaceOK, ReturnOK, Returns
  <2> QED
    BY <1>3, <2>6, <2>7, <2>9 DEF LoaderOK
<1>6. CASE ld' = [pc |-> "end", n |-> 0, ret |-> "error"]
  <2>1. ld' \in NoLoaders /\ ld'.n = 0 /\ ld'.pc = "end" /\ ld'.ret = "error"
    BY <1>6 DEF NoLoaders
  <2>2. PlaceOK(st, at)' /\ ReturnOK'
    BY <2>1 DEF PlaceOK, ReturnOK
  <2> QED
    BY <1>3, <2>1, <2>2 DEF LoaderOK
<1> QED
  BY <1>5, <1>6 DEF NewTreeLoader

\* A step that inserts no leaf keeps what is loaded.
LEMMA LoadedKept ==
    ASSUME LoadedOK, UNCHANGED <<tree, SaverVars, loaded>>, ld'.n = ld.n
    PROVE  LoadedOK'
<1>1. sv' = sv /\ saved' = saved /\ loaded' = loaded
  BY DEF SaverVars
<1>2. KeysUpTo(ld.n)' = KeysUpTo(ld.n)
  BY <1>1 DEF KeysUpTo
<1>3. \A k : LastWith(k, ld.n)' = LastWith(k, ld.n)
  BY <1>1 DEF LastWith
<1> QED
  BY <1>1, <1>2, <1>3 DEF LoadedOK

\* The end of Load, where the stream may end.
LEMMA EndsStep ==
    ASSUME NEW st, NEW at, LoaderOK(st, at), Loading, UNCHANGED <<tree, SaverVars, loaded>>,
           NEW err, Ends(err), whole => ld.n = Len(saved)
    PROVE  LoaderOK(st, at)'
<1>1. ld \in Loaders /\ LoadedOK
  BY RunningLoader
<1>2. ld' = [ld EXCEPT !.pc = "end", !.ret = IF err = "EOF" THEN "ok" ELSE "error"]
  BY DEF Ends
<1>3. ld' \in Loaders /\ ld'.pc = "end" /\ ld'.n = ld.n /\ ld'.ret \in {"ok", "error"}
  BY <1>1, <1>2 DEF Loaders, Returns
<1>4. LoadedOK'
  BY <1>1, <1>3, LoadedKept
<1>5. PlaceOK(st, at)' /\ ReturnOK'
  BY <1>3 DEF PlaceOK, ReturnOK, SaverVars
<1> QED
  BY <1>3, <1>4, <1>5 DEF LoaderOK

\* LeafBegin: at the end of a complete file all leaves are loaded; elsewhere the
\* next leaf begins.
LEMMA LeafBeginStep ==
    ASSUME SaverOK, NEW st \in Seq(Tokens), NEW at \in [1 .. Len(saved) + 1 -> Nat], StreamOK(st, at),
           LoaderOK(st, at), LeafBegin
    PROVE  LoaderOK(st, at)'
<1>1. /\ Loading /\ ld.pc = "leaf" /\ UNCHANGED <<tree, SaverVars, loaded>>
      /\ sv' = sv /\ file' = file /\ whole' = whole /\ saved' = saved
  BY DEF LeafBegin, SaverVars
<1>2. ld \in Loaders /\ LoadedOK /\ ld.ret = Nil /\ ld.src = file /\ ld.at = at[ld.n + 1]
  BY <1>1, RunningLoader DEF PlaceOK
<1>3. ld.n \in Nat /\ ld.n <= Len(saved) /\ ld.at \in Nat
  BY <1>2, LoaderFields DEF LoadedOK
<1>4. /\ Len(file) \in Nat /\ Len(st) \in Nat /\ Len(saved) \in Nat /\ Len(file) <= Len(st)
      /\ at[Len(saved) + 1] = Len(st) + 1
  BY StreamFacts
<1>5. ASSUME ld.n < Len(saved)
      PROVE  /\ IsStruct(st, ld.at, LeafType, saved[ld.n + 1]) /\ ld.at <= Len(st)
             /\ FieldCount(st, ld.at) \in 0 .. Word - 1
  <2>1. ld.n + 1 \in 1 .. Len(saved)
    BY <1>3, <1>4, <1>5
  <2>2. IsStruct(st, ld.at, LeafType, saved[ld.n + 1])
    BY <1>2, <2>1, StreamFacts
  <2> QED
    BY <1>3, <1>4, <2>2 DEF IsStruct
<1>6. CASE AtEnd /\ \E err \in EndErrors : Ends(err)
  <2>1. PICK err \in EndErrors : Ends(err)
    BY <1>6
  <2>2. whole => ld.n = Len(saved)
    <3>1. SUFFICES ASSUME whole, ld.n < Len(saved) PROVE FALSE
      BY <1>3, <1>4
    <3>2. file = st
      BY <3>1, StreamFacts
    <3>3. ld.at > Len(st)
      BY <1>2, <1>6, <3>2 DEF AtEnd
    <3>4. ld.at <= Len(st)
      BY <1>5, <3>1
    <3> QED
      BY <1>3, <1>4, <3>3, <3>4
  <2> QED
    BY <1>1, <2>1, <2>2, EndsStep
<1>7. CASE /\ ~AtEnd
           /\ ld' = [ld EXCEPT !.pc = "fields", !.at = @ + 1,
                       !.d = StartFields(LeafType, FieldCount(ld.src, ld.at), Token[1] = "nil")]
  <2> DEFINE a == ld.at
             d == StartFields(LeafType, FieldCount(ld.src, ld.at), Token[1] = "nil")
  <2>1. a <= Len(file)
    BY <1>2, <1>3, <1>4, <1>7 DEF AtEnd
  <2>2. ld.n < Len(saved)
    <3>1. SUFFICES ASSUME ld.n = Len(saved) PROVE FALSE
      BY <1>3, <1>4
    <3>2. ld.at = Len(st) + 1
      BY <1>2, <1>4, <3>1
    <3> QED
      BY <1>3, <1>4, <2>1, <3>2
  <2>3. /\ IsStruct(st, a, LeafType, saved[ld.n + 1])
        /\ FieldCount(st, a) \in 0 .. Word - 1
    BY <1>5, <2>2
  <2>4. a \in 1 .. Len(st)
    BY <2>3 DEF IsStruct
  <2>5. file[a] = st[a]
    BY <1>3, <1>4, <2>1, <2>4, StreamFacts
  <2>6. FieldCount(ld.src, ld.at) = FieldCount(st, a)
    BY <1>2, <2>5 DEF FieldCount
  <2>7. d = StartFields(LeafType, FieldCount(st, a), Token[1] = "nil")
    BY <2>6
  <2>8. ld' = [ld EXCEPT !.pc = "fields", !.at = ld.at + 1, !.d = d]
    BY <1>7
  <2> HIDE DEF d, a
  <2>9. a \in Nat /\ a + 1 \in Nat /\ GoodType(LeafType)
    BY <1>3, TypesGood DEF a
  <2>10. Decodes(d, st, a, LeafType, saved[ld.n + 1], a + 1)
    BY <2>3, <2>7, <2>9, StartDecodes
  <2>11. d \in Decoders(LeafType)
    BY <2>10 DEF Decodes
  <2>12. ld.at + 1 = a + 1 /\ a = at[ld.n + 1]
    BY <1>2 DEF a
  <2>13. /\ ld' \in Loaders /\ ld'.pc = "fields" /\ ld'.at = a + 1 /\ ld'.d = d
         /\ ld'.n = ld.n /\ ld'.ret = ld.ret /\ ld'.src = ld.src
    BY <1>2, <2>8, <2>9, <2>11, <2>12 DEF Loaders
  <2>14. LoadedOK'
    BY <1>1, <1>2, <2>13, LoadedKept
  <2>15. Nil \notin Returns
    BY NilAssumption
  <2>16. ReturnOK'
    BY <1>2, <2>13, <2>15 DEF ReturnOK, Returns
  <2>17. InLeaf(st, at)'
    BY <1>1, <1>2, <2>2, <2>10, <2>12, <2>13 DEF InLeaf
  <2>18. PlaceOK(st, at)'
    BY <2>13, <2>17 DEF PlaceOK
  <2> QED
    BY <2>13, <2>14, <2>16, <2>18 DEF LoaderOK
<1> QED
  BY <1>6, <1>7 DEF LeafBegin

\* A step within a struct changes only the decoder and its position.
LEMMA WithinStruct ==
    ASSUME NEW st, NEW at, LoaderOK(st, at), Loading, ld.pc = "fields",
           UNCHANGED <<tree, SaverVars, loaded>>,
           NEW d \in Decoders(TreeType) \cup Decoders(LeafType), NEW a \in Nat,
           ld' = [ld EXCEPT !.d = d, !.at = a],
           \/ InHeader /\ Decodes(d, ld.src, 1, TreeType, ZeroOf(TreeType), a)
           \/ InLeaf(st, at) /\ Decodes(d, st, at[ld.n + 1], LeafType, saved[ld.n + 1], a)
    PROVE  LoaderOK(st, at)'
<1>1. ld \in Loaders /\ LoadedOK /\ ld.ret = Nil
  BY RunningLoader
<1>2. /\ ld' \in Loaders /\ ld'.pc = "fields" /\ ld'.at = a /\ ld'.d = d
      /\ ld'.n = ld.n /\ ld'.ret = ld.ret /\ ld'.src = ld.src
  BY <1>1 DEF Loaders
<1>3. file' = file /\ saved' = saved
  BY DEF SaverVars
<1>4. LoadedOK'
  BY <1>1, <1>2, LoadedKept
<1>5. Nil \notin Returns
  BY NilAssumption
<1>6. ReturnOK'
  BY <1>1, <1>2, <1>5 DEF ReturnOK, Returns
<1>7. InHeader' \/ InLeaf(st, at)'
  BY <1>2, <1>3 DEF InHeader, InLeaf
<1>8. PlaceOK(st, at)'
  BY <1>2, <1>7 DEF PlaceOK
<1> QED
  BY <1>2, <1>4, <1>6, <1>8 DEF LoaderOK

\* NilTurn reads no token: the decoder is still in the same struct.
LEMMA NilTurnStep ==
    ASSUME NEW st, NEW at, LoaderOK(st, at), NilTurn
    PROVE  LoaderOK(st, at)'
<1>1. /\ Loading /\ ld.pc = "fields" /\ UNCHANGED <<tree, SaverVars, loaded>>
      /\ FirstMissing(ld.d) < maxFields(ld.d.type)
      /\ ld' = [ld EXCEPT !.d = MissingTurn(@)]
  BY DEF NilTurn
<1>2. ld \in Loaders /\ (InHeader \/ InLeaf(st, at)) /\ ld.at \in Nat
  BY <1>1, RunningLoader, LoaderFields DEF PlaceOK
<1> DEFINE d == MissingTurn(ld.d)
<1>3. ld' = [ld EXCEPT !.d = d, !.at = ld.at]
  BY <1>1, <1>2 DEF Loaders
<1>4. CASE InHeader
  <2>1. Decodes(ld.d, ld.src, 1, TreeType, ZeroOf(TreeType), ld.at)
    BY <1>4 DEF InHeader
  <2>2. ld.d.type = TreeType
    BY <2>1, DecoderFields DEF Decodes
  <2>3. FirstMissing(ld.d) < Len(TreeType)
    BY <1>1, <2>2 DEF maxFields
  <2>4. Decodes(d, ld.src, 1, TreeType, ZeroOf(TreeType), ld.at)
    BY <2>1, <2>3, MissingDecodes, TypesGood
  <2>5. d \in Decoders(TreeType)
    BY <2>4 DEF Decodes
  <2> HIDE DEF d
  <2> QED
    BY <1>1, <1>2, <1>3, <1>4, <2>4, <2>5, WithinStruct
<1>5. CASE InLeaf(st, at)
  <2>1. Decodes(ld.d, st, at[ld.n + 1], LeafType, saved[ld.n + 1], ld.at)
    BY <1>5 DEF InLeaf
  <2>2. ld.d.type = LeafType
    BY <2>1, DecoderFields DEF Decodes
  <2>3. FirstMissing(ld.d) < Len(LeafType)
    BY <1>1, <2>2 DEF maxFields
  <2>4. Decodes(d, st, at[ld.n + 1], LeafType, saved[ld.n + 1], ld.at)
    BY <2>1, <2>3, MissingDecodes, TypesGood
  <2>5. d \in Decoders(LeafType)
    BY <2>4 DEF Decodes
  <2> HIDE DEF d
  <2> QED
    BY <1>1, <1>2, <1>3, <1>5, <2>4, <2>5, WithinStruct
<1> QED
  BY <1>2, <1>4, <1>5

\* While encoded fields are left, the next one is within the struct.
LEMMA FieldInside ==
    ASSUME NEW S, NEW toks \in Seq(S), NEW a, NEW type, NEW z, IsStruct(toks, a, type, z),
           NEW d, NEW i, Decodes(d, toks, a, type, z, i), d.left > 0
    PROVE  i \in Nat /\ a \in Nat /\ i >= 1 /\ i + 1 <= Len(toks)
<1>1. /\ d.left \in Nat /\ d.left <= FieldCount(toks, a)
      /\ i = a + 1 + 2 * (FieldCount(toks, a) - d.left)
  BY DecoderFields DEF Decodes
<1>2. /\ a \in 1 .. Len(toks) /\ FieldCount(toks, a) \in 0 .. Word - 1
      /\ a + 2 * FieldCount(toks, a) <= Len(toks)
  BY DEF IsStruct
<1> DEFINE c == FieldCount(toks, a)
           len == Len(toks)
           l == d.left
<1>3. len \in Nat /\ Word \in Nat
  BY WordAssumption
<1>4. /\ l \in Nat /\ l <= c /\ l > 0 /\ i = a + 1 + 2 * (c - l)
      /\ a \in 1 .. len /\ c \in 0 .. Word - 1 /\ a + 2 * c <= len
  BY <1>1, <1>2
<1> HIDE DEF c, len, l
<1>5. a \in Nat /\ a >= 1 /\ c \in Nat
  BY <1>3, <1>4
<1>6. i \in Nat /\ i >= 1 /\ i + 1 <= len
  BY <1>3, <1>4, <1>5
<1> QED
  BY <1>5, <1>6 DEF len

\* FieldTurn: the name and the value that are read are those of the stream; only a
\* file that is not whole ends within a leaf.
LEMMA FieldTurnStep ==
    ASSUME SaverOK, NEW st \in Seq(Tokens), NEW at \in [1 .. Len(saved) + 1 -> Nat], StreamOK(st, at),
           LoaderOK(st, at), FieldTurn
    PROVE  LoaderOK(st, at)'
<1>1. /\ Loading /\ ld.pc = "fields" /\ ld.d.left > 0 /\ UNCHANGED <<tree, SaverVars, loaded>>
  BY DEF FieldTurn
<1>2. ld \in Loaders /\ (InHeader \/ InLeaf(st, at)) /\ ld.at \in Nat /\ ld.src \in Seq(Tokens)
  BY <1>1, RunningLoader, LoaderFields DEF PlaceOK
<1>3. Len(ld.src) \in Nat /\ ld.at + 2 \in Nat
  BY <1>2
<1> DEFINE d == EncodedTurn(ld.d, ld.src[ld.at][2], ld.src[ld.at + 1][2])
<1>4. \/ ld.at < Len(ld.src) /\ ld' = [ld EXCEPT !.d = d, !.at = ld.at + 2]
      \/ ld.at >= Len(ld.src) /\ \E err \in EndErrors : Ends(err)
  <2>1. \/ /\ ld.at < Len(ld.src)
           /\ ld' = [ld EXCEPT !.d = EncodedTurn(@, Token[2], ld.src[ld.at + 1][2]), !.at = @ + 2]
        \/ ld.at >= Len(ld.src) /\ \E err \in EndErrors : Ends(err)
    BY DEF FieldTurn
  <2> QED
    BY <2>1 DEF Token
<1>5. CASE InHeader
  <2>1. /\ Len(file) >= 2 /\ ld.src = file[2][2]
        /\ Decodes(ld.d, ld.src, 1, TreeType, ZeroOf(TreeType), ld.at)
    BY <1>5 DEF InHeader
  <2>2. IsStruct(ld.src, 1, TreeType, ZeroOf(TreeType))
    BY <2>1, HeaderFacts
  <2>3. ld.at + 1 <= Len(ld.src)
    BY <1>1, <1>2, <2>1, <2>2, FieldInside
  <2>4. ld' = [ld EXCEPT !.d = d, !.at = ld.at + 2]
    BY <1>2, <1>3, <1>4, <2>3
  <2>5. ZeroOf(TreeType) \in [FieldsOf(TreeType) -> Nat] /\ GoodType(TreeType) /\ 1 \in Nat
    BY TypesGood DEF ZeroOf
  <2>6. Decodes(d, ld.src, 1, TreeType, ZeroOf(TreeType), ld.at + 2)
    BY <1>1, <2>1, <2>2, <2>5, EncodedDecodes
  <2>7. d \in Decoders(TreeType)
    BY <2>6 DEF Decodes
  <2> HIDE DEF d
  <2> QED
    BY <1>1, <1>3, <1>5, <2>4, <2>6, <2>7, WithinStruct
<1>6. CASE InLeaf(st, at)
  <2> DEFINE a == at[ld.n + 1]
             z == saved[ld.n + 1]
  <2>1. /\ ld.n < Len(saved) /\ ld.src = file /\ Decodes(ld.d, st, a, LeafType, z, ld.at)
    BY <1>6 DEF InLeaf
  <2>2. ld.n + 1 \in 1 .. Len(saved)
    BY <1>2, <2>1, LoaderFields, StreamFacts
  <2>3. IsStruct(st, a, LeafType, z) /\ z \in EncodedLeaves
    BY <2>2, StreamFacts
  <2> HIDE DEF a, z
  <2>4. ld.at >= 1 /\ ld.at + 1 <= Len(st) /\ a \in Nat
    BY <1>1, <2>1, <2>3, FieldInside
  <2>5. CASE ld.at < Len(ld.src) /\ ld' = [ld EXCEPT !.d = d, !.at = ld.at + 2]
    <3>1. ld.at \in 1 .. Len(file) /\ ld.at + 1 \in 1 .. Len(file)
      BY <1>2, <1>3, <2>1, <2>4, <2>5
    <3>2. ld.src[ld.at] = st[ld.at] /\ ld.src[ld.at + 1] = st[ld.at + 1]
      BY <2>1, <3>1, StreamFacts
    <3>3. d = EncodedTurn(ld.d, st[ld.at][2], st[ld.at + 1][2])
      BY <3>2
    <3> HIDE DEF d
    <3>4. z \in [FieldsOf(LeafType) -> Nat] /\ GoodType(LeafType)
      BY <2>3, TypesGood DEF EncodedLeaves
    <3>5. Decodes(d, st, a, LeafType, z, ld.at + 2)
      BY <1>1, <2>1, <2>3, <2>4, <3>3, <3>4, EncodedDecodes
    <3>6. d \in Decoders(LeafType)
      BY <3>5 DEF Decodes
    <3>7. Decodes(d, st, at[ld.n + 1], LeafType, saved[ld.n + 1], ld.at + 2)
      BY <3>5 DEF a, z
    <3> QED
      BY <1>1, <1>3, <1>6, <2>5, <3>6, <3>7, WithinStruct
  <2>6. CASE ld.at >= Len(ld.src) /\ \E err \in EndErrors : Ends(err)
    <3>1. PICK err \in EndErrors : Ends(err)
      BY <2>6
    <3>2. ~whole
      <4>1. SUFFICES ASSUME whole PROVE FALSE
        OBVIOUS
      <4>2. ld.src = st
        BY <2>1, <4>1, StreamFacts
      <4> QED
        BY <1>2, <1>3, <2>4, <2>6, <4>2
    <3> QED
      BY <1>1, <3>1, <3>2, EndsStep
  <2> QED
    BY <1>4, <2>5, <2>6
<1> QED
  BY <1>2, <1>5, <1>6

\* The last of the first n + 1 leaves with a key.
LEMMA LastWithNext ==
    ASSUME NEW n \in Nat, n < Len(saved), Len(saved) \in Nat
    PROVE  /\ KeysUpTo(n + 1) = KeysUpTo(n) \cup {saved[n + 1].Key}
           /\ LastWith(saved[n + 1].Key, n + 1) = saved[n + 1]
           /\ \A k : k # saved[n + 1].Key => LastWith(k, n + 1) = LastWith(k, n)
<1> DEFINE is(k, m) == {i \in 1 .. m : saved[i].Key = k}
           greatest(S) == CHOOSE i \in S : \A j \in S : j <= i
           c == saved[n + 1].Key
<1>1. 1 .. n + 1 = (1 .. n) \cup {n + 1}
  OBVIOUS
<1>2. KeysUpTo(n + 1) = KeysUpTo(n) \cup {c}
  BY <1>1 DEF KeysUpTo
<1>3. \A k : k # c => is(k, n + 1) = is(k, n)
  BY <1>1
<1>4. n + 1 \in is(c, n + 1) /\ \A j \in is(c, n + 1) : j <= n + 1 /\ j \in Nat
  OBVIOUS
<1>5. \A k, m : LastWith(k, m) = saved[greatest(is(k, m))]
  BY DEF LastWith
<1>6. \A k : k # c => LastWith(k, n + 1) = LastWith(k, n)
  <2> HIDE DEF is, greatest
  <2> QED
    BY <1>3, <1>5
<1> HIDE DEF is
<1>7. greatest(is(c, n + 1)) = n + 1
  <2> DEFINE i == CHOOSE i \in is(c, n + 1) : \A j \in is(c, n + 1) : j <= i
  <2>1. i \in is(c, n + 1) /\ \A j \in is(c, n + 1) : j <= i
    BY <1>4
  <2> HIDE DEF i
  <2>2. i <= n + 1 /\ n + 1 <= i /\ i \in Nat
    BY <1>4, <2>1
  <2>3. i = n + 1
    BY <2>2
  <2> QED
    BY <2>3 DEF i
<1> HIDE DEF greatest
<1>8. LastWith(c, n + 1) = saved[n + 1]
  BY <1>5, <1>7
<1> QED
  BY <1>2, <1>6, <1>8

\* LoopEnd: after the header come the leaves; a decoded leaf is the next one of the
\* stream, and it is inserted unless PostLoadHook panics.
LEMMA LoopEndStep ==
    ASSUME SaverOK, NEW st \in Seq(Tokens), NEW at \in [1 .. Len(saved) + 1 -> Nat], StreamOK(st, at),
           LoaderOK(st, at), LoopEnd
    PROVE  LoaderOK(st, at)'
<1> DEFINE d == LeaveStruct(IF LoopEnds(ld.d) THEN ld.d ELSE NoneMissing(ld.d))
<1>1. /\ Loading /\ ld.pc = "fields" /\ ld.d.left = 0 /\ UNCHANGED <<tree, SaverVars>>
      /\ sv' = sv /\ file' = file /\ whole' = whole /\ saved' = saved
  BY DEF LoopEnd, SaverVars
<1>2. /\ ld \in Loaders /\ (InHeader \/ InLeaf(st, at)) /\ ld.n \in Nat
      /\ LoadedOK /\ ld.ret = Nil
  BY <1>1, RunningLoader, LoaderFields DEF PlaceOK
<1>3. /\ d.type = TreeType => /\ ld' = [ld EXCEPT !.pc = "leaf", !.d = d, !.src = file, !.at = 3]
                              /\ loaded' = loaded
      /\ d.type # TreeType /\ d.z.XTyp # 0 =>
            ld' = [ld EXCEPT !.pc = "end", !.ret = "panic", !.d = d] /\ loaded' = loaded
      /\ d.type # TreeType /\ d.z.XTyp = 0 =>
            /\ loaded' = [k \in DOMAIN loaded \cup {d.z.Key} |->
                             IF k = d.z.Key THEN PostLoaded(d.z) ELSE loaded[k]]
            /\ ld' = [ld EXCEPT !.pc = "leaf", !.d = d, !.n = @ + 1]
  BY DEF LoopEnd
<1>4. Nil \notin Returns /\ Len(saved) \in Nat
  BY NilAssumption, StreamFacts
<1>5. CASE InHeader
  <2>1. /\ Len(file) >= 2 /\ ld.src = file[2][2] /\ ld.n = 0
        /\ Decodes(ld.d, ld.src, 1, TreeType, ZeroOf(TreeType), ld.at)
    BY <1>5 DEF InHeader
  <2>2. IsStruct(ld.src, 1, TreeType, ZeroOf(TreeType))
    BY <2>1, HeaderFacts
  <2>3. ZeroOf(TreeType) \in [FieldsOf(TreeType) -> Nat] /\ GoodType(TreeType)
    BY TypesGood DEF ZeroOf
  <2>4. d \in Decoders(TreeType) /\ d.type = TreeType /\ d.nils = 0
    BY <1>1, <2>1, <2>2, <2>3, StructDecoded
  <2> HIDE DEF d
  <2>5. ld' = [ld EXCEPT !.pc = "leaf", !.d = d, !.src = file, !.at = 3] /\ loaded' = loaded
    BY <1>3, <2>4
  <2>6. file \in Seq(Tokens) /\ at[1] = 3
    BY StreamFacts
  <2>7. /\ ld' \in Loaders /\ ld'.pc = "leaf" /\ ld'.at = 3 /\ ld'.d = d /\ ld'.src = file
        /\ ld'.n = ld.n /\ ld'.ret = ld.ret
    BY <1>2, <2>4, <2>5, <2>6 DEF Loaders
  <2>8. LoadedOK'
    BY <1>1, <1>2, <2>5, <2>7, LoadedKept
  <2>9. ReturnOK'
    BY <1>2, <1>4, <2>7 DEF ReturnOK, Returns
  <2>10. PlaceOK(st, at)'
    BY <1>1, <2>1, <2>4, <2>6, <2>7 DEF PlaceOK
  <2> QED
    BY <2>7, <2>8, <2>9, <2>10 DEF LoaderOK
<1>6. CASE InLeaf(st, at)
  <2> DEFINE n == ld.n
             a == at[n + 1]
             z == saved[n + 1]
  <2>1. ld.n < Len(saved) /\ ld.src = file /\ Decodes(ld.d, st, a, LeafType, z, ld.at)
    BY <1>6 DEF InLeaf
  <2>2. n \in Nat /\ n < Len(saved) /\ n + 1 \in 1 .. Len(saved)
    BY <1>2, <1>4, <2>1
  <2>3. /\ IsStruct(st, a, LeafType, z) /\ z \in EncodedLeaves
        /\ at[n + 1 + 1] = a + 1 + 2 * FieldCount(st, a)
    BY <2>2, StreamFacts
  <2>4. z \in [FieldsOf(LeafType) -> Nat] /\ GoodType(LeafType) /\ LeafType # TreeType
    BY <2>3, TypesGood DEF EncodedLeaves
  <2> HIDE DEF a, z
  <2>5. /\ d \in Decoders(LeafType) /\ d.type = LeafType /\ d.nils = 0
        /\ \A f \in FieldsOf(LeafType) : d.z[f] = z[f]
        /\ ld.at = a + 1 + 2 * FieldCount(st, a)
    BY <1>1, <2>1, <2>3, <2>4, StructDecoded
  <2> HIDE DEF d
  <2>6. d.z.Key = z.Key /\ d.z.XTyp = z.XTyp /\ d.z.X = z.X
    BY <2>5, LeafFields
  <2>7. CASE d.z.XTyp # 0
    <3>1. ld' = [ld EXCEPT !.pc = "end", !.ret = "panic", !.d = d] /\ loaded' = loaded
      BY <1>3, <2>4, <2>5, <2>7
    <3>2. /\ ld' \in Loaders /\ ld'.pc = "end" /\ ld'.n = ld.n /\ ld'.ret = "panic"
      BY <1>2, <2>5, <3>1 DEF Loaders, Returns
    <3>3. LoadedOK'
      BY <1>1, <1>2, <3>1, <3>2, LoadedKept
    <3>4. n + 1 \in DOMAIN saved /\ saved[n + 1].XTyp # 0
      <4>1. DOMAIN saved = 1 .. Len(saved)
        BY StreamFacts
      <4> QED
        BY <2>2, <2>6, <2>7, <4>1 DEF z
    <3>5. ReturnOK' /\ PlaceOK(st, at)'
      BY <1>1, <3>2, <3>4 DEF ReturnOK, PlaceOK
    <3> QED
      BY <3>2, <3>3, <3>5 DEF LoaderOK
  <2>8. CASE d.z.XTyp = 0
    <3>1. /\ loaded' = [k \in DOMAIN loaded \cup {z.Key} |->
                           IF k = z.Key THEN PostLoaded(d.z) ELSE loaded[k]]
          /\ ld' = [ld EXCEPT !.pc = "leaf", !.d = d, !.n = ld.n + 1]
      BY <1>3, <2>4, <2>5, <2>6, <2>8
    <3>2. n + 1 \in Nat /\ n + 1 \in 0 .. Len(saved)
      BY <1>4, <2>2
    <3>3. /\ ld' \in Loaders /\ ld'.pc = "leaf" /\ ld'.n = n + 1 /\ ld'.ret = ld.ret
          /\ ld'.d = d /\ ld'.src = ld.src /\ ld'.at = ld.at
      BY <1>2, <2>5, <3>1, <3>2 DEF Loaders
    <3>4. PostLoaded(d.z).value = z.X /\ PostLoaded(d.z).vkind = "bsv"
      BY <2>6 DEF PostLoaded
    <3>5. /\ DOMAIN loaded = KeysUpTo(n)
          /\ \A k \in DOMAIN loaded : loaded[k].value = LastWith(k, n).X /\ loaded[k].vkind = "bsv"
      BY <1>2 DEF LoadedOK
    <3>6. /\ KeysUpTo(n + 1) = KeysUpTo(n) \cup {z.Key} /\ LastWith(z.Key, n + 1) = z
          /\ \A k : k # z.Key => LastWith(k, n + 1) = LastWith(k, n)
      BY <1>4, <2>2, LastWithNext DEF z
    <3>7. DOMAIN loaded' = KeysUpTo(n + 1)
      BY <3>1, <3>5, <3>6
    <3>8. \A k \in DOMAIN loaded' : loaded'[k].value = LastWith(k, n + 1).X /\ loaded'[k].vkind = "bsv"
      <4>1. SUFFICES ASSUME NEW k \in DOMAIN loaded'
                     PROVE  loaded'[k].value = LastWith(k, n + 1).X /\ loaded'[k].vkind = "bsv"
        OBVIOUS
      <4>2. CASE k = z.Key
        BY <3>1, <3>4, <3>6, <4>2
      <4>3. CASE k # z.Key
        <5>1. k \in DOMAIN loaded /\ loaded'[k] = loaded[k]
          BY <3>1, <4>3
        <5> QED
          BY <3>5, <3>6, <4>3, <5>1
      <4> QED
        BY <4>2, <4>3
    <3>9. KeysUpTo(ld.n)' = KeysUpTo(n + 1) /\ \A k : LastWith(k, ld.n)' = LastWith(k, n + 1)
      BY <1>1, <3>3 DEF KeysUpTo, LastWith
    <3>10. LoadedOK'
      BY <1>1, <1>2, <3>2, <3>3, <3>7, <3>8, <3>9 DEF LoadedOK
    <3>11. ReturnOK'
      BY <1>2, <1>4, <3>3 DEF ReturnOK, Returns
    <3>12. ld'.at = at[ld'.n + 1]
      BY <2>3, <2>5, <3>3
    <3>13. PlaceOK(st, at)'
      BY <1>1, <2>1, <2>5, <3>3, <3>12 DEF PlaceOK
    <3> QED
      BY <3>3, <3>10, <3>11, <3>13 DEF LoaderOK
  <2> QED
    BY <2>7, <2>8
<1> QED
  BY <1>2, <1>5, <1>6

-----------------------------------------------------------------------------
(* The invariant *)

\* A tree to be saved, or a file of another version, is where the program starts.
LEMMA InitIInv == Init => IInv
<1>1. SUFFICES ASSUME Init PROVE IInv
  OBVIOUS
<1>2. /\ buf = <<>> /\ ld = Nil /\ loaded = <<>>
      /\ sv = IF file = <<>> THEN Nil ELSE [pc |-> "gone", ret |-> Nil, numLeafWrit |-> 0]
  BY <1>1 DEF Init
<1>3. \A st, at : LoaderOK(st, at)
  BY <1>2 DEF LoaderOK
<1>4. <<>> \in Seq(Tokens) /\ <<>> \in Seq(EncodedLeaves) /\ Nil \notin Savers
  BY NilAssumption
<1>5. CASE tree \in Trees /\ file = <<>> /\ saved = <<>> /\ whole = FALSE
  <2>1. sv = Nil /\ sv \notin Savers
    BY <1>2, <1>4, <1>5
  <2>2. SaverOK
    BY <1>2, <1>4, <1>5, <2>1 DEF SaverOK
  <2>3. GoodTree(tree)
    <3>1. PICK S \in SUBSET Keys : tree \in [S -> Leaves]
      BY <1>5 DEF Trees
    <3>2. Leaves \subseteq LeafRecords
      BY LeavesAssumption
    <3>3. DOMAIN tree = S /\ tree \in [S -> LeafRecords]
      BY <3>1, <3>2
    <3> QED
      BY <3>3 DEF GoodTree
  <2>4. Len(saved) = 0 /\ \A i \in 1 .. Len(saved) : FALSE
    BY <1>5
  <2>5. SavedOK /\ CountOK
    BY <1>5, <2>1, <2>4 DEF SavedOK, CountOK
  <2>6. TreeOK
    BY <2>3, <2>5 DEF TreeOK
  <2>7. PICK st, at : st \in Seq(Tokens) /\ at \in [1 .. Len(<<>>) + 1 -> Nat] /\ IsStream(st, <<>>, at)
    BY StreamStart
  <2>8. IsPrefixOf(file, st)
    <3>1. Len(file) = 0 /\ Len(st) \in Nat
      BY <1>5, <2>7
    <3> QED
      BY <3>1 DEF IsPrefixOf
  <2>9. StreamOK(st, at)
    BY <1>5, <2>1, <2>7, <2>8 DEF StreamOK
  <2>10. st \in Seq(Tokens) /\ at \in [1 .. Len(saved) + 1 -> Nat]
    BY <1>5, <2>7
  <2> QED
    BY <1>3, <2>2, <2>6, <2>9, <2>10 DEF IInv
<1>6. ASSUME NEW f \in Foreign, tree = Nil, file = f.file, saved = f.leaves, whole = TRUE
      PROVE  IInv
  <2>1. file \in Seq(Tokens) /\ saved \in Seq(EncodedLeaves)
    BY <1>6, ForeignAssumption
  <2>2. PICK at \in [1 .. Len(saved) + 1 -> 1 .. Len(file) + 1] : IsStream(file, saved, at)
    BY <1>6, ForeignAssumption
  <2>3. at \in [1 .. Len(saved) + 1 -> Nat]
    OBVIOUS
  <2>4. file # <<>>
    <3>1. Len(file) >= 2
      BY <2>2 DEF IsStream
    <3> QED
      BY <3>1
  <2>5. sv = [pc |-> "gone", ret |-> Nil, numLeafWrit |-> 0]
    BY <1>2, <2>4
  <2>6. sv \in GoneSavers
    BY <2>5 DEF GoneSavers
  <2>7. sv # Nil /\ sv \notin Savers
    BY <2>6, SaverFields
  <2>8. SaverOK
    BY <1>2, <1>4, <1>6, <2>1, <2>6, <2>7 DEF SaverOK
  <2>9. TreeOK
    BY <1>6, <2>6 DEF TreeOK
  <2>10. IsPrefixOf(file, file)
    BY <2>1 DEF IsPrefixOf
  <2>11. StreamOK(file, at)
    BY <2>2, <2>7, <2>10 DEF StreamOK
  <2> QED
    BY <1>3, <2>1, <2>3, <2>8, <2>9, <2>11 DEF IInv
<1> QED
  BY <1>1, <1>5, <1>6 DEF Init

\* No step of the saver comes after the loader has begun.
LEMMA NoLoaderYet ==
    ASSUME NEW st, NEW at, LoaderOK(st, at),
           NewTreeSaver \/ SaveBegin \/ SaveLeaf \/ SaveEnd \/ Flush \/ Crash
    PROVE  ld = Nil /\ ld' = Nil
<1>1. ld' = ld
  BY DEF NewTreeSaver, SaveBegin, SaveLeaf, SaveEnd, Flush, Crash, LoaderVars
<1>2. CASE NewTreeSaver \/ SaveBegin \/ Flush \/ Crash
  BY <1>1, <1>2 DEF NewTreeSaver, SaveBegin, Flush, Crash
<1>3. CASE SaveLeaf \/ SaveEnd
  <2>1. sv # Nil /\ sv.pc = "saving"
    BY <1>3 DEF SaveLeaf, SaveEnd
  <2>2. ld # Nil => LoadedOK
    BY DEF LoaderOK
  <2> QED
    BY <1>1, <2>1, <2>2 DEF LoadedOK
<1> QED
  BY <1>2, <1>3

\* Every step keeps the invariant.
LEMMA NextIInv == IInv /\ [Next]_vars => IInv'
<1>1. SUFFICES ASSUME IInv, [Next]_vars PROVE IInv'
  OBVIOUS
<1>2. SaverOK /\ TreeOK
  BY <1>1 DEF IInv
<1>3. PICK st \in Seq(Tokens), at \in [1 .. Len(saved) + 1 -> Nat] : StreamOK(st, at) /\ LoaderOK(st, at)
  BY <1>1 DEF IInv
<1>4. CASE NewTreeSaver \/ SaveBegin \/ SaveLeaf \/ SaveEnd \/ Flush \/ Crash
  <2>1. ld' = Nil
    BY <1>3, <1>4, NoLoaderYet
  <2>2. /\ SaverOK' /\ TreeOK'
        /\ \E sn \in Seq(Tokens), an \in [1 .. Len(saved') + 1 -> Nat] : StreamOK(sn, an)'
    <3>1. CASE NewTreeSaver
      BY <1>2, <1>3, <3>1, NewTreeSaverStep
    <3>2. CASE SaveBegin
      BY <1>2, <1>3, <3>2, SaveBeginStep
    <3>3. CASE SaveLeaf
      BY <1>2, <1>3, <3>3, SaveLeafStep
    <3>4. CASE SaveEnd
      BY <1>2, <1>3, <3>4, SaveEndStep
    <3>5. CASE Flush
      BY <1>2, <1>3, <3>5, FlushStep
    <3>6. CASE Crash
      BY <1>2, <1>3, <3>6, CrashStep
    <3> QED
      BY <1>4, <3>1, <3>2, <3>3, <3>4, <3>5, <3>6
  <2>3. PICK sn \in Seq(Tokens), an \in [1 .. Len(saved') + 1 -> Nat] : StreamOK(sn, an)'
    BY <2>2
  <2>4. LoaderOK(sn, an)'
    BY <2>1 DEF LoaderOK
  <2> QED
    BY <2>2, <2>3, <2>4 DEF IInv
<1>5. CASE NewTreeLoader \/ LoadStep
  <2>1. UNCHANGED <<tree, SaverVars>>
    BY <1>5 DEF NewTreeLoader, LoadStep, LeafBegin, FieldTurn, NilTurn, LoopEnd
  <2>2. SaverOK' /\ TreeOK' /\ StreamOK(st, at)'
    BY <1>2, <1>3, <2>1, SaverKept
  <2>3. LoaderOK(st, at)'
    <3>1. CASE NewTreeLoader
      BY <1>2, <1>3, <3>1, NewTreeLoaderStep
    <3>2. CASE LeafBegin
      BY <1>2, <1>3, <3>2, LeafBeginStep
    <3>3. CASE FieldTurn
      BY <1>2, <1>3, <3>3, FieldTurnStep
    <3>4. CASE NilTurn
      BY <1>3, <3>4, NilTurnStep
    <3>5. CASE LoopEnd
      BY <1>2, <1>3, <3>5, LoopEndStep
    <3> QED
      BY <1>5, <3>1, <3>2, <3>3, <3>4, <3>5 DEF LoadStep
  <2>4. saved' = saved
    BY <2>1 DEF SaverVars
  <2> QED
    BY <1>3, <2>2, <2>3, <2>4 DEF IInv
<1>6. CASE UNCHANGED vars
  <2>1. UNCHANGED <<tree, SaverVars>> /\ saved' = saved /\ ld' = ld /\ loaded' = loaded
    BY <1>6 DEF vars, SaverVars
  <2>2. SaverOK' /\ TreeOK' /\ StreamOK(st, at)'
    BY <1>2, <1>3, <2>1, SaverKept
  <2>3. LoaderOK(st, at)'
    <3>1. /\ sv' = sv /\ file' = file /\ whole' = whole /\ saved' = saved
          /\ ld' = ld /\ loaded' = loaded
      BY <1>6 DEF vars
    <3>2. LoadedOK' = LoadedOK
      BY <3>1 DEF LoadedOK, KeysUpTo, LastWith
    <3>3. ReturnOK' = ReturnOK
      BY <3>1 DEF ReturnOK
    <3>4. PlaceOK(st, at)' = PlaceOK(st, at)
      BY <3>1 DEF PlaceOK, InHeader, InLeaf
    <3> QED
      BY <1>3, <3>1, <3>2, <3>3, <3>4 DEF LoaderOK
  <2> QED
    BY <1>3, <2>1, <2>2, <2>3 DEF IInv
<1> QED
  BY <1>1, <1>4, <1>5, <1>6 DEF Next

\* The invariant holds in every state: whatever fails while a tree is saved, and
\* wherever the file is cut, the file is the beginning of the stream of the leaves
\* that were encoded, and the loader is at a known place in it.
THEOREM Invariance == Spec => []IInv
  BY InitIInv, NextIInv, PTL DEF Spec

\* The invariant has the type invariant in it.
LEMMA IInvTypeOK == IInv => TypeOK
<1>1. SUFFICES ASSUME IInv PROVE TypeOK
  OBVIOUS
<1>2. SaverOK /\ TreeOK /\ ld \in Loaders \cup NoLoaders \cup {Nil}
  BY <1>1 DEF IInv, LoaderOK
<1>3. tree # Nil => GoodTree(tree)
  BY <1>2 DEF TreeOK
<1> QED
  BY <1>2, <1>3 DEF TypeOK, SaverOK, GoodTree

\* The saver, the loader and the decoder have their types in every state: the
\* counters of fields stay within a uint32 and the nils within two levels, for
\* structs of any number of fields, though missingFieldsLeft wraps around.
THEOREM TypeCorrect == Spec => []TypeOK
  BY Invariance, IInvTypeOK, PTL

\* The invariant says which leaves are loaded.
LEMMA IInvLoadedPrefix == IInv => LoadedPrefix
<1>1. SUFFICES ASSUME IInv, ld # Nil
               PROVE  /\ ld.n <= Len(saved) /\ DOMAIN loaded = KeysUpTo(ld.n)
                      /\ \A k \in DOMAIN loaded : loaded[k].value = LastWith(k, ld.n).X
                      /\ whole /\ ld.ret = "ok" => ld.n = Len(saved)
  BY DEF LoadedPrefix
<1>2. LoadedOK /\ ReturnOK /\ saved \in Seq(EncodedLeaves)
  BY <1>1 DEF IInv, LoaderOK, SaverOK
<1>3. ld.n <= Len(saved)
  BY <1>2 DEF LoadedOK
<1> QED
  BY <1>2, <1>3 DEF LoadedOK, ReturnOK

\* For all trees, all cuts of the file and all files of other versions, a loaded
\* tree holds the first leaves of the stream with their own bytes, and all of them
\* if the file is complete and Load reports no error.
THEOREM LoadedPrefixHolds == Spec => []LoadedPrefix
  BY Invariance, IInvLoadedPrefix, PTL

\* The last leaf with a key has that key.
LEMMA LastWithFacts ==
    ASSUME NEW n \in Nat, NEW k \in KeysUpTo(n)
    PROVE  \E i \in 1 .. n : LastWith(k, n) = saved[i] /\ saved[i].Key = k
<1> DEFINE S == {i \in 1 .. n : saved[i].Key = k}
           m == CHOOSE i \in S : \A j \in S : j <= i
<1>1. S # {} /\ S \in SUBSET (0 .. n)
  BY DEF KeysUpTo
<1>2. LastWith(k, n) = saved[m]
  BY DEF LastWith
<1>3. \E i \in S : \A j \in S : j <= i
  <2> HIDE DEF S
  <2>1. Max(S) \in S /\ \A x \in S : Max(S) >= x
    BY <1>1, MaxOfNats
  <2>2. \A x \in S : x \in Int
    BY <1>1
  <2>3. \A x \in S : x <= Max(S)
    BY <2>1, <2>2
  <2> QED
    BY <2>1, <2>3
<1>4. m \in S
  <2> HIDE DEF S
  <2> QED
    BY <1>3
<1> HIDE DEF m
<1> QED
  BY <1>2, <1>4

\* The invariant says that a complete stream has all keys of the tree.
LEMMA IInvRoundTrip == IInv => RoundTrip
<1>1. SUFFICES ASSUME IInv, tree # Nil, whole, ld # Nil, ld.ret = "ok"
               PROVE  /\ DOMAIN loaded = DOMAIN tree \ {0}
                      /\ \A k \in DOMAIN loaded :
                            loaded[k].vkind = "bsv" /\ loaded[k].value = BytesOf(tree[k])
  BY DEF RoundTrip
<1>2. LoadedOK /\ ReturnOK /\ saved \in Seq(EncodedLeaves) /\ SavedOK
  BY <1>1 DEF IInv, LoaderOK, SaverOK, TreeOK
<1>3. ld.n = Len(saved) /\ Len(saved) \in Nat
  BY <1>1, <1>2 DEF ReturnOK
<1>4. /\ DOMAIN loaded = KeysUpTo(Len(saved))
      /\ \A k \in DOMAIN loaded : /\ loaded[k].value = LastWith(k, Len(saved)).X
                                  /\ loaded[k].vkind = "bsv"
  BY <1>2, <1>3 DEF LoadedOK
<1>5. /\ \A i \in 1 .. Len(saved) : /\ saved[i].Key \in DOMAIN tree \ {0}
                                    /\ saved[i].X = BytesOf(tree[saved[i].Key])
      /\ DOMAIN tree \ {0} \subseteq KeysUpTo(Len(saved))
  BY <1>1, <1>2 DEF SavedOK
<1>6. KeysUpTo(Len(saved)) = DOMAIN tree \ {0}
  BY <1>5 DEF KeysUpTo
<1>7. ASSUME NEW k \in DOMAIN loaded
      PROVE  loaded[k].value = BytesOf(tree[k])
  <2>1. PICK i \in 1 .. Len(saved) : LastWith(k, Len(saved)) = saved[i] /\ saved[i].Key = k
    BY <1>3, <1>4, LastWithFacts
  <2> QED
    BY <1>4, <1>5, <2>1
<1> QED
  BY <1>4, <1>6, <1>7

\* For every tree, however often Save and Flush were called before: if Save and
\* Load both report success, the loaded tree has the keys of the saved one, except
\* the empty one, with the same bytes.
THEOREM RoundTripHolds == Spec => []RoundTrip
  BY Invariance, IInvRoundTrip, PTL

\* The invariant says when Save and Load panic, and what Save has counted.
LEMMA IInvPanicsExplained == IInv => PanicsExplained
<1>1. SUFFICES ASSUME IInv PROVE PanicsExplained
  OBVIOUS
<1>2. ASSUME sv # Nil, tree # Nil
      PROVE  /\ sv.ret = "ok" => sv.numLeafWrit = Cardinality(DOMAIN tree \ {0})
             /\ sv.ret = "panic" => \/ Cardinality(DOMAIN tree) = 1 /\ 0 \notin DOMAIN tree
                                    \/ \E k \in DOMAIN tree \ {0} : tree[k].vkind = "other"
  <2>1. CountOK
    BY <1>1, <1>2 DEF IInv, TreeOK
  <2> QED
    BY <1>2, <2>1 DEF CountOK, NoPanic
<1>3. ASSUME ld # Nil, ld.ret = "panic"
      PROVE  \E i \in DOMAIN saved : saved[i].XTyp # 0
  BY <1>1, <1>3 DEF IInv, LoaderOK, ReturnOK
<1> QED
  BY <1>2, <1>3 DEF PanicsExplained

\* For all trees and all files, Save and Load panic only for the reasons that are
\* in their code, and Save reports success only if it wrote every leaf.
THEOREM PanicsExplainedHolds == Spec => []PanicsExplained
  BY Invariance, IInvPanicsExplained, PTL

\* The invariant says that the nils are balanced between two leaves.
LEMMA IInvNilsBalanced == IInv => NilsBalanced
<1>1. SUFFICES ASSUME IInv, Loading, ld.pc = "leaf" PROVE ld.d.nils = 0
  BY DEF NilsBalanced
<1>2. ld # Nil
  BY <1>1 DEF Loading
<1> QED
  BY <1>1, <1>2 DEF IInv, LoaderOK, PlaceOK

\* PushAlwaysNil and PopAlwaysNil are balanced at the end of every struct, for
\* every number and choice of fields in it.
THEOREM NilsBalancedHolds == Spec => []NilsBalanced
  BY Invariance, IInvNilsBalanced, PTL

\* A whole file stays: its writer is closed, or its program has ended.
LEMMA WholeFileStays == IInv /\ [Next]_vars => [whole => UNCHANGED file]_vars
<1>1. SUFFICES ASSUME IInv, Next, whole PROVE file' = file
  BY DEF vars
<1>2. SaverOK
  BY <1>1 DEF IInv
<1>3. PICK st \in Seq(Tokens), at \in [1 .. Len(saved) + 1 -> Nat] : StreamOK(st, at) /\ LoaderOK(st, at)
  BY <1>1 DEF IInv
<1>4. sv # Nil
  BY <1>1, <1>2 DEF SaverOK
<1>5. ASSUME sv.pc # "gone" PROVE sv \in Savers /\ sv.closed /\ buf \in Seq(Tokens) /\ file \in Seq(Tokens)
  BY <1>1, <1>2, <1>4, <1>5, RunningSaver DEF SaverOK
<1>6. CASE NewTreeSaver
  BY <1>4, <1>6 DEF NewTreeSaver
<1>7. CASE SaveBegin
  BY <1>7 DEF SaveBegin
<1>8. CASE SaveLeaf
  <2>1. sv \in Savers /\ sv.closed
    BY <1>5, <1>8 DEF SaveLeaf
  <2>2. \/ file' = file
        \/ WriteFails
    BY <1>8 DEF SaveLeaf
  <2>3. CASE WriteFails
    <3>1. PICK n \in 0 .. (IF sv.broken \/ sv.closed THEN 0 ELSE Len(buf')) :
             file' = Through(file, buf', n)
      BY <2>3 DEF WriteFails, Through
    <3>2. n = 0
      BY <2>1
    <3>3. file \in Seq(Tokens)
      BY <1>2 DEF SaverOK
    <3> QED
      BY <3>1, <3>2, <3>3, NoneThrough
  <2> QED
    BY <2>2, <2>3
<1>9. CASE SaveEnd
  <2>1. sv \in Savers /\ sv.closed
    BY <1>5, <1>9 DEF SaveEnd
  <2>2. \/ ~sv.broken /\ (sv.closed => buf = <<>>) /\ file' = file \o buf /\ buf' = <<>>
        \/ buf' = buf /\ WriteFails
    BY <1>9 DEF SaveEnd
  <2>3. CASE ~sv.broken /\ (sv.closed => buf = <<>>) /\ file' = file \o buf /\ buf' = <<>>
    BY <1>2, <1>3, <2>1, <2>3, AllThrough
  <2>4. CASE buf' = buf /\ WriteFails
    <3>1. buf' \in Seq(Tokens)
      BY <1>2, <2>4 DEF SaverOK
    <3> QED
      BY <1>2, <2>1, <2>4, <3>1, FailedWrite
  <2> QED
    BY <2>2, <2>3, <2>4
<1>10. CASE Flush
  <2>1. sv \in Savers /\ sv.closed
    BY <1>5, <1>10 DEF Flush
  <2>2. \/ ~sv.broken /\ (sv.closed => buf = <<>>) /\ file' = file \o buf /\ buf' = <<>>
        \/ buf' = buf /\ WriteFails
    BY <1>10 DEF Flush
  <2>3. CASE ~sv.broken /\ (sv.closed => buf = <<>>) /\ file' = file \o buf /\ buf' = <<>>
    BY <1>2, <1>3, <2>1, <2>3, AllThrough
  <2>4. CASE buf' = buf /\ WriteFails
    <3>1. buf' \in Seq(Tokens)
      BY <1>2, <2>4 DEF SaverOK
    <3> QED
      BY <1>2, <2>1, <2>4, <3>1, FailedWrite
  <2> QED
    BY <2>2, <2>3, <2>4
<1>11. CASE Crash
  <2>1. sv \in Savers /\ sv.closed
    BY <1>5, <1>11 DEF Crash
  <2>2. PICK n \in 0 .. (IF sv.broken \/ sv.closed THEN 0 ELSE Len(buf)) : file' = Through(file, buf, n)
    BY <1>11 DEF Crash, Through
  <2>3. n = 0
    BY <2>1, <2>2
  <2>4. file \in Seq(Tokens)
    BY <1>2 DEF SaverOK
  <2> QED
    BY <2>2, <2>3, <2>4, NoneThrough
<1>12. CASE NewTreeLoader \/ LoadStep
  BY <1>12 DEF NewTreeLoader, LoadStep, LeafBegin, FieldTurn, NilTurn, LoopEnd, SaverVars
<1> QED
  BY <1>1, <1>6, <1>7, <1>8, <1>9, <1>10, <1>11, <1>12 DEF Next

\* Once Save has returned nil no later call of Save or Flush, no failing write and
\* no crash changes the file.
THEOREM ClosedFileStaysHolds == Spec => ClosedFileStays
  BY Invariance, WholeFileStays, PTL DEF Spec, ClosedFileStays

=============================================================================
