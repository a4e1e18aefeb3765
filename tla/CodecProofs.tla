----------------------------- MODULE CodecProofs -----------------------------
(***************************************************************************)
(* What the encoders write and the decoders read back, for all structs and *)
(* for streams with fields left out, added or repeated.                    *)
(***************************************************************************)
EXTENDS Codec, SetFacts

\* What the proofs need of a struct type: no two of its fields have the same
\* name, and none has that of the type field.
GoodType(type) ==
    /\ type \in Seq(FieldNames \cup {"-"}) /\ Len(type) <= 7
    /\ \A i, j \in 1 .. Len(type) : type[i] = type[j] /\ type[i] # "-" => i = j
    /\ "@" \notin FieldsOf(type)

\* The types of leaf_gen.go and tree_gen.go are such types.
LEMMA TypesGood ==
    /\ GoodType(LeafType) /\ Len(LeafType) = 5
    /\ GoodType(TreeType) /\ Len(TreeType) = 3
    /\ LeafType # TreeType
<1>1. /\ Len(LeafType) = 5 /\ DOMAIN LeafType = 1 .. 5
      /\ LeafType[1] = "Key" /\ LeafType[2] = "Keybyte" /\ LeafType[3] = "XTyp"
      /\ LeafType[4] = "X" /\ LeafType[5] = "-"
  BY DEF LeafType
<1>10. LeafType \in Seq(FieldNames \cup {"-"})
  <2>1. \A i \in 1 .. 5 : LeafType[i] \in FieldsOf(LeafType) \cup {"-"}
    BY <1>1 DEF FieldsOf
  <2>2. \A i \in 1 .. 5 : LeafType[i] \in FieldNames \cup {"-"}
    BY <2>1 DEF FieldNames
  <2>3. LeafType \in Seq({LeafType[i] : i \in 1 .. 5})
    BY <1>1 DEF LeafType
  <2> QED
    BY <1>1, <2>2, <2>3
<1>2. /\ Len(TreeType) = 3 /\ DOMAIN TreeType = 1 .. 3
      /\ TreeType[1] = "Leafz" /\ TreeType[2] = "-" /\ TreeType[3] = "-"
  BY DEF TreeType
<1>11. TreeType \in Seq(FieldNames \cup {"-"})
  <2>1. \A i \in 1 .. 3 : TreeType[i] \in FieldsOf(TreeType) \cup {"-"}
    BY <1>2 DEF FieldsOf
  <2>2. \A i \in 1 .. 3 : TreeType[i] \in FieldNames \cup {"-"}
    BY <2>1 DEF FieldNames
  <2>3. TreeType \in Seq({TreeType[i] : i \in 1 .. 3})
    BY <1>2 DEF TreeType
  <2> QED
    BY <1>2, <2>2, <2>3
<1>3. \A i, j \in 1 .. 5 : LeafType[i] = LeafType[j] /\ LeafType[i] # "-" => i = j
  BY <1>1
<1>4. \A i, j \in 1 .. 3 : TreeType[i] = TreeType[j] /\ TreeType[i] # "-" => i = j
  BY <1>2
<1>5. (\A i \in 1 .. 5 : LeafType[i] # "@") /\ (\A i \in 1 .. 3 : TreeType[i] # "@")
  BY <1>1, <1>2
<1>6. "@" \notin FieldsOf(LeafType)
  BY <1>1, <1>5 DEF FieldsOf
<1>7. "@" \notin FieldsOf(TreeType)
  BY <1>2, <1>5 DEF FieldsOf
<1>8. GoodType(LeafType)
  BY <1>1, <1>10, <1>3, <1>6 DEF GoodType
<1>9. GoodType(TreeType)
  BY <1>2, <1>11, <1>4, <1>7 DEF GoodType
<1> QED
  BY <1>1, <1>2, <1>8, <1>9

\* The fields of a leaf by name.
LEMMA LeafFields == FieldsOf(LeafType) = {"Key", "Keybyte", "XTyp", "X"}
<1>1. /\ DOMAIN LeafType = 1 .. 5
      /\ LeafType[1] = "Key" /\ LeafType[2] = "Keybyte" /\ LeafType[3] = "XTyp"
      /\ LeafType[4] = "X" /\ LeafType[5] = "-"
  BY DEF LeafType
<1>2. \A i \in 1 .. 5 : LeafType[i] \in {"Key", "Keybyte", "XTyp", "X", "-"}
  BY <1>1
<1>3. FieldsOf(LeafType) \subseteq {"Key", "Keybyte", "XTyp", "X"}
  BY <1>1, <1>2 DEF FieldsOf
<1>4. \A i \in 1 .. 4 : LeafType[i] \in FieldsOf(LeafType)
  BY <1>1 DEF FieldsOf
<1>5. 1 \in 1 .. 4 /\ 2 \in 1 .. 4 /\ 3 \in 1 .. 4 /\ 4 \in 1 .. 4
  OBVIOUS
<1>6. /\ "Key" \in FieldsOf(LeafType) /\ "Keybyte" \in FieldsOf(LeafType)
      /\ "XTyp" \in FieldsOf(LeafType) /\ "X" \in FieldsOf(LeafType)
  BY <1>1, <1>4, <1>5
<1> QED
  BY <1>3, <1>6

\* The names of the fields are the entries of the type that are not empty.
LEMMA FieldIndex ==
    ASSUME NEW type, GoodType(type)
    PROVE  /\ DOMAIN type = 1 .. Len(type) /\ Len(type) <= 7
           /\ \A i \in 1 .. Len(type) : type[i] # "-" => type[i] \in FieldsOf(type)
           /\ \A f \in FieldsOf(type) : \E i \in 1 .. Len(type) : type[i] = f /\ type[i] # "-"
           /\ FieldsOf(type) \subseteq FieldNames
<1>1. DOMAIN type = 1 .. Len(type) /\ Len(type) <= 7 /\ \A i \in DOMAIN type : type[i] \in FieldNames \cup {"-"}
  BY DEF GoodType
<1> QED
  BY <1>1 DEF FieldsOf

-----------------------------------------------------------------------------
(* Encoding *)

\* The written fields are numbered without gaps.
LEMMA NthFieldFacts ==
    ASSUME NEW N \in Nat, NEW fs \in SUBSET (1 .. N)
    PROVE  /\ Cardinality(fs) \in 0 .. N
           /\ \A j \in 0 .. Cardinality(fs) - 1 : NthField(fs, j) \in fs
           /\ \A i \in fs : \E j \in 0 .. Cardinality(fs) - 1 : NthField(fs, j) = i
<1> DEFINE rank(b) == Cardinality({x \in fs : x < b})
<1>1. fs \in SUBSET (0 .. N)
  OBVIOUS
<1>2. /\ IsFiniteSet(fs) /\ Cardinality(fs) \in Nat
      /\ \A b \in fs : rank(b) \in 0 .. Cardinality(fs) - 1
      /\ \A a, b \in fs : a < b => rank(a) < rank(b)
      /\ \A i \in 0 .. Cardinality(fs) - 1 : \E b \in fs : rank(b) = i
  BY <1>1, RankFacts
<1>3. Cardinality(fs) <= N
  <2>1. IsFiniteSet(1 .. N) /\ Cardinality(1 .. N) = N
    BY FS_Interval
  <2> QED
    BY <2>1, FS_Subset
<1>4. \A j : NthField(fs, j) = CHOOSE i \in fs : rank(i) = j
  BY DEF NthField
<1> HIDE DEF rank
<1>5. \A j \in 0 .. Cardinality(fs) - 1 : NthField(fs, j) \in fs /\ rank(NthField(fs, j)) = j
  BY <1>2, <1>4
<1>6. ASSUME NEW i \in fs PROVE \E j \in 0 .. Cardinality(fs) - 1 : NthField(fs, j) = i
  <2> DEFINE k == NthField(fs, rank(i))
  <2>1. rank(i) \in 0 .. Cardinality(fs) - 1
    BY <1>2
  <2>2. k \in fs /\ rank(k) = rank(i)
    BY <1>5, <2>1
  <2> HIDE DEF k
  <2>3. k \in Int /\ i \in Int /\ rank(i) \in Int
    BY <2>1, <2>2
  <2>4. ~(k < i) /\ ~(i < k)
    BY <1>2, <2>2, <2>3
  <2>5. k = i
    BY <2>3, <2>4
  <2> QED
    BY <2>1, <2>5 DEF k
<1> QED
  BY <1>2, <1>3, <1>5, <1>6

\* The tokens of the fields: a name and its value in turn, every field that is
\* not zero among them.
LEMMA FieldTokensFacts ==
    ASSUME NEW type, GoodType(type), NEW z \in [FieldsOf(type) -> Nat],
           NEW c, c = Cardinality(fieldsNotEmpty(type, z)),
           NEW t, t = FieldTokens(type, z)
    PROVE  /\ c \in 0 .. 7 /\ t \in Seq(StructTokens) /\ Len(t) = 2 * c
           /\ \A j \in 1 .. c : /\ t[2 * j - 1][2] \in FieldsOf(type)
                                /\ t[2 * j][2] = z[t[2 * j - 1][2]]
           /\ \A f \in FieldsOf(type) : z[f] # 0 => \E j \in 1 .. c : t[2 * j - 1][2] = f
<1> DEFINE fs == fieldsNotEmpty(type, z)
           g(j) == type[NthField(fs, j)]
<1>1. /\ DOMAIN type = 1 .. Len(type) /\ Len(type) <= 7
      /\ \A i \in 1 .. Len(type) : type[i] # "-" => type[i] \in FieldsOf(type)
      /\ \A f \in FieldsOf(type) : \E i \in 1 .. Len(type) : type[i] = f /\ type[i] # "-"
      /\ FieldsOf(type) \subseteq FieldNames
  BY FieldIndex
<1>2. fs \in SUBSET (1 .. Len(type)) /\ \A i \in fs : type[i] \in FieldsOf(type)
  BY <1>1 DEF fieldsNotEmpty
<1>3. /\ c \in 0 .. Len(type)
      /\ \A j \in 0 .. c - 1 : NthField(fs, j) \in fs
      /\ \A i \in fs : \E j \in 0 .. c - 1 : NthField(fs, j) = i
  <2> HIDE DEF fs
  <2>1. c = Cardinality(fs)
    BY DEF fs
  <2> QED
    BY <1>1, <1>2, <2>1, NthFieldFacts
<1>4. t = [i \in 1 .. 2 * c |-> IF i % 2 = 1 THEN <<"key", g((i - 1) \div 2)>>
                                ELSE <<"val", z[g((i - 1) \div 2)]>>]
  BY DEF FieldTokens
<1>5. \A j \in 0 .. c - 1 : g(j) \in FieldsOf(type)
  BY <1>2, <1>3
<1>6. \A f \in FieldsOf(type) : z[f] # 0 => \E j \in 0 .. c - 1 : g(j) = f
  <2> SUFFICES ASSUME NEW f \in FieldsOf(type), z[f] # 0
               PROVE  \E j \in 0 .. c - 1 : g(j) = f
    OBVIOUS
  <2>1. PICK i \in 1 .. Len(type) : type[i] = f /\ type[i] # "-"
    BY <1>1
  <2>2. i \in fs
    BY <1>1, <2>1 DEF fieldsNotEmpty
  <2>3. PICK j \in 0 .. c - 1 : NthField(fs, j) = i
    BY <1>3, <2>2
  <2> QED
    BY <2>1, <2>3
<1> HIDE DEF g, fs
<1>7. c \in 0 .. 7
  BY <1>1, <1>3
<1>8. ASSUME NEW i \in 1 .. 2 * c PROVE t[i] \in StructTokens
  <2>1. (i - 1) \div 2 \in 0 .. c - 1
    BY <1>7
  <2>2. g((i - 1) \div 2) \in FieldsOf(type)
    BY <1>5, <2>1
  <2>3. g((i - 1) \div 2) \in FieldNames /\ z[g((i - 1) \div 2)] \in Nat
    BY <1>1, <2>2
  <2> QED
    BY <1>4, <2>3 DEF StructTokens
<1>9. t \in Seq(StructTokens) /\ Len(t) = 2 * c
  <2>1. t \in [1 .. 2 * c -> StructTokens]
    <3>1. DOMAIN t = 1 .. 2 * c /\ t = [i \in 1 .. 2 * c |-> t[i]]
      BY <1>4
    <3> QED
      BY <1>8, <3>1
  <2>2. 2 * c \in Nat
    BY <1>7
  <2> QED
    BY <2>1, <2>2
<1>10. ASSUME NEW j \in 1 .. c
       PROVE  t[2 * j - 1] = <<"key", g(j - 1)>> /\ t[2 * j] = <<"val", z[g(j - 1)]>>
  <2>1. /\ 2 * j - 1 \in 1 .. 2 * c /\ 2 * j \in 1 .. 2 * c
        /\ (2 * j - 1) % 2 = 1 /\ (2 * j) % 2 = 0
        /\ (2 * j - 1 - 1) \div 2 = j - 1 /\ (2 * j - 1) \div 2 = j - 1
    BY <1>7
  <2> QED
    BY <1>4, <2>1
<1>11. ASSUME NEW j \in 1 .. c
       PROVE  t[2 * j - 1][2] \in FieldsOf(type) /\ t[2 * j][2] = z[t[2 * j - 1][2]]
  <2>1. j - 1 \in 0 .. c - 1
    BY <1>7
  <2>2. t[2 * j - 1][2] = g(j - 1) /\ t[2 * j][2] = z[g(j - 1)]
    BY <1>10
  <2> QED
    BY <1>5, <2>1, <2>2
<1>12. ASSUME NEW f \in FieldsOf(type), z[f] # 0
       PROVE  \E j \in 1 .. c : t[2 * j - 1][2] = f
  <2>1. PICK i \in 0 .. c - 1 : g(i) = f
    BY <1>6, <1>12
  <2>2. i + 1 \in 1 .. c /\ (i + 1) - 1 = i
    BY <1>7
  <2>3. t[2 * (i + 1) - 1][2] = g(i)
    BY <1>10, <2>2
  <2> QED
    BY <2>1, <2>2, <2>3
<1> QED
  BY <1>7, <1>9, <1>11, <1>12

\* The elements of a concatenation.
LEMMA Concatenation ==
    ASSUME NEW S, NEW s \in Seq(S), NEW t \in Seq(S), NEW e, e = s \o t
    PROVE  /\ e \in Seq(S) /\ Len(e) = Len(s) + Len(t)
           /\ \A i \in 1 .. Len(s) : e[i] = s[i]
           /\ \A i \in 1 .. Len(t) : e[Len(s) + i] = t[i]
  OBVIOUS

\* EncodeMsg writes a struct that holds z, whatever fields of z are zero.
LEMMA EncodeIsStruct ==
    ASSUME NEW type, GoodType(type), NEW z \in [FieldsOf(type) -> Nat],
           NEW e, e = EncodeMsg(type, z)
    PROVE  /\ e \in Seq(StructTokens) /\ IsStruct(e, 1, type, z)
           /\ Len(e) = 1 + 2 * FieldCount(e, 1)
<1> DEFINE c == Cardinality(fieldsNotEmpty(type, z))
           t == FieldTokens(type, z)
           h == << <<"map", c + 1>>, <<"key", "@">>, <<"val", 0>> >>
<1>1. /\ c \in 0 .. 7 /\ t \in Seq(StructTokens) /\ Len(t) = 2 * c
      /\ \A j \in 1 .. c : /\ t[2 * j - 1][2] \in FieldsOf(type)
                           /\ t[2 * j][2] = z[t[2 * j - 1][2]]
      /\ \A f \in FieldsOf(type) : z[f] # 0 => \E j \in 1 .. c : t[2 * j - 1][2] = f
  BY FieldTokensFacts
<1>2. e = h \o t
  BY DEF EncodeMsg
<1> HIDE DEF c, t
<1>3. h \in Seq(StructTokens) /\ Len(h) = 3
  <2>1. <<"map", c + 1>> \in StructTokens
    BY <1>1 DEF StructTokens
  <2>2. <<"key", "@">> \in StructTokens
    BY DEF StructTokens, FieldNames
  <2>3. <<"val", 0>> \in StructTokens
    BY DEF StructTokens
  <2> QED
    BY <2>1, <2>2, <2>3
<1>4. h[1] = <<"map", c + 1>> /\ h[2] = <<"key", "@">> /\ h[3] = <<"val", 0>>
  OBVIOUS
<1> HIDE DEF h
<1>5. /\ e \in Seq(StructTokens) /\ Len(e) = 3 + 2 * c
      /\ e[1] = <<"map", c + 1>> /\ e[2] = <<"key", "@">>
      /\ \A i \in 1 .. 2 * c : e[i + 3] = t[i]
  <2>1. /\ e \in Seq(StructTokens) /\ Len(e) = Len(h) + Len(t)
        /\ \A i \in 1 .. Len(h) : e[i] = h[i]
        /\ \A i \in 1 .. Len(t) : e[Len(h) + i] = t[i]
    <3>1. h \in Seq(StructTokens) /\ t \in Seq(StructTokens)
      BY <1>1, <1>3
    <3> QED
      BY <1>2, <3>1, Concatenation
  <2>2. e[1] = h[1] /\ e[2] = h[2]
    BY <1>3, <2>1
  <2>3. \A i \in 1 .. Len(t) : e[i + 3] = t[i]
    BY <1>3, <2>1
  <2>4. Len(e) = 3 + 2 * c
    BY <1>1, <1>3, <2>1
  <2>5. \A i \in 1 .. 2 * c : e[i + 3] = t[i]
    BY <1>1, <2>3
  <2> QED
    BY <1>4, <2>1, <2>2, <2>4, <2>5
<1>6. FieldCount(e, 1) = c + 1 /\ e[1][1] = "map"
  BY <1>5 DEF FieldCount
<1>7. ASSUME NEW j \in 1 .. c
      PROVE  /\ FieldName(e, 1, j + 1) = t[2 * j - 1][2]
             /\ e[1 + 2 * (j + 1)] = t[2 * j]
  <2>1. 2 * j - 1 \in 1 .. 2 * c /\ 2 * j \in 1 .. 2 * c
    BY <1>1
  <2>2. 1 + 2 * (j + 1) - 1 = (2 * j - 1) + 3 /\ 1 + 2 * (j + 1) = 2 * j + 3
    OBVIOUS
  <2>3. e[(2 * j - 1) + 3] = t[2 * j - 1] /\ e[2 * j + 3] = t[2 * j]
    BY <1>5, <2>1
  <2> QED
    BY <2>2, <2>3 DEF FieldName
<1>8. FieldName(e, 1, 1) = "@"
  BY <1>5 DEF FieldName
<1>9. ASSUME NEW j \in 1 .. c + 1, FieldName(e, 1, j) \in FieldsOf(type)
      PROVE  e[1 + 2 * j][2] = z[FieldName(e, 1, j)]
  <2>1. j # 1
    BY <1>8, <1>9 DEF GoodType
  <2>2. j - 1 \in 1 .. c /\ (j - 1) + 1 = j
    BY <1>1, <2>1
  <2>3. FieldName(e, 1, j) = t[2 * (j - 1) - 1][2] /\ e[1 + 2 * j] = t[2 * (j - 1)]
    BY <1>7, <2>2
  <2> QED
    BY <1>1, <2>2, <2>3
<1>10. ASSUME NEW f \in FieldsOf(type), z[f] # 0
       PROVE  \E j \in 1 .. c + 1 : FieldName(e, 1, j) = f
  <2>1. PICK j \in 1 .. c : t[2 * j - 1][2] = f
    BY <1>1, <1>10
  <2>2. j + 1 \in 1 .. c + 1 /\ FieldName(e, 1, j + 1) = f
    BY <1>1, <1>7, <2>1
  <2> QED
    BY <2>2
<1>11. c + 1 \in 0 .. Word - 1 /\ 1 \in 1 .. Len(e) /\ 1 + 2 * (c + 1) <= Len(e)
  BY <1>1, <1>5, WordAssumption
<1>12. IsStruct(e, 1, type, z)
  BY <1>6, <1>9, <1>10, <1>11 DEF IsStruct
<1> QED
  BY <1>1, <1>5, <1>6, <1>12

\* MarshalMsg of the tree without its leaves, which is the header of a file.
LEMMA HeaderIsStruct ==
    ASSUME NEW e, e = MarshalMsg(TreeType, ZeroOf(TreeType))
    PROVE  e \in Seq(StructTokens) /\ Len(e) >= 1 /\ IsStruct(e, 1, TreeType, ZeroOf(TreeType))
<1> DEFINE z == ZeroOf(TreeType)
           fs == fieldsNotEmpty(TreeType, z)
           t == FieldTokens(TreeType, z)
           h == << <<"map", 0>> >>
<1>1. GoodType(TreeType) /\ z \in [FieldsOf(TreeType) -> Nat] /\ \A f \in FieldsOf(TreeType) : z[f] = 0
  BY TypesGood DEF ZeroOf
<1>2. fs = {}
  BY <1>1, FieldIndex DEF fieldsNotEmpty
<1>3. Cardinality(fs) = 0
  BY <1>2, FS_EmptySet
<1> HIDE DEF z, fs
<1>4. Cardinality(fieldsNotEmpty(TreeType, z)) = 0
  BY <1>3 DEF fs
<1>5. t \in Seq(StructTokens) /\ Len(t) = 0
  <2>1. t \in Seq(StructTokens) /\ Len(t) = 2 * 0
    BY <1>1, <1>4, FieldTokensFacts
  <2> QED
    BY <2>1
<1>6. e = h \o t
  BY <1>4 DEF MarshalMsg, z
<1> HIDE DEF t
<1>7. h \in Seq(StructTokens) /\ Len(h) = 1 /\ h[1] = <<"map", 0>>
  <2>1. <<"map", 0>> \in StructTokens
    BY DEF StructTokens
  <2> QED
    BY <2>1
<1> HIDE DEF h
<1>8. e \in Seq(StructTokens) /\ Len(e) = 1 /\ e[1] = <<"map", 0>>
  BY <1>5, <1>6, <1>7
<1>9. FieldCount(e, 1) = 0 /\ e[1][1] = "map"
  BY <1>8 DEF FieldCount
<1>10. IsStruct(e, 1, TreeType, z)
  BY <1>1, <1>8, <1>9, WordAssumption DEF IsStruct
<1> QED
  BY <1>8, <1>10 DEF z

\* A struct stays one if more follows.
LEMMA StructKept ==
    ASSUME NEW S, NEW s \in Seq(S), NEW t \in Seq(S), NEW a, NEW type, NEW z,
           IsStruct(s, a, type, z)
    PROVE  IsStruct(s \o t, a, type, z) /\ FieldCount(s \o t, a) = FieldCount(s, a)
<1> DEFINE st == s \o t
           n == FieldCount(s, a)
<1>1. a \in 1 .. Len(s) /\ Len(st) = Len(s) + Len(t) /\ Len(s) \in Nat /\ Len(t) \in Nat
  BY DEF IsStruct
<1>2. \A i \in 1 .. Len(s) : st[i] = s[i]
  OBVIOUS
<1> HIDE DEF st
<1>3. FieldCount(st, a) = n /\ st[a] = s[a]
  BY <1>1, <1>2 DEF FieldCount
<1>4. n \in 0 .. Word - 1 /\ a + 2 * n <= Len(s) /\ s[a][1] \in {"map", "nil"}
  BY DEF IsStruct
<1>5. ASSUME NEW j \in 1 .. n
      PROVE  FieldName(st, a, j) = FieldName(s, a, j) /\ st[a + 2 * j] = s[a + 2 * j]
  <2> HIDE DEF n
  <2>1. n \in Nat
    BY <1>4, WordAssumption
  <2>2. a + 2 * j - 1 \in 1 .. Len(s) /\ a + 2 * j \in 1 .. Len(s)
    BY <1>1, <1>4, <2>1
  <2> QED
    BY <1>2, <2>2 DEF FieldName
<1>6. a \in 1 .. Len(st) /\ a + 2 * n <= Len(st)
  <2> HIDE DEF n
  <2>1. n \in Nat
    BY <1>4, WordAssumption
  <2> QED
    BY <1>1, <1>4, <2>1
<1>7. \A j \in 1 .. n : FieldName(st, a, j) \in FieldsOf(type) => st[a + 2 * j][2] = z[FieldName(st, a, j)]
  BY <1>5 DEF IsStruct
<1>8. \A f \in FieldsOf(type) : z[f] # 0 => \E j \in 1 .. n : FieldName(st, a, j) = f
  BY <1>5 DEF IsStruct
<1>9. IsStruct(st, a, type, z)
  <2> HIDE DEF n
  <2> QED
    BY <1>3, <1>4, <1>6, <1>7, <1>8 DEF IsStruct
<1> QED
  BY <1>3, <1>9 DEF st

\* A struct stays one where it is appended.
LEMMA StructAppended ==
    ASSUME NEW S, NEW s \in Seq(S), NEW t \in Seq(S), NEW type, NEW z,
           IsStruct(t, 1, type, z), NEW a, a = Len(s) + 1
    PROVE  IsStruct(s \o t, a, type, z) /\ FieldCount(s \o t, a) = FieldCount(t, 1)
<1> DEFINE st == s \o t
           n == FieldCount(t, 1)
<1>1. Len(t) >= 1 /\ Len(st) = Len(s) + Len(t) /\ Len(s) \in Nat /\ Len(t) \in Nat
  BY DEF IsStruct
<1>2. \A i \in 1 .. Len(t) : st[Len(s) + i] = t[i]
  OBVIOUS
<1> HIDE DEF st
<1>3. FieldCount(st, a) = n /\ st[a] = t[1]
  <2>1. st[a] = t[1]
    BY <1>1, <1>2
  <2> QED
    BY <2>1 DEF FieldCount
<1>4. n \in 0 .. Word - 1 /\ 1 + 2 * n <= Len(t) /\ t[1][1] \in {"map", "nil"}
  BY DEF IsStruct
<1>5. ASSUME NEW j \in 1 .. n
      PROVE  FieldName(st, a, j) = FieldName(t, 1, j) /\ st[a + 2 * j] = t[1 + 2 * j]
  <2> HIDE DEF n
  <2>1. n \in Nat
    BY <1>4, WordAssumption
  <2>2. 1 + 2 * j - 1 \in 1 .. Len(t) /\ 1 + 2 * j \in 1 .. Len(t)
    BY <1>1, <1>4, <2>1
  <2>3. a + 2 * j - 1 = Len(s) + (1 + 2 * j - 1) /\ a + 2 * j = Len(s) + (1 + 2 * j)
    BY <1>1, <2>1
  <2> QED
    BY <1>2, <2>2, <2>3 DEF FieldName
<1>6. a \in 1 .. Len(st) /\ a + 2 * n <= Len(st)
  <2> HIDE DEF n
  <2>1. n \in Nat
    BY <1>4, WordAssumption
  <2> QED
    BY <1>1, <1>4, <2>1
<1>7. \A j \in 1 .. n : FieldName(st, a, j) \in FieldsOf(type) => st[a + 2 * j][2] = z[FieldName(st, a, j)]
  BY <1>5 DEF IsStruct
<1>8. \A f \in FieldsOf(type) : z[f] # 0 => \E j \in 1 .. n : FieldName(st, a, j) = f
  BY <1>5 DEF IsStruct
<1>9. IsStruct(st, a, type, z)
  <2> HIDE DEF n
  <2> QED
    BY <1>3, <1>4, <1>6, <1>7, <1>8 DEF IsStruct
<1> QED
  BY <1>3, <1>9 DEF st

-----------------------------------------------------------------------------
(* Decoding *)

\* A decoder at position at has read some fields of the struct z at a: those have
\* the values of z, the others are zero, and what is not zero was found.
Decodes(d, toks, a, type, z, at) ==
    /\ d \in Decoders(type)
    /\ d.left <= FieldCount(toks, a)
    /\ at = a + 1 + 2 * (FieldCount(toks, a) - d.left)
    /\ \A f \in FieldsOf(type) :
          \/ d.z[f] = z[f]
          \/ /\ d.z[f] = 0
             /\ \A j \in 1 .. FieldCount(toks, a) - d.left : FieldName(toks, a, j) # f
    /\ \A f \in FieldsOf(type) :
          d.z[f] # 0 => \E i \in 1 .. Len(type) : type[i] = f /\ i - 1 \in d.found
    /\ d.nils = (IF d.topNil THEN 1 ELSE 0) + (IF d.nextMiss = -1 THEN 0 ELSE 1)

\* The fields of a decoder.
LEMMA DecoderFields ==
    ASSUME NEW type, NEW d \in Decoders(type)
    PROVE  /\ d.type = type /\ d.z \in [FieldsOf(type) -> Nat]
           /\ d.left \in 0 .. Word - 1 /\ d.missing \in 0 .. Word - 1
           /\ d.left \in Nat /\ d.missing \in Nat
           /\ d.nextMiss \in -1 .. Len(type) /\ d.found \in SUBSET (0 .. Len(type) - 1)
           /\ d.nils \in 0 .. 2 /\ d.topNil \in BOOLEAN
<1>1. /\ d.type = type /\ d.z \in [FieldsOf(type) -> Nat]
      /\ d.left \in 0 .. Word - 1 /\ d.missing \in 0 .. Word - 1
  BY DEF Decoders
<1>2. /\ d.nextMiss \in -1 .. Len(type) /\ d.found \in SUBSET (0 .. Len(type) - 1)
      /\ d.nils \in 0 .. 2 /\ d.topNil \in BOOLEAN
  BY DEF Decoders, maxFields
<1> QED
  BY <1>1, <1>2, WordAssumption

\* The switch on the name of a field changes that field and marks it found.
LEMMA FieldReadFacts ==
    ASSUME NEW type, GoodType(type), NEW d \in Decoders(type), NEW f, NEW v,
           f \in FieldsOf(type) => v \in Nat,
           NEW r, r = FieldRead(d, f, v)
    PROVE  /\ r \in Decoders(type)
           /\ r.left = d.left /\ r.missing = d.missing /\ r.nextMiss = d.nextMiss
           /\ r.nils = d.nils /\ r.topNil = d.topNil
           /\ \A g \in FieldsOf(type) : r.z[g] = IF g = f THEN v ELSE d.z[g]
           /\ d.found \subseteq r.found
           /\ f \in FieldsOf(type) => \E i \in 1 .. Len(type) : type[i] = f /\ i - 1 \in r.found
<1>1. CASE f \notin FieldsOf(type)
  <2>1. r = d
    BY <1>1, DecoderFields DEF FieldRead
  <2> QED
    BY <1>1, <2>1
<1>2. CASE f \in FieldsOf(type)
  <2> DEFINE i == CHOOSE i \in DOMAIN d.type : d.type[i] = f
  <2>1. d.type = type /\ d.z \in [FieldsOf(type) -> Nat] /\ d.found \in SUBSET (0 .. Len(type) - 1)
    BY DecoderFields
  <2>2. i \in 1 .. Len(type) /\ type[i] = f
    BY <1>2, <2>1, FieldIndex
  <2>3. r = [d EXCEPT !.z[f] = v, !.found = @ \cup {i - 1}]
    BY <1>2, <2>1 DEF FieldRead
  <2> HIDE DEF i
  <2>4. Len(type) \in Nat
    BY DEF GoodType
  <2>5. i - 1 \in 0 .. Len(type) - 1
    BY <2>2, <2>4
  <2>6. d.found \cup {i - 1} \in SUBSET (0 .. Len(type) - 1)
    BY <2>1, <2>5
  <2>7. [d.z EXCEPT ![f] = v] \in [FieldsOf(type) -> Nat]
    BY <1>2, <2>1
  <2>8. r = [d EXCEPT !.z = [d.z EXCEPT ![f] = v], !.found = d.found \cup {i - 1}]
    BY <2>3 DEF Decoders
  <2>9. r \in Decoders(type)
    BY <2>6, <2>7, <2>8 DEF Decoders, maxFields
  <2>10. /\ r.left = d.left /\ r.missing = d.missing /\ r.nextMiss = d.nextMiss
         /\ r.nils = d.nils /\ r.topNil = d.topNil
         /\ r.z = [d.z EXCEPT ![f] = v] /\ r.found = d.found \cup {i - 1}
    BY <2>8 DEF Decoders
  <2>11. \A g \in FieldsOf(type) : r.z[g] = IF g = f THEN v ELSE d.z[g]
    BY <2>1, <2>10
  <2> QED
    BY <2>2, <2>9, <2>10, <2>11
<1> QED
  BY <1>1, <1>2

\* The loop for the next missing field finds one that is encoded and was not found.
LEMMA FirstMissingFacts ==
    ASSUME NEW type, GoodType(type), NEW d \in Decoders(type), NEW m, m = FirstMissing(d)
    PROVE  /\ m \in 0 .. Len(type)
           /\ m < Len(type) => m \notin d.found /\ type[m + 1] \in FieldsOf(type)
<1> DEFINE from == IF d.nextMiss < 0 THEN 0 ELSE d.nextMiss
           open == {i \in from .. Len(type) - 1 : i \notin d.found /\ type[i + 1] # "-"}
<1>1. d.type = type /\ d.nextMiss \in -1 .. Len(type) /\ Len(type) \in Nat
  BY DecoderFields DEF GoodType
<1>2. m = IF open = {} THEN Len(type) ELSE CHOOSE i \in open : \A j \in open : i <= j
  BY <1>1 DEF FirstMissing, maxFields
<1>3. open \in SUBSET (0 .. Len(type) - 1)
  BY <1>1
<1>4. open # {} => m \in open
  <2>1. open \in SUBSET Nat
    BY <1>3
  <2>2. open # {} => Min(open) \in open
    BY <2>1, MinOfNats
  <2>3. m = IF open = {} THEN Len(type) ELSE Min(open)
    BY <1>2 DEF Min
  <2> QED
    BY <2>2, <2>3
<1>5. m = Len(type) \/ m \in open
  BY <1>2, <1>4
<1>6. m \in 0 .. Len(type)
  <2> HIDE DEF open
  <2>1. open \in SUBSET (0 .. Len(type))
    BY <1>1, <1>3
  <2>2. Len(type) \in 0 .. Len(type)
    BY <1>1
  <2> QED
    BY <1>5, <2>1, <2>2
<1>7. ASSUME m < Len(type) PROVE m \notin d.found /\ type[m + 1] \in FieldsOf(type)
  <2>1. m \in open
    BY <1>1, <1>5, <1>7
  <2>2. m \notin d.found /\ type[m + 1] # "-"
    BY <2>1
  <2>3. m + 1 \in 1 .. Len(type)
    BY <1>1, <1>6, <1>7
  <2> QED
    BY <2>2, <2>3, FieldIndex
<1> QED
  BY <1>6, <1>7

\* From the map header, or the nil, to the loop: nothing is read yet.
LEMMA StartDecodes ==
    ASSUME NEW type, GoodType(type), NEW toks, NEW a \in Nat, NEW z,
           FieldCount(toks, a) \in 0 .. Word - 1, NEW b \in BOOLEAN,
           NEW d, d = StartFields(type, FieldCount(toks, a), b)
    PROVE  Decodes(d, toks, a, type, z, a + 1)
<1> DEFINE n == FieldCount(toks, a)
<1>1. /\ d.type = type /\ d.z = ZeroOf(type) /\ d.left = n /\ d.nextMiss = -1
      /\ d.nils = (IF b THEN 1 ELSE 0) /\ d.topNil = b
  BY DEF StartFields
<1>2. ZeroOf(type) \in [FieldsOf(type) -> Nat] /\ \A f \in FieldsOf(type) : ZeroOf(type)[f] = 0
  BY DEF ZeroOf
<1>3. Len(type) \in Nat /\ Word \in Nat /\ Word > 0 /\ n \in Nat
  BY WordAssumption DEF GoodType
<1>4. d \in Decoders(type)
  <2> HIDE DEF n
  <2>1. n \in 0 .. Word - 1
    BY DEF n
  <2>2. (Len(type) - n) % Word \in 0 .. Word - 1
    BY <1>3
  <2>3. -1 \in -1 .. Len(type) /\ {} \in SUBSET (0 .. Len(type) - 1)
    BY <1>3
  <2>4. (IF b THEN 1 ELSE 0) \in 0 .. 2
    OBVIOUS
  <2>5. d = [type |-> type, z |-> ZeroOf(type), left |-> n, missing |-> (Len(type) - n) % Word,
             nextMiss |-> -1, found |-> {}, nils |-> IF b THEN 1 ELSE 0, topNil |-> b]
    BY DEF StartFields, maxFields, n
  <2> HIDE DEF n
  <2> QED
    BY <1>2, <2>1, <2>2, <2>3, <2>4, <2>5 DEF Decoders, maxFields
<1>5. a + 1 = a + 1 + 2 * (n - d.left) /\ d.left <= n
  <2> HIDE DEF n
  <2> QED
    BY <1>1, <1>3
<1>6. \A f \in FieldsOf(type) : d.z[f] = 0
  BY <1>1, <1>2
<1>7. \A j \in 1 .. n - d.left : FALSE
  <2> HIDE DEF n
  <2> QED
    BY <1>1, <1>3
<1>8. d.nils = (IF d.topNil THEN 1 ELSE 0) + (IF d.nextMiss = -1 THEN 0 ELSE 1)
  BY <1>1
<1> QED
  BY <1>4, <1>5, <1>6, <1>7, <1>8 DEF Decodes

\* A turn of the loop with encoded fields left reads one of them.
LEMMA EncodedDecodes ==
    ASSUME NEW type, GoodType(type), NEW toks, NEW a \in Nat, NEW z \in [FieldsOf(type) -> Nat],
           IsStruct(toks, a, type, z),
           NEW d, NEW at, Decodes(d, toks, a, type, z, at), d.left > 0,
           NEW r, r = EncodedTurn(d, toks[at][2], toks[at + 1][2])
    PROVE  Decodes(r, toks, a, type, z, at + 2)
<1> DEFINE n == FieldCount(toks, a)
           c == [d EXCEPT !.left = @ - 1]
           f == toks[at][2]
           v == toks[at + 1][2]
           k == n - d.left + 1
<1>1. /\ d.left \in 0 .. Word - 1 /\ d.left \in Nat /\ d.left <= n
      /\ at = a + 1 + 2 * (n - d.left) /\ d \in Decoders(type) /\ Word \in Nat
  BY DecoderFields, WordAssumption DEF Decodes
<1>2. n \in Nat
  BY WordAssumption DEF IsStruct
<1>3. c \in Decoders(type) /\ c.left = d.left - 1 /\ c.z = d.z /\ c.found = d.found
      /\ c.nils = d.nils /\ c.topNil = d.topNil /\ c.nextMiss = d.nextMiss
  <2> HIDE DEF n
  <2>1. d.left - 1 \in 0 .. Word - 1
    BY <1>1
  <2> QED
    BY <1>1, <2>1 DEF Decoders
<1>4. k \in 1 .. n /\ at = a + 2 * k - 1 /\ at + 1 = a + 2 * k /\ k \in Nat
  <2> HIDE DEF n
  <2> QED
    BY <1>1, <1>2
<1>5. f = FieldName(toks, a, k) /\ v = toks[a + 2 * k][2]
  BY <1>4 DEF FieldName
<1>6. f \in FieldsOf(type) => v = z[f]
  BY <1>4, <1>5 DEF IsStruct
<1>7. r = FieldRead(c, f, v)
  BY DEF EncodedTurn
<1> HIDE DEF c, f, v
<1>8. f \in FieldsOf(type) => v \in Nat
  BY <1>6
<1>9. /\ r \in Decoders(type)
      /\ r.left = c.left /\ r.nextMiss = c.nextMiss
      /\ r.nils = c.nils /\ r.topNil = c.topNil
      /\ \A g \in FieldsOf(type) : r.z[g] = IF g = f THEN v ELSE c.z[g]
      /\ c.found \subseteq r.found
      /\ f \in FieldsOf(type) => \E i \in 1 .. Len(type) : type[i] = f /\ i - 1 \in r.found
  BY <1>3, <1>7, <1>8, FieldReadFacts
<1>10. /\ r.left <= n /\ n - r.left = k
       /\ at + 2 = a + 1 + 2 * (n - r.left)
  <2>1. r.left = d.left - 1
    BY <1>3, <1>9
  <2> HIDE DEF n
  <2>2. d.left \in Nat /\ d.left <= n /\ at = a + 1 + 2 * (n - d.left)
    BY <1>1
  <2> QED
    BY <1>2, <2>1, <2>2
<1>11. ASSUME NEW g \in FieldsOf(type)
       PROVE  \/ r.z[g] = z[g]
              \/ r.z[g] = 0 /\ \A j \in 1 .. k : FieldName(toks, a, j) # g
  <2>1. CASE g = f
    BY <1>6, <1>9, <2>1
  <2>2. CASE g # f
    <3>1. r.z[g] = d.z[g]
      BY <1>3, <1>9, <2>2
    <3>2. CASE d.z[g] = z[g]
      BY <3>1, <3>2
    <3>3. CASE d.z[g] = 0 /\ \A j \in 1 .. n - d.left : FieldName(toks, a, j) # g
      <4>1. ASSUME NEW j \in 1 .. k PROVE j = k \/ j \in 1 .. n - d.left
        <5> HIDE DEF n
        <5> QED
          BY <1>1, <1>2
      <4> QED
        BY <1>5, <2>2, <3>1, <3>3, <4>1
    <3> QED
      BY <3>2, <3>3 DEF Decodes
  <2> QED
    BY <2>1, <2>2
<1>12. ASSUME NEW g \in FieldsOf(type), r.z[g] # 0
       PROVE  \E i \in 1 .. Len(type) : type[i] = g /\ i - 1 \in r.found
  <2>1. CASE g = f
    BY <1>9, <2>1
  <2>2. CASE g # f
    <3>1. d.z[g] # 0
      BY <1>3, <1>9, <1>12, <2>2
    <3>2. PICK i \in 1 .. Len(type) : type[i] = g /\ i - 1 \in d.found
      BY <3>1 DEF Decodes
    <3> QED
      BY <1>3, <1>9, <3>2
  <2> QED
    BY <2>1, <2>2
<1>13. r.nils = (IF r.topNil THEN 1 ELSE 0) + (IF r.nextMiss = -1 THEN 0 ELSE 1)
  BY <1>3, <1>9 DEF Decodes
<1> HIDE DEF n, k
<1>14. n = FieldCount(toks, a)
  BY DEF n
<1> QED
  BY <1>9, <1>10, <1>11, <1>12, <1>13, <1>14 DEF Decodes

\* A turn for a missing field changes no value: a field that was not found is
\* still zero.
LEMMA MissingDecodes ==
    ASSUME NEW type, GoodType(type), NEW toks, NEW a, NEW z, NEW d, NEW at,
           Decodes(d, toks, a, type, z, at), FirstMissing(d) < Len(type),
           NEW r, r = MissingTurn(d)
    PROVE  Decodes(r, toks, a, type, z, at)
<1> DEFINE m == FirstMissing(d)
           n == FieldCount(toks, a)
           b == IF d.nextMiss < 0 THEN d.nils + 1 ELSE d.nils
           c == [d EXCEPT !.nextMiss = m, !.missing = (d.missing - 1) % Word, !.nils = b]
           f == type[m + 1]
<1>1. /\ d \in Decoders(type) /\ d.type = type /\ d.z \in [FieldsOf(type) -> Nat]
      /\ d.missing \in Nat /\ Word \in Nat /\ Word > 0
      /\ d.nils = (IF d.topNil THEN 1 ELSE 0) + (IF d.nextMiss = -1 THEN 0 ELSE 1)
      /\ d.nils \in 0 .. 2 /\ d.topNil \in BOOLEAN
  BY DecoderFields, WordAssumption DEF Decodes
<1>2. d.nextMiss \in -1 .. Len(type) /\ Len(type) \in Nat
  BY <1>1, DecoderFields DEF GoodType
<1>3. m \in 0 .. Len(type) /\ m \notin d.found /\ f \in FieldsOf(type)
  BY <1>1, FirstMissingFacts
<1>4. r = FieldRead(c, f, 0)
  BY <1>1 DEF MissingTurn
<1> HIDE DEF m, f
<1>5. m # -1 /\ (d.nextMiss < 0 <=> d.nextMiss = -1)
  BY <1>2, <1>3
<1>6. b = (IF d.topNil THEN 1 ELSE 0) + 1 /\ b \in 0 .. 2
  BY <1>1, <1>5
<1> HIDE DEF b
<1>7. /\ c \in Decoders(type) /\ c.left = d.left /\ c.z = d.z /\ c.found = d.found
      /\ c.nils = b /\ c.topNil = d.topNil /\ c.nextMiss = m
  <2>1. (d.missing - 1) % Word \in 0 .. Word - 1
    BY <1>1
  <2>2. m \in -1 .. Len(type)
    BY <1>2, <1>3
  <2> QED
    BY <1>1, <1>6, <2>1, <2>2 DEF Decoders, maxFields
<1> HIDE DEF c
<1>8. /\ r \in Decoders(type)
      /\ r.left = c.left /\ r.nextMiss = c.nextMiss
      /\ r.nils = c.nils /\ r.topNil = c.topNil
      /\ \A g \in FieldsOf(type) : r.z[g] = IF g = f THEN 0 ELSE c.z[g]
      /\ c.found \subseteq r.found
  BY <1>4, <1>7, FieldReadFacts
<1>9. d.z[f] = 0
  <2> SUFFICES ASSUME d.z[f] # 0 PROVE FALSE
    OBVIOUS
  <2>1. PICK i \in 1 .. Len(type) : type[i] = f /\ i - 1 \in d.found
    BY <1>3 DEF Decodes
  <2>2. m < Len(type)
    BY DEF m
  <2>3. m + 1 \in 1 .. Len(type) /\ type[m + 1] = f
    BY <1>2, <1>3, <2>2 DEF f
  <2>4. f # "-"
    BY <1>3 DEF FieldsOf
  <2>5. i = m + 1
    BY <2>1, <2>3, <2>4 DEF GoodType
  <2>6. i - 1 = m
    BY <1>2, <1>3, <2>5
  <2> QED
    BY <1>3, <2>1, <2>6
<1>10. \A g \in FieldsOf(type) : r.z[g] = d.z[g]
  BY <1>7, <1>8, <1>9
<1>11. r.left = d.left /\ d.found \subseteq r.found
  BY <1>7, <1>8
<1>12. r.nils = (IF r.topNil THEN 1 ELSE 0) + (IF r.nextMiss = -1 THEN 0 ELSE 1)
  BY <1>5, <1>6, <1>7, <1>8
<1>13. /\ d.left <= n /\ at = a + 1 + 2 * (n - d.left)
       /\ \A g \in FieldsOf(type) :
             \/ d.z[g] = z[g]
             \/ d.z[g] = 0 /\ \A j \in 1 .. n - d.left : FieldName(toks, a, j) # g
       /\ \A g \in FieldsOf(type) :
             d.z[g] # 0 => \E i \in 1 .. Len(type) : type[i] = g /\ i - 1 \in d.found
  BY DEF Decodes
<1>14. \A g \in FieldsOf(type) :
          r.z[g] # 0 => \E i \in 1 .. Len(type) : type[i] = g /\ i - 1 \in r.found
  BY <1>10, <1>11, <1>13
<1>15. /\ r.left <= n /\ at = a + 1 + 2 * (n - r.left)
       /\ \A g \in FieldsOf(type) :
             \/ r.z[g] = z[g]
             \/ r.z[g] = 0 /\ \A j \in 1 .. n - r.left : FieldName(toks, a, j) # g
  BY <1>10, <1>11, <1>13
<1> HIDE DEF n
<1>16. n = FieldCount(toks, a)
  BY DEF n
<1> QED
  BY <1>8, <1>12, <1>14, <1>15, <1>16 DEF Decodes

\* After the loop the struct is the one that was encoded, and the reader gives
\* as many nils as before it.
LEMMA StructDecoded ==
    ASSUME NEW type, GoodType(type), NEW toks, NEW a, NEW z \in [FieldsOf(type) -> Nat],
           IsStruct(toks, a, type, z), NEW d, NEW at,
           Decodes(d, toks, a, type, z, at), d.left = 0,
           NEW r, r = LeaveStruct(IF LoopEnds(d) THEN d ELSE NoneMissing(d))
    PROVE  /\ r \in Decoders(type) /\ r.type = type /\ r.nils = 0
           /\ \A f \in FieldsOf(type) : r.z[f] = z[f]
           /\ at = a + 1 + 2 * FieldCount(toks, a)
<1> DEFINE n == FieldCount(toks, a)
           c == IF LoopEnds(d) THEN d ELSE NoneMissing(d)
<1>1. /\ d \in Decoders(type) /\ d.type = type
      /\ d.nils = (IF d.topNil THEN 1 ELSE 0) + (IF d.nextMiss = -1 THEN 0 ELSE 1)
      /\ d.nils \in 0 .. 2 /\ d.topNil \in BOOLEAN
      /\ d.nextMiss \in -1 .. Len(type) /\ Len(type) \in Nat
  BY DecoderFields DEF Decodes, GoodType
<1>2. /\ c \in Decoders(type) /\ c.z = d.z
      /\ c.topNil = d.topNil
      /\ c.nils = (IF c.topNil THEN 1 ELSE 0) + (IF c.nextMiss = -1 THEN 0 ELSE 1)
  <2>1. CASE LoopEnds(d)
    BY <1>1, <2>1
  <2>2. CASE ~LoopEnds(d)
    <3> DEFINE m == FirstMissing(d)
               b == IF d.nextMiss < 0 THEN d.nils + 1 ELSE d.nils
    <3>1. c = [d EXCEPT !.nextMiss = m, !.nils = b]
      BY <2>2 DEF NoneMissing
    <3>2. m \in 0 .. Len(type)
      BY <1>1, FirstMissingFacts
    <3> HIDE DEF m, c
    <3>3. m \in -1 .. Len(type) /\ m # -1 /\ (d.nextMiss < 0 <=> d.nextMiss = -1)
      BY <1>1, <3>2
    <3>4. b = (IF d.topNil THEN 1 ELSE 0) + 1 /\ b \in 0 .. 2
      BY <1>1, <3>3
    <3> HIDE DEF b
    <3>5. c \in Decoders(type) /\ c.z = d.z /\ c.topNil = d.topNil /\ c.nils = b /\ c.nextMiss = m
      BY <1>1, <3>1, <3>3, <3>4 DEF Decoders, maxFields
    <3> QED
      BY <3>3, <3>4, <3>5
  <2> QED
    BY <2>1, <2>2
<1>3. r = LeaveStruct(c)
  OBVIOUS
<1> HIDE DEF c
<1>4. r \in Decoders(type) /\ r.type = type /\ r.nils = 0 /\ r.z = d.z
  <2>1. c.topNil \in BOOLEAN
    BY <1>1, <1>2
  <2>2. c.nils - (IF c.nextMiss # -1 THEN 1 ELSE 0) - (IF c.topNil THEN 1 ELSE 0) = 0
    BY <1>2, <2>1
  <2>3. r = [c EXCEPT !.nils = c.nils - (IF c.nextMiss # -1 THEN 1 ELSE 0) - (IF c.topNil THEN 1 ELSE 0)]
    BY <1>3 DEF LeaveStruct
  <2>4. r = [c EXCEPT !.nils = 0]
    BY <2>2, <2>3
  <2>5. r \in Decoders(type) /\ r.nils = 0 /\ r.z = c.z
    BY <1>2, <2>4 DEF Decoders
  <2> QED
    BY <1>2, <2>5, DecoderFields
<1>5. n \in Nat
  BY WordAssumption DEF IsStruct
<1>6. at = a + 1 + 2 * (n - 0)
  BY DEF Decodes
<1>7. ASSUME NEW f \in FieldsOf(type) PROVE d.z[f] = z[f]
  <2>1. CASE d.z[f] = z[f]
    BY <2>1
  <2>2. CASE d.z[f] = 0 /\ \A j \in 1 .. n - d.left : FieldName(toks, a, j) # f
    <3>1. n - d.left = n
      <4> HIDE DEF n
      <4> QED
        BY <1>5
    <3>2. z[f] # 0 => \E j \in 1 .. n : FieldName(toks, a, j) = f
      BY DEF IsStruct
    <3> QED
      BY <2>2, <3>1, <3>2
  <2> QED
    BY <2>1, <2>2 DEF Decodes
<1>8. n - 0 = n
  <2> HIDE DEF n
  <2> QED
    BY <1>5
<1> QED
  BY <1>4, <1>6, <1>7, <1>8

=============================================================================
