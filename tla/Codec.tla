------------------------------- MODULE Codec -------------------------------
(***************************************************************************)
(* The generated encoders and decoders of structs (leaf_gen.go,            *)
(* tree_gen.go).  A struct is encoded as a map header with the number of   *)
(* fields, and a key and a value per field.  Empty fields are left out.    *)
(*                                                                         *)
(* A stream is a sequence of tokens <<kind, content>>.  Field values are   *)
(* numbers, 0 stands for the empty or zero value.  A struct type has the   *)
(* list of its fields as the decoder knows it, "-" for those that are never *)
(* encoded.                                                                *)
(***************************************************************************)
EXTENDS Integers, Sequences, FiniteSets

CONSTANT Word     \* the number of values of a uint32, 2^32 in the code

\* There are more numbers than fields of a struct.
ASSUME WordAssumption == Word \in Nat /\ Word > 8

LeafType == <<"Key", "Keybyte", "XTyp", "X", "-">>
TreeType == <<"Leafz", "-", "-">>

maxFields(type) == Len(type)

FieldsOf(type) == {type[i] : i \in DOMAIN type} \ {"-"}

\* A struct as the program makes it, before a decoder fills it.
ZeroOf(type) == [f \in FieldsOf(type) |-> 0]

-----------------------------------------------------------------------------
(* Encoding *)

\* fieldsNotEmpty: the fields that are written.
fieldsNotEmpty(type, z) == {i \in DOMAIN type : type[i] # "-" /\ z[type[i]] # 0}

\* The j-th field that is written, counted from 0.
NthField(fs, j) == CHOOSE i \in fs : Cardinality({h \in fs : h < i}) = j

\* The written fields in order, the name of each and its value.
FieldTokens(type, z) ==
    LET fs == fieldsNotEmpty(type, z)
    IN  [t \in 1 .. 2 * Cardinality(fs) |->
            LET f == type[NthField(fs, (t - 1) \div 2)]
            IN  IF t % 2 = 1 THEN <<"key", f>> ELSE <<"val", z[f]>>]

\* EncodeMsg: one field more than there are, the name of the type.
EncodeMsg(type, z) ==
    << <<"map", Cardinality(fieldsNotEmpty(type, z)) + 1>>, <<"key", "@">>, <<"val", 0>> >>
    \o FieldTokens(type, z)

\* MarshalMsg: no type field.
MarshalMsg(type, z) ==
    << <<"map", Cardinality(fieldsNotEmpty(type, z))>> >> \o FieldTokens(type, z)

-----------------------------------------------------------------------------
(* Streams.  A struct begins with the number of its fields, or is a nil.   *)

\* The names in a stream; "new" stands for any that this version does not know.
FieldNames == FieldsOf(LeafType) \cup FieldsOf(TreeType) \cup {"@", "new"}

StructTokens == ({"map", "val", "nil"} \X Nat) \cup ({"key"} \X FieldNames)

FieldCount(toks, a) == IF toks[a][1] = "map" THEN toks[a][2] ELSE 0

\* The name of the j-th field of the struct at a; its value follows.
FieldName(toks, a, j) == toks[a + 2 * j - 1][2]

\* Some version of the encoder may have written z at a: the values of the fields
\* that this version knows are those of z, and the others of z are zero.
IsStruct(toks, a, type, z) ==
    /\ a \in 1 .. Len(toks)
    /\ toks[a][1] \in {"map", "nil"}
    /\ FieldCount(toks, a) \in 0 .. Word - 1
    /\ a + 2 * FieldCount(toks, a) <= Len(toks)
    /\ \A j \in 1 .. FieldCount(toks, a) :
          FieldName(toks, a, j) \in FieldsOf(type) =>
              toks[a + 2 * j][2] = z[FieldName(toks, a, j)]
    /\ \A f \in FieldsOf(type) :
          z[f] # 0 => \E j \in 1 .. FieldCount(toks, a) : FieldName(toks, a, j) = f

-----------------------------------------------------------------------------
(* Decoding.  The state of a decoder:                                      *)
(*   type, z                the struct it fills                            *)
(*   left, missing          encodedFieldsLeft and missingFieldsLeft        *)
(*   nextMiss, found        where it is among the missing fields           *)
(*   nils                   how deep PushAlwaysNil is nested               *)
(*   topNil                 was there a nil in place of the struct?        *)

Decoders(type) ==
    [type : {type}, z : [FieldsOf(type) -> Nat],
     left : 0 .. Word - 1, missing : 0 .. Word - 1,
     nextMiss : -1 .. maxFields(type), found : SUBSET (0 .. maxFields(type) - 1),
     nils : 0 .. 2, topNil : BOOLEAN]

\* Mutant of StartFields: no wrap-around.
StartFieldsInt(type, total, topNil) ==
    [type |-> type, z |-> ZeroOf(type), left |-> total,
     missing |-> maxFields(type) - total,
     nextMiss |-> -1, found |-> {}, nils |-> IF topNil THEN 1 ELSE 0, topNil |-> topNil]

\* From the map header to the loop, into a new struct.  The subtraction of
\* uint32 wraps around if there are more fields than the decoder knows.
StartFields(type, total, topNil) ==
    [type |-> type, z |-> ZeroOf(type), left |-> total,
     missing |-> (maxFields(type) - total) % Word,
     nextMiss |-> -1, found |-> {}, nils |-> IF topNil THEN 1 ELSE 0, topNil |-> topNil]

\* Does the loop end?
LoopEnds(d) == d.left = 0 /\ d.missing = 0

\* Mutant of FirstMissing: fields that were found are filled again.
FirstMissingAny(d) ==
    LET from == IF d.nextMiss < 0 THEN 0 ELSE d.nextMiss
        open == {i \in from .. maxFields(d.type) - 1 : d.type[i + 1] # "-"}
    IN  IF open = {} THEN maxFields(d.type)
        ELSE CHOOSE i \in open : \A j \in open : i <= j

\* The first field from nextMiss on that was not found and is not skipped.
FirstMissing(d) ==
    LET from == IF d.nextMiss < 0 THEN 0 ELSE d.nextMiss
        open == {i \in from .. maxFields(d.type) - 1 :
                    i \notin d.found /\ d.type[i + 1] # "-"}
    IN  IF open = {} THEN maxFields(d.type)
        ELSE CHOOSE i \in open : \A j \in open : i <= j

\* The switch on a field name: a known field is filled, another one skipped.
FieldRead(d, f, v) ==
    IF f \notin FieldsOf(d.type) THEN d
    ELSE LET i == CHOOSE i \in DOMAIN d.type : d.type[i] = f
         IN  [d EXCEPT !.z[f] = v, !.found = @ \cup {i - 1}]

\* A turn of the loop with encoded fields left.
EncodedTurn(d, f, v) == FieldRead([d EXCEPT !.left = @ - 1], f, v)

\* A turn without: the next missing field is read as nil.
MissingTurn(d) ==
    LET m   == FirstMissing(d)
        was == [d EXCEPT !.nextMiss = m, !.missing = (@ - 1) % Word,
                         !.nils = IF d.nextMiss < 0 THEN @ + 1 ELSE @]
    IN  FieldRead(was, d.type[m + 1], 0)

\* A turn without that finds no missing field: the loop is left.
NoneMissing(d) ==
    [d EXCEPT !.nextMiss = FirstMissing(d),
              !.nils = IF d.nextMiss < 0 THEN @ + 1 ELSE @]

\* Mutant of LeaveStruct: the nils that stand for missing fields go on.
LeaveStructNils(d) == [d EXCEPT !.nils = @ - (IF d.topNil THEN 1 ELSE 0)]

\* After the loop: PopAlwaysNil as often as it was pushed.
LeaveStruct(d) ==
    [d EXCEPT !.nils = @ - (IF d.nextMiss # -1 THEN 1 ELSE 0)
                         - (IF d.topNil THEN 1 ELSE 0)]

=============================================================================
