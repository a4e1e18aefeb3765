------------------------------- MODULE Saver -------------------------------
(***************************************************************************)
(* Saving a tree to a file and loading it again (saver.go, the hooks in    *)
(* leaf.go, and the encoders and decoders they use).                       *)
(*                                                                         *)
(* The tree is the function from its keys to its leaves.  A key is a       *)
(* number in the order of keys, 0 is the empty key.  A leaf is             *)
(*    [vkind, value, XTyp, X, Keybyte]                                     *)
(* where vkind is the type of Value and value its bytes.                   *)
(*                                                                         *)
(* What msgp.Writer and s2.Writer do with a token is external: it waits in *)
(* buf until a flush, an error or a crash decides how much of buf the file *)
(* gets.                                                                   *)
(***************************************************************************)
EXTENDS Codec

CONSTANTS
    Keys,        \* numbers, with 0 for the empty key
    Leaves,      \* the leaves a tree may have
    Foreign,     \* files of other versions: [file, leaves], the leaves in it
    MaxSaves,    \* bound on the calls of Save
    MaxFlush,    \* bound on the calls of Flush
    Nil

-----------------------------------------------------------------------------
(* The values of the variables *)

\* The tokens of a file: a magic number, the header as a slice of bytes, the leaves.
Tokens == StructTokens \cup ({"magic"} \X {0}) \cup ({"bin"} \X Seq(StructTokens))

LeafRecords == [vkind : {"nil", "bytes", "bsv", "other"},
                value : Nat, XTyp : Nat, X : Nat, Keybyte : Nat]

\* A leaf in a stream: the fields that are encoded.
EncodedLeaves == [FieldsOf(LeafType) -> Nat]

Returns == {"ok", "error", "panic"}

Savers == [pc : {"idle", "saving"}, cursor : Nat, numLeafWrit : Nat,
           ret : Returns \cup {Nil}, closed : BOOLEAN, broken : BOOLEAN,
           saves : Nat, flushes : Nat]

\* What is left of a saver whose program has ended.
GoneSavers == [pc : {"gone"}, ret : Returns \cup {Nil}, numLeafWrit : Nat]

Loaders == [pc : {"fields", "leaf", "end"}, src : Seq(Tokens), at : Nat, n : Nat,
            ret : Returns \cup {Nil}, d : Decoders(TreeType) \cup Decoders(LeafType)]

\* What NewTreeLoader leaves if it fails.
NoLoaders == [pc : {"end"}, n : {0}, ret : {"error"}]

\* toks is a complete stream of the given leaves, the i-th at at[i].
IsStream(toks, leaves, at) ==
    /\ Len(toks) >= 2
    /\ LET hdr == toks[2][2]
       IN  /\ hdr \in Seq(StructTokens) /\ Len(hdr) >= 1
           /\ IsStruct(hdr, 1, TreeType, ZeroOf(TreeType))
    /\ at[1] = 3 /\ at[Len(leaves) + 1] = Len(toks) + 1
    /\ \A i \in 1 .. Len(leaves) :
          /\ IsStruct(toks, at[i], LeafType, leaves[i])
          /\ at[i + 1] = at[i] + 1 + 2 * FieldCount(toks, at[i])

ASSUME KeysAssumption == Keys \in SUBSET Nat /\ IsFiniteSet(Keys)

ASSUME LeavesAssumption == Leaves \in SUBSET LeafRecords

\* Another version of the program writes the same kind of stream.
ASSUME ForeignAssumption ==
    \A f \in Foreign :
        /\ f.file \in Seq(Tokens) /\ f.leaves \in Seq(EncodedLeaves)
        /\ \E at \in [1 .. Len(f.leaves) + 1 -> 1 .. Len(f.file) + 1] :
              IsStream(f.file, f.leaves, at)

ASSUME NilAssumption == Nil \notin Returns \cup Savers \cup GoneSavers \cup Loaders \cup NoLoaders

VARIABLES
    tree,        \* the tree to be saved
    sv,          \* the TreeSaver
    buf, file,   \* tokens on their way, and in the file
    whole,       \* has the file been closed with all that was written?
    saved,       \* the leaves encoded into the stream until it was closed
    ld,          \* the TreeLoader
    loaded       \* its tree

vars == <<tree, sv, buf, file, whole, saved, ld, loaded>>

SaverVars  == <<sv, buf, file, whole, saved>>
LoaderVars == <<ld, loaded>>

-----------------------------------------------------------------------------
(* Saving *)

\* Mutant of PreSavePanics: a case of the switch is missing.
PreSavePanicsBsv(lf) == lf.vkind \in {"other", "bsv"}

\* Leaf.PreSaveHook panics on the types of Value that it does not know.
PreSavePanics(lf) == lf.vkind = "other"

\* Mutant of Hooked: an empty value is taken for none.
HookedNonEmpty(k, lf) ==
    [Key |-> k, Keybyte |-> lf.Keybyte,
     XTyp |-> IF lf.value = 0 THEN lf.XTyp ELSE 0,
     X    |-> IF lf.value = 0 THEN lf.X ELSE lf.value]

\* Leaf.PreSaveHook: the bytes of Value go to X; a nil Value leaves X alone.
Hooked(k, lf) ==
    [Key |-> k, Keybyte |-> lf.Keybyte,
     XTyp |-> IF lf.vkind = "nil" THEN lf.XTyp ELSE 0,
     X    |-> IF lf.vkind = "nil" THEN lf.X ELSE lf.value]

\* The header: the tree itself without its leaves, as a length-delimited slice.
TreeHeader == <<"bin", MarshalMsg(TreeType, ZeroOf(TreeType))>>

\* Writing fails from some point on: part of what is on its way gets through.
WriteFails ==
    /\ \E n \in 0 .. (IF sv.broken \/ sv.closed THEN 0 ELSE Len(buf')) :
          file' = file \o SubSeq(buf', 1, n)
    /\ UNCHANGED whole

NewTreeSaver ==
    /\ sv = Nil /\ ld = Nil
    /\ \/ /\ sv' = [pc |-> "idle", cursor |-> 0, numLeafWrit |-> 0, ret |-> Nil,
                    closed |-> FALSE, broken |-> FALSE, saves |-> 0, flushes |-> 0]
          /\ file' = << <<"magic", 0>> >>
          /\ buf' = <<TreeHeader>>
          /\ UNCHANGED whole
       \/ /\ sv' = [pc |-> "gone", ret |-> "error", numLeafWrit |-> 0]
          /\ UNCHANGED <<file, buf, whole>>
    /\ UNCHANGED <<tree, saved, LoaderVars>>

\* Save takes the mutex and makes an iterator.
SaveBegin ==
    /\ sv # Nil /\ sv.pc = "idle" /\ ld = Nil
    /\ sv.saves < MaxSaves
    /\ sv' = [sv EXCEPT !.pc = "saving", !.cursor = 0, !.ret = Nil, !.saves = @ + 1]
    /\ UNCHANGED <<tree, buf, file, whole, saved, LoaderVars>>

\* The keys the iterator has yet to return: it starts above the empty key.
Ahead == {k \in DOMAIN tree : k > sv.cursor}
NextKey == CHOOSE k \in Ahead : \A j \in Ahead : k <= j

\* iterator.TheLeaf is nil in a tree of one leaf.
TheLeafIsNil == Cardinality(DOMAIN tree) = 1

\* A turn of the loop in Save: EncodeMsg of the next leaf, which may panic (the
\* deferred Unlock runs), or fail.  PreSaveHook changes the leaf in the tree.
SaveLeaf ==
    /\ sv # Nil /\ sv.pc = "saving" /\ Ahead # {}
    /\ LET k  == NextKey
           z  == Hooked(k, tree[k])
           on == [sv EXCEPT !.numLeafWrit = @ + 1, !.cursor = k]
       IN  IF TheLeafIsNil \/ PreSavePanics(tree[k])
           THEN /\ sv' = [on EXCEPT !.pc = "idle", !.ret = "panic"]
                /\ UNCHANGED <<tree, buf, file, whole, saved>>
           ELSE /\ tree' = [tree EXCEPT ![k].XTyp = z.XTyp, ![k].X = z.X]
                /\ buf' = buf \o EncodeMsg(LeafType, z)
                /\ saved' = IF sv.closed THEN saved ELSE Append(saved, z)
                /\ \/ /\ sv' = on
                      /\ UNCHANGED <<file, whole>>
                   \/ /\ WriteFails
                      /\ sv' = [on EXCEPT !.pc = "idle", !.ret = "error", !.broken = TRUE]
    /\ UNCHANGED LoaderVars

\* Mutant of SaveEnd: the s2.Writer is flushed and not closed.
SaveEndOpen ==
    /\ sv # Nil /\ sv.pc = "saving" /\ Ahead = {}
    /\ \/ /\ ~sv.broken /\ (sv.closed => buf = <<>>)
          /\ file' = file \o buf
          /\ buf' = <<>>
          /\ whole' = TRUE
          /\ sv' = [sv EXCEPT !.pc = "idle", !.ret = "ok"]
       \/ /\ sv.broken \/ buf # <<>> \/ ~sv.closed
          /\ sv' = [sv EXCEPT !.pc = "idle", !.ret = "error", !.broken = TRUE]
          /\ buf' = buf
          /\ WriteFails
    /\ UNCHANGED <<tree, saved, LoaderVars>>

\* The end of Save: msgp.Writer.Flush, then s2.Writer.Close.  A closed or broken
\* s2.Writer takes nothing more.
SaveEnd ==
    /\ sv # Nil /\ sv.pc = "saving" /\ Ahead = {}
    /\ \/ /\ ~sv.broken /\ (sv.closed => buf = <<>>)
          /\ file' = file \o buf
          /\ buf' = <<>>
          /\ whole' = TRUE
          /\ sv' = [sv EXCEPT !.pc = "idle", !.ret = "ok", !.closed = TRUE]
       \/ /\ sv.broken \/ buf # <<>> \/ ~sv.closed
          /\ sv' = [sv EXCEPT !.pc = "idle", !.ret = "error", !.broken = TRUE]
          /\ buf' = buf
          /\ WriteFails
    /\ UNCHANGED <<tree, saved, LoaderVars>>

\* TreeSaver.Flush, which waits for the mutex: msgp.Writer.Flush, then
\* s2.Writer.Flush, on a writer that may be closed or broken already.
Flush ==
    /\ sv # Nil /\ sv.pc = "idle" /\ ld = Nil
    /\ sv.flushes < MaxFlush
    /\ \/ /\ ~sv.broken /\ (sv.closed => buf = <<>>)
          /\ sv' = [sv EXCEPT !.flushes = @ + 1]
          /\ file' = file \o buf
          /\ buf' = <<>>
          /\ UNCHANGED whole
       \/ /\ sv.broken \/ buf # <<>> \/ ~sv.closed
          /\ sv' = [sv EXCEPT !.flushes = @ + 1, !.broken = TRUE]
          /\ buf' = buf
          /\ WriteFails
    /\ UNCHANGED <<tree, saved, LoaderVars>>

\* The saving program stops; the file has what got through until then.
Crash ==
    /\ sv # Nil /\ sv.pc # "gone" /\ ld = Nil
    /\ sv' = [pc |-> "gone", ret |-> sv.ret, numLeafWrit |-> sv.numLeafWrit]
    /\ \E n \in 0 .. (IF sv.broken \/ sv.closed THEN 0 ELSE Len(buf)) :
          file' = file \o SubSeq(buf, 1, n)
    /\ buf' = <<>>
    /\ UNCHANGED <<tree, whole, saved, LoaderVars>>

-----------------------------------------------------------------------------
(* Loading.  The loader reads tokens from src at position at; while it     *)
(* decodes the header, src is the content of the slice and the rest of the *)
(* file waits.                                                             *)

\* The result of a read where there is no token: the end of a file that was
\* closed is io.EOF; where a file was cut, the readers below report io.EOF or
\* another error.
EndErrors == IF whole THEN {"EOF"} ELSE {"EOF", "cut"}

Loading == ld # Nil /\ ld.pc # "end"
AtEnd == ld.at > Len(ld.src)
Token == ld.src[ld.at]

\* NewTreeLoader up to the header, and the errors on the way.
NewTreeLoader ==
    /\ ld = Nil
    /\ sv # Nil => sv.pc # "saving"
    /\ LET hdr == IF Len(file) >= 2 THEN file[2][2] ELSE <<>>
       IN  \/ /\ Len(file) >= 2
              /\ ld' = [pc |-> "fields", src |-> hdr, at |-> 2, n |-> 0, ret |-> Nil,
                        d |-> StartFields(TreeType, FieldCount(hdr, 1), hdr[1][1] = "nil")]
           \/ /\ Len(file) < 2
              /\ ld' = [pc |-> "end", n |-> 0, ret |-> "error"]
    /\ loaded' = <<>>
    /\ UNCHANGED <<tree, SaverVars>>

\* Mutant of Ends: io.EOF is tried again.
EndsAgain(err) ==
    ld' = IF err = "EOF" THEN [ld EXCEPT !.pc = "leaf"]
          ELSE [ld EXCEPT !.pc = "end", !.ret = "error"]

\* Load ends with what the reader said: io.EOF is the end, even within a leaf.
Ends(err) ==
    ld' = [ld EXCEPT !.pc = "end", !.ret = IF err = "EOF" THEN "ok" ELSE "error"]

\* Load decodes the next leaf: a map header, or a nil for the whole struct.
LeafBegin ==
    /\ Loading /\ ld.pc = "leaf"
    /\ \/ AtEnd /\ \E err \in EndErrors : Ends(err)
       \/ /\ ~AtEnd
          /\ ld' = [ld EXCEPT !.pc = "fields", !.at = @ + 1,
                      !.d = StartFields(LeafType, FieldCount(ld.src, ld.at), Token[1] = "nil")]
    /\ UNCHANGED <<tree, SaverVars, loaded>>

\* A turn of the decoding loop that reads the name and the value of a field, or
\* finds the stream cut.
FieldTurn ==
    /\ Loading /\ ld.pc = "fields" /\ ld.d.left > 0
    /\ \/ /\ ld.at < Len(ld.src)
          /\ ld' = [ld EXCEPT !.d = EncodedTurn(@, Token[2], ld.src[ld.at + 1][2]),
                              !.at = @ + 2]
       \/ ld.at >= Len(ld.src) /\ \E err \in EndErrors : Ends(err)
    /\ UNCHANGED <<tree, SaverVars, loaded>>

\* A turn that fills in a missing field.
NilTurn ==
    /\ Loading /\ ld.pc = "fields" /\ ld.d.left = 0 /\ ~LoopEnds(ld.d)
    /\ FirstMissing(ld.d) < maxFields(ld.d.type)
    /\ ld' = [ld EXCEPT !.d = MissingTurn(@)]
    /\ UNCHANGED <<tree, SaverVars, loaded>>

\* The decoded leaf with its Value as PostLoadHook makes it.
PostLoaded(z) ==
    [vkind |-> "bsv", value |-> z.X, XTyp |-> z.XTyp, X |-> z.X]

\* The end of the loop for the header: on with the leaves.  For a leaf:
\* PostLoadHook, which knows one XTyp only, and InsertLeaf.
LoopEnd ==
    /\ Loading /\ ld.pc = "fields" /\ ld.d.left = 0
    /\ LoopEnds(ld.d) \/ FirstMissing(ld.d) = maxFields(ld.d.type)
    /\ LET d == LeaveStruct(IF LoopEnds(ld.d) THEN ld.d ELSE NoneMissing(ld.d))
       IN  IF d.type = TreeType
           THEN /\ ld' = [ld EXCEPT !.pc = "leaf", !.d = d, !.src = file, !.at = 3]
                /\ UNCHANGED loaded
           ELSE IF d.z.XTyp # 0
           THEN /\ ld' = [ld EXCEPT !.pc = "end", !.ret = "panic", !.d = d]
                /\ UNCHANGED loaded
           ELSE /\ loaded' = [k \in DOMAIN loaded \cup {d.z.Key} |->
                                IF k = d.z.Key THEN PostLoaded(d.z) ELSE loaded[k]]
                /\ ld' = [ld EXCEPT !.pc = "leaf", !.d = d, !.n = @ + 1]
    /\ UNCHANGED <<tree, SaverVars>>

LoadStep == LeafBegin \/ FieldTurn \/ NilTurn \/ LoopEnd

-----------------------------------------------------------------------------
Trees == UNION {[S -> Leaves] : S \in SUBSET Keys}

Init ==
    /\ \/ /\ tree \in Trees
          /\ file = <<>> /\ saved = <<>> /\ whole = FALSE
       \/ \E f \in Foreign :
             /\ tree = Nil
             /\ file = f.file /\ saved = f.leaves /\ whole = TRUE
    /\ sv = IF file = <<>> THEN Nil ELSE [pc |-> "gone", ret |-> Nil, numLeafWrit |-> 0]
    /\ buf = <<>>
    /\ ld = Nil /\ loaded = <<>>

Next ==
    \/ NewTreeSaver \/ SaveBegin \/ SaveLeaf \/ SaveEnd \/ Flush \/ Crash
    \/ NewTreeLoader \/ LoadStep

\* A Load that has begun goes on: it waits for nothing but the file.
Spec == Init /\ [][Next]_vars /\ WF_vars(LoadStep)

-----------------------------------------------------------------------------
\* The type invariant; the counters of the decoder stay within a uint32.
TypeOK ==
    /\ tree # Nil => DOMAIN tree \in SUBSET Keys /\ tree \in [DOMAIN tree -> LeafRecords]
    /\ sv \in Savers \cup GoneSavers \cup {Nil}
    /\ buf \in Seq(Tokens) /\ file \in Seq(Tokens)
    /\ whole \in BOOLEAN
    /\ saved \in Seq(EncodedLeaves)
    /\ ld \in Loaders \cup NoLoaders \cup {Nil}

\* The keys of the first n leaves of the stream, and the last of them with key k.
KeysUpTo(n) == {saved[i].Key : i \in 1 .. n}
LastWith(k, n) ==
    LET at == {i \in 1 .. n : saved[i].Key = k}
    IN  saved[CHOOSE i \in at : \A j \in at : j <= i]

\* Wherever the file ends, whatever fields another version left out or added,
\* the tree of the loader holds the first leaves of the stream with their own
\* bytes: no leaf is taken apart, mixed with its neighbour or made up; and a
\* Load of a complete file that returns without error has them all.
LoadedPrefix ==
    ld # Nil =>
        /\ ld.n <= Len(saved)
        /\ DOMAIN loaded = KeysUpTo(ld.n)
        /\ \A k \in DOMAIN loaded : loaded[k].value = LastWith(k, ld.n).X
        /\ whole /\ ld.ret = "ok" => ld.n = Len(saved)

\* What a leaf stands for: the bytes of its Value, or X if it has none.
BytesOf(lf) == IF lf.vkind = "nil" THEN lf.X ELSE lf.value

\* If Save and Load both report success the loaded tree has the keys of the saved
\* one with the same bytes, now of type ByteSliceValue; only the empty key is
\* lost, which the iterator behind Save does not return.
RoundTrip ==
    tree # Nil /\ whole /\ ld # Nil => (ld.ret = "ok" =>
        /\ DOMAIN loaded = DOMAIN tree \ {0}
        /\ \A k \in DOMAIN loaded :
              loaded[k].vkind = "bsv" /\ loaded[k].value = BytesOf(tree[k]))

\* Save returns nil only if it wrote every leaf with a key; it panics only on a
\* tree of one leaf, for which the iterator gives no leaf, or on a Value of a
\* type that PreSaveHook does not know.  Load panics only on an XTyp that
\* PostLoadHook does not know.
PanicsExplained ==
    /\ sv # Nil /\ tree # Nil =>
        /\ sv.ret = "ok" => sv.numLeafWrit = Cardinality(DOMAIN tree \ {0})
        /\ sv.ret = "panic" => \/ Cardinality(DOMAIN tree) = 1 /\ 0 \notin DOMAIN tree
                               \/ \E k \in DOMAIN tree \ {0} : tree[k].vkind = "other"
    /\ ld # Nil => (ld.ret = "panic" => \E i \in DOMAIN saved : saved[i].XTyp # 0)

\* The reader gives nils only while a struct lacks fields: PushAlwaysNil and
\* PopAlwaysNil are balanced at the end of every struct, or all that follows
\* would read as nil.
NilsBalanced == Loading => (ld.pc = "leaf" => ld.d.nils = 0)

\* Once Save has returned nil, no later call of Save or Flush changes the file.
ClosedFileStays == [][whole => UNCHANGED file]_vars

\* Load returns: its loop ends at the end of the file, and the loops of the
\* decoders end though missingFieldsLeft may have wrapped around.
LoadReturns == Loading ~> ~Loading

=============================================================================
