------------------------------ MODULE MCSaver ------------------------------
(***************************************************************************)
(* An instance of Saver for TLC.                                           *)
(***************************************************************************)
EXTENDS Saver

MCKeys == {0, 1, 2}

Lf(vkind, value, XTyp, X, Keybyte) ==
    [vkind |-> vkind, value |-> value, XTyp |-> XTyp, X |-> X, Keybyte |-> Keybyte]

\* Values of all types, empty and not, X without a Value, an XTyp of the
\* application, X left over from an earlier save.
MCLeaves == { Lf("bytes", 1, 0, 0, 1), Lf("bsv", 0, 0, 2, 0), Lf("nil", 0, 0, 2, 1),
              Lf("nil", 0, 1, 2, 0), Lf("other", 0, 0, 0, 1) }

-----------------------------------------------------------------------------
(* Files of other versions of the program *)

Z(Key, Keybyte, X) == [Key |-> Key, Keybyte |-> Keybyte, XTyp |-> 0, X |-> X]

\* A struct with u fields the decoder does not know in front.
WithUnknown(type, z, u) ==
    << <<"map", u + Cardinality(fieldsNotEmpty(type, z))>> >>
    \o [t \in 1 .. 2 * u |-> IF t % 2 = 1 THEN <<"key", "new">> ELSE <<"val", 7>>]
    \o FieldTokens(type, z)

File(header, leaves) == << <<"magic", 0>>, <<"bin", header>> >> \o leaves

MCForeign ==
    { [file |-> File(WithUnknown(TreeType, ZeroOf(TreeType), h),
                     WithUnknown(LeafType, y, u) \o WithUnknown(LeafType, z, v)),
       leaves |-> <<y, z>>] :
         h \in {0, 4}, u \in {0, 2, 5}, v \in {1, 3},
         y \in {Z(1, 1, 2), Z(0, 0, 1)}, z \in {Z(1, 0, 0), Z(2, 1, 1)} }
    \cup
    { [file |-> File(h, << <<"nil", 0>> >> \o EncodeMsg(LeafType, z)),
       leaves |-> <<Z(0, 0, 0), z>>] :
         h \in {MarshalMsg(TreeType, ZeroOf(TreeType)), << <<"nil", 0>> >>},
         z \in {Z(1, 0, 0), Z(2, 1, 1)} }

=============================================================================
