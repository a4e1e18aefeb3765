------------------------------- MODULE ArtKey -------------------------------
(***************************************************************************)
(* Keys and compressed prefixes (node.go, inner.go): sequences of bytes,   *)
(* what two of them share, and their order.                                *)
(***************************************************************************)
EXTENDS Integers, Sequences, FiniteSetsExt

CONSTANTS
    Cap4, Cap16, Cap48,   \* capacities of node4, node16 and node48
    MaxByte,              \* the largest byte, 255 in the code
    Nil                   \* the nil pointer

ASSUME CapsAssumption ==
    /\ {Cap4, Cap16, Cap48, MaxByte} \subseteq Nat
    /\ 2 <= Cap4 /\ Cap4 < Cap16 /\ Cap16 < Cap48 /\ Cap48 <= MaxByte

Byte == 0 .. MaxByte

\* Mutant of At: the last byte stands for those beyond the end.
AtClamp(key, pos) == IF pos < Len(key) THEN key[pos + 1]
                     ELSE IF key = <<>> THEN 0 ELSE key[Len(key)]

\* Key.At: the byte at a position, 0 beyond the end of the key.
At(key, pos) == IF pos < Len(key) THEN key[pos + 1] ELSE 0

\* What is left of key after depth bytes.
From(key, depth) == SubSeq(key, depth + 1, Len(key))

\* The loop that compares two byte slices: how many bytes they share.
Shared(a, b) ==
    Max({m \in 0 .. Min({Len(a), Len(b)}) : \A i \in 1 .. m : a[i] = b[i]})

\* comparePrefix: how many bytes two keys share from depth on.
comparePrefix(k1, k2, depth) == Shared(From(k1, depth), From(k2, depth))

\* compressedMismatch: the first index at which the compressed prefix and the
\* key differ.  It is negative when depth is beyond the end of the key.
compressedMismatch(n, key, depth) ==
    LET rest == Len(key) - depth
    IN  IF rest < 0 THEN rest ELSE Shared(n.compressed, From(key, depth))

\* checkCompressed: does the key, as far as it goes, agree with the prefix?
checkCompressed(n, key, depth) ==
    LET maxCmp == Min({Len(n.compressed), Len(key) - depth})
    IN  \A i \in 1 .. maxCmp : n.compressed[i] = key[depth + i]

\* bytes.Compare: lexicographic order, a prefix before its extensions.
Less(a, b) ==
    LET m == Shared(a, b)
    IN  m < Len(b) /\ (m = Len(a) \/ a[m + 1] < b[m + 1])

Compare(a, b) == CASE a = b -> 0 [] Less(a, b) -> -1 [] OTHER -> 1

=============================================================================
