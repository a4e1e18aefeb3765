------------------------------ MODULE ByteMap ------------------------------
(***************************************************************************)
(* What an Inode promises (node.go, interface Inode): a map from bytes to  *)
(* children, Nil where there is none, that survives its changes of         *)
(* representation.  left is the child that remains when a node of two      *)
(* children loses one and is discarded.                                    *)
(***************************************************************************)
EXTENDS Integers

CONSTANTS MaxByte, Child, Nil

VARIABLES map, left

Byte == 0 .. MaxByte

Used == {b \in Byte : map[b] # Nil}

BMInit ==
    /\ \E k1, k2 \in Byte, c1, c2 \in Child :
          /\ k1 # k2
          /\ map = [b \in Byte |-> IF b = k1 THEN c1 ELSE IF b = k2 THEN c2 ELSE Nil]
    /\ left = Nil

BMAdd(k, c) ==
    /\ map[k] = Nil
    /\ map' = [map EXCEPT ![k] = c]
    /\ UNCHANGED left

BMReplace(k, c) ==
    /\ map[k] # Nil
    /\ map' = [map EXCEPT ![k] = c]
    /\ UNCHANGED left

BMRemove(k) ==
    /\ map[k] # Nil
    /\ map' = [map EXCEPT ![k] = Nil]
    /\ UNCHANGED left

BMCollapse(k) ==
    /\ map[k] # Nil
    /\ \E j \in Used \ {k} :
          /\ Used = {j, k}
          /\ left' = map[j]
    /\ map' = [map EXCEPT ![k] = Nil]

BMNext ==
    /\ left = Nil
    /\ \E k \in Byte :
          \/ \E c \in Child : BMAdd(k, c) \/ BMReplace(k, c)
          \/ BMRemove(k)
          \/ BMCollapse(k)

BMSpec == BMInit /\ [][BMNext]_<<map, left>>

=============================================================================
