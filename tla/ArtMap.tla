------------------------------- MODULE ArtMap -------------------------------
(***************************************************************************)
(* What the tree promises the callers that change it: a dictionary.  dict  *)
(* is the set of its pairs <<key, value>>, ret is what the last insertion  *)
(* or removal returned.                                                    *)
(***************************************************************************)
CONSTANTS
    Keys,      \* keys inserted or removed
    Values,
    None       \* "no value"

VARIABLES dict, ret

With(k)    == {p \in dict : p[1] = k}
Without(k) == {p \in dict : p[1] # k}

MapInit ==
    /\ dict = {}
    /\ ret = [op |-> "New"]

\* Insert adds the key or replaces its value, and says which.
MapInsert(k, v) ==
    /\ ret' = [op |-> "Insert", updated |-> With(k) # {}]
    /\ dict' = Without(k) \cup {<<k, v>>}

\* Inserting a leaf the tree already holds changes nothing, and is reported
\* as the insertion of a new key.
MapReinsert(k) ==
    /\ ret' = [op |-> "Insert", updated |-> FALSE]
    /\ With(k) # {}
    /\ UNCHANGED dict

\* Remove takes the key out and returns its value.
MapRemove(k) ==
    /\ \E p \in With(k) : ret' = [op |-> "Remove", deleted |-> TRUE, value |-> p[2]]
    /\ dict' = Without(k)

\* Remove of a key that is not there.
MapRemoveAbsent(k) ==
    /\ ret' = [op |-> "Remove", deleted |-> FALSE, value |-> None]
    /\ With(k) = {}
    /\ UNCHANGED dict

MapNext ==
    \E k \in Keys :
        \/ \E v \in Values : MapInsert(k, v)
        \/ MapReinsert(k)
        \/ MapRemove(k)
        \/ MapRemoveAbsent(k)

MapSpec == MapInit /\ [][MapNext]_<<dict, ret>>

=============================================================================
