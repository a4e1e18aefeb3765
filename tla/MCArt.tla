------------------------------- MODULE MCArt -------------------------------
(***************************************************************************)
(* Instances of Art for TLC.                                               *)
(***************************************************************************)
EXTENDS ArtDocs

\* Six children of the root, with a gap below the largest bytes; keys that are
\* prefixes of others, and compressed paths of several bytes.
MCKeys ==
    {<<0>>, <<1>>, <<1, 1, 1>>, <<1, 1, 1, 2>>, <<2, 2>>, <<3>>, <<5, 1>>, <<6>>}

\* Queries that are stored keys, end within a compressed path, leave it on either
\* side, or go beyond a leaf.
MCQueries ==
    MCKeys \cup
    {<<>>, <<0, 1>>, <<1, 0, 5>>, <<1, 1>>, <<1, 1, 0>>, <<1, 1, 2>>, <<1, 1, 1, 1>>,
     <<1, 1, 1, 3>>, <<1, 2>>, <<2>>, <<2, 3>>, <<4>>, <<5>>, <<5, 2>>, <<6, 1>>}

\* A handful of keys for the runs about a single operation or value: a prefix of
\* another, a compressed path, and three children of the root.
MCFewKeys == {<<1, 1>>, <<1, 1, 2>>, <<2>>, <<3>>}
MCFewQueries == {<<1>>, <<4>>}

\* Keys that are told apart only by a byte 0 after their end.
MCZeroKeys == {<<1>>, <<1, 0>>, <<2>>}

=============================================================================
