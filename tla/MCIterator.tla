---------------------------- MODULE MCIterator ----------------------------
(***************************************************************************)
(* Instances of Iterator for TLC.                                          *)
(***************************************************************************)
EXTENDS Iterator

\* A node below byte 2 that reaches every kind, and a pair of keys with a prefix
\* of two bytes and last bytes above those of the prefix, for splits that
\* move children behind the iterator.
MCKeys == {<<>>, <<1>>, <<2>>, <<2, 1>>, <<2, 2, 3>>, <<2, 2, 4>>, <<2, 3>>, <<2, 5>>}

MCStarts == { <<>>, << <<1>> >>, << <<2, 2, 3>>, <<2, 2, 4>> >>,
              << <<>>, <<1>>, <<2, 1>>, <<2, 2, 3>>, <<2, 2, 4>> >>,
              << <<1>>, <<2>>, <<2, 1>>, <<2, 2, 3>>, <<2, 2, 4>>, <<2, 3>>, <<2, 5>> >> }

MCRanges == { << <<>>, <<>> >>, << <<1>>, <<2, 3>> >>,
              << <<2, 2>>, <<>> >>, << <<>>, <<2, 2, 4>> >> }

\* The example in the comment on Tree.Iterator, with keys that are no prefixes.
MCDocKeys == {<<1>>, <<2>>, <<3>>}
MCDocStarts == { << <<1>>, <<2>>, <<3>> >> }
MCDocRanges == {<< <<1>>, <<3>> >>}

=============================================================================
