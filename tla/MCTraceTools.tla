---------------------------- MODULE MCTraceTools ----------------------------
(***************************************************************************)
(* Small traces: "a" is a block that does not compress on its own, "b" one *)
(* that is close to "a", "c" one that compresses well, and "d" one that is *)
(* close to "c" but no smaller against it than on its own.                 *)
(***************************************************************************)
EXTENDS TraceTools

AllContents == {"a", "b", "c", "d"}
AllTraces == (SeqOf(AllContents, 4) \ {<<>>})
             \cup {<<"a", "a", "b", "b", "c", "a">>, <<"b", "a", "b", "c", "d", "c">>}
SearchedTraces == {<<"a", "b", "a">>, <<"a", "b", "c">>}

Lz4Sizes == [a |-> 9, b |-> 8, c |-> 3, d |-> 4]
DeltaSizes == [a |-> [a |-> 1, b |-> 2, c |-> 9, d |-> 9],
               b |-> [a |-> 2, b |-> 1, c |-> 9, d |-> 7],
               c |-> [a |-> 7, b |-> 7, c |-> 1, d |-> 2],
               d |-> [a |-> 9, b |-> 6, c |-> 4, d |-> 1]]

\* a and b share one super-feature, b and c the other.
Features == [a |-> <<1, 1>>, b |-> <<1, 2>>, c |-> <<3, 2>>, d |-> <<4, 4>>]

\* The sketches of c and d are the same.
Sketches == [a |-> 1, b |-> 2, c |-> 4, d |-> 4]
Distances == [h \in {1, 2, 4} |-> [g \in {1, 2, 4} |-> IF h > g THEN h - g ELSE g - h]]
=============================================================================
