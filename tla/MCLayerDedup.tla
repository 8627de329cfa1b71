---------------------------- MODULE MCLayerDedup ----------------------------
(***************************************************************************)
(* Small instances of LayerDedup for TLC.                                  *)
(***************************************************************************)
EXTENDS LayerDedupInv

CONSTANTS s1, s2, r1, r2, A, B, x, y, z

P(s, r, l) == [srv |-> s, repo |-> r, layer |-> l, n |-> 1]

\* A has a whole and a short chunk; B is the whole chunk of A.
ContentAB == [l \in {A, B} |-> IF l = A THEN <<x, y, z>> ELSE <<x, y>>]
\* A shrinks when it is compressed, B does not: F-mode gives up on A only.
SizeAB == [l \in {A, B} |-> 2]
\* Neither layer shrinks.
SizeFlat == [l \in {A, B} |-> 3]

\* One server: A pushed to two repositories.
PushesAA == {P(s1, r1, A), P(s1, r2, A)}
\* One server: A and B pushed to one repository.
PushesAB == {P(s1, r1, A), P(s1, r1, B)}
=============================================================================
