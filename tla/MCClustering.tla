---------------------------- MODULE MCClustering ----------------------------
(***************************************************************************)
(* A small instance of Clustering for TLC.                                 *)
(***************************************************************************)
EXTENDS ClusterInv

\* Ten blocks of a trace at points of a line, the last a copy of the first.
\* The delta of u against v grows with their distance and is one larger when
\* v is to the right of u.
Point == <<0, 6, 1, 5, 12, 2, 7, 3, 13, 0>>
Away(a, b) == IF a >= b THEN a - b ELSE 1 + b - a
MCHash == [b \in 1..10 |-> Point[b]]
MCLz4 == [b \in 1..10 |-> 6]
MCDist == [u \in 1..10 |-> [v \in 1..10 |-> Away(Point[u], Point[v])]]
=============================================================================
