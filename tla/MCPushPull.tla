------------------------------ MODULE MCPushPull ------------------------------
(***************************************************************************)
(* Small instances of PushPull for TLC.                                    *)
(***************************************************************************)
EXTENDS PushPull, LayerDedupInv

CONSTANTS s1, s2, r1, r2, A, B, x, y, z

Req(s, r, l, n) == [srv |-> s, repo |-> r, layer |-> l, n |-> n]

\* A starts with the whole of B.
ContentAB == [l \in {A, B} |-> IF l = A THEN <<x, y, z>> ELSE <<x, y>>]
\* A ends with the whole of B.
ContentBA == [l \in {A, B} |-> IF l = A THEN <<z, z, x, y>> ELSE <<x, y>>]
\* No layer shrinks when it is compressed.
SizeFlat == [l \in {A, B} |-> 4]
\* A shrinks when it is compressed, B does not: F-mode gives up on A only.
SizeAB == [l \in {A, B} |-> 2]

\* A and B pushed to one repository of one server.
PushesAB == {Req(s1, r1, A, 1), Req(s1, r1, B, 1)}
PushesA == {Req(s1, r1, A, 1)}
\* B pushed to two repositories: both dedups work in the same directory.
PushesBB == {Req(s1, r1, B, 1), Req(s1, r2, B, 1)}
\* A pushed to both servers and B to one.
PushesCluster == {Req(s1, r1, A, 1), Req(s2, r1, A, 1), Req(s1, r1, B, 1)}

GetsAA == {Req(s1, r1, A, 1), Req(s1, r1, A, 2)}
GetsBB == {Req(s1, r1, B, 1), Req(s1, r1, B, 2)}
GetsA == {Req(s1, r1, A, 1)}
GetsAs2 == {Req(s2, r1, A, 1)}
=============================================================================
