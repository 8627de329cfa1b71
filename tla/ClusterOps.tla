----------------------------- MODULE ClusterOps -----------------------------
(***************************************************************************)
(* The comparisons and the placing rule the clustering programs of         *)
(* src/training/clustering/ share.                                         *)
(***************************************************************************)
EXTENDS Naturals, Sequences

CONSTANTS Blocks,      \* indices in the trace
          Dist,        \* Dist[u][v]: size do_xdelta3(u, v) returns
          INF,         \* above every size
          CoarseShift  \* the coarse workers search rep_cnt >> CoarseShift

ASSUME DistAssumption ==
    /\ INF \in Nat
    /\ Dist \in [Blocks -> [Blocks -> 0..(INF - 1)]]

ASSUME ShiftAssumption == CoarseShift \in Nat /\ 2^CoarseShift \in Nat \ {0}

\* A comparison result: the smallest size found and the representative with
\* it (0 when there was none below INF).
NoBest == [min |-> INF, ref |-> 0]

\* The loop "if (now < compress_min) ..." over reps[from..to].
Scan(u, reps, from, to, best) ==
    LET better == {j \in from..to : Dist[u][reps[j]] < best.min}
        first(j) == \A l \in better :
                        /\ Dist[u][reps[j]] <= Dist[u][reps[l]]
                        /\ Dist[u][reps[j]] = Dist[u][reps[l]] => j <= l
    IN  IF better = {} THEN best
        ELSE LET j == CHOOSE j \in better : first(j)
             IN  [min |-> Dist[u][reps[j]], ref |-> j]

\* The first element of a cluster is its representative.
Reps(cl) == [j \in DOMAIN cl |-> cl[j][1]]

\* Mutant: a new cluster is opened without its block.
PlacedEmpty(cl, u, best, threshold) ==
    IF best.min <= threshold
    THEN [cl EXCEPT ![best.ref] = Append(@, u)]
    ELSE Append(cl, <<>>)

\* Where block u goes, given the outcome of its comparisons.
Placed(cl, u, best, threshold) ==
    IF best.min <= threshold
    THEN [cl EXCEPT ![best.ref] = Append(@, u)]
    ELSE Append(cl, <<u>>)

Clusters == Seq(Seq(Blocks) \ {<<>>})
=============================================================================
