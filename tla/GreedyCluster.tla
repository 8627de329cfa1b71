---------------------------- MODULE GreedyCluster ----------------------------
(***************************************************************************)
(* What one call of bruteForceCluster (src/training/clustering/) promises, *)
(* without its threads: the blocks of todo are taken in order, and each    *)
(* joins the cluster of its nearest representative if that one is within   *)
(* the threshold and opens a cluster of its own otherwise.  The fine       *)
(* program searches every representative (exact); the coarse one only a    *)
(* prefix of them, whose length depends on the schedule.                   *)
(***************************************************************************)
EXTENDS ClusterOps

-----------------------------------------------------------------------------
VARIABLES exact,      \* every representative is searched
          threshold,
          todo,       \* the blocks of this call
          cluster,    \* the clusters so far
          placed      \* how many blocks of todo have been placed

gvars == <<exact, threshold, todo, cluster, placed>>

GInit ==
    /\ exact \in BOOLEAN
    /\ threshold \in 0..(INF - 1)
    /\ todo \in Seq(Blocks)
    /\ cluster \in Clusters
    /\ placed = 0

GPlace ==
    /\ placed < Len(todo)
    /\ \E k \in IF exact THEN {Len(cluster)}
                         ELSE 0..(Len(cluster) \div 2^CoarseShift) :
          LET u == todo[placed + 1]
          IN  cluster' = Placed(cluster, u, Scan(u, Reps(cluster), 1, k, NoBest),
                                threshold)
    /\ placed' = placed + 1
    /\ UNCHANGED <<exact, threshold, todo>>

\* The next call, on whatever the caller passes.
GCall ==
    /\ placed = Len(todo)
    /\ exact' \in BOOLEAN
    /\ threshold' \in 0..(INF - 1)
    /\ todo' \in Seq(Blocks)
    /\ cluster' \in Clusters
    /\ placed' = 0

GNext == GPlace \/ GCall

GSpec == GInit /\ [][GNext]_gvars
=============================================================================
