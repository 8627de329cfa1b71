----------------------------- MODULE Clustering -----------------------------
(***************************************************************************)
(* The two programs that label the training data, run one after the other  *)
(* (README.md, "Method 2"): coarse clusters the unique blocks of a file    *)
(* and writes a log, fine reads the log and splits each cluster.  Both     *)
(* call bruteForceCluster, whose threads are in BruteForceCluster.         *)
(*                                                                         *)
(* In fine, max_elem (fine_xdelta3.cpp:76) starts at -1 and the macro max  *)
(* of xdelta3.h compares it with a size_t, so it stays -1 and chooseRep    *)
(* never uses its threads: only its sequential branch is modelled.         *)
(***************************************************************************)
EXTENDS BruteForceCluster, SequencesExt

CONSTANTS Hash,          \* XXH64 of each block of the trace
          Lz4,           \* size of each block on its own
          COARSE_T,      \* threshold of coarse
          SampleLimit,   \* 1000: larger clusters are sampled for their new
                         \* representative
          FineStep,      \* fine tries FineStep, 2 * FineStep, ... up to
          FineMax        \* FineMax

ASSUME TraceAssumption ==
    /\ IsFiniteSet(Blocks) /\ Blocks = 1..Cardinality(Blocks)
    /\ DOMAIN Hash = Blocks
    /\ Lz4 \in [Blocks -> Nat]
    /\ COARSE_T \in 0..(INF - 1)
    /\ {FineStep, FineMax} \subseteq 1..(INF - 1)

VARIABLES stage,     \* which part of which main() is running
          log,       \* the numbers coarse prints
          unread,    \* what fine has not read of them
          members,   \* unique_list of fine: the cluster it splits
          optimal, ans,
          singles,   \* what fine prints on stdout
          fineLog    \* the numbers fine prints to its log

pvars == <<stage, log, unread, members, optimal, ans, singles, fineLog>>
vars == <<bvars, pvars>>

\* The loops "sum += ..." and "if (...) push_back(...)" over a sequence.
Total(sizes) ==
    LET upTo[n \in 0..Len(sizes)] == IF n = 0 THEN 0 ELSE upTo[n - 1] + sizes[n]
    IN  upTo[Len(sizes)]
Kept(s, S) ==
    LET upTo[n \in 0..Len(s)] == IF n = 0 THEN <<>>
                                 ELSE IF s[n] \in S THEN Append(upTo[n - 1], s[n])
                                 ELSE upTo[n - 1]
    IN  upTo[Len(s)]

\* The blocks whose hash did not occur before.
UniqueList == Kept([b \in Blocks |-> b],
                   {b \in Blocks : \A c \in 1..(b - 1) : Hash[c] # Hash[b]})

\* print_cluster: each cluster's size, then its blocks.
Printed(cl) == FlattenSeq([k \in DOMAIN cl |-> <<Len(cl[k])>> \o cl[k]])

-----------------------------------------------------------------------------
Init ==
    /\ exact = FALSE
    /\ threshold = COARSE_T
    /\ todo = UniqueList
    /\ cluster = <<>>
    /\ rep_list = <<>>
    /\ produceQ = [k \in 1..LeastOf(MAX_QSIZE, Len(todo)) |-> k]
    /\ resultQ = {}
    /\ i = 0
    /\ now = NoResult
    /\ job = [w \in Workers |-> Idle]
    /\ pc = "wait"
    /\ stage = "coarse"
    /\ log = <<>> /\ unread = <<>> /\ members = <<>>
    /\ optimal = INF /\ ans = <<>>
    /\ singles = {} /\ fineLog = <<>>

\* A step of the call in progress.
ClusterStep == BNext /\ UNCHANGED pvars

\* For each block of cl, the sum of its deltas against all of them; own[u] is
\* what counts for u itself.
DeltaSums(cl, own) ==
    [a \in DOMAIN cl |->
        Total([b \in DOMAIN cl |-> IF cl[a] = cl[b] THEN own[cl[a]] ELSE Dist[cl[a]][cl[b]]])]

\* The first block of cl among those of tried with the least sum.
LeastSum(cl, tried, sums) ==
    LET best(a) == \A b \in DOMAIN cl : cl[b] \in tried =>
                      /\ sums[a] <= sums[b]
                      /\ sums[a] = sums[b] => a <= b
    IN  cl[CHOOSE a \in DOMAIN cl : cl[a] \in tried /\ best(a)]

\* The representatives move to clusters of their own, the rest to todo.
Others(cl, reps) ==
    FlattenSeq([k \in DOMAIN cl |-> Kept(cl[k], ToSet(cl[k]) \ {reps[k]})])

Regroup(reps, threshold_) ==
    Call(Others(cluster, reps), [k \in DOMAIN reps |-> <<reps[k]>>], threshold_)

\* Between the two calls of coarse: in each cluster the block whose deltas
\* against the members are smallest in sum becomes the representative.  In a
\* cluster of more than SampleLimit blocks each is tried or skipped at
\* random; some block is always tried.
CoarseAgain ==
    /\ stage = "coarse" /\ pc = "return"
    /\ exact' = exact
    /\ LET large == {k \in DOMAIN cluster : Len(cluster[k]) > SampleLimit}
           all == {ToSet(cluster[k]) : k \in large}
       IN  \E tried \in SUBSET UNION all :
              /\ \A c \in all : tried \cap c # {}
              /\ Regroup([k \in DOMAIN cluster |->
                    LeastSum(cluster[k],
                             IF k \in large THEN tried ELSE ToSet(cluster[k]),
                             DeltaSums(cluster[k], [u \in Blocks |-> Dist[u][u]]))],
                    COARSE_T)
    /\ stage' = "coarse again"
    /\ UNCHANGED <<log, unread, members, optimal, ans, singles, fineLog>>

\* coarse prints its log and ends; fine starts and opens the log.
CoarseEnd ==
    /\ stage = "coarse again" /\ pc = "return"
    /\ log' = Printed(cluster)
    /\ unread' = log'
    /\ stage' = "fine read"
    /\ UNCHANGED <<bvars, members, optimal, ans, singles, fineLog>>

-----------------------------------------------------------------------------
FineRead ==
    /\ stage = "fine read"
    /\ unread # <<>>
    /\ LET sz == Head(unread)
           list == SubSeq(unread, 2, sz + 1)
       IN  /\ unread' = SubSeq(unread, sz + 2, Len(unread))
           /\ IF sz = 1
              THEN /\ singles' = singles \cup {list[1]}
                   /\ UNCHANGED <<bvars, stage, members, optimal, ans>>
              ELSE /\ members' = list
                   /\ optimal' = INF
                   /\ ans' = <<>>
                   /\ exact' = TRUE
                   /\ Call(list, <<>>, FineStep)
                   /\ stage' = "fine first"
                   /\ UNCHANGED singles
    /\ UNCHANGED <<log, fineLog>>

\* chooseRep, which leaves a block's delta against itself out of the sum,
\* and bruteForceCluster: two epochs of them.
FineEpoch ==
    /\ stage \in {"fine first", "fine epoch"} /\ pc = "return"
    /\ exact' = exact
    /\ Regroup([k \in DOMAIN cluster |->
          LeastSum(cluster[k], ToSet(cluster[k]),
                   DeltaSums(cluster[k], [u \in Blocks |-> 0]))],
          threshold)
    /\ stage' = IF stage = "fine first" THEN "fine epoch" ELSE "fine last"
    /\ UNCHANGED <<log, unread, members, optimal, ans, singles, fineLog>>

\* lz4_sum: the representatives on their own, and the delta of the
\* representative against each member.
StoredSize(cl) ==
    Total([k \in DOMAIN cl |->
              Lz4[cl[k][1]] + Total([n \in 1..(Len(cl[k]) - 1) |-> Dist[cl[k][1]][cl[k][n + 1]]])])

\* Mutant: the clusters are printed only when the last round was the best.
FineJudgeOmits ==
    /\ stage = "fine last" /\ pc = "return"
    /\ LET sum == StoredSize(cluster)
           better == sum < optimal
           more == sum <= optimal /\ threshold + FineStep <= FineMax
       IN  /\ optimal' = IF better THEN sum ELSE optimal
           /\ ans' = IF better THEN cluster ELSE ans
           /\ IF more
              THEN /\ exact' = exact
                   /\ Call(members, <<>>, threshold + FineStep)
                   /\ stage' = "fine first"
                   /\ UNCHANGED fineLog
              ELSE /\ fineLog' = IF better THEN fineLog \o Printed(ans') ELSE fineLog
                   /\ stage' = "fine read"
                   /\ UNCHANGED bvars
    /\ UNCHANGED <<log, unread, members, singles>>

\* The clustering is kept if it is smaller; a larger one ends the search, as
\* does the last threshold.
FineJudge ==
    /\ stage = "fine last" /\ pc = "return"
    /\ LET sum == StoredSize(cluster)
           better == sum < optimal
           more == sum <= optimal /\ threshold + FineStep <= FineMax
       IN  /\ optimal' = IF better THEN sum ELSE optimal
           /\ ans' = IF better THEN cluster ELSE ans
           /\ IF more
              THEN /\ exact' = exact
                   /\ Call(members, <<>>, threshold + FineStep)
                   /\ stage' = "fine first"
                   /\ UNCHANGED fineLog
              ELSE /\ fineLog' = fineLog \o Printed(ans')
                   /\ stage' = "fine read"
                   /\ UNCHANGED bvars
    /\ UNCHANGED <<log, unread, members, singles>>

FineEnd ==
    /\ stage = "fine read"
    /\ unread = <<>>
    /\ stage' = "end"
    /\ UNCHANGED <<bvars, log, unread, members, optimal, ans, singles, fineLog>>

MainNext == CoarseAgain \/ CoarseEnd \/ FineRead \/ FineEpoch \/ FineJudge \/ FineEnd
Next == ClusterStep \/ MainNext

Spec == Init /\ [][Next]_vars

\* Main and every worker keep running; a thread that keeps trying gets the
\* mutex in the end.
Fairness ==
    /\ WF_vars(MainStep /\ UNCHANGED pvars)
    /\ WF_vars(MainNext)
    /\ \A w \in Workers : WF_vars(WorkerStep(w) /\ UNCHANGED pvars)

FairSpec == Spec /\ Fairness
-----------------------------------------------------------------------------
placed == IF pc = "refill" THEN i + 1 ELSE i

\* One call after another does what the sequential algorithm does, whatever
\* the threads do in between: in fine every block meets every representative
\* of the blocks before it, in coarse a prefix of them.
SequentialClustering == G!GSpec

\* While blocks move between todo, the threads and the clusters none is lost
\* or placed twice.
EachBlockOnce ==
    LET all == FlattenSeq(cluster) \o SubSeq(todo, placed + 1, Len(todo))
    IN  ToSet(all) = ToSet(IF exact THEN members ELSE UniqueList)
        /\ IsInjective(all)

\* A block is in a cluster of another only if its delta against the
\* representative is within the threshold of the call.
WithinThreshold ==
    \A c \in ToSet(cluster) : \A k \in 2..Len(c) : Dist[c[k]][c[1]] <= threshold

\* The blocks handed out and not yet placed never exceed MAX_QSIZE.
WindowBounded ==
    pc \in {"wait", "place", "refill"} =>
        Len(produceQ) + Cardinality({w \in Workers : job[w].at = "comparing"})
            + Cardinality(resultQ) <= MAX_QSIZE

\* The blocks a log of numbers holds: a size says how many blocks follow.
LabelsOf(numbers) ==
    LET upTo[n \in 0..Len(numbers)] ==
            IF n = 0 THEN [left |-> 0, seq |-> <<>>]
            ELSE LET acc == upTo[n - 1]
                 IN  IF acc.left = 0 THEN [left |-> numbers[n], seq |-> acc.seq]
                     ELSE [left |-> acc.left - 1, seq |-> Append(acc.seq, numbers[n])]
    IN  upTo[Len(numbers)].seq

\* When fine ends, its log and what it printed hold every block with a new
\* content exactly once.
LabelsComplete ==
    stage = "end" =>
        LET labelled == LabelsOf(fineLog)
        IN  /\ IsInjective(labelled)
            /\ ToSet(labelled) \cap singles = {}
            /\ ToSet(labelled) \cup singles = ToSet(UniqueList)

\* Both programs end.
Labelled == <>(stage = "end")
=============================================================================
