----------------------------- MODULE ClusterInv -----------------------------
(***************************************************************************)
(* The inductive invariant of bruteForceCluster                            *)
(* (src/training/clustering/), for any caller that passes blocks, clusters *)
(* without an empty one and a threshold below INF.                         *)
(***************************************************************************)
EXTENDS Clustering

\* Main waits for a result, places its block or refills the queue.
Running == pc \in {"wait", "place", "refill"}

\* The workers with a block in hand.
Busy == {w \in Workers : job[w].at = "comparing"}

\* The index of the last block handed out, of the last one that has left the
\* queue, and of the first whose result main has not taken.
Hi == LeastOf(i + MAX_QSIZE, Len(todo))
Rest == Hi - Len(produceQ)
Lo == IF pc = "wait" THEN i + 1 ELSE i + 2

\* How many of n representatives a worker searches.
Searched(n) == IF exact THEN n ELSE n \div 2^CoarseShift

\* A result is right: it has the nearest of the first mx representatives, and
\* mx is no more than a worker would search now.
RightResult(r) ==
    /\ r.mx <= Searched(Len(rep_list))
    /\ [min |-> r.min, ref |-> r.ref] = Scan(todo[r.i], rep_list, 1, r.mx, NoBest)

\* The queue holds the last blocks of the window in order.
QueueInv == Running => \A k \in 1..Len(produceQ) : produceQ[k] = Rest + k

\* The blocks before them are with a worker or in the results, and no others:
\* the result main waits for is there or on its way.
HeldInv ==
    Running =>
        /\ \A w \in Busy : job[w].i \in Lo..Rest
        /\ \A r \in resultQ : r.i \in Lo..Rest
        /\ \A n \in Lo..Rest : \/ \E w \in Busy : job[w].i = n
                               \/ \E r \in resultQ : r.i = n

\* No block is compared twice.
OnceInv ==
    Running =>
        /\ \A v, w \in Busy : job[v].i = job[w].i => v = w
        /\ \A q, r \in resultQ : q.i = r.i => q = r
        /\ \A w \in Busy, r \in resultQ : job[w].i # r.i

\* The window is never larger than MAX_QSIZE.
CountInv ==
    /\ IsFiniteSet(resultQ)
    /\ Running =>
          Len(produceQ) + Cardinality(Busy) + Cardinality(resultQ) = Hi + 1 - Lo

\* Results stay right while main opens clusters the workers have not seen.
ResultInv ==
    Running =>
        /\ rep_list = Reps(cluster)
        /\ \A w \in Busy : job[w].mx <= Searched(Len(rep_list))
        /\ \A r \in resultQ : RightResult(r)
        /\ pc = "place" => now.i = i + 1 /\ RightResult(now)

\* Where main is says how far it is; without a window no worker has a block.
MainInv ==
    /\ i <= Len(todo)
    /\ pc \in {"place", "refill"} => i < Len(todo)
    /\ pc \in {"join", "return"} => i = Len(todo)
    /\ pc = "alone" => exact
    /\ ~Running => Busy = {} /\ produceQ \in {<<>>, <<INF>>}

\* The blocks of a call are handed out in order and each is compared once, and
\* what a worker found is what the sequential search finds (produceQ, resultQ
\* and the threads of bruteForceCluster).
ThreadInv ==
    /\ MainInv /\ QueueInv /\ HeldInv /\ OnceInv /\ CountInv /\ ResultInv

\* The main programs read the log only between calls.
StageInv == stage \in {"fine read", "end"} => pc = "return"

-----------------------------------------------------------------------------
(***************************************************************************)
(* Where the blocks are.  All clusters of a list, without a block in two   *)
(* places of it; the blocks of todo that main has not placed.              *)
(***************************************************************************)
All(cl) == UNION {ToSet(cl[k]) : k \in DOMAIN cl}
Apart(cl) ==
    /\ \A k \in DOMAIN cl : IsInjective(cl[k])
    /\ \A k, l \in DOMAIN cl : k # l => ToSet(cl[k]) \cap ToSet(cl[l]) = {}
Whole(cl, S) == cl \in Clusters /\ Apart(cl) /\ All(cl) = S
Ahead == {todo[n] : n \in (placed + 1)..Len(todo)}

\* The blocks of the call are in one cluster or ahead, and in one place there.
CallWhole ==
    /\ Apart(cluster)
    /\ \A m, n \in (placed + 1)..Len(todo) : todo[m] = todo[n] => m = n
    /\ All(cluster) \cap Ahead = {}
    /\ All(cluster) \cup Ahead = ToSet(IF exact THEN members ELSE UniqueList)

\* fine has taken a cluster from the log and splits it.
Splitting == stage \in {"fine first", "fine epoch", "fine last"}
Current == IF Splitting THEN ToSet(members) ELSE {}

\* The clustering fine has found so far, if it has one, is one of members.
ChoiceWhole ==
    Splitting => /\ exact
                 /\ members \in Seq(Blocks) /\ IsInjective(members)
                 /\ Whole(ans, All(ans)) /\ All(ans) \subseteq ToSet(members)
                 /\ optimal # INF => All(ans) = ToSet(members)

\* Below this bound of int arithmetic a clustering is always found.
SumsBelowINF == \A cl \in Clusters : Apart(cl) => StoredSize(cl) < INF

\* The clusters fine has printed (done) and those it has not read (rest), the
\* single blocks and the cluster in hand have no block in common, and together
\* have all.
LogParts(done, rest) ==
    /\ fineLog = Printed(done) /\ unread = Printed(rest)
    /\ stage = "end" => rest = <<>>
    /\ Apart(done) /\ Apart(rest)
    /\ All(done) \cap All(rest) = {}
    /\ (singles \cup Current) \cap (All(done) \cup All(rest)) = {}
    /\ singles \cap Current = {}
    /\ All(done) \cup All(rest) \cup singles \cup Current \subseteq ToSet(UniqueList)
    /\ SumsBelowINF =>
          All(done) \cup All(rest) \cup singles \cup Current = ToSet(UniqueList)

LogWhole ==
    stage \notin {"coarse", "coarse again"} =>
        \E done, rest \in Clusters : LogParts(done, rest)

\* coarse has not printed anything.
CoarseWhole ==
    stage \in {"coarse", "coarse again"} => ~exact /\ singles = {} /\ fineLog = <<>>

\* No block is lost or doubled on its way through both programs.
WholeInv == CallWhole /\ ChoiceWhole /\ LogWhole /\ CoarseWhole

-----------------------------------------------------------------------------
(***************************************************************************)
(* bruteForceCluster with a caller that passes anything of the right type. *)
(***************************************************************************)
AnyCall ==
    /\ pc = "return"
    /\ exact' \in BOOLEAN
    /\ \E list \in Seq(Blocks), cl \in Clusters, limit \in 0..(INF - 1) :
          Call(list, cl, limit)

CallInit ==
    /\ exact \in BOOLEAN
    /\ threshold \in 0..(INF - 1)
    /\ todo = <<>> /\ cluster = <<>> /\ rep_list = <<>>
    /\ produceQ = <<>> /\ resultQ = {}
    /\ i = 0
    /\ now = NoResult
    /\ job = [w \in Workers |-> Returned]
    /\ pc = "return"

CallSpec == CallInit /\ [][BNext \/ AnyCall]_bvars

\* What the two main() pass when they call bruteForceCluster.
ArgumentsOK ==
    i = 0 /\ pc \in {"wait", "alone"} => todo \in Seq(Blocks) /\ cluster \in Clusters
=============================================================================
