-------------------------- MODULE BruteForceCluster --------------------------
(***************************************************************************)
(* bruteForceCluster of src/training/clustering/coarse_xdelta3.cpp and     *)
(* fine_xdelta3.cpp: the main thread places the blocks of todo in order,   *)
(* NUM_THREAD - 1 workers compare blocks with the representatives known    *)
(* when they take them.  Everything between a lock and an unlock of the    *)
(* one mutex is a step; what a thread does with its own variables and with *)
(* entries of rep_list that nobody writes any more is part of the step     *)
(* that publishes the result.                                              *)
(***************************************************************************)
EXTENDS ClusterOps, FiniteSets

CONSTANTS NUM_THREAD,  \* main and NUM_THREAD - 1 workers
          CoarseQ,     \* MAX_QSIZE is CoarseQ * NUM_THREAD in coarse,
          FineQ        \* FineQ * NUM_THREAD in fine

\* With one thread there is no worker and main waits for ever.
ASSUME ThreadAssumption == NUM_THREAD \in Nat /\ NUM_THREAD > 1
ASSUME QueueAssumption == CoarseQ \in Nat \ {0} /\ FineQ \in Nat \ {0}

VARIABLES exact,      \* the fine program is running
          threshold, todo, cluster,
          rep_list,   \* rep_cnt is its length
          produceQ,   \* indices in todo, INF to stop the workers
          resultQ,    \* {index, checked, min, ref}, lowest index first
          i,          \* how many blocks main is done with
          now,        \* the result main has taken
          job,        \* the workers: idle, at an index, or returned
          pc          \* where main is

bvars == <<exact, threshold, todo, cluster, rep_list, produceQ, resultQ, i, now, job, pc>>

Workers == 1..(NUM_THREAD - 1)
Idle == [at |-> "idle"]
Returned == [at |-> "returned"]
Comparing == [at : {"comparing"}, i : Nat, mx : Nat]
NoResult == [i |-> 0, mx |-> 0, min |-> INF, ref |-> 0]

G == INSTANCE GreedyCluster WITH
        placed <- IF pc = "refill" THEN i + 1 ELSE i

MAX_QSIZE == NUM_THREAD * (IF exact THEN FineQ ELSE CoarseQ)

\* Mutant: the window is filled with the whole of todo.
LeastOfSecond(a, b) == b

LeastOf(a, b) == IF a < b THEN a ELSE b

-----------------------------------------------------------------------------
(***************************************************************************)
(* A call: main fills the window and starts the workers, except that the   *)
(* fine program places a short todo by itself.                             *)
(***************************************************************************)
Call(todo_, cluster_, threshold_) ==
    /\ todo' = todo_
    /\ cluster' = cluster_
    /\ threshold' = threshold_
    /\ i' = 0
    /\ now' = NoResult
    /\ IF exact' /\ Len(todo_) < NUM_THREAD
       THEN /\ pc' = "alone"
            /\ rep_list' = <<>>
            /\ produceQ' = <<>>
            /\ job' = [w \in Workers |-> Returned]
       ELSE /\ pc' = "wait"
            /\ rep_list' = Reps(cluster_)
            /\ produceQ' = [k \in 1..LeastOf(MAX_QSIZE', Len(todo_)) |-> k]
            /\ job' = [w \in Workers |-> Idle]
    /\ resultQ' = {}

(***************************************************************************)
(* The workers.  An empty queue makes a worker try again; INF stays in the *)
(* queue for the others.                                                   *)
(***************************************************************************)
BFTake(w) ==
    /\ job[w] = Idle
    /\ produceQ # <<>>
    /\ Head(produceQ) # INF
    /\ produceQ' = Tail(produceQ)
    /\ job' = [job EXCEPT ![w] =
                 [at |-> "comparing", i |-> Head(produceQ),
                  mx |-> IF exact THEN Len(rep_list)
                         ELSE Len(rep_list) \div 2^CoarseShift]]
    /\ UNCHANGED <<exact, threshold, todo, cluster, rep_list, resultQ, i, now, pc>>

BFResult(w) ==
    /\ job[w].at = "comparing"
    /\ LET best == Scan(todo[job[w].i], rep_list, 1, job[w].mx, NoBest)
       IN  resultQ' = resultQ \cup {[i |-> job[w].i, mx |-> job[w].mx,
                                     min |-> best.min, ref |-> best.ref]}
    /\ job' = [job EXCEPT ![w] = Idle]
    /\ UNCHANGED <<exact, threshold, todo, cluster, rep_list, produceQ, i, now, pc>>

\* Mutant: a worker takes the INF that is meant for all.
BFReturnPops(w) ==
    /\ job[w] = Idle
    /\ produceQ # <<>>
    /\ Head(produceQ) = INF
    /\ produceQ' = Tail(produceQ)
    /\ job' = [job EXCEPT ![w] = Returned]
    /\ UNCHANGED <<exact, threshold, todo, cluster, rep_list, resultQ, i, now, pc>>

BFReturn(w) ==
    /\ job[w] = Idle
    /\ produceQ # <<>>
    /\ Head(produceQ) = INF
    /\ job' = [job EXCEPT ![w] = Returned]
    /\ UNCHANGED <<exact, threshold, todo, cluster, rep_list, produceQ, resultQ, i, now, pc>>

(***************************************************************************)
(* Main waits for the result of the next block; resultQ.top() is the       *)
(* lowest index in the queue.                                              *)
(***************************************************************************)
\* Mutant: main takes whatever result comes first.
TakeResultAny ==
    /\ pc = "wait"
    /\ i < Len(todo)
    /\ \E r \in resultQ :
          /\ \A q \in resultQ : r.i <= q.i
          /\ now' = r
          /\ resultQ' = resultQ \ {r}
    /\ pc' = "place"
    /\ UNCHANGED <<exact, threshold, todo, cluster, rep_list, produceQ, i, job>>

TakeResult ==
    /\ pc = "wait"
    /\ i < Len(todo)
    /\ \E r \in resultQ :
          /\ \A q \in resultQ : r.i <= q.i
          /\ r.i = i + 1
          /\ now' = r
          /\ resultQ' = resultQ \ {r}
    /\ pc' = "place"
    /\ UNCHANGED <<exact, threshold, todo, cluster, rep_list, produceQ, i, job>>

\* Mutant: the first representative added since is left out.
PlaceSkips ==
    /\ pc = "place"
    /\ LET u == todo[i + 1]
           found == [min |-> now.min, ref |-> now.ref]
           best == IF exact
                   THEN Scan(u, rep_list, now.mx + 2, Len(rep_list), found)
                   ELSE found
       IN  /\ cluster' = Placed(cluster, u, best, threshold)
           /\ rep_list' = IF best.min <= threshold THEN rep_list
                          ELSE Append(rep_list, u)
    /\ pc' = "refill"
    /\ UNCHANGED <<exact, threshold, todo, produceQ, resultQ, i, now, job>>

\* The fine program compares with the representatives added since the worker
\* looked; the coarse one takes the result as it is.
Place ==
    /\ pc = "place"
    /\ LET u == todo[i + 1]
           found == [min |-> now.min, ref |-> now.ref]
           best == IF exact
                   THEN Scan(u, rep_list, now.mx + 1, Len(rep_list), found)
                   ELSE found
       IN  /\ cluster' = Placed(cluster, u, best, threshold)
           /\ rep_list' = IF best.min <= threshold THEN rep_list
                          ELSE Append(rep_list, u)
    /\ pc' = "refill"
    /\ UNCHANGED <<exact, threshold, todo, produceQ, resultQ, i, now, job>>

Refill ==
    /\ pc = "refill"
    /\ produceQ' = IF i + 1 + MAX_QSIZE <= Len(todo)
                   THEN Append(produceQ, i + 1 + MAX_QSIZE)
                   ELSE produceQ
    /\ i' = i + 1
    /\ pc' = "wait"
    /\ UNCHANGED <<exact, threshold, todo, cluster, rep_list, resultQ, now, job>>

Stop ==
    /\ pc = "wait"
    /\ i = Len(todo)
    /\ produceQ' = Append(produceQ, INF)
    /\ pc' = "join"
    /\ UNCHANGED <<exact, threshold, todo, cluster, rep_list, resultQ, i, now, job>>

Join ==
    /\ pc = "join"
    /\ \A w \in Workers : job[w] = Returned
    /\ pc' = "return"
    /\ UNCHANGED <<exact, threshold, todo, cluster, rep_list, produceQ, resultQ, i, now, job>>

\* The fine program without workers.
PlaceAlone ==
    /\ pc = "alone"
    /\ i < Len(todo)
    /\ LET u == todo[i + 1]
       IN  cluster' = Placed(cluster, u,
                               Scan(u, Reps(cluster), 1, Len(cluster), NoBest),
                               threshold)
    /\ i' = i + 1
    /\ UNCHANGED <<exact, threshold, todo, rep_list, produceQ, resultQ, now, job, pc>>

ReturnAlone ==
    /\ pc = "alone"
    /\ i = Len(todo)
    /\ pc' = "return"
    /\ UNCHANGED <<exact, threshold, todo, cluster, rep_list, produceQ, resultQ, i, now, job>>

MainStep == TakeResult \/ Place \/ Refill \/ Stop \/ Join \/ PlaceAlone \/ ReturnAlone
WorkerStep(w) == BFTake(w) \/ BFResult(w) \/ BFReturn(w)
BNext == MainStep \/ \E w \in Workers : WorkerStep(w)

-----------------------------------------------------------------------------
\* The state of brute_force_cluster is well-formed: queues hold indices, a worker
\* waits, has a block in hand or has returned, and no cluster is ever empty, so
\* the representative cluster[k][0] that the workers read is there.
BTypeOK ==
    /\ exact \in BOOLEAN
    /\ threshold \in 0..(INF - 1)
    /\ todo \in Seq(Blocks)
    /\ cluster \in Clusters
    /\ rep_list \in Seq(Blocks)
    /\ produceQ \in Seq(Nat)
    /\ resultQ \subseteq [i : Nat, mx : Nat, min : Nat, ref : Nat]
    /\ i \in Nat
    /\ now \in [i : Nat, mx : Nat, min : Nat, ref : Nat]
    /\ job \in [Workers -> {Idle, Returned} \cup Comparing]
    /\ pc \in {"alone", "wait", "place", "refill", "join", "return"}
=============================================================================
