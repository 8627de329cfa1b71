--------------------------- MODULE ClusterProofs ----------------------------
(***************************************************************************)
(* Proofs about the clustering programs (src/training/clustering/):        *)
(* whatever the workers and main of bruteForceCluster do in between, a     *)
(* call places the blocks as the sequential algorithm does, and between    *)
(* the calls coarse and fine lose no block and label none twice.           *)
(***************************************************************************)
EXTENDS ClusterInv, TLAPS, FiniteSetTheorems, SequenceTheorems, WellFoundedInduction

-----------------------------------------------------------------------------
(***************************************************************************)
(* The comparisons.                                                        *)
(***************************************************************************)

\* A set of numbers that is not empty has a least element.
LEMMA LeastNumber ==
    ASSUME NEW T, T \subseteq Nat, T # {}
    PROVE  \E x \in T : \A y \in T : x <= y
<1>1. \E x \in T : \A y \in T : ~(<<y, x>> \in OpToRel(<, Nat))
  BY NatLessThanWellFounded, WFMin
<1>2. PICK x \in T : \A y \in T : ~(<<y, x>> \in OpToRel(<, Nat))
  BY <1>1
<1>3. \A y \in T : ~(y < x)
  BY <1>2 DEF OpToRel
<1>4. x \in Nat /\ \A y \in T : y \in Nat
  OBVIOUS
<1> QED  BY <1>3, <1>4

\* What the loop over reps[from..to] leaves in compress_min and compress_ref:
\* what was there, or the first of the nearest representatives.
Nearest(r, u, reps, from, to, best) ==
    \/ /\ r = best
       /\ \A j \in from..to : best.min <= Dist[u][reps[j]]
    \/ /\ \E k \in from..to : r = [min |-> Dist[u][reps[k]], ref |-> k]
       /\ r.min < best.min
       /\ \A j \in from..to : /\ r.min <= Dist[u][reps[j]]
                              /\ r.min = Dist[u][reps[j]] => r.ref <= j

\* Dist is a size below INF.
LEMMA DistType ==
    ASSUME NEW u \in Blocks, NEW reps \in Seq(Blocks), NEW j \in 1..Len(reps)
    PROVE  /\ Dist[u][reps[j]] \in Nat
           /\ Dist[u][reps[j]] < INF
           /\ INF \in Nat
BY DistAssumption

LEMMA ScanIsNearest ==
    ASSUME NEW u \in Blocks, NEW reps \in Seq(Blocks), NEW from \in Nat \ {0},
           NEW to \in 0..Len(reps), NEW best, best.min \in Nat
    PROVE  Nearest(Scan(u, reps, from, to, best), u, reps, from, to, best)
<1> DEFINE d(j) == Dist[u][reps[j]]
           better == {j \in from..to : d(j) < best.min}
           first(j) == \A l \in better : d(j) <= d(l) /\ (d(j) = d(l) => j <= l)
<1>1. \A j \in from..to : d(j) \in Nat
  BY DistType
<1>2. CASE better = {}
  <2>1. Scan(u, reps, from, to, best) = best
    BY <1>2 DEF Scan
  <2> QED  BY <1>1, <1>2, <2>1 DEF Nearest
<1>3. CASE better # {}
  <2> DEFINE values == {d(j) : j \in better}
  <2>1. values \subseteq Nat /\ values # {}
    BY <1>1, <1>3
  <2> HIDE DEF values
  <2>2. PICK x \in values : \A y \in values : x <= y
    BY <2>1, LeastNumber
  <2> DEFINE nearest == {j \in better : d(j) = x}
  <2>3. nearest \subseteq Nat /\ nearest # {}
    BY DEF values
  <2> HIDE DEF nearest
  <2>4. PICK m \in nearest : \A y \in nearest : m <= y
    BY <2>3, LeastNumber
  <2>5. m \in better /\ first(m)
    BY <2>2, <2>4 DEF nearest, values
  <2> DEFINE k == CHOOSE j \in better : first(j)
  <2>6. k \in better /\ first(k)
    BY <2>5
  <2>7. Scan(u, reps, from, to, best) = [min |-> d(k), ref |-> k]
    BY <1>3 DEF Scan
  <2> HIDE DEF k
  <2>8. \A j \in from..to : d(k) <= d(j) /\ (d(k) = d(j) => k <= j)
    BY <1>1, <2>6
  <2> QED  BY <2>6, <2>7, <2>8 DEF Nearest
<1> QED  BY <1>2, <1>3

LEMMA NearestUnique ==
    ASSUME NEW u \in Blocks, NEW reps \in Seq(Blocks), NEW from \in Nat \ {0},
           NEW to \in 0..Len(reps), NEW best, best.min \in Nat,
           NEW r, NEW s,
           Nearest(r, u, reps, from, to, best), Nearest(s, u, reps, from, to, best)
    PROVE  r = s
<1>1. \A j \in from..to : Dist[u][reps[j]] \in Nat
  BY DistType
<1>2. CASE r = best
  BY <1>1, <1>2 DEF Nearest
<1>3. CASE s = best
  BY <1>1, <1>3 DEF Nearest
<1>4. CASE r # best /\ s # best
  <2>1. PICK k \in from..to : r = [min |-> Dist[u][reps[k]], ref |-> k]
    BY <1>4 DEF Nearest
  <2>2. PICK l \in from..to : s = [min |-> Dist[u][reps[l]], ref |-> l]
    BY <1>4 DEF Nearest
  <2>3. r.min = s.min
    BY <1>1, <1>4, <2>1, <2>2 DEF Nearest
  <2>4. k = l
    BY <1>1, <1>4, <2>1, <2>2, <2>3 DEF Nearest
  <2> QED  BY <2>1, <2>2, <2>4
<1> QED  BY <1>2, <1>3, <1>4

\* What a search of the first representatives, starting from NoBest, returns.
Sought(r, u, reps, to) ==
    /\ r \in [min : Nat, ref : Nat]
    /\ r.min <= INF
    /\ r.min < INF => r.ref \in 1..to /\ r.min = Dist[u][reps[r.ref]]

LEMMA ScanFromNothing ==
    ASSUME NEW u \in Blocks, NEW reps \in Seq(Blocks), NEW to \in 0..Len(reps)
    PROVE  Sought(Scan(u, reps, 1, to, NoBest), u, reps, to)
<1> DEFINE r == Scan(u, reps, 1, to, NoBest)
<1>1. NoBest \in [min : Nat, ref : Nat] /\ NoBest.min = INF /\ INF \in Nat
  BY DistAssumption DEF NoBest
<1>2. Nearest(r, u, reps, 1, to, NoBest)
  BY <1>1, ScanIsNearest
<1>3. \A j \in 1..to : Dist[u][reps[j]] \in Nat
  BY DistType
<1> HIDE DEF r
<1>4. CASE r = NoBest
  <2>1. Sought(r, u, reps, to)
    BY <1>1, <1>4 DEF Sought
  <2> QED  BY <2>1 DEF r
<1>5. CASE r # NoBest
  <2>1. PICK k \in 1..to : r = [min |-> Dist[u][reps[k]], ref |-> k]
    BY <1>2, <1>5 DEF Nearest
  <2>2. r.min < INF
    BY <1>1, <1>2, <1>5 DEF Nearest
  <2>3. Sought(r, u, reps, to)
    BY <1>1, <1>3, <2>1, <2>2 DEF Sought
  <2> QED  BY <2>3 DEF r
<1> QED  BY <1>4, <1>5

\* A search may be cut in two: the second part goes on from what the first
\* one found.
LEMMA ScanSplit ==
    ASSUME NEW u \in Blocks, NEW reps \in Seq(Blocks),
           NEW m \in Nat, NEW n \in 0..Len(reps), m <= n
    PROVE  Scan(u, reps, m + 1, n, Scan(u, reps, 1, m, NoBest))
              = Scan(u, reps, 1, n, NoBest)
<1> DEFINE a == Scan(u, reps, 1, m, NoBest)
           b == Scan(u, reps, m + 1, n, a)
           c == Scan(u, reps, 1, n, NoBest)
<1>1. NoBest.min \in Nat /\ m \in 0..Len(reps)
  BY DistAssumption DEF NoBest
<1>2. a.min \in Nat
  BY <1>1, ScanFromNothing DEF Sought
<1>3. Nearest(a, u, reps, 1, m, NoBest)
  BY <1>1, ScanIsNearest
<1>4. Nearest(c, u, reps, 1, n, NoBest)
  BY <1>1, ScanIsNearest
<1> HIDE DEF a, c
<1>5. Nearest(b, u, reps, m + 1, n, a)
  BY <1>2, ScanIsNearest
<1> HIDE DEF b
<1>6. \A j \in 1..n : Dist[u][reps[j]] \in Nat
  BY DistType
<1>7. Nearest(b, u, reps, 1, n, NoBest)
  <2>1. CASE b = a
    <3>1. \A j \in (m + 1)..n : a.min <= Dist[u][reps[j]]
      BY <1>2, <1>5, <1>6, <2>1 DEF Nearest
    <3> QED  BY <1>1, <1>2, <1>3, <1>6, <2>1, <3>1 DEF Nearest
  <2>2. CASE b # a
    <3>1. PICK k \in (m + 1)..n : b = [min |-> Dist[u][reps[k]], ref |-> k]
      BY <1>5, <2>2 DEF Nearest
    <3>2. /\ b.min < a.min
          /\ \A j \in (m + 1)..n : /\ b.min <= Dist[u][reps[j]]
                                   /\ b.min = Dist[u][reps[j]] => b.ref <= j
      BY <1>5, <2>2 DEF Nearest
    <3>3. a.min <= NoBest.min /\ \A j \in 1..m : a.min <= Dist[u][reps[j]]
      BY <1>1, <1>2, <1>3, <1>6 DEF Nearest
    <3>4. b.min \in Nat /\ b.ref = k /\ k \in 1..n
      BY <1>6, <3>1
    <3>5. b.min < NoBest.min
      BY <1>1, <1>2, <3>2, <3>3, <3>4
    <3>6. ASSUME NEW j \in 1..n
          PROVE  b.min <= Dist[u][reps[j]] /\ (b.min = Dist[u][reps[j]] => b.ref <= j)
      <4>1. Dist[u][reps[j]] \in Nat
        BY <1>6
      <4>2. CASE j \in (m + 1)..n
        BY <3>2, <4>2
      <4>3. CASE j \in 1..m
        <5>1. a.min <= Dist[u][reps[j]]
          BY <3>3, <4>3
        <5> QED  BY <1>2, <3>2, <3>4, <4>1, <5>1
      <4>4. j \in (m + 1)..n \/ j \in 1..m
        OBVIOUS
      <4> QED  BY <4>2, <4>3, <4>4
    <3> QED  BY <3>1, <3>4, <3>5, <3>6 DEF Nearest
  <2> QED  BY <2>1, <2>2
<1>8. b = c
  BY <1>1, <1>4, <1>7, NearestUnique
<1> QED  BY <1>8 DEF a, b, c

\* A search depends on the representatives it meets only: one that was made
\* before others were appended is still right.
LEMMA ScanStable ==
    ASSUME NEW u \in Blocks, NEW reps \in Seq(Blocks), NEW v \in Blocks,
           NEW to \in 0..Len(reps)
    PROVE  Scan(u, Append(reps, v), 1, to, NoBest) = Scan(u, reps, 1, to, NoBest)
<1> DEFINE longer == Append(reps, v)
           a == Scan(u, longer, 1, to, NoBest)
           b == Scan(u, reps, 1, to, NoBest)
<1>1. NoBest.min \in Nat
  BY DistAssumption DEF NoBest
<1>2. longer \in Seq(Blocks) /\ to \in 0..Len(longer) /\ \A j \in 1..to : longer[j] = reps[j]
  OBVIOUS
<1> HIDE DEF longer
<1>3. Nearest(a, u, longer, 1, to, NoBest)
  BY <1>1, <1>2, ScanIsNearest
<1>4. Nearest(b, u, reps, 1, to, NoBest)
  BY <1>1, ScanIsNearest
<1> HIDE DEF a, b
<1>5. Nearest(a, u, reps, 1, to, NoBest)
  BY <1>2, <1>3 DEF Nearest
<1>6. a = b
  BY <1>1, <1>4, <1>5, NearestUnique
<1> QED  BY <1>6 DEF a, b, longer

-----------------------------------------------------------------------------
(***************************************************************************)
(* Placing a block.                                                        *)
(***************************************************************************)

LEMMA RepsType ==
    ASSUME NEW cl \in Clusters
    PROVE  /\ Reps(cl) \in Seq(Blocks)
           /\ Len(Reps(cl)) = Len(cl)
           /\ \A j \in 1..Len(cl) : Reps(cl)[j] = cl[j][1]
<1>1. \A j \in 1..Len(cl) : cl[j] \in Seq(Blocks) /\ cl[j] # <<>>
  BY DEF Clusters
<1>2. \A j \in 1..Len(cl) : cl[j][1] \in Blocks
  BY <1>1
<1>3. Reps(cl) = [j \in 1..Len(cl) |-> cl[j][1]] /\ Len(cl) \in Nat
  BY DEF Reps, Clusters
<1> QED  BY <1>2, <1>3, IsASeq

\* A block goes into the cluster that was found or opens one, which is the
\* last: clusters stay non-empty and keep their representatives.
LEMMA PlacedFacts ==
    ASSUME NEW cl \in Clusters, NEW u \in Blocks, NEW best \in [min : Nat, ref : Nat],
           NEW limit \in Nat,
           best.min <= limit => best.ref \in 1..Len(cl)
    PROVE  /\ Placed(cl, u, best, limit) \in Clusters
           /\ Reps(Placed(cl, u, best, limit)) = IF best.min <= limit THEN Reps(cl)
                                                 ELSE Append(Reps(cl), u)
<1> DEFINE p == Placed(cl, u, best, limit)
<1>1. cl \in Seq(Seq(Blocks) \ {<<>>})
  BY DEF Clusters
<1>2. CASE best.min <= limit
  <2>1. p = [cl EXCEPT ![best.ref] = Append(@, u)] /\ best.ref \in 1..Len(cl)
    BY <1>2 DEF Placed
  <2> HIDE DEF p
  <2>a. cl[best.ref] \in Seq(Blocks)
    BY <1>1, <2>1
  <2>2. Append(cl[best.ref], u) \in Seq(Blocks) \ {<<>>}
    BY <2>a, AppendProperties
  <2>3. p \in Clusters
    BY <1>1, <2>1, <2>2, ExceptSeq DEF Clusters
  <2>4. DOMAIN p = DOMAIN cl /\ \A j \in DOMAIN cl : p[j][1] = cl[j][1]
    BY <1>1, <2>1
  <2>5. Reps(p) = Reps(cl)
    BY <2>4 DEF Reps
  <2> QED  BY <1>2, <2>3, <2>5 DEF p
<1>3. CASE ~(best.min <= limit)
  <2>1. p = Append(cl, <<u>>)
    BY <1>3 DEF Placed
  <2>2. <<u>> \in Seq(Blocks) \ {<<>>}
    OBVIOUS
  <2>3. p \in Clusters
    BY <1>1, <2>1, <2>2 DEF Clusters
  <2>4. /\ Len(p) = Len(cl) + 1
        /\ \A j \in 1..Len(cl) : p[j] = cl[j]
        /\ p[Len(cl) + 1] = <<u>>
    BY <1>1, <2>1, <2>2
  <2> HIDE DEF p
  <2>5. /\ Reps(p) \in Seq(Blocks) /\ Len(Reps(p)) = Len(cl) + 1
        /\ \A j \in 1..Len(p) : Reps(p)[j] = p[j][1]
    BY <2>3, <2>4, RepsType
  <2>6. /\ Reps(cl) \in Seq(Blocks) /\ Len(Reps(cl)) = Len(cl)
        /\ \A j \in 1..Len(cl) : Reps(cl)[j] = cl[j][1]
    BY RepsType
  <2> DEFINE a == Append(Reps(cl), u)
  <2>7. a \in Seq(Blocks) /\ Len(a) = Len(cl) + 1 /\ a[Len(cl) + 1] = u
        /\ \A j \in 1..Len(cl) : a[j] = cl[j][1]
    BY <2>6, AppendProperties
  <2> HIDE DEF a
  <2>a. p[Len(cl) + 1][1] = u /\ Len(cl) \in Nat
    BY <1>1, <2>4
  <2>8. \A j \in 1..(Len(cl) + 1) : Reps(p)[j] = a[j]
    BY <2>4, <2>5, <2>7, <2>a
  <2>9. Reps(p) = a
    BY <2>5, <2>7, <2>8, SeqEqual
  <2> QED  BY <1>3, <2>3, <2>9 DEF p, a
<1> QED  BY <1>2, <1>3

-----------------------------------------------------------------------------
(***************************************************************************)
(* The invariant is inductive.  First, facts about its terms.              *)
(***************************************************************************)
BInv == BTypeOK /\ ThreadInv

LEMMA WorkersFinite == IsFiniteSet(Workers)
BY ThreadAssumption, FS_Interval DEF Workers

LEMMA QSizeType == exact \in BOOLEAN => MAX_QSIZE \in Nat
BY ThreadAssumption, QueueAssumption DEF MAX_QSIZE

LEMMA SearchedFacts ==
    ASSUME exact \in BOOLEAN
    PROVE  /\ \A n \in Nat : Searched(n) \in 0..n
           /\ \A m, n \in Nat : m <= n => Searched(m) <= Searched(n)
<1> DEFINE d == 2^CoarseShift
<1>1. d \in Nat \ {0}
  BY ShiftAssumption
<1>2. \A n \in Nat : Searched(n) = IF exact THEN n ELSE n \div d
  BY DEF Searched
<1> HIDE DEF d
<1>3. \A n \in Nat : n \div d \in 0..n
  BY <1>1
<1>4. \A m, n \in Nat : m <= n => m \div d <= n \div d
  BY <1>1
<1> QED  BY <1>2, <1>3, <1>4

\* A worker has a block, is idle or has returned.
LEMMA BusyFacts ==
    ASSUME BTypeOK
    PROVE  /\ IsFiniteSet(Busy) /\ Cardinality(Busy) \in Nat
           /\ Busy \subseteq Workers
           /\ \A w \in Busy : job[w] \in Comparing /\ job[w].i \in Nat /\ job[w].mx \in Nat
<1>1. Busy \subseteq Workers
  BY DEF Busy
<1>2. IsFiniteSet(Busy) /\ Cardinality(Busy) \in Nat
  BY <1>1, WorkersFinite, FS_Subset, FS_CardinalityType
<1>3. \A w \in Busy : job[w] \in Comparing
  BY DEF BTypeOK, Busy, Idle, Returned
<1> QED  BY <1>1, <1>2, <1>3 DEF Comparing

\* The ends of the window.
LEMMA WindowEnds ==
    ASSUME BTypeOK, ThreadInv
    PROVE  /\ Len(todo) \in Nat /\ i \in Nat /\ MAX_QSIZE \in Nat
           /\ Hi \in Nat /\ Hi <= Len(todo) /\ Hi <= i + MAX_QSIZE
           /\ Hi = Len(todo) \/ Hi = i + MAX_QSIZE
           /\ Lo \in Nat /\ Lo >= 1
           /\ Len(produceQ) \in Nat /\ Rest \in Int /\ Rest <= Hi
<1>1. Len(todo) \in Nat /\ i \in Nat /\ exact \in BOOLEAN /\ Len(produceQ) \in Nat
  BY DEF BTypeOK
<1>2. MAX_QSIZE \in Nat
  BY <1>1, QSizeType
<1> HIDE DEF MAX_QSIZE
<1>3. /\ Hi \in Nat /\ Hi <= Len(todo) /\ Hi <= i + MAX_QSIZE
      /\ Hi = Len(todo) \/ Hi = i + MAX_QSIZE
  BY <1>1, <1>2 DEF Hi, LeastOf
<1>4. Lo \in Nat /\ Lo >= 1
  BY <1>1 DEF Lo
<1> QED  BY <1>1, <1>2, <1>3, <1>4 DEF Rest

\* What is held is an index of todo.
LEMMA HeldIndex ==
    ASSUME BTypeOK, ThreadInv, Running
    PROVE  /\ \A w \in Busy : job[w].i \in 1..Len(todo) /\ todo[job[w].i] \in Blocks
           /\ \A r \in resultQ : r.i \in 1..Len(todo) /\ todo[r.i] \in Blocks
           /\ \A w \in Busy : job[w].mx \in 0..Len(rep_list)
           /\ rep_list \in Seq(Blocks) /\ Len(rep_list) = Len(cluster)
<1>1. \A n \in Lo..Rest : n \in 1..Len(todo)
  BY WindowEnds
<1>2. \A n \in 1..Len(todo) : todo[n] \in Blocks
  BY DEF BTypeOK
<1>3. /\ \A w \in Busy : job[w].i \in Lo..Rest
      /\ \A r \in resultQ : r.i \in Lo..Rest
      /\ \A w \in Busy : job[w].mx <= Searched(Len(rep_list))
      /\ rep_list = Reps(cluster)
  BY DEF ThreadInv, HeldInv, ResultInv
<1>4. rep_list \in Seq(Blocks) /\ Len(rep_list) = Len(cluster) /\ Len(rep_list) \in Nat
  BY <1>3, RepsType DEF BTypeOK
<1>5. Searched(Len(rep_list)) \in 0..Len(rep_list)
  BY <1>4, SearchedFacts DEF BTypeOK
<1>6. \A w \in Busy : job[w].mx \in 0..Len(rep_list)
  BY <1>3, <1>4, <1>5, BusyFacts
<1> QED  BY <1>1, <1>2, <1>3, <1>4, <1>6

-----------------------------------------------------------------------------
\* A worker takes a block.
LEMMA TakeStep ==
    ASSUME BInv, NEW w \in Workers, BFTake(w)
    PROVE  BInv'
<1> USE DEF BInv
<1>1. Running
  BY DEF ThreadInv, MainInv, BFTake
<1>2. /\ job[w] = Idle /\ produceQ # <<>>
      /\ produceQ' = Tail(produceQ)
      /\ job' = [job EXCEPT ![w] = [at |-> "comparing", i |-> Head(produceQ),
                                    mx |-> Searched(Len(rep_list))]]
      /\ UNCHANGED <<exact, threshold, todo, cluster, rep_list, resultQ, i, now, pc>>
  BY DEF BFTake, Searched
<1> DEFINE h == Head(produceQ)
           new == [at |-> "comparing", i |-> h, mx |-> Searched(Len(rep_list))]
<1>3. produceQ \in Seq(Nat) /\ Len(produceQ) \in Nat \ {0} /\ h \in Nat /\ h = produceQ[1]
      /\ Tail(produceQ) \in Seq(Nat) /\ Len(Tail(produceQ)) = Len(produceQ) - 1
      /\ \A k \in 1..(Len(produceQ) - 1) : Tail(produceQ)[k] = produceQ[k + 1]
  BY <1>2 DEF BTypeOK
<1>4. rep_list \in Seq(Blocks) /\ Len(rep_list) \in Nat
      /\ Searched(Len(rep_list)) \in 0..Len(rep_list)
  BY <1>1, HeldIndex, SearchedFacts DEF BTypeOK
<1>5. h = Rest + 1 /\ Rest \in Int
  BY <1>1, <1>3, WindowEnds DEF ThreadInv, QueueInv
<1>6. /\ Hi' = Hi /\ Lo' = Lo /\ Running' /\ MAX_QSIZE' = MAX_QSIZE
      /\ \A n : Searched(n)' = Searched(n)
  BY <1>1, <1>2 DEF Hi, Lo, Running, MAX_QSIZE, Searched
<1>7. Rest' = Rest + 1
  BY <1>2, <1>3, <1>6, WindowEnds DEF Rest
<1>8. /\ w \notin Busy /\ Busy' = Busy \cup {w}
      /\ job'[w] = new /\ \A v \in Busy : job'[v] = job[v]
  BY <1>2 DEF BTypeOK, Busy, Idle
<1> HIDE DEF h, new
<1>9. new \in Comparing /\ new.i = h /\ new.mx = Searched(Len(rep_list))
  BY <1>3, <1>4 DEF new, Comparing
<1>10. BTypeOK'
  <2>1. job' \in [Workers -> {Idle, Returned} \cup Comparing]
    BY <1>2, <1>9 DEF BTypeOK, new, h
  <2> QED  BY <1>2, <1>3, <2>1 DEF BTypeOK
<1>11. MainInv'
  BY <1>1, <1>2, <1>6 DEF ThreadInv, MainInv, Running
<1>12. QueueInv'
  <2>1. \A k \in 1..(Len(produceQ) - 1) : produceQ'[k] = Rest' + k
    BY <1>1, <1>2, <1>3, <1>5, <1>7 DEF ThreadInv, QueueInv
  <2> QED  BY <1>2, <1>3, <2>1 DEF QueueInv
<1>13. HeldInv'
  <2>1. Lo \in Nat /\ Lo <= h
    <3>1. Lo \in Nat /\ Hi \in Nat /\ Rest = Hi - Len(produceQ)
      BY <1>1, WindowEnds DEF Rest
    <3>2. Cardinality(Busy) \in Nat
      BY <1>1, BusyFacts
    <3>3. IsFiniteSet(resultQ)
          /\ Len(produceQ) + Cardinality(Busy) + Cardinality(resultQ) = Hi + 1 - Lo
      BY <1>1 DEF ThreadInv, CountInv
    <3>4. Cardinality(resultQ) \in Nat
      BY <3>3, FS_CardinalityType
    <3> QED  BY <1>3, <1>5, <3>1, <3>2, <3>3, <3>4
  <2>2. \A v \in Busy : job[v].i \in Lo..Rest
    BY <1>1 DEF ThreadInv, HeldInv
  <2>3. \A v \in Busy' : job'[v].i \in Lo..(Rest + 1)
    BY <1>3, <1>5, <1>8, <1>9, <2>1, <2>2
  <2>4. \A r \in resultQ : r.i \in Lo..(Rest + 1)
    BY <1>1, <1>5 DEF ThreadInv, HeldInv
  <2>5. ASSUME NEW n \in Lo..(Rest + 1)
        PROVE  (\E v \in Busy' : job'[v].i = n) \/ (\E r \in resultQ : r.i = n)
    <3>1. CASE n = Rest + 1
      BY <1>5, <1>8, <1>9, <3>1
    <3>2. CASE n # Rest + 1
      <4>1. n \in Lo..Rest
        BY <1>5, <2>1, <3>2
      <4>2. (\E v \in Busy : job[v].i = n) \/ (\E r \in resultQ : r.i = n)
        BY <1>1, <4>1 DEF ThreadInv, HeldInv
      <4> QED  BY <1>8, <4>2
    <3> QED  BY <3>1, <3>2
  <2> QED  BY <1>2, <1>6, <1>7, <2>3, <2>4, <2>5 DEF HeldInv
<1>14. OnceInv'
  <2>1. /\ \A v \in Busy : job[v].i # h
        /\ \A r \in resultQ : r.i # h
    BY <1>1, <1>5, WindowEnds DEF ThreadInv, HeldInv
  <2>2. \A v, x \in Busy : job[v].i = job[x].i => v = x
    BY <1>1 DEF ThreadInv, OnceInv
  <2>3. \A v, x \in Busy' : job'[v].i = job'[x].i => v = x
    BY <1>8, <1>9, <2>1, <2>2
  <2>4. \A v \in Busy', r \in resultQ : job'[v].i # r.i
    BY <1>1, <1>8, <1>9, <2>1 DEF ThreadInv, OnceInv
  <2> QED  BY <1>1, <1>2, <2>3, <2>4 DEF ThreadInv, OnceInv
<1>15. CountInv'
  <2>1. Cardinality(Busy') = Cardinality(Busy) + 1
    BY <1>8, BusyFacts, FS_AddElement
  <2>2. /\ IsFiniteSet(resultQ) /\ Cardinality(resultQ) \in Nat
        /\ Len(produceQ) + Cardinality(Busy) + Cardinality(resultQ) = Hi + 1 - Lo
    BY <1>1, FS_CardinalityType DEF ThreadInv, CountInv
  <2>3. Len(produceQ') = Len(produceQ) - 1
    BY <1>2, <1>3
  <2> QED  BY <1>2, <1>3, <1>6, <2>1, <2>2, <2>3, BusyFacts DEF CountInv
<1>16. ResultInv'
  <2>1. \A v \in Busy' : job'[v].mx <= Searched(Len(rep_list))
    BY <1>1, <1>4, <1>8, <1>9 DEF ThreadInv, ResultInv
  <2> QED  BY <1>1, <1>2, <1>6, <2>1 DEF ThreadInv, ResultInv, RightResult
<1> QED  BY <1>10, <1>11, <1>12, <1>13, <1>14, <1>15, <1>16 DEF ThreadInv

\* A worker publishes its result.
LEMMA ResultStep ==
    ASSUME BInv, NEW w \in Workers, BFResult(w)
    PROVE  BInv'
<1> USE DEF BInv
<1>1. w \in Busy /\ Running
  BY DEF ThreadInv, MainInv, BFResult, Busy
<1> DEFINE best == Scan(todo[job[w].i], rep_list, 1, job[w].mx, NoBest)
           new == [i |-> job[w].i, mx |-> job[w].mx, min |-> best.min, ref |-> best.ref]
<1>2. /\ resultQ' = resultQ \cup {new}
      /\ job' = [job EXCEPT ![w] = Idle]
      /\ UNCHANGED <<exact, threshold, todo, cluster, rep_list, produceQ, i, now, pc>>
  BY DEF BFResult
<1>3. /\ job[w].i \in 1..Len(todo) /\ todo[job[w].i] \in Blocks
      /\ job[w].mx \in 0..Len(rep_list) /\ rep_list \in Seq(Blocks)
  BY <1>1, HeldIndex
<1>4. Sought(best, todo[job[w].i], rep_list, job[w].mx)
  BY <1>3, ScanFromNothing
<1>5. /\ Hi' = Hi /\ Lo' = Lo /\ Rest' = Rest /\ Running' /\ MAX_QSIZE' = MAX_QSIZE
      /\ \A n : Searched(n)' = Searched(n)
  BY <1>1, <1>2 DEF Hi, Lo, Rest, Running, MAX_QSIZE, Searched
<1>6. Busy' = Busy \ {w} /\ \A v \in Busy' : job'[v] = job[v]
  BY <1>2 DEF BTypeOK, Busy, Idle
<1>7. /\ new \in [i : Nat, mx : Nat, min : Nat, ref : Nat]
      /\ new.i = job[w].i /\ new.mx = job[w].mx
      /\ [min |-> new.min, ref |-> new.ref] = best
  <2> HIDE DEF best
  <2>1. best \in [min : Nat, ref : Nat]
    BY <1>4 DEF Sought
  <2> QED  BY <1>1, <2>1, BusyFacts
<1> HIDE DEF new
<1>8. RightResult(new)
  BY <1>1, <1>7 DEF ThreadInv, ResultInv, RightResult
<1> HIDE DEF best
<1>9. new \notin resultQ
  BY <1>1, <1>7 DEF ThreadInv, OnceInv
<1>10. BTypeOK'
  <2>1. job' \in [Workers -> {Idle, Returned} \cup Comparing]
    BY <1>2 DEF BTypeOK
  <2> QED  BY <1>2, <1>7, <2>1 DEF BTypeOK
<1>11. MainInv'
  BY <1>1, <1>2, <1>5 DEF ThreadInv, MainInv, Running
<1>12. QueueInv'
  BY <1>1, <1>2, <1>5 DEF ThreadInv, QueueInv
<1>13. HeldInv'
  <2>1. /\ \A v \in Busy : job[v].i \in Lo..Rest
        /\ \A r \in resultQ : r.i \in Lo..Rest
        /\ \A n \in Lo..Rest : \/ \E v \in Busy : job[v].i = n
                               \/ \E r \in resultQ : r.i = n
    BY <1>1 DEF ThreadInv, HeldInv
  <2>2. \A v \in Busy' : job'[v].i \in Lo..Rest
    BY <1>6, <2>1
  <2>3. \A r \in resultQ' : r.i \in Lo..Rest
    BY <1>1, <1>2, <1>7, <2>1
  <2>4. ASSUME NEW n \in Lo..Rest
        PROVE  (\E v \in Busy' : job'[v].i = n) \/ (\E r \in resultQ' : r.i = n)
    <3>1. CASE job[w].i = n
      BY <1>2, <1>7, <3>1
    <3>2. CASE job[w].i # n
      BY <1>2, <1>6, <2>1, <3>2
    <3> QED  BY <3>1, <3>2
  <2> QED  BY <1>5, <2>2, <2>3, <2>4 DEF HeldInv
<1>14. OnceInv'
  <2>1. /\ \A v, x \in Busy : job[v].i = job[x].i => v = x
        /\ \A q, r \in resultQ : q.i = r.i => q = r
        /\ \A v \in Busy, r \in resultQ : job[v].i # r.i
    BY <1>1 DEF ThreadInv, OnceInv
  <2>2. \A v, x \in Busy' : job'[v].i = job'[x].i => v = x
    BY <1>6, <2>1
  <2>3. \A q, r \in resultQ' : q.i = r.i => q = r
    BY <1>1, <1>2, <1>7, <2>1
  <2>4. \A v \in Busy', r \in resultQ' : job'[v].i # r.i
    BY <1>1, <1>2, <1>6, <1>7, <2>1
  <2> QED  BY <2>2, <2>3, <2>4 DEF OnceInv
<1>15. CountInv'
  <2>1. Cardinality(Busy') = Cardinality(Busy) - 1
    BY <1>1, <1>6, BusyFacts, FS_RemoveElement
  <2>2. /\ IsFiniteSet(resultQ) /\ Cardinality(resultQ) \in Nat
        /\ Len(produceQ) + Cardinality(Busy) + Cardinality(resultQ) = Hi + 1 - Lo
    BY <1>1, FS_CardinalityType DEF ThreadInv, CountInv
  <2>3. IsFiniteSet(resultQ') /\ Cardinality(resultQ') = Cardinality(resultQ) + 1
    BY <1>2, <1>9, <2>2, FS_AddElement
  <2> QED  BY <1>2, <1>5, <2>1, <2>2, <2>3, BusyFacts, WindowEnds DEF CountInv
<1>16. ResultInv'
  <2>1. \A v \in Busy' : job'[v].mx <= Searched(Len(rep_list))
    BY <1>1, <1>6 DEF ThreadInv, ResultInv
  <2>2. \A r \in resultQ' : RightResult(r)
    BY <1>1, <1>2, <1>8 DEF ThreadInv, ResultInv
  <2>3. \A r : RightResult(r)' = RightResult(r)
    BY <1>2, <1>5 DEF RightResult
  <2> QED  BY <1>1, <1>2, <1>5, <2>1, <2>2 DEF ThreadInv, ResultInv, RightResult
<1> QED  BY <1>10, <1>11, <1>12, <1>13, <1>14, <1>15, <1>16 DEF ThreadInv

\* A worker returns.
LEMMA ReturnStep ==
    ASSUME BInv, NEW w \in Workers, BFReturn(w)
    PROVE  BInv'
<1> USE DEF BInv
<1>1. /\ job[w] = Idle
      /\ job' = [job EXCEPT ![w] = Returned]
      /\ UNCHANGED <<exact, threshold, todo, cluster, rep_list, produceQ, resultQ, i, now, pc>>
  BY DEF BFReturn
<1>2. /\ Hi' = Hi /\ Lo' = Lo /\ Rest' = Rest /\ Running' = Running /\ MAX_QSIZE' = MAX_QSIZE
      /\ \A n : Searched(n)' = Searched(n)
  BY <1>1 DEF Hi, Lo, Rest, Running, MAX_QSIZE, Searched
<1>3. Busy' = Busy /\ \A v \in Busy : job'[v] = job[v]
  BY <1>1 DEF BTypeOK, Busy, Idle, Returned
<1>4. BTypeOK'
  <2>1. job' \in [Workers -> {Idle, Returned} \cup Comparing]
    BY <1>1 DEF BTypeOK
  <2> QED  BY <1>1, <2>1 DEF BTypeOK
<1>5. MainInv'
  BY <1>1, <1>2, <1>3 DEF ThreadInv, MainInv
<1>6. QueueInv' /\ CountInv'
  BY <1>1, <1>2, <1>3 DEF ThreadInv, QueueInv, CountInv
<1>7. HeldInv'
  BY <1>1, <1>2, <1>3 DEF ThreadInv, HeldInv
<1>8. OnceInv'
  BY <1>1, <1>2, <1>3 DEF ThreadInv, OnceInv
<1>9. ResultInv'
  BY <1>1, <1>2, <1>3 DEF ThreadInv, ResultInv, RightResult
<1> QED  BY <1>4, <1>5, <1>6, <1>7, <1>8, <1>9 DEF ThreadInv

-----------------------------------------------------------------------------
\* Main takes the result it waits for.
LEMMA TakeResultStep ==
    ASSUME BInv, TakeResult
    PROVE  BInv'
<1> USE DEF BInv
<1>1. pc = "wait" /\ pc' = "place" /\ i < Len(todo) /\ Running /\ Running'
  BY DEF TakeResult, Running
<1>2. PICK r \in resultQ : r.i = i + 1 /\ now' = r /\ resultQ' = resultQ \ {r}
  BY DEF TakeResult
<1>3. UNCHANGED <<exact, threshold, todo, cluster, rep_list, produceQ, i, job>>
  BY DEF TakeResult
<1>4. /\ Hi' = Hi /\ Lo = i + 1 /\ Lo' = i + 2 /\ Rest' = Rest /\ Busy' = Busy
      /\ MAX_QSIZE' = MAX_QSIZE
      /\ \A n : Searched(n)' = Searched(n)
  BY <1>1, <1>3 DEF Hi, Lo, Rest, MAX_QSIZE, Searched, Busy
<1>5. i \in Nat /\ Rest \in Int /\ Hi \in Nat
  BY WindowEnds
<1>6. BTypeOK'
  BY <1>1, <1>2, <1>3 DEF BTypeOK
<1>7. MainInv'
  BY <1>1, <1>3 DEF ThreadInv, MainInv
<1>8. QueueInv'
  BY <1>1, <1>3, <1>4 DEF ThreadInv, QueueInv
<1>9. /\ \A v, x \in Busy : job[v].i = job[x].i => v = x
      /\ \A q, s \in resultQ : q.i = s.i => q = s
      /\ \A v \in Busy, s \in resultQ : job[v].i # s.i
  BY <1>1 DEF ThreadInv, OnceInv
<1>10. HeldInv'
  <2>1. /\ \A v \in Busy : job[v].i \in (i + 1)..Rest
        /\ \A s \in resultQ : s.i \in (i + 1)..Rest
        /\ \A n \in (i + 1)..Rest : \/ \E v \in Busy : job[v].i = n
                                    \/ \E s \in resultQ : s.i = n
    BY <1>1, <1>4 DEF ThreadInv, HeldInv
  <2>2. \A v \in Busy : job[v].i \in (i + 2)..Rest
    BY <1>2, <1>5, <1>9, <2>1
  <2>3. \A s \in resultQ' : s.i \in (i + 2)..Rest
    BY <1>2, <1>5, <1>9, <2>1
  <2>4. \A n \in (i + 2)..Rest : (\E v \in Busy : job[v].i = n) \/ (\E s \in resultQ' : s.i = n)
    BY <1>2, <1>5, <2>1
  <2> QED  BY <1>3, <1>4, <2>2, <2>3, <2>4 DEF HeldInv
<1>11. OnceInv'
  BY <1>2, <1>3, <1>4, <1>9 DEF OnceInv
<1>12. CountInv'
  <2>1. /\ IsFiniteSet(resultQ) /\ Cardinality(resultQ) \in Nat
        /\ Len(produceQ) + Cardinality(Busy) + Cardinality(resultQ) = Hi + 1 - Lo
    BY <1>1, FS_CardinalityType DEF ThreadInv, CountInv
  <2>2. IsFiniteSet(resultQ') /\ Cardinality(resultQ') = Cardinality(resultQ) - 1
    BY <1>2, <2>1, FS_RemoveElement
  <2> QED  BY <1>3, <1>4, <1>5, <2>1, <2>2, BusyFacts, WindowEnds DEF CountInv
<1>13. ResultInv'
  BY <1>1, <1>2, <1>3, <1>4 DEF ThreadInv, ResultInv, RightResult
<1> QED  BY <1>6, <1>7, <1>8, <1>10, <1>11, <1>12, <1>13 DEF ThreadInv

\* Block u is placed after a search of the first k representatives, as GPlace
\* of GreedyCluster does.
Places(u, k) ==
    /\ k \in IF exact THEN {Len(cluster)} ELSE 0..(Len(cluster) \div 2^CoarseShift)
    /\ cluster' = Placed(cluster, u, Scan(u, Reps(cluster), 1, k, NoBest), threshold)

\* k is the length of a prefix.
LEMMA PrefixLength ==
    ASSUME BTypeOK, NEW k \in IF exact THEN {Len(cluster)} ELSE 0..(Len(cluster) \div 2^CoarseShift)
    PROVE  k \in 0..Len(cluster)
<1>1. Len(cluster) \in Nat /\ exact \in BOOLEAN
  BY DEF BTypeOK, Clusters
<1>2. Searched(Len(cluster)) \in 0..Len(cluster)
  BY <1>1, SearchedFacts
<1>3. CASE exact
  BY <1>1, <1>3
<1>4. CASE ~exact
  <2>1. k \in 0..Searched(Len(cluster))
    BY <1>4 DEF Searched
  <2> QED  BY <1>1, <1>2, <2>1
<1> QED  BY <1>1, <1>3, <1>4

\* The outcome of a search is a cluster within the threshold or none.
LEMMA PlacesFacts ==
    ASSUME BTypeOK, NEW u \in Blocks, NEW k, Places(u, k)
    PROVE  LET best == Scan(u, Reps(cluster), 1, k, NoBest)
           IN  /\ best \in [min : Nat, ref : Nat]
               /\ best.min <= threshold => /\ best.ref \in 1..Len(cluster)
                                           /\ best.min = Dist[u][cluster[best.ref][1]]
               /\ cluster' \in Clusters
               /\ Reps(cluster') = IF best.min <= threshold THEN Reps(cluster)
                                   ELSE Append(Reps(cluster), u)
<1> DEFINE best == Scan(u, Reps(cluster), 1, k, NoBest)
<1>1. /\ Reps(cluster) \in Seq(Blocks) /\ Len(Reps(cluster)) = Len(cluster)
      /\ Len(cluster) \in Nat
      /\ \A j \in 1..Len(cluster) : Reps(cluster)[j] = cluster[j][1]
  BY RepsType DEF BTypeOK, Clusters
<1>2. k \in 0..Len(cluster)
  BY PrefixLength DEF Places
<1>3. Sought(best, u, Reps(cluster), k)
  BY <1>1, <1>2, ScanFromNothing
<1>4. threshold \in Nat /\ threshold < INF /\ INF \in Nat
  BY DistAssumption DEF BTypeOK
<1>5. cluster' = Placed(cluster, u, best, threshold)
  BY DEF Places
<1> HIDE DEF best
<1>6. /\ best \in [min : Nat, ref : Nat]
      /\ best.min <= threshold => /\ best.ref \in 1..Len(cluster)
                                  /\ best.min = Dist[u][cluster[best.ref][1]]
  BY <1>1, <1>2, <1>3, <1>4 DEF Sought
<1>7. /\ Placed(cluster, u, best, threshold) \in Clusters
      /\ Reps(Placed(cluster, u, best, threshold)) =
            IF best.min <= threshold THEN Reps(cluster) ELSE Append(Reps(cluster), u)
  BY <1>4, <1>6, PlacedFacts DEF BTypeOK
<1>8. /\ best \in [min : Nat, ref : Nat]
      /\ best.min <= threshold => /\ best.ref \in 1..Len(cluster)
                                  /\ best.min = Dist[u][cluster[best.ref][1]]
      /\ cluster' \in Clusters
      /\ Reps(cluster') = IF best.min <= threshold THEN Reps(cluster)
                          ELSE Append(Reps(cluster), u)
  BY <1>5, <1>6, <1>7
<1> QED  BY <1>8 DEF best

\* In fine, what the worker found and what main adds to it is a search of all
\* representatives; in coarse the worker's result is one of a prefix.
LEMMA PlaceEffect ==
    ASSUME BInv, Place
    PROVE  /\ todo[i + 1] \in Blocks /\ i < Len(todo) /\ i \in Nat
           /\ \E k : Places(todo[i + 1], k)
           /\ rep_list' = Reps(cluster') /\ cluster' \in Clusters
           /\ rep_list' = rep_list \/ rep_list' = Append(rep_list, todo[i + 1])
<1> USE DEF BInv
<1>1. pc = "place" /\ Running
  BY DEF Place, Running
<1>2. i \in Nat /\ i < Len(todo) /\ todo \in Seq(Blocks)
  BY <1>1 DEF ThreadInv, MainInv, BTypeOK
<1>3. todo[i + 1] \in Blocks
  BY <1>2
<1>4. /\ rep_list = Reps(cluster) /\ now.i = i + 1
      /\ now.mx <= Searched(Len(rep_list))
      /\ [min |-> now.min, ref |-> now.ref] = Scan(todo[i + 1], rep_list, 1, now.mx, NoBest)
  BY <1>1 DEF ThreadInv, ResultInv, RightResult
<1>5. rep_list \in Seq(Blocks) /\ Len(rep_list) = Len(cluster) /\ Len(cluster) \in Nat
  BY <1>1, HeldIndex DEF BTypeOK, Clusters
<1>6. now.mx \in Nat /\ exact \in BOOLEAN
  BY DEF BTypeOK
<1>7. Searched(Len(rep_list)) \in 0..Len(rep_list)
  BY <1>5, <1>6, SearchedFacts
<1> DEFINE u == todo[i + 1]
           found == [min |-> now.min, ref |-> now.ref]
           best == IF exact THEN Scan(u, rep_list, now.mx + 1, Len(rep_list), found)
                   ELSE found
           k == IF exact THEN Len(cluster) ELSE now.mx
<1>8. /\ cluster' = Placed(cluster, u, best, threshold)
      /\ rep_list' = IF best.min <= threshold THEN rep_list ELSE Append(rep_list, u)
  BY DEF Place
<1>9. best = Scan(u, Reps(cluster), 1, k, NoBest)
  <2>1. CASE exact
    <3>1. best = Scan(u, rep_list, now.mx + 1, Len(rep_list),
                      Scan(u, rep_list, 1, now.mx, NoBest))
      BY <1>4, <2>1
    <3>2. now.mx <= Len(rep_list) /\ Len(rep_list) \in 0..Len(rep_list)
      BY <1>4, <1>5, <1>6, <1>7
    <3>3. best = Scan(u, rep_list, 1, Len(rep_list), NoBest)
      BY <1>3, <1>5, <1>6, <3>1, <3>2, ScanSplit
    <3> QED  BY <1>4, <1>5, <2>1, <3>3
  <2>2. CASE ~exact
    BY <1>4, <2>2
  <2> QED  BY <2>1, <2>2
<1>10. k \in IF exact THEN {Len(cluster)} ELSE 0..(Len(cluster) \div 2^CoarseShift)
  <2>1. CASE exact
    BY <2>1
  <2>2. CASE ~exact
    <3>1. now.mx <= Len(cluster) \div 2^CoarseShift /\ Len(cluster) \div 2^CoarseShift \in Nat
      BY <1>4, <1>5, <1>7, <2>2 DEF Searched
    <3> QED  BY <1>6, <2>2, <3>1
  <2> QED  BY <2>1, <2>2
<1> HIDE DEF u, best, k
<1>11. Places(u, k)
  BY <1>8, <1>9, <1>10 DEF Places
<1>12. u \in Blocks
  BY <1>3 DEF u
<1>13. /\ cluster' \in Clusters
       /\ Reps(cluster') = IF best.min <= threshold THEN Reps(cluster)
                           ELSE Append(Reps(cluster), u)
  BY <1>9, <1>11, <1>12, PlacesFacts
<1> QED  BY <1>2, <1>3, <1>4, <1>8, <1>11, <1>13 DEF u

\* Main places a block.
LEMMA PlaceStep ==
    ASSUME BInv, Place
    PROVE  BInv'
<1> USE DEF BInv
<1>1. /\ pc = "place" /\ pc' = "refill" /\ Running /\ Running'
      /\ UNCHANGED <<exact, threshold, todo, produceQ, resultQ, i, now, job>>
  BY DEF Place, Running
<1>2. /\ Hi' = Hi /\ Lo' = Lo /\ Rest' = Rest /\ Busy' = Busy
      /\ MAX_QSIZE' = MAX_QSIZE
      /\ \A n : Searched(n)' = Searched(n)
  BY <1>1 DEF Hi, Lo, Rest, MAX_QSIZE, Searched, Busy
<1> DEFINE u == todo[i + 1]
<1>3. /\ u \in Blocks
      /\ rep_list' = Reps(cluster') /\ cluster' \in Clusters
      /\ rep_list' = rep_list \/ rep_list' = Append(rep_list, u)
  BY PlaceEffect
<1> HIDE DEF u
<1>4. rep_list \in Seq(Blocks) /\ Len(rep_list) \in Nat
  BY <1>1, HeldIndex
<1>5. rep_list' \in Seq(Blocks)
  BY <1>3, <1>4
<1>6. BTypeOK'
  BY <1>1, <1>3, <1>5 DEF BTypeOK
<1>7. MainInv' /\ QueueInv' /\ CountInv'
  BY <1>1, <1>2 DEF ThreadInv, MainInv, QueueInv, CountInv
<1>8. HeldInv'
  BY <1>1, <1>2 DEF ThreadInv, HeldInv
<1>9. OnceInv'
  BY <1>1, <1>2 DEF ThreadInv, OnceInv
<1>10. ResultInv'
  <2>1. /\ \A w \in Busy : job[w].mx <= Searched(Len(rep_list))
        /\ \A r \in resultQ : RightResult(r)
    BY <1>1 DEF ThreadInv, ResultInv
  <2>2. CASE rep_list' = rep_list
    BY <1>1, <1>2, <1>3, <2>1, <2>2 DEF ResultInv, RightResult
  <2>3. CASE rep_list' = Append(rep_list, u)
    <3>1. Len(rep_list') \in Nat /\ Len(rep_list) <= Len(rep_list')
      BY <1>4, <2>3
    <3>2. /\ Searched(Len(rep_list)) <= Searched(Len(rep_list'))
          /\ Searched(Len(rep_list)) \in 0..Len(rep_list)
          /\ Searched(Len(rep_list')) \in Nat
      BY <1>4, <3>1, SearchedFacts DEF BTypeOK
    <3>3. \A w \in Busy : job[w].mx <= Searched(Len(rep_list'))
      BY <1>4, <2>1, <3>2, BusyFacts
    <3>4. ASSUME NEW r \in resultQ
          PROVE  /\ r.mx <= Searched(Len(rep_list'))
                 /\ [min |-> r.min, ref |-> r.ref] = Scan(todo[r.i], rep_list', 1, r.mx, NoBest)
      <4>1. /\ r.mx <= Searched(Len(rep_list))
            /\ [min |-> r.min, ref |-> r.ref] = Scan(todo[r.i], rep_list, 1, r.mx, NoBest)
        BY <2>1 DEF RightResult
      <4>2. r.mx \in Nat /\ todo[r.i] \in Blocks
        BY <1>1, HeldIndex DEF BTypeOK
      <4>3. r.mx \in 0..Len(rep_list)
        BY <1>4, <3>2, <4>1, <4>2
      <4>4. Scan(todo[r.i], rep_list', 1, r.mx, NoBest) = Scan(todo[r.i], rep_list, 1, r.mx, NoBest)
        BY <1>3, <1>4, <2>3, <4>2, <4>3, ScanStable
      <4> QED  BY <1>4, <3>2, <4>1, <4>2, <4>4
    <3> QED  BY <1>1, <1>2, <1>3, <3>3, <3>4 DEF ResultInv, RightResult
  <2> QED  BY <1>3, <2>2, <2>3
<1> QED  BY <1>6, <1>7, <1>8, <1>9, <1>10 DEF ThreadInv

\* Main hands out the next block.
LEMMA RefillStep ==
    ASSUME BInv, Refill
    PROVE  BInv'
<1> USE DEF BInv
<1>1. /\ pc = "refill" /\ pc' = "wait" /\ Running /\ Running' /\ i' = i + 1
      /\ UNCHANGED <<exact, threshold, todo, cluster, rep_list, resultQ, now, job>>
  BY DEF Refill, Running
<1>2. /\ Lo = i + 2 /\ Lo' = i + 2 /\ Busy' = Busy /\ MAX_QSIZE' = MAX_QSIZE
      /\ \A n : Searched(n)' = Searched(n)
  <2>1. i \in Nat
    BY DEF BTypeOK
  <2> QED  BY <1>1, <2>1 DEF Lo, MAX_QSIZE, Searched, Busy
<1>3. i \in Nat /\ Len(todo) \in Nat /\ i < Len(todo) /\ MAX_QSIZE \in Nat
      /\ produceQ \in Seq(Nat) /\ Len(produceQ) \in Nat
  BY <1>1, WindowEnds DEF ThreadInv, MainInv, BTypeOK
<1>4. produceQ' = IF i + 1 + MAX_QSIZE <= Len(todo) THEN Append(produceQ, i + 1 + MAX_QSIZE)
                  ELSE produceQ
  BY DEF Refill
<1> HIDE DEF MAX_QSIZE
<1>5. Hi = LeastOf(i + MAX_QSIZE, Len(todo)) /\ Hi' = LeastOf(i + 1 + MAX_QSIZE, Len(todo))
  BY <1>1, <1>2 DEF Hi
<1>6. ASSUME i + 1 + MAX_QSIZE <= Len(todo)
      PROVE  Rest' = Rest /\ QueueInv' /\ CountInv' /\ produceQ' \in Seq(Nat)
  <2>1. Hi = i + MAX_QSIZE /\ Hi' = Hi + 1
    BY <1>3, <1>5, <1>6 DEF LeastOf
  <2>2. /\ produceQ' \in Seq(Nat) /\ Len(produceQ') = Len(produceQ) + 1
        /\ produceQ'[Len(produceQ) + 1] = Hi + 1
        /\ \A k \in 1..Len(produceQ) : produceQ'[k] = produceQ[k]
    BY <1>3, <1>4, <1>6, <2>1
  <2>3. /\ Rest' = Rest /\ Rest = Hi - Len(produceQ) /\ Hi \in Nat /\ Rest \in Int
        /\ Rest + (Len(produceQ) + 1) = Hi + 1
    BY <1>3, <2>1, <2>2, WindowEnds DEF Rest
  <2>4. QueueInv'
    <3>1. \A k \in 1..Len(produceQ) : produceQ[k] = Rest + k
      BY <1>1 DEF ThreadInv, QueueInv
    <3>2. \A k \in 1..(Len(produceQ) + 1) : k \in 1..Len(produceQ) \/ k = Len(produceQ) + 1
      BY <1>3
    <3>3. \A k \in 1..(Len(produceQ) + 1) : produceQ'[k] = Rest + k
      BY <2>2, <2>3, <3>1, <3>2
    <3> QED  BY <2>2, <2>3, <3>3 DEF QueueInv
  <2>5. CountInv'
    <3>1. /\ IsFiniteSet(resultQ) /\ Cardinality(resultQ) \in Nat
          /\ Len(produceQ) + Cardinality(Busy) + Cardinality(resultQ) = Hi + 1 - (i + 2)
      BY <1>1, <1>2, FS_CardinalityType DEF ThreadInv, CountInv
    <3>2. Len(produceQ') + Cardinality(Busy) + Cardinality(resultQ) = Hi + 1 + 1 - (i + 2)
      <4>1. Cardinality(Busy) \in Nat /\ Len(produceQ') = Len(produceQ) + 1
        BY <2>2, BusyFacts
      <4>2. Hi \in Nat
        BY <2>3
      <4>3. Len(produceQ) \in Nat /\ i \in Nat
        BY <1>3
      <4>4. (Len(produceQ) + 1) + Cardinality(Busy) + Cardinality(resultQ) = Hi + 1 + 1 - (i + 2)
        BY <3>1, <4>1, <4>2, <4>3
      <4> QED  BY <4>1, <4>4
    <3> QED  BY <1>1, <1>2, <2>1, <3>1, <3>2 DEF CountInv
  <2> QED  BY <2>2, <2>3, <2>4, <2>5
<1>7. ASSUME ~(i + 1 + MAX_QSIZE <= Len(todo))
      PROVE  Rest' = Rest /\ QueueInv' /\ CountInv' /\ produceQ' \in Seq(Nat)
  <2>1. Hi = Len(todo) /\ Hi' = Hi
    BY <1>3, <1>5, <1>7 DEF LeastOf
  <2>2. produceQ' = produceQ
    BY <1>4, <1>7
  <2>3. Rest' = Rest
    BY <2>1, <2>2 DEF Rest
  <2>4. QueueInv' /\ CountInv'
    BY <1>1, <1>2, <2>1, <2>2, <2>3 DEF ThreadInv, QueueInv, CountInv
  <2> QED  BY <1>3, <2>2, <2>3, <2>4
<1>8. Rest' = Rest /\ QueueInv' /\ CountInv' /\ produceQ' \in Seq(Nat)
  BY <1>6, <1>7
<1>9. BTypeOK'
  BY <1>1, <1>3, <1>8 DEF BTypeOK
<1>10. MainInv'
  BY <1>1, <1>3 DEF MainInv
<1>11. HeldInv'
  BY <1>1, <1>2, <1>8 DEF ThreadInv, HeldInv
<1>12. OnceInv'
  BY <1>1, <1>2 DEF ThreadInv, OnceInv
<1>13. ResultInv'
  BY <1>1, <1>2 DEF ThreadInv, ResultInv, RightResult
<1> QED  BY <1>8, <1>9, <1>10, <1>11, <1>12, <1>13 DEF ThreadInv

\* When all blocks are placed nothing is left in the queue, with a worker or
\* in the results.
LEMMA StopStep ==
    ASSUME BInv, Stop
    PROVE  BInv'
<1> USE DEF BInv
<1>1. /\ pc = "wait" /\ pc' = "join" /\ Running /\ ~Running' /\ i = Len(todo)
      /\ produceQ' = Append(produceQ, INF)
      /\ UNCHANGED <<exact, threshold, todo, cluster, rep_list, resultQ, i, now, job>>
  BY DEF Stop, Running
<1>2. Hi <= i /\ Lo = i + 1 /\ i \in Nat /\ Hi \in Nat
  BY <1>1, WindowEnds DEF Lo
<1>3. /\ IsFiniteSet(resultQ) /\ Cardinality(resultQ) \in Nat
      /\ Len(produceQ) + Cardinality(Busy) + Cardinality(resultQ) = Hi + 1 - Lo
  BY <1>1, FS_CardinalityType DEF ThreadInv, CountInv
<1>4. Cardinality(Busy) = 0 /\ Len(produceQ) = 0
  BY <1>2, <1>3, BusyFacts, WindowEnds
<1>5. Busy = {}
  BY <1>4, BusyFacts, FS_EmptySet
<1>6. produceQ = <<>> /\ produceQ' = <<INF>>
  BY <1>1, <1>4, EmptySeq DEF BTypeOK
<1>7. produceQ' \in Seq(Nat)
  BY <1>6, DistAssumption
<1>8. Busy' = Busy
  BY <1>1 DEF Busy
<1>9. BTypeOK'
  BY <1>1, <1>7 DEF BTypeOK
<1>10. MainInv'
  BY <1>1, <1>2, <1>5, <1>6, <1>8 DEF MainInv
<1> QED  BY <1>1, <1>3, <1>9, <1>10
         DEF ThreadInv, QueueInv, HeldInv, OnceInv, CountInv, ResultInv

\* Main joins the workers, or returns without any.
LEMMA LeaveStep ==
    ASSUME BInv, Join \/ ReturnAlone
    PROVE  BInv'
<1> USE DEF BInv
<1>1. /\ pc' = "return" /\ ~Running /\ ~Running' /\ i = Len(todo)
      /\ UNCHANGED <<exact, threshold, todo, cluster, rep_list, produceQ, resultQ, i, now, job>>
  BY DEF Join, ReturnAlone, Running, ThreadInv, MainInv
<1>2. Busy' = Busy
  BY <1>1 DEF Busy
<1>3. BTypeOK'
  BY <1>1 DEF BTypeOK
<1>4. MainInv'
  BY <1>1, <1>2 DEF ThreadInv, MainInv
<1> QED  BY <1>1, <1>3, <1>4
         DEF ThreadInv, QueueInv, HeldInv, OnceInv, CountInv, ResultInv

\* Main places a block without workers.
LEMMA AloneEffect ==
    ASSUME BInv, PlaceAlone
    PROVE  /\ exact /\ i \in Nat /\ i < Len(todo) /\ todo[i + 1] \in Blocks
           /\ Places(todo[i + 1], Len(cluster))
           /\ cluster' \in Clusters
<1> USE DEF BInv
<1>1. exact /\ i \in Nat /\ i < Len(todo) /\ todo \in Seq(Blocks)
  BY DEF PlaceAlone, ThreadInv, MainInv, BTypeOK
<1>2. todo[i + 1] \in Blocks
  BY <1>1
<1>3. Places(todo[i + 1], Len(cluster))
  BY <1>1 DEF PlaceAlone, Places
<1>4. cluster' \in Clusters
  BY <1>2, <1>3, PlacesFacts
<1> QED  BY <1>1, <1>2, <1>3, <1>4

LEMMA AloneStep ==
    ASSUME BInv, PlaceAlone
    PROVE  BInv'
<1> USE DEF BInv
<1>1. /\ pc = "alone" /\ pc' = pc /\ ~Running /\ ~Running' /\ i' = i + 1
      /\ UNCHANGED <<exact, threshold, todo, rep_list, produceQ, resultQ, now, job>>
  BY DEF PlaceAlone, Running
<1>2. i \in Nat /\ i < Len(todo) /\ cluster' \in Clusters /\ Len(todo) \in Nat
  BY AloneEffect DEF BTypeOK
<1>3. Busy' = Busy
  BY <1>1 DEF Busy
<1>4. BTypeOK'
  BY <1>1, <1>2 DEF BTypeOK
<1>5. MainInv'
  BY <1>1, <1>2, <1>3 DEF ThreadInv, MainInv
<1> QED  BY <1>1, <1>4, <1>5
         DEF ThreadInv, QueueInv, HeldInv, OnceInv, CountInv, ResultInv

\* Every step of a call preserves the invariant.
LEMMA BNextStep ==
    ASSUME BInv, [BNext]_bvars
    PROVE  BInv'
<1>1. CASE UNCHANGED bvars
  BY <1>1 DEF bvars, BInv, BTypeOK, ThreadInv, MainInv, QueueInv, HeldInv, OnceInv, CountInv,
              ResultInv, RightResult, Running, Busy, Hi, Lo, Rest, MAX_QSIZE, Searched
<1>2. CASE MainStep
  BY <1>2, TakeResultStep, PlaceStep, RefillStep, StopStep, LeaveStep, AloneStep DEF MainStep
<1>3. CASE \E w \in Workers : WorkerStep(w)
  BY <1>3, TakeStep, ResultStep, ReturnStep DEF WorkerStep
<1> QED  BY <1>1, <1>2, <1>3 DEF BNext

\* A call makes it true.
LEMMA CallStep ==
    ASSUME exact' \in BOOLEAN,
           NEW list \in Seq(Blocks), NEW cl \in Clusters, NEW limit \in 0..(INF - 1),
           Call(list, cl, limit)
    PROVE  BInv'
<1>1. /\ todo' = list /\ cluster' = cl /\ threshold' = limit /\ i' = 0
      /\ now' = NoResult /\ resultQ' = {}
  BY DEF Call
<1>2. NoResult \in [i : Nat, mx : Nat, min : Nat, ref : Nat] /\ INF \in Nat
  BY DistAssumption DEF NoResult
<1>3. Len(list) \in Nat /\ NUM_THREAD \in Nat
  BY ThreadAssumption
<1>4. IsFiniteSet({}) /\ Cardinality({}) = 0
  BY FS_EmptySet
<1>5. CASE exact' /\ Len(list) < NUM_THREAD
  <2>1. /\ pc' = "alone" /\ rep_list' = <<>> /\ produceQ' = <<>>
        /\ job' = [w \in Workers |-> Returned]
    BY <1>5 DEF Call
  <2>2. ~Running' /\ Busy' = {}
    BY <2>1 DEF Running, Busy, Returned
  <2>3. BTypeOK'
    BY <1>1, <1>2, <2>1 DEF BTypeOK
  <2>4. MainInv'
    BY <1>1, <1>3, <1>5, <2>1, <2>2 DEF MainInv
  <2> QED  BY <1>1, <1>4, <2>2, <2>3, <2>4
           DEF BInv, ThreadInv, QueueInv, HeldInv, OnceInv, CountInv, ResultInv
<1>6. CASE ~(exact' /\ Len(list) < NUM_THREAD)
  <2> DEFINE n == LeastOf(MAX_QSIZE', Len(list))
  <2>1. /\ pc' = "wait" /\ rep_list' = Reps(cl)
        /\ produceQ' = [k \in 1..n |-> k]
        /\ job' = [w \in Workers |-> Idle]
    BY <1>6 DEF Call
  <2>2. Running' /\ Busy' = {}
    BY <2>1 DEF Running, Busy, Idle
  <2>3. MAX_QSIZE' \in Nat
    BY ThreadAssumption, QueueAssumption DEF MAX_QSIZE
  <2> HIDE DEF MAX_QSIZE
  <2>4. n \in Nat
    BY <1>3, <2>3 DEF LeastOf
  <2>5. Hi' = n /\ Lo' = 1
    <3>1. Hi' = LeastOf(0 + MAX_QSIZE', Len(list))
      BY <1>1 DEF Hi
    <3>2. \A q \in Nat : 0 + q = q
      OBVIOUS
    <3>3. Hi' = n
      BY <2>3, <3>1, <3>2
    <3> QED  BY <1>1, <2>1, <3>3 DEF Lo
  <2> HIDE DEF n
  <2>6. produceQ' \in Seq(Nat) /\ Len(produceQ') = n
    BY <2>1, <2>4
  <2>7. Rest' = 0
    BY <2>4, <2>5, <2>6 DEF Rest
  <2>8. BTypeOK'
    <3>1. rep_list' \in Seq(Blocks)
      BY <2>1, RepsType
    <3> QED  BY <1>1, <1>2, <2>1, <2>6, <3>1 DEF BTypeOK
  <2>9. MainInv'
    BY <1>1, <1>3, <2>1, <2>2 DEF MainInv
  <2>10. QueueInv'
    BY <2>1, <2>4, <2>6, <2>7 DEF QueueInv
  <2>11. HeldInv' /\ OnceInv'
    BY <1>1, <2>2, <2>5, <2>7 DEF HeldInv, OnceInv
  <2>12. CountInv'
    BY <1>1, <1>4, <2>2, <2>4, <2>5, <2>6 DEF CountInv
  <2>13. ResultInv'
    BY <1>1, <2>1, <2>2 DEF ResultInv
  <2> QED  BY <2>8, <2>9, <2>10, <2>11, <2>12, <2>13 DEF BInv, ThreadInv
<1> QED  BY <1>5, <1>6

-----------------------------------------------------------------------------
(***************************************************************************)
(* bruteForceCluster, whoever calls it.                                    *)
(***************************************************************************)
LEMMA CallInitInv == CallInit => BInv
<1> SUFFICES ASSUME CallInit PROVE BInv
  OBVIOUS
<1>1. NoResult \in [i : Nat, mx : Nat, min : Nat, ref : Nat] /\ INF \in Nat
  BY DistAssumption DEF NoResult
<1>2. ~Running /\ Busy = {}
  BY DEF CallInit, Running, Busy, Returned
<1>3. BTypeOK
  BY <1>1 DEF CallInit, BTypeOK, Clusters
<1>4. MainInv
  BY <1>2 DEF CallInit, MainInv
<1>5. IsFiniteSet({})
  BY FS_EmptySet
<1> QED  BY <1>2, <1>3, <1>4, <1>5
         DEF CallInit, BInv, ThreadInv, QueueInv, HeldInv, OnceInv, CountInv, ResultInv

LEMMA AnyCallStep == BInv /\ AnyCall => BInv'
BY CallStep DEF AnyCall

LEMMA CallSpecInv == CallSpec => []BInv
<1>1. BInv /\ [BNext \/ AnyCall]_bvars => BInv'
  BY BNextStep, AnyCallStep
<1> QED  BY <1>1, CallInitInv, PTL DEF CallSpec

\* bruteForceCluster keeps its types: in particular no cluster is ever empty,
\* so the representative that the threads read is there.
THEOREM CallTypes == CallSpec => []BTypeOK
<1>1. BInv => BTypeOK
  BY DEF BInv
<1> QED  BY <1>1, CallSpecInv, PTL

\* The threads of bruteForceCluster hand out the blocks of the window in order,
\* compare each of them once and publish right results.
THEOREM ThreadsAreConsistent == CallSpec => []ThreadInv
<1>1. BInv => ThreadInv
  BY DEF BInv
<1> QED  BY <1>1, CallSpecInv, PTL

-----------------------------------------------------------------------------
(***************************************************************************)
(* The refinement.                                                         *)
(***************************************************************************)
LEMMA SameOps ==
    /\ \A u, reps, from, to, best : G!Scan(u, reps, from, to, best) = Scan(u, reps, from, to, best)
    /\ \A cl, u, best, limit : G!Placed(cl, u, best, limit) = Placed(cl, u, best, limit)
    /\ \A cl : G!Reps(cl) = Reps(cl)
    /\ G!NoBest = NoBest /\ G!Clusters = Clusters
BY DEF G!Scan, Scan, G!Placed, Placed, G!Reps, Reps, G!NoBest, NoBest, G!Clusters, Clusters

\* Placing a block after a search of k representatives is a GPlace.
LEMMA PlacesRefines ==
    ASSUME NEW k, Places(todo[i + 1], k), i \in Nat, i < Len(todo),
           pc # "refill", (IF pc' = "refill" THEN i' + 1 ELSE i') = i + 1,
           UNCHANGED <<exact, threshold, todo>>
    PROVE  G!GPlace
BY SameOps DEF Places, G!GPlace

LEMMA BNextRefines ==
    ASSUME BInv, [BNext]_bvars
    PROVE  [G!GNext]_(G!gvars)
<1> USE DEF BInv
<1>1. i \in Nat
  BY DEF BTypeOK
<1>2. CASE UNCHANGED bvars
  BY <1>2 DEF bvars, G!gvars
<1>3. CASE Place
  <2>1. PICK k : Places(todo[i + 1], k)
    BY <1>3, PlaceEffect
  <2>2. i < Len(todo)
    BY <1>3, PlaceEffect
  <2>3. G!GPlace
    BY <1>1, <1>3, <2>1, <2>2, PlacesRefines DEF Place
  <2> QED  BY <2>3 DEF G!GNext
<1>4. CASE PlaceAlone
  <2>1. Places(todo[i + 1], Len(cluster)) /\ i < Len(todo)
    BY <1>4, AloneEffect
  <2>2. G!GPlace
    BY <1>1, <1>4, <2>1, PlacesRefines DEF PlaceAlone
  <2> QED  BY <2>2 DEF G!GNext
<1>5. CASE TakeResult \/ Refill \/ Stop \/ Join \/ ReturnAlone
  BY <1>5 DEF TakeResult, Refill, Stop, Join, ReturnAlone, G!gvars
<1>6. CASE \E w \in Workers : WorkerStep(w)
  BY <1>6 DEF WorkerStep, BFTake, BFResult, BFReturn, G!gvars
<1> QED  BY <1>2, <1>3, <1>4, <1>5, <1>6 DEF BNext, MainStep

LEMMA AnyCallRefines ==
    ASSUME BInv, AnyCall
    PROVE  G!GNext
<1>1. pc = "return" /\ i = Len(todo)
  BY DEF AnyCall, BInv, ThreadInv, MainInv
<1>2. PICK list \in Seq(Blocks), cl \in Clusters, limit \in 0..(INF - 1) : Call(list, cl, limit)
  BY DEF AnyCall
<1>3. /\ exact' \in BOOLEAN /\ threshold' \in 0..(INF - 1)
      /\ todo' \in Seq(Blocks) /\ cluster' \in Clusters
  BY <1>2 DEF AnyCall, Call
<1>4. (IF pc' = "refill" THEN i' + 1 ELSE i') = 0
  BY <1>2 DEF Call
<1> QED  BY <1>1, <1>3, <1>4, SameOps DEF G!GNext, G!GCall

\* Each call of bruteForceCluster does what the sequential algorithm does,
\* whatever the number of threads, the size of the window and the order in
\* which the threads get the mutex, and whatever its callers pass.
THEOREM CallsAreSequential == CallSpec => SequentialClustering
<1>1. CallInit => G!GInit
  <2>1. CallInit => BTypeOK
    BY CallInitInv DEF BInv
  <2> QED  BY <2>1, SameOps DEF CallInit, BTypeOK, G!GInit
<1>2. BInv /\ [BNext \/ AnyCall]_bvars => [G!GNext]_(G!gvars)
  BY BNextRefines, AnyCallRefines
<1> QED  BY <1>1, <1>2, CallSpecInv, PTL DEF CallSpec, SequentialClustering, G!GSpec

-----------------------------------------------------------------------------
(***************************************************************************)
(* The loops of the two main(): sums, filters, and the log.                *)
(***************************************************************************)

\* Induction up to n, for a set of numbers.
LEMMA UpTo ==
    ASSUME NEW n \in Nat, NEW S, 0 \in S, \A k \in 1..n : k - 1 \in S => k \in S
    PROVE  \A k \in 0..n : k \in S
<1> DEFINE T == (0..n) \ S
<1> SUFFICES ASSUME T # {} PROVE FALSE
  OBVIOUS
<1>1. T \subseteq Nat
  OBVIOUS
<1>2. PICK x \in T : \A y \in T : x <= y
  <2> HIDE DEF T
  <2> QED  BY <1>1, LeastNumber
<1>3. x \in 1..n /\ x - 1 \in 0..n /\ ~(x <= x - 1)
  OBVIOUS
<1> QED  BY <1>2, <1>3

\* p is the course of a loop of n turns: turn k makes step[k][a] of a.
Course(p, A, init, step, n) ==
    /\ p \in [0..n -> A]
    /\ p[0] = init
    /\ \A k \in 1..n : p[k] = step[k][p[k - 1]]

LEMMA CourseGrows ==
    ASSUME NEW A, NEW init \in A, NEW n \in Nat, NEW step \in [1..n -> [A -> A]],
           NEW m \in 1..n, NEW p, Course(p, A, init, step, m - 1)
    PROVE  \E q : Course(q, A, init, step, m)
<1> DEFINE q == [k \in 0..m |-> IF k = m THEN step[m][p[m - 1]] ELSE p[k]]
<1>1. m - 1 \in 0..(m - 1) /\ 0 \in 0..(m - 1) /\ \A k \in 0..m : k = m \/ k \in 0..(m - 1)
  OBVIOUS
<1>2. p[m - 1] \in A /\ step[m] \in [A -> A]
  BY <1>1 DEF Course
<1>3. q[m] = step[m][p[m - 1]] /\ q[m] \in A
  BY <1>2
<1>4. \A k \in 0..(m - 1) : q[k] = p[k] /\ q[k] \in A
  BY DEF Course
<1>5. q \in [0..m -> A]
  <2>1. q = [k \in 0..m |-> q[k]]
    OBVIOUS
  <2> HIDE DEF q
  <2>2. \A k \in 0..m : q[k] \in A
    BY <1>1, <1>3, <1>4
  <2> QED  BY <2>1, <2>2
<1> HIDE DEF q
<1>6. q[0] = init
  BY <1>1, <1>4 DEF Course
<1>7. \A k \in 1..m : q[k] = step[k][q[k - 1]]
  <2> SUFFICES ASSUME NEW k \in 1..m PROVE q[k] = step[k][q[k - 1]]
    OBVIOUS
  <2>1. k - 1 \in 0..(m - 1)
    OBVIOUS
  <2>2. CASE k = m
    BY <1>3, <1>4, <2>1, <2>2
  <2>3. CASE k # m
    <3>1. k \in 0..(m - 1) /\ k \in 1..(m - 1)
      BY <2>3
    <3> QED  BY <1>4, <2>1, <3>1 DEF Course
  <2> QED  BY <2>2, <2>3
<1>8. Course(q, A, init, step, m)
  BY <1>5, <1>6, <1>7 DEF Course
<1> QED  BY <1>8

LEMMA CourseExists ==
    ASSUME NEW A, NEW init \in A, NEW n \in Nat, NEW step \in [1..n -> [A -> A]]
    PROVE  \E p : Course(p, A, init, step, n)
<1> DEFINE S == {k \in 0..n : \E p : Course(p, A, init, step, k)}
<1>1. 0 \in S
  <2> DEFINE p == [k \in 0..0 |-> init]
  <2>1. p \in [0..0 -> A] /\ p[0] = init
    OBVIOUS
  <2> HIDE DEF p
  <2>2. Course(p, A, init, step, 0)
    BY <2>1 DEF Course
  <2> QED  BY <2>2
<1>2. ASSUME NEW k \in 1..n, k - 1 \in S PROVE k \in S
  <2>1. PICK p : Course(p, A, init, step, k - 1)
    BY <1>2
  <2>2. \E q : Course(q, A, init, step, k)
    BY <2>1, CourseGrows
  <2> QED  BY <2>2
<1>3. \A k \in 1..n : k - 1 \in S => k \in S
  BY <1>2
<1> HIDE DEF S
<1>4. \A k \in 0..n : k \in S
  BY <1>1, <1>3, UpTo
<1>5. n \in S
  BY <1>4
<1> QED  BY <1>5 DEF S

\* A sum of sizes is a number.
IsTotal(f, s) == f = [n \in 0..Len(s) |-> IF n = 0 THEN 0 ELSE f[n - 1] + s[n]]

LEMMA TotalType ==
    ASSUME NEW s \in Seq(Nat)
    PROVE  Total(s) \in Nat
<1> DEFINE n == Len(s)
           f == CHOOSE g : IsTotal(g, s)
           step == [k \in 1..n |-> [a \in Nat |-> a + s[k]]]
<1>1. Total(s) = f[n]
  BY DEF Total, IsTotal
<1>2. n \in Nat /\ \A k \in 1..n : s[k] \in Nat
  OBVIOUS
<1>3. step \in [1..n -> [Nat -> Nat]]
  BY <1>2
<1>4. \A k \in 1..n : \A a \in Nat : step[k][a] = a + s[k]
  OBVIOUS
<1> HIDE DEF n, step
<1>5. PICK p : Course(p, Nat, 0, step, n)
  BY <1>2, <1>3, CourseExists
<1>6. IsTotal(p, s)
  <2> DEFINE q == [k \in 0..n |-> IF k = 0 THEN 0 ELSE p[k - 1] + s[k]]
  <2>1. \A k \in 0..n : p[k] = q[k]
    <3> SUFFICES ASSUME NEW k \in 0..n PROVE p[k] = q[k]
      OBVIOUS
    <3>1. CASE k = 0
      BY <1>2, <1>5, <3>1 DEF Course
    <3>2. CASE k # 0
      <4>1. k \in 1..n /\ k - 1 \in 0..n
        BY <1>2, <3>2
      <4>2. p[k] = step[k][p[k - 1]] /\ p[k - 1] \in Nat
        BY <1>5, <4>1 DEF Course
      <4> QED  BY <1>4, <3>2, <4>1, <4>2
    <3> QED  BY <3>1, <3>2
  <2>2. p = [k \in 0..n |-> p[k]]
    BY <1>5 DEF Course
  <2>3. p = q
    BY <2>1, <2>2
  <2> QED  BY <2>3 DEF IsTotal, n
<1>7. IsTotal(f, s)
  BY <1>6
<1> HIDE DEF f
<1>8. \A k \in 0..n : f[k] = IF k = 0 THEN 0 ELSE f[k - 1] + s[k]
  BY <1>7 DEF IsTotal, n
<1> DEFINE S == {k \in 0..n : f[k] \in Nat}
<1>9. 0 \in S
  BY <1>2, <1>8
<1>10. \A k \in 1..n : k - 1 \in S => k \in S
  BY <1>2, <1>8
<1> HIDE DEF S
<1>11. \A k \in 0..n : k \in S
  BY <1>2, <1>9, <1>10, UpTo
<1>12. n \in S
  BY <1>2, <1>11
<1> QED  BY <1>1, <1>12 DEF S

\* Sequences grow at their ends.
LEMMA AppendSet ==
    ASSUME NEW T, NEW a \in Seq(T), NEW x \in T
    PROVE  /\ Append(a, x) \in Seq(T)
           /\ ToSet(Append(a, x)) = ToSet(a) \cup {x}
           /\ IsInjective(a) /\ x \notin ToSet(a) => IsInjective(Append(a, x))
<1> DEFINE b == Append(a, x)
<1>1. /\ b \in Seq(T) /\ DOMAIN b = 1..(Len(a) + 1) /\ DOMAIN a = 1..Len(a) /\ Len(a) \in Nat
      /\ b[Len(a) + 1] = x /\ \A j \in 1..Len(a) : b[j] = a[j]
  OBVIOUS
<1> HIDE DEF b
<1>2. \A j \in 1..(Len(a) + 1) : j \in 1..Len(a) \/ j = Len(a) + 1
  BY <1>1
<1>3. ToSet(b) = ToSet(a) \cup {x}
  BY <1>1, <1>2 DEF ToSet
<1>4. IsInjective(a) /\ x \notin ToSet(a) => IsInjective(b)
  BY <1>1, <1>2 DEF IsInjective, ToSet
<1> QED  BY <1>1, <1>3, <1>4 DEF b

LEMMA ConcatSet ==
    ASSUME NEW T, NEW a \in Seq(T), NEW b \in Seq(T)
    PROVE  /\ a \o b \in Seq(T)
           /\ ToSet(a \o b) = ToSet(a) \cup ToSet(b)
           /\ IsInjective(a) /\ IsInjective(b) /\ ToSet(a) \cap ToSet(b) = {}
                 => IsInjective(a \o b)
<1> DEFINE c == a \o b
           m == Len(a)
           n == Len(b)
<1>1. /\ c \in Seq(T) /\ DOMAIN c = 1..(m + n) /\ DOMAIN a = 1..m /\ DOMAIN b = 1..n
      /\ m \in Nat /\ n \in Nat
      /\ \A j \in 1..m : c[j] = a[j]
  OBVIOUS
<1>2. \A j \in 1..n : c[m + j] = b[j]
  OBVIOUS
<1> HIDE DEF c, m, n
<1>3. \A j \in 1..(m + n) : j \in 1..m \/ \E l \in 1..n : j = m + l
  <2> SUFFICES ASSUME NEW j \in 1..(m + n), j \notin 1..m PROVE \E l \in 1..n : j = m + l
    OBVIOUS
  <2>1. j - m \in 1..n /\ j = m + (j - m)
    BY <1>1
  <2> QED  BY <2>1
<1>4. \A l \in 1..n : m + l \in 1..(m + n)
  BY <1>1
<1>5. \A l \in 1..m : l \in 1..(m + n)
  BY <1>1
<1>6. ToSet(c) = ToSet(a) \cup ToSet(b)
  <2>1. \A x \in ToSet(c) : x \in ToSet(a) \cup ToSet(b)
    <3> SUFFICES ASSUME NEW j \in 1..(m + n) PROVE c[j] \in ToSet(a) \cup ToSet(b)
      BY <1>1 DEF ToSet
    <3>1. CASE j \in 1..m
      BY <1>1, <3>1 DEF ToSet
    <3>2. CASE j \notin 1..m
      <4>1. PICK l \in 1..n : j = m + l
        BY <1>3, <3>2
      <4>2. c[j] = b[l]
        BY <1>2, <4>1
      <4> QED  BY <1>1, <4>2 DEF ToSet
    <3> QED  BY <3>1, <3>2
  <2>2. \A x \in ToSet(a) : x \in ToSet(c)
    BY <1>1, <1>5 DEF ToSet
  <2>3. \A x \in ToSet(b) : x \in ToSet(c)
    BY <1>1, <1>2, <1>4 DEF ToSet
  <2> QED  BY <2>1, <2>2, <2>3
<1>7. ASSUME IsInjective(a), IsInjective(b), ToSet(a) \cap ToSet(b) = {}
      PROVE  IsInjective(c)
  <2>1. \A j \in 1..m, l \in 1..n : a[j] # b[l]
    BY <1>1, <1>7 DEF ToSet
  <2>2. ASSUME NEW j \in 1..(m + n), NEW l \in 1..(m + n), c[j] = c[l]
        PROVE  j = l
    <3>1. CASE j \in 1..m /\ l \in 1..m
      BY <1>1, <1>7, <2>2, <3>1 DEF IsInjective
    <3>2. CASE j \in 1..m /\ l \notin 1..m
      <4>1. PICK ll \in 1..n : l = m + ll
        BY <1>3, <3>2
      <4>2. c[l] = b[ll] /\ c[j] = a[j]
        BY <1>1, <1>2, <3>2, <4>1
      <4> QED  BY <2>1, <2>2, <3>2, <4>2
    <3>3. CASE j \notin 1..m /\ l \in 1..m
      <4>1. PICK jj \in 1..n : j = m + jj
        BY <1>3, <3>3
      <4>2. c[j] = b[jj] /\ c[l] = a[l]
        BY <1>1, <1>2, <3>3, <4>1
      <4> QED  BY <2>1, <2>2, <3>3, <4>2
    <3>4. CASE j \notin 1..m /\ l \notin 1..m
      <4>1. PICK jj \in 1..n : j = m + jj
        BY <1>3, <3>4
      <4>2. PICK ll \in 1..n : l = m + ll
        BY <1>3, <3>4
      <4>3. b[jj] = b[ll]
        BY <1>2, <2>2, <4>1, <4>2
      <4> QED  BY <1>1, <1>7, <4>1, <4>2, <4>3 DEF IsInjective
    <3> QED  BY <3>1, <3>2, <3>3, <3>4
  <2> QED  BY <1>1, <2>2 DEF IsInjective
<1> QED  BY <1>1, <1>6, <1>7 DEF c

\* A filter keeps what it is to keep, once.
IsKept(f, s, S) ==
    f = [n \in 0..Len(s) |-> IF n = 0 THEN <<>>
                             ELSE IF s[n] \in S THEN Append(f[n - 1], s[n])
                             ELSE f[n - 1]]

LEMMA KeptIs ==
    ASSUME NEW T, NEW s \in Seq(T), NEW S
    PROVE  \E f : /\ Kept(s, S) = f[Len(s)]
                  /\ f[0] = <<>>
                  /\ \A k \in 1..Len(s) : f[k] = IF s[k] \in S THEN Append(f[k - 1], s[k])
                                                  ELSE f[k - 1]
<1> DEFINE n == Len(s)
           f == CHOOSE g : IsKept(g, s, S)
           step == [k \in 1..n |-> [a \in Seq(T) |-> IF s[k] \in S THEN Append(a, s[k]) ELSE a]]
<1>1. Kept(s, S) = f[n]
  BY DEF Kept, IsKept
<1>2. n \in Nat /\ \A k \in 1..n : s[k] \in T
  OBVIOUS
<1>3. \A k \in 1..n : \A a \in Seq(T) : (IF s[k] \in S THEN Append(a, s[k]) ELSE a) \in Seq(T)
  BY <1>2, AppendSet
<1>4. step \in [1..n -> [Seq(T) -> Seq(T)]]
  BY <1>3
<1>5. \A k \in 1..n : \A a \in Seq(T) : step[k][a] = IF s[k] \in S THEN Append(a, s[k]) ELSE a
  OBVIOUS
<1> HIDE DEF n, step
<1>6. PICK p : Course(p, Seq(T), <<>>, step, n)
  <2>1. <<>> \in Seq(T)
    OBVIOUS
  <2> QED  BY <1>2, <1>4, <2>1, CourseExists
<1>7. IsKept(p, s, S)
  <2> DEFINE q == [k \in 0..n |-> IF k = 0 THEN <<>>
                                  ELSE IF s[k] \in S THEN Append(p[k - 1], s[k])
                                  ELSE p[k - 1]]
  <2>1. \A k \in 0..n : p[k] = q[k]
    <3> SUFFICES ASSUME NEW k \in 0..n PROVE p[k] = q[k]
      OBVIOUS
    <3>1. CASE k = 0
      BY <1>2, <1>6, <3>1 DEF Course
    <3>2. CASE k # 0
      <4>1. k \in 1..n /\ k - 1 \in 0..n
        BY <1>2, <3>2
      <4>2. p[k] = step[k][p[k - 1]] /\ p[k - 1] \in Seq(T)
        BY <1>6, <4>1 DEF Course
      <4>3. p[k] = IF s[k] \in S THEN Append(p[k - 1], s[k]) ELSE p[k - 1]
        BY <1>5, <4>1, <4>2
      <4> QED  BY <3>2, <4>3
    <3> QED  BY <3>1, <3>2
  <2>2. p = [k \in 0..n |-> p[k]]
    BY <1>6 DEF Course
  <2>3. p = q
    BY <2>1, <2>2
  <2> QED  BY <2>3 DEF IsKept, n
<1>8. IsKept(f, s, S)
  BY <1>7
<1> HIDE DEF f
<1>9. \A k \in 0..n : f[k] = IF k = 0 THEN <<>>
                            ELSE IF s[k] \in S THEN Append(f[k - 1], s[k])
                            ELSE f[k - 1]
  BY <1>8 DEF IsKept, n
<1>10. /\ f[0] = <<>>
       /\ \A k \in 1..n : f[k] = IF s[k] \in S THEN Append(f[k - 1], s[k]) ELSE f[k - 1]
  BY <1>2, <1>9
<1> QED  BY <1>1, <1>10 DEF n

LEMMA KeptFacts ==
    ASSUME NEW T, NEW s \in Seq(T), NEW S
    PROVE  /\ Kept(s, S) \in Seq(T)
           /\ ToSet(Kept(s, S)) = ToSet(s) \cap S
           /\ IsInjective(s) => IsInjective(Kept(s, S))
<1> DEFINE n == Len(s)
<1>1. PICK f : /\ Kept(s, S) = f[n]
               /\ f[0] = <<>>
               /\ \A k \in 1..n : f[k] = IF s[k] \in S THEN Append(f[k - 1], s[k]) ELSE f[k - 1]
  BY KeptIs
<1>2. n \in Nat /\ DOMAIN s = 1..n /\ \A k \in 1..n : s[k] \in T
  OBVIOUS
<1> DEFINE Q(k) == {s[j] : j \in 1..k} \cap S
           Good == {k \in 0..n : /\ f[k] \in Seq(T)
                                 /\ ToSet(f[k]) = Q(k)
                                 /\ IsInjective(s) => IsInjective(f[k])}
<1> HIDE DEF n
<1>3. 0 \in Good
  <2>1. f[0] \in Seq(T) /\ DOMAIN f[0] = {}
    BY <1>1
  <2> QED  BY <1>2, <2>1 DEF ToSet, IsInjective
<1>4. ASSUME NEW k \in 1..n, k - 1 \in Good PROVE k \in Good
  <2> DEFINE a == f[k - 1]
  <2>1. /\ k \in 0..n /\ s[k] \in T /\ a \in Seq(T) /\ ToSet(a) = Q(k - 1)
        /\ IsInjective(s) => IsInjective(a)
    BY <1>2, <1>4
  <2>2. \A j \in 1..k : j = k \/ j \in 1..(k - 1)
    BY <1>2
  <2>3. \A j \in 1..(k - 1) : j \in 1..k /\ j \in 1..n /\ j # k
    BY <1>2
  <2>4. CASE s[k] \in S
    <3>1. f[k] = Append(a, s[k])
      BY <1>1, <2>4
    <3> HIDE DEF a, Q
    <3>2. f[k] \in Seq(T) /\ ToSet(f[k]) = ToSet(a) \cup {s[k]}
      BY <2>1, <3>1, AppendSet
    <3>3. Q(k) = Q(k - 1) \cup {s[k]}
      BY <2>2, <2>3, <2>4 DEF Q
    <3>4. IsInjective(s) => s[k] \notin Q(k - 1)
      BY <1>2, <2>3 DEF Q, IsInjective
    <3>5. IsInjective(s) => IsInjective(f[k])
      BY <2>1, <3>1, <3>4, AppendSet
    <3> QED  BY <2>1, <3>2, <3>3, <3>5
  <2>5. CASE s[k] \notin S
    <3>1. f[k] = a
      BY <1>1, <2>5
    <3> HIDE DEF a, Q
    <3>2. Q(k) = Q(k - 1)
      BY <2>2, <2>3, <2>5 DEF Q
    <3> QED  BY <2>1, <3>1, <3>2
  <2> QED  BY <2>4, <2>5
<1>5. \A k \in 1..n : k - 1 \in Good => k \in Good
  BY <1>4
<1> HIDE DEF Good
<1>6. \A k \in 0..n : k \in Good
  BY <1>2, <1>3, <1>5, UpTo
<1>7. n \in Good
  BY <1>2, <1>6
<1>8. Q(n) = ToSet(s) \cap S
  BY <1>2 DEF ToSet
<1> QED  BY <1>1, <1>7, <1>8 DEF Good

\* Sequences of blocks one behind the other, up to each of them.
Joins(p, ss, T) ==
    /\ p \in [0..Len(ss) -> Seq(T)]
    /\ p[0] = <<>>
    /\ \A k \in 1..Len(ss) : p[k] = p[k - 1] \o ss[k]

IsFlat(f, ss) == f = [i_ \in 1..Len(ss) |-> IF i_ = 1 THEN ss[i_] ELSE f[i_ - 1] \o ss[i_]]

LEMMA EmptyBefore == ASSUME NEW T, NEW s \in Seq(T) PROVE <<>> \o s = s /\ s \o <<>> = s
OBVIOUS

LEMMA JoinsExist ==
    ASSUME NEW T, NEW ss \in Seq(Seq(T))
    PROVE  \E p : Joins(p, ss, T)
<1> DEFINE n == Len(ss)
           step == [k \in 1..n |-> [a \in Seq(T) |-> a \o ss[k]]]
<1>1. n \in Nat /\ \A k \in 1..n : ss[k] \in Seq(T)
  OBVIOUS
<1>2. \A k \in 1..n : \A a \in Seq(T) : a \o ss[k] \in Seq(T)
  BY <1>1, ConcatSet
<1>3. step \in [1..n -> [Seq(T) -> Seq(T)]]
  BY <1>2
<1>4. \A k \in 1..n : \A a \in Seq(T) : step[k][a] = a \o ss[k]
  OBVIOUS
<1> HIDE DEF n, step
<1>5. PICK p : Course(p, Seq(T), <<>>, step, n)
  <2>1. <<>> \in Seq(T)
    OBVIOUS
  <2> QED  BY <1>1, <1>3, <2>1, CourseExists
<1>6. \A k \in 1..n : p[k] = p[k - 1] \o ss[k]
  <2> SUFFICES ASSUME NEW k \in 1..n PROVE p[k] = p[k - 1] \o ss[k]
    OBVIOUS
  <2>1. k - 1 \in 0..n
    BY <1>1
  <2>2. p[k] = step[k][p[k - 1]] /\ p[k - 1] \in Seq(T)
    BY <1>5, <2>1 DEF Course
  <2> QED  BY <1>4, <2>2
<1>7. Joins(p, ss, T)
  BY <1>5, <1>6 DEF Joins, Course, n
<1> QED  BY <1>7

LEMMA FlattenIs ==
    ASSUME NEW T, NEW ss \in Seq(Seq(T)), NEW p, Joins(p, ss, T)
    PROVE  FlattenSeq(ss) = p[Len(ss)]
<1> DEFINE n == Len(ss)
           f == CHOOSE g : IsFlat(g, ss)
<1>1. n \in Nat /\ \A k \in 1..n : ss[k] \in Seq(T)
  OBVIOUS
<1>2. CASE n = 0
  <2>1. ss = <<>>
    BY <1>2
  <2>2. FlattenSeq(ss) = ss
    BY <1>2 DEF FlattenSeq
  <2> QED  BY <1>2, <2>1, <2>2 DEF Joins
<1>3. CASE n # 0
  <2>1. FlattenSeq(ss) = f[n]
    BY <1>3 DEF FlattenSeq, IsFlat
  <2> DEFINE h == [k \in 1..n |-> p[k]]
             q == [k \in 1..n |-> IF k = 1 THEN ss[k] ELSE h[k - 1] \o ss[k]]
  <2>2. IsFlat(h, ss)
    <3>1. ASSUME NEW k \in 1..n PROVE h[k] = q[k]
      <4>1. p[k] = p[k - 1] \o ss[k]
        BY DEF Joins
      <4>2. CASE k = 1
        <5>1. p[0] = <<>> /\ k - 1 = 0 /\ ss[k] \in Seq(T)
          BY <1>1, <4>2 DEF Joins
        <5>2. p[k] = ss[k]
          BY <4>1, <5>1, EmptyBefore
        <5> QED  BY <4>2, <5>2
      <4>3. CASE k # 1
        <5>1. k - 1 \in 1..n
          BY <1>1, <4>3
        <5>2. h[k - 1] = p[k - 1]
          BY <5>1
        <5> QED  BY <4>1, <4>3, <5>2
      <4> QED  BY <4>2, <4>3
    <3>2. h = q
      BY <3>1
    <3> QED  BY <3>2 DEF IsFlat
  <2>3. IsFlat(f, ss)
    BY <2>2
  <2> HIDE DEF f, h, q
  <2>4. \A k \in 1..n : f[k] = IF k = 1 THEN ss[k] ELSE f[k - 1] \o ss[k]
    BY <2>3 DEF IsFlat
  <2> DEFINE S == {k \in 0..n : k = 0 \/ f[k] = p[k]}
  <2>5. 0 \in S
    BY <1>1
  <2>6. ASSUME NEW k \in 1..n, k - 1 \in S PROVE k \in S
    <3>1. p[k] = p[k - 1] \o ss[k] /\ p[0] = <<>>
      BY DEF Joins
    <3>2. CASE k = 1
      <4>1. p[k] = ss[k]
        <5>1. k - 1 = 0 /\ ss[k] \in Seq(T)
          BY <1>1, <3>2
        <5> QED  BY <3>1, <5>1, EmptyBefore
      <4> QED  BY <1>1, <2>4, <3>2, <4>1
    <3>3. CASE k # 1
      <4>1. k - 1 # 0 /\ k \in 0..n
        BY <1>1, <3>3
      <4>2. f[k - 1] = p[k - 1]
        BY <2>6, <4>1
      <4>3. f[k] = f[k - 1] \o ss[k]
        BY <2>4, <3>3
      <4> QED  BY <3>1, <4>1, <4>2, <4>3
    <3> QED  BY <3>2, <3>3
  <2>7. \A k \in 1..n : k - 1 \in S => k \in S
    BY <2>6
  <2> HIDE DEF S, n
  <2>8. \A k \in 0..n : k \in S
    BY <1>1, <2>5, <2>7, UpTo
  <2>9. n \in S
    BY <1>1, <2>8
  <2> QED  BY <1>3, <2>1, <2>9 DEF S, n
<1> QED  BY <1>2, <1>3

\* The blocks of all the sequences, and each once if they are apart.
LEMMA FlattenFacts ==
    ASSUME NEW T, NEW ss \in Seq(Seq(T))
    PROVE  /\ FlattenSeq(ss) \in Seq(T)
           /\ ToSet(FlattenSeq(ss)) = All(ss)
           /\ Apart(ss) => IsInjective(FlattenSeq(ss))
<1> DEFINE n == Len(ss)
<1>1. n \in Nat /\ DOMAIN ss = 1..n /\ \A k \in 1..n : ss[k] \in Seq(T)
  OBVIOUS
<1>2. PICK p : Joins(p, ss, T)
  BY JoinsExist
<1>3. FlattenSeq(ss) = p[n]
  BY <1>2, FlattenIs
<1>4. /\ p \in [0..n -> Seq(T)] /\ p[0] = <<>>
      /\ \A k \in 1..n : p[k] = p[k - 1] \o ss[k]
  BY <1>2 DEF Joins
<1> HIDE DEF n
<1> DEFINE Q(k) == UNION {ToSet(ss[j]) : j \in 1..k}
           S == {k \in 0..n : ToSet(p[k]) = Q(k) /\ (Apart(ss) => IsInjective(p[k]))}
<1>5. 0 \in S
  <2>1. DOMAIN p[0] = {}
    BY <1>4
  <2> QED  BY <1>1, <2>1 DEF ToSet, IsInjective
<1>6. ASSUME NEW k \in 1..n, k - 1 \in S PROVE k \in S
  <2>1. /\ k \in 0..n /\ k - 1 \in 0..n /\ ss[k] \in Seq(T) /\ p[k - 1] \in Seq(T)
        /\ p[k] = p[k - 1] \o ss[k]
    <3>1. k \in 0..n /\ k - 1 \in 0..n
      BY <1>1
    <3> QED  BY <1>1, <1>4, <3>1
  <2>2. ToSet(p[k - 1]) = Q(k - 1) /\ (Apart(ss) => IsInjective(p[k - 1]))
    BY <1>6
  <2>3. \A j \in 1..k : j = k \/ j \in 1..(k - 1)
    BY <1>1
  <2>4. \A j \in 1..(k - 1) : j \in 1..k /\ j \in 1..n /\ j # k
    BY <1>1
  <2>5. k \in 1..k
    BY <1>1
  <2> HIDE DEF Q, S
  <2>6. Q(k) = Q(k - 1) \cup ToSet(ss[k])
    BY <2>3, <2>4, <2>5 DEF Q
  <2>7. ToSet(p[k]) = ToSet(p[k - 1]) \cup ToSet(ss[k])
    BY <2>1, ConcatSet
  <2>8. ASSUME Apart(ss) PROVE IsInjective(p[k])
    <3>1. IsInjective(ss[k]) /\ \A j \in 1..(k - 1) : ToSet(ss[j]) \cap ToSet(ss[k]) = {}
      BY <1>1, <2>4, <2>8 DEF Apart
    <3>2. Q(k - 1) \cap ToSet(ss[k]) = {}
      BY <3>1 DEF Q
    <3> QED  BY <2>1, <2>2, <2>8, <3>1, <3>2, ConcatSet
  <2> QED  BY <2>1, <2>2, <2>6, <2>7, <2>8 DEF S
<1>7. \A k \in 1..n : k - 1 \in S => k \in S
  BY <1>6
<1> HIDE DEF S, Q
<1>8. \A k \in 0..n : k \in S
  BY <1>1, <1>5, <1>7, UpTo
<1>9. n \in S /\ p[n] \in Seq(T)
  BY <1>1, <1>4, <1>8
<1>10. Q(n) = All(ss)
  BY <1>1 DEF Q, All
<1> QED  BY <1>3, <1>9, <1>10 DEF S

\* What is behind what is put behind it.
LEMMA NumbersAssociate ==
    \A a, b, c \in Seq(Nat) : (a \o b) \o c = a \o (b \o c)
<1> SUFFICES ASSUME NEW a \in Seq(Nat), NEW b \in Seq(Nat), NEW c \in Seq(Nat)
             PROVE  (a \o b) \o c = a \o (b \o c)
  OBVIOUS
<1> QED  OBVIOUS

LEMMA Associates ==
    ASSUME NEW T, NEW a \in Seq(T), NEW b \in Seq(T), NEW c \in Seq(T)
    PROVE  (a \o b) \o c = a \o (b \o c)
OBVIOUS

LEMMA FlattenConcat ==
    ASSUME NEW T, NEW a \in Seq(Seq(T)), NEW b \in Seq(Seq(T))
    PROVE  FlattenSeq(a \o b) = FlattenSeq(a) \o FlattenSeq(b)
<1> DEFINE m == Len(a)
           n == Len(b)
           c == a \o b
<1>1. /\ m \in Nat /\ n \in Nat /\ c \in Seq(Seq(T)) /\ Len(c) = m + n
      /\ \A k \in 1..m : c[k] = a[k] /\ a[k] \in Seq(T)
  OBVIOUS
<1>2. \A k \in 1..n : c[m + k] = b[k] /\ b[k] \in Seq(T)
  OBVIOUS
<1>3. PICK p : Joins(p, a, T)
  BY JoinsExist
<1>4. PICK q : Joins(q, b, T)
  BY JoinsExist
<1> HIDE DEF c
<1>5. PICK r : Joins(r, c, T)
  BY <1>1, JoinsExist
<1>6. FlattenSeq(a) = p[m] /\ FlattenSeq(b) = q[n]
  BY <1>3, <1>4, FlattenIs
<1>7. FlattenSeq(c) = r[m + n]
  BY <1>1, <1>5, FlattenIs
<1>8. /\ p \in [0..m -> Seq(T)] /\ p[0] = <<>>
      /\ \A k \in 1..m : p[k] = p[k - 1] \o a[k]
  BY <1>3 DEF Joins
<1>9. /\ q \in [0..n -> Seq(T)] /\ q[0] = <<>>
      /\ \A k \in 1..n : q[k] = q[k - 1] \o b[k]
  BY <1>4 DEF Joins
<1>10. r[0] = <<>> /\ \A k \in 1..(m + n) : r[k] = r[k - 1] \o c[k]
  BY <1>1, <1>5 DEF Joins
<1> HIDE DEF m, n
<1>11. r[m] = p[m]
  <2> DEFINE S == {k \in 0..m : r[k] = p[k]}
  <2>1. 0 \in S
    BY <1>1, <1>8, <1>10
  <2>2. \A k \in 1..m : k - 1 \in S => k \in S
    <3> SUFFICES ASSUME NEW k \in 1..m, r[k - 1] = p[k - 1] PROVE k \in S
      OBVIOUS
    <3>1. k \in 1..(m + n) /\ k \in 0..m
      BY <1>1
    <3> QED  BY <1>1, <1>8, <1>10, <3>1
  <2> HIDE DEF S
  <2>3. \A k \in 0..m : k \in S
    BY <1>1, <2>1, <2>2, UpTo
  <2>4. m \in S
    BY <1>1, <2>3
  <2> QED  BY <2>4 DEF S
<1>12. r[m + n] = p[m] \o q[n]
  <2> DEFINE S == {k \in 0..n : r[m + k] = p[m] \o q[k]}
  <2>0. \A x, y, z \in Seq(T) : (x \o y) \o z = x \o (y \o z)
    <3> SUFFICES ASSUME NEW x \in Seq(T), NEW y \in Seq(T), NEW z \in Seq(T)
                 PROVE  (x \o y) \o z = x \o (y \o z)
      OBVIOUS
    <3> HIDE DEF S
    <3> QED  BY Associates
  <2>1. p[m] \in Seq(T)
    BY <1>1, <1>8
  <2>2. 0 \in S
    <3>1. p[m] \o <<>> = p[m]
      BY <2>1, EmptyBefore
    <3>2. m + 0 = m
      BY <1>1
    <3>3. r[m + 0] = p[m] \o q[0]
      BY <1>9, <1>11, <3>1, <3>2, Zenon
    <3>4. 0 \in 0..n
      BY <1>1
    <3> QED  BY <3>3, <3>4, Zenon
  <2>3. \A k \in 1..n : k - 1 \in S => k \in S
    <3> SUFFICES ASSUME NEW k \in 1..n, r[m + (k - 1)] = p[m] \o q[k - 1] PROVE k \in S
      OBVIOUS
    <3>1. m + k \in 1..(m + n) /\ k \in 0..n /\ k - 1 \in 0..n /\ (m + k) - 1 = m + (k - 1)
      BY <1>1
    <3>2. r[m + k] = r[m + (k - 1)] \o c[m + k]
      BY <1>10, <3>1
    <3>3. q[k - 1] \in Seq(T) /\ b[k] \in Seq(T) /\ c[m + k] = b[k] /\ q[k] = q[k - 1] \o b[k]
      BY <1>2, <1>9, <3>1
    <3>4. r[m + k] = (p[m] \o q[k - 1]) \o b[k]
      BY <3>2, <3>3
    <3>5. (p[m] \o q[k - 1]) \o b[k] = p[m] \o (q[k - 1] \o b[k])
      <4>1. q[k - 1] \in Seq(T) /\ b[k] \in Seq(T)
        BY <3>3
      <4> QED  BY <2>0, <2>1, <4>1, Zenon
    <3>6. r[m + k] = p[m] \o q[k]
      BY <3>3, <3>4, <3>5, Zenon
    <3>7. k \in 0..n
      BY <3>1
    <3> QED  BY <3>6, <3>7, Zenon
  <2> HIDE DEF S
  <2>4. \A k \in 0..n : k \in S
    BY <1>1, <2>2, <2>3, UpTo
  <2>5. n \in S
    BY <1>1, <2>4
  <2> QED  BY <2>5 DEF S
<1> QED  BY <1>6, <1>7, <1>12 DEF c

LEMMA BlocksAreNumbers == Blocks \subseteq Nat
<1>1. Cardinality(Blocks) \in Nat
  BY TraceAssumption, FS_CardinalityType
<1>2. Blocks = 1..Cardinality(Blocks)
  BY TraceAssumption
<1> QED  BY <1>1, <1>2

LEMMA SeqWider ==
    ASSUME NEW S, NEW T, S \subseteq T, NEW s \in Seq(S)
    PROVE  s \in Seq(T)
<1>1. Len(s) \in Nat /\ s = [k \in 1..Len(s) |-> s[k]] /\ \A k \in 1..Len(s) : s[k] \in T
  OBVIOUS
<1> DEFINE n == Len(s)
<1> HIDE DEF n
<1>2. n \in Nat /\ s = [k \in 1..n |-> s[k]] /\ \A k \in 1..n : s[k] \in T
  BY <1>1 DEF n
<1>3. [k \in 1..n |-> s[k]] \in Seq(T)
  BY <1>2, IsASeq
<1> QED  BY <1>2, <1>3

LEMMA ConcatFacts ==
    ASSUME NEW T, NEW a \in Seq(T), NEW b \in Seq(T)
    PROVE  /\ a \o b \in Seq(T) /\ Len(a) \in Nat /\ Len(b) \in Nat
           /\ Len(a \o b) = Len(a) + Len(b)
           /\ \A k \in 1..Len(a) : (a \o b)[k] = a[k]
           /\ \A k \in 1..Len(b) : (a \o b)[Len(a) + k] = b[k]
OBVIOUS

\* The lines of the log.
Lines(cl) == [k \in DOMAIN cl |-> <<Len(cl[k])>> \o cl[k]]

LEMMA ClustersFacts ==
    ASSUME NEW cl \in Clusters
    PROVE  /\ cl \in Seq(Seq(Blocks)) /\ Len(cl) \in Nat /\ DOMAIN cl = 1..Len(cl)
           /\ cl \in Seq(Seq(Nat))
           /\ \A k \in 1..Len(cl) : cl[k] \in Seq(Blocks) /\ cl[k] \in Seq(Nat) /\ cl[k] # <<>>
<1>1. cl \in Seq(Seq(Blocks) \ {<<>>}) /\ Len(cl) \in Nat /\ DOMAIN cl = 1..Len(cl)
  BY DEF Clusters
<1>2. \A k \in 1..Len(cl) : cl[k] \in Seq(Blocks) /\ cl[k] # <<>>
  BY <1>1
<1>3. \A c \in Seq(Blocks) : c \in Seq(Nat)
  BY BlocksAreNumbers, SeqWider
<1>4. cl \in Seq(Seq(Blocks)) /\ cl \in Seq(Seq(Nat))
  BY <1>1, <1>2, <1>3
<1> QED  BY <1>1, <1>2, <1>3, <1>4

LEMMA LineType ==
    ASSUME NEW c \in Seq(Nat)
    PROVE  /\ <<Len(c)>> \o c \in Seq(Nat)
           /\ Len(<<Len(c)>> \o c) = Len(c) + 1
           /\ (<<Len(c)>> \o c)[1] = Len(c)
           /\ \A j \in 1..Len(c) : (<<Len(c)>> \o c)[j + 1] = c[j]
OBVIOUS

LEMMA LinesFacts ==
    ASSUME NEW cl \in Clusters
    PROVE  /\ Lines(cl) \in Seq(Seq(Nat)) /\ Len(Lines(cl)) = Len(cl)
           /\ \A k \in 1..Len(cl) : Lines(cl)[k] = <<Len(cl[k])>> \o cl[k]
           /\ Printed(cl) = FlattenSeq(Lines(cl))
<1>1. Len(cl) \in Nat /\ DOMAIN cl = 1..Len(cl) /\ \A k \in 1..Len(cl) : cl[k] \in Seq(Nat)
  BY ClustersFacts
<1>2. \A k \in 1..Len(cl) : <<Len(cl[k])>> \o cl[k] \in Seq(Nat)
  BY <1>1, LineType
<1> DEFINE n == Len(cl)
           line(k) == <<Len(cl[k])>> \o cl[k]
<1>3. Lines(cl) = [k \in 1..n |-> line(k)]
  BY <1>1 DEF Lines
<1>4. n \in Nat /\ \A k \in 1..n : line(k) \in Seq(Nat)
  BY <1>1, <1>2
<1> HIDE DEF n, line
<1>5. Lines(cl) \in Seq(Seq(Nat)) /\ Len(Lines(cl)) = n /\ \A k \in 1..n : Lines(cl)[k] = line(k)
  BY <1>3, <1>4
<1>6. Printed(cl) = FlattenSeq(Lines(cl))
  BY DEF Printed, Lines
<1> QED  BY <1>5, <1>6 DEF n, line

LEMMA PrintedType ==
    ASSUME NEW cl \in Clusters
    PROVE  Printed(cl) \in Seq(Nat)
<1>1. Lines(cl) \in Seq(Seq(Nat)) /\ Printed(cl) = FlattenSeq(Lines(cl))
  BY LinesFacts
<1> QED  BY <1>1, FlattenFacts

LEMMA PrintedEmpty == <<>> \in Clusters /\ Printed(<<>>) = <<>>
<1>1. <<>> \in Clusters
  BY DEF Clusters
<1>2. [k \in DOMAIN <<>> |-> <<Len(<<>>[k])>> \o <<>>[k]] = <<>>
  OBVIOUS
<1>3. Len(<<>>) = 0
  OBVIOUS
<1>4. FlattenSeq(<<>>) = <<>>
  BY <1>3 DEF FlattenSeq
<1> QED  BY <1>1, <1>2, <1>4 DEF Printed

LEMMA PrintedConcat ==
    ASSUME NEW a \in Clusters, NEW b \in Clusters
    PROVE  a \o b \in Clusters /\ Printed(a \o b) = Printed(a) \o Printed(b)
<1> DEFINE c == a \o b
           m == Len(a)
           n == Len(b)
<1>1. c \in Clusters
  BY ConcatSet DEF Clusters
<1>2. m \in Nat /\ n \in Nat /\ Len(c) = m + n
  BY DEF Clusters
<1>3. \A k \in 1..m : c[k] = a[k]
  BY DEF Clusters
<1>4. \A k \in 1..n : c[m + k] = b[k]
  BY DEF Clusters
<1> HIDE DEF c
<1>5. /\ Lines(a) \in Seq(Seq(Nat)) /\ Len(Lines(a)) = m
      /\ \A k \in 1..m : Lines(a)[k] = <<Len(a[k])>> \o a[k]
  BY LinesFacts
<1>6. /\ Lines(b) \in Seq(Seq(Nat)) /\ Len(Lines(b)) = n
      /\ \A k \in 1..n : Lines(b)[k] = <<Len(b[k])>> \o b[k]
  BY LinesFacts
<1>7. /\ Lines(c) \in Seq(Seq(Nat)) /\ Len(Lines(c)) = m + n
      /\ \A k \in 1..(m + n) : Lines(c)[k] = <<Len(c[k])>> \o c[k]
  BY <1>1, <1>2, LinesFacts
<1> HIDE DEF m, n
<1> DEFINE d == Lines(a) \o Lines(b)
<1>8. /\ d \in Seq(Seq(Nat)) /\ Len(d) = m + n
      /\ \A k \in 1..m : d[k] = Lines(a)[k]
  <2>1. Lines(a) \in Seq(Seq(Nat)) /\ Lines(b) \in Seq(Seq(Nat))
    BY <1>5, <1>6
  <2>2. /\ d \in Seq(Seq(Nat)) /\ Len(d) = Len(Lines(a)) + Len(Lines(b))
        /\ \A k \in 1..Len(Lines(a)) : d[k] = Lines(a)[k]
    BY <2>1, ConcatFacts
  <2> HIDE DEF d
  <2> QED  BY <1>5, <1>6, <2>2
<1>9. \A k \in 1..n : d[m + k] = Lines(b)[k]
  <2>1. Lines(a) \in Seq(Seq(Nat)) /\ Lines(b) \in Seq(Seq(Nat))
    BY <1>5, <1>6
  <2>2. \A k \in 1..Len(Lines(b)) : d[Len(Lines(a)) + k] = Lines(b)[k]
    BY <2>1, ConcatFacts
  <2> HIDE DEF d
  <2> QED  BY <1>5, <1>6, <2>2
<1> HIDE DEF d
<1>10. \A k \in 1..(m + n) : Lines(c)[k] = d[k]
  <2> SUFFICES ASSUME NEW k \in 1..(m + n) PROVE Lines(c)[k] = d[k]
    OBVIOUS
  <2>1. CASE k \in 1..m
    BY <1>3, <1>5, <1>7, <1>8, <2>1
  <2>2. CASE k \notin 1..m
    <3>1. k - m \in 1..n /\ m + (k - m) = k
      BY <1>2, <2>2
    <3>2. PICK l \in 1..n : m + l = k
      BY <3>1
    <3>3. c[m + l] = b[l] /\ d[m + l] = Lines(b)[l] /\ Lines(b)[l] = <<Len(b[l])>> \o b[l]
      BY <1>4, <1>6, <1>9
    <3>4. Lines(c)[m + l] = <<Len(c[m + l])>> \o c[m + l]
      BY <1>7, <3>2
    <3>5. Lines(c)[m + l] = d[m + l]
      BY <3>3, <3>4, Zenon
    <3> QED  BY <3>2, <3>5
  <2> QED  BY <2>1, <2>2
<1>11. Lines(c) = d
  BY <1>7, <1>8, <1>10, SeqEqual
<1>12. FlattenSeq(d) = FlattenSeq(Lines(a)) \o FlattenSeq(Lines(b))
  BY <1>5, <1>6, FlattenConcat DEF d
<1>13. Printed(c) = FlattenSeq(Lines(c)) /\ Printed(a) = FlattenSeq(Lines(a))
       /\ Printed(b) = FlattenSeq(Lines(b))
  BY <1>1, LinesFacts
<1>14. Printed(c) = Printed(a) \o Printed(b)
  BY <1>11, <1>12, <1>13, Zenon
<1> QED  BY <1>1, <1>14 DEF c

LEMMA FlattenOne ==
    ASSUME NEW T, NEW c \in Seq(T)
    PROVE  FlattenSeq(<<c>>) = c
<1> DEFINE p == [k \in 0..1 |-> IF k = 0 THEN <<>> ELSE c]
<1>1. <<c>> \in Seq(Seq(T)) /\ Len(<<c>>) = 1 /\ <<c>>[1] = c
  OBVIOUS
<1>2. p \in [0..1 -> Seq(T)] /\ p[0] = <<>> /\ p[1] = c
  OBVIOUS
<1> HIDE DEF p
<1>3. <<>> \o c = c
  BY EmptyBefore
<1>4. p[1] = p[1 - 1] \o <<c>>[1]
  BY <1>1, <1>2, <1>3
<1>5. \A k \in 1..1 : p[k] = p[k - 1] \o <<c>>[k]
  BY <1>4
<1>6. Joins(p, <<c>>, T)
  BY <1>1, <1>2, <1>5 DEF Joins
<1>7. FlattenSeq(<<c>>) = p[Len(<<c>>)]
  BY <1>1, <1>6, FlattenIs
<1> QED  BY <1>1, <1>2, <1>7

\* What FineRead reads of a log: the first cluster, and the rest is the log of
\* the others.
LEMMA PrintedRead ==
    ASSUME NEW cl \in Clusters, cl # <<>>
    PROVE  /\ Tail(cl) \in Clusters /\ cl = <<cl[1]>> \o Tail(cl)
           /\ Printed(cl) # <<>>
           /\ Head(Printed(cl)) = Len(cl[1])
           /\ SubSeq(Printed(cl), 2, Len(cl[1]) + 1) = cl[1]
           /\ SubSeq(Printed(cl), Len(cl[1]) + 2, Len(Printed(cl))) = Printed(Tail(cl))
<1> DEFINE c == cl[1]
           r == Tail(cl)
<1>1. /\ r \in Clusters /\ cl = <<c>> \o r /\ <<c>> \in Clusters
      /\ c \in Seq(Blocks)
  BY DEF Clusters
<1> HIDE DEF c, r
<1>2. c \in Seq(Nat)
  BY <1>1, BlocksAreNumbers, SeqWider
<1>3. Printed(cl) = Printed(<<c>>) \o Printed(r)
  BY <1>1, PrintedConcat
<1> DEFINE line == <<Len(c)>> \o c
           m == Len(c)
<1>4. /\ line \in Seq(Nat) /\ Len(line) = m + 1 /\ line[1] = m /\ m \in Nat
      /\ \A j \in 1..m : line[j + 1] = c[j]
  BY <1>2, LineType
<1>5. Printed(<<c>>) = line
  <2>1. Lines(<<c>>) \in Seq(Seq(Nat)) /\ Len(Lines(<<c>>)) = 1 /\ Lines(<<c>>)[1] = line
    <3>1. Len(<<c>>) = 1 /\ <<c>>[1] = c /\ 1 \in 1..1
      OBVIOUS
    <3> QED  BY <1>1, <3>1, LinesFacts
  <2> HIDE DEF line
  <2>2. Lines(<<c>>) = <<line>>
    BY <1>4, <2>1
  <2>3. FlattenSeq(<<line>>) = line
    BY <1>4, FlattenOne
  <2>4. Printed(<<c>>) = FlattenSeq(Lines(<<c>>))
    BY <1>1, LinesFacts
  <2> QED  BY <2>2, <2>3, <2>4
<1> DEFINE t == Printed(r)
           s == line \o t
<1>6. t \in Seq(Nat)
  BY <1>1, PrintedType
<1> HIDE DEF line, t, m
<1>7. /\ s \in Seq(Nat) /\ Len(s) = m + 1 + Len(t) /\ Len(t) \in Nat
      /\ \A j \in 1..(m + 1) : s[j] = line[j]
  <2>1. line \in Seq(Nat)
    BY <1>4
  <2>2. /\ s \in Seq(Nat) /\ Len(s) = Len(line) + Len(t) /\ Len(t) \in Nat
        /\ \A j \in 1..Len(line) : s[j] = line[j]
    BY <1>6, <2>1, ConcatFacts
  <2> HIDE DEF s
  <2> QED  BY <1>4, <2>2
<1>8. \A j \in 1..Len(t) : s[m + 1 + j] = t[j]
  <2>1. line \in Seq(Nat)
    BY <1>4
  <2>2. \A j \in 1..Len(t) : s[Len(line) + j] = t[j]
    BY <1>6, <2>1, ConcatFacts
  <2> HIDE DEF s
  <2> QED  BY <1>4, <2>2
<1>9. Printed(cl) = s
  BY <1>3, <1>5 DEF t
<1> HIDE DEF s
<1>10. s # <<>> /\ Head(s) = m
  <2>1. s[1] = m /\ Len(s) > 0
    BY <1>4, <1>7
  <2> QED  BY <1>7, <2>1
<1>11. SubSeq(s, 2, m + 1) = c
  <2> DEFINE u == SubSeq(s, 2, m + 1)
  <2>1. u \in Seq(Nat) /\ Len(u) = m /\ \A j \in 1..m : u[j] = s[j + 1]
    BY <1>4, <1>7
  <2> HIDE DEF u
  <2>2. ASSUME NEW j \in 1..m PROVE u[j] = c[j]
    <3>1. j + 1 \in 1..(m + 1)
      BY <1>4
    <3>2. u[j] = s[j + 1]
      BY <2>1
    <3>3. s[j + 1] = line[j + 1]
      BY <1>7, <3>1
    <3>4. line[j + 1] = c[j]
      BY <1>4
    <3> QED  BY <3>2, <3>3, <3>4
  <2>3. Len(c) = m
    BY DEF m
  <2> QED  BY <1>2, <2>1, <2>2, <2>3, SeqEqual DEF u
<1>12. SubSeq(s, m + 2, Len(s)) = t
  <2> DEFINE u == SubSeq(s, m + 2, Len(s))
  <2>1. u \in Seq(Nat) /\ Len(u) = Len(t) /\ \A j \in 1..Len(t) : u[j] = s[m + 1 + j]
    <3> DEFINE n == Len(s)
    <3>1. n \in Nat /\ m + 2 \in 1..(n + 1) /\ n \in (m + 1)..n /\ n - (m + 2) + 1 = Len(t)
      BY <1>4, <1>7
    <3>2. n = Len(s) /\ s \in Seq(Nat)
      BY <1>7
    <3> HIDE DEF n
    <3>3. u = SubSeq(s, m + 2, n)
      BY <3>2
    <3>4. /\ u \in Seq(Nat) /\ Len(u) = n - (m + 2) + 1
          /\ \A j \in 1..(n - (m + 2) + 1) : u[j] = s[m + 2 + j - 1]
      <4>1. m + 2 \in Int /\ n \in Int /\ \A j \in (m + 2)..n : s[j] \in Nat
        BY <1>4, <3>1, <3>2
      <4>2. /\ SubSeq(s, m + 2, n) \in Seq(Nat)
            /\ Len(SubSeq(s, m + 2, n)) = IF m + 2 <= n THEN n - (m + 2) + 1 ELSE 0
            /\ \A j \in 1..(n - (m + 2) + 1) : SubSeq(s, m + 2, n)[j] = s[m + 2 + j - 1]
        <5> HIDE DEF u
        <5> QED  BY <4>1, SubSeqProperties
      <4>3. (IF m + 2 <= n THEN n - (m + 2) + 1 ELSE 0) = n - (m + 2) + 1
        BY <1>4, <3>1
      <4> HIDE DEF u
      <4> QED  BY <3>3, <4>2, <4>3
    <3>5. \A j \in Nat : m + 2 + j - 1 = m + 1 + j
      BY <1>4
    <3> HIDE DEF u
    <3>6. u \in Seq(Nat) /\ Len(u) = Len(t)
      BY <3>1, <3>4, Zenon
    <3>7. \A j \in 1..Len(t) : u[j] = s[m + 2 + j - 1]
      BY <3>1, <3>4, Zenon
    <3>8. \A j \in 1..Len(t) : j \in Nat
      BY <1>7
    <3>9. \A j \in 1..Len(t) : u[j] = s[m + 1 + j]
      BY <3>5, <3>7, <3>8, Zenon
    <3> QED  BY <3>6, <3>9
  <2> HIDE DEF u
  <2>2. \A j \in 1..Len(t) : u[j] = t[j]
    BY <1>8, <2>1
  <2> QED  BY <1>6, <2>1, <2>2, SeqEqual DEF u
<1> QED  BY <1>1, <1>9, <1>10, <1>11, <1>12 DEF c, r, m, t

\* Reading a log, number by number.
NoLabels == [left |-> 0, seq |-> <<>>]
Read(acc, x) == IF acc.left = 0 THEN [left |-> x, seq |-> acc.seq]
                ELSE [left |-> acc.left - 1, seq |-> Append(acc.seq, x)]
Reads(p, s) ==
    /\ p \in [0..Len(s) -> [left : Nat, seq : Seq(Nat)]]
    /\ p[0] = NoLabels
    /\ \A k \in 1..Len(s) : p[k] = Read(p[k - 1], s[k])
IsRead(f, s) == f = [n \in 0..Len(s) |-> IF n = 0 THEN NoLabels ELSE Read(f[n - 1], s[n])]

LEMMA LabelsIs ==
    ASSUME NEW s \in Seq(Nat), NEW p, Reads(p, s)
    PROVE  LabelsOf(s) = p[Len(s)].seq
<1> DEFINE n == Len(s)
           f == CHOOSE g : IsRead(g, s)
<1>1. LabelsOf(s) = f[n].seq
  BY DEF LabelsOf, IsRead, Read, NoLabels
<1>2. n \in Nat
  OBVIOUS
<1> HIDE DEF n
<1>3. IsRead(p, s)
  <2> DEFINE q == [k \in 0..n |-> IF k = 0 THEN NoLabels ELSE Read(p[k - 1], s[k])]
  <2>1. \A k \in 0..n : p[k] = q[k]
    <3> SUFFICES ASSUME NEW k \in 0..n PROVE p[k] = q[k]
      OBVIOUS
    <3>1. CASE k = 0
      BY <1>2, <3>1 DEF Reads
    <3>2. CASE k # 0
      <4>1. k \in 1..n
        BY <1>2, <3>2
      <4> QED  BY <3>2, <4>1 DEF Reads, n
    <3> QED  BY <3>1, <3>2
  <2>2. p = [k \in 0..n |-> p[k]]
    BY DEF Reads, n
  <2>3. p = q
    BY <2>1, <2>2
  <2> QED  BY <2>3 DEF IsRead, n
<1>4. IsRead(f, s)
  BY <1>3
<1> HIDE DEF f
<1>5. \A k \in 0..n : f[k] = IF k = 0 THEN NoLabels ELSE Read(f[k - 1], s[k])
  BY <1>4 DEF IsRead, n
<1>6. p[0] = NoLabels /\ \A k \in 1..n : p[k] = Read(p[k - 1], s[k])
  BY DEF Reads, n
<1> DEFINE S == {k \in 0..n : f[k] = p[k]}
<1>7. 0 \in S
  BY <1>2, <1>5, <1>6
<1>8. \A k \in 1..n : k - 1 \in S => k \in S
  <2> SUFFICES ASSUME NEW k \in 1..n, f[k - 1] = p[k - 1] PROVE k \in S
    OBVIOUS
  <2>1. k \in 0..n /\ k # 0
    BY <1>2
  <2>2. f[k] = Read(f[k - 1], s[k]) /\ p[k] = Read(p[k - 1], s[k])
    BY <1>5, <1>6, <2>1
  <2> QED  BY <2>1, <2>2
<1> HIDE DEF S
<1>9. \A k \in 0..n : k \in S
  BY <1>2, <1>7, <1>8, UpTo
<1>10. n \in S
  BY <1>2, <1>9
<1> QED  BY <1>1, <1>10 DEF S, n

LEMMA FrontGrows ==
    ASSUME NEW a \in Seq(Nat), NEW c \in Seq(Nat), NEW j \in 1..Len(c)
    PROVE  /\ a \o SubSeq(c, 1, j - 1) \in Seq(Nat)
           /\ Append(a \o SubSeq(c, 1, j - 1), c[j]) = a \o SubSeq(c, 1, j)
<1> DEFINE d == SubSeq(c, 1, j - 1)
<1>1. d \in Seq(Nat) /\ c[j] \in Nat /\ SubSeq(c, 1, j) = Append(d, c[j])
  <2>1. j \in Nat /\ j - 1 \in 0..Len(c) /\ j \in 1..Len(c) /\ Len(c) \in Nat
    OBVIOUS
  <2>2. /\ d \in Seq(Nat) /\ Len(d) = j - 1
        /\ \A l \in 1..(j - 1) : d[l] = c[l]
    OBVIOUS
  <2> DEFINE e == SubSeq(c, 1, j)
             g == Append(d, c[j])
  <2>3. e \in Seq(Nat) /\ Len(e) = j /\ \A l \in 1..j : e[l] = c[l]
    OBVIOUS
  <2> HIDE DEF d
  <2>4. c[j] \in Nat
    OBVIOUS
  <2>5. g \in Seq(Nat) /\ Len(g) = Len(d) + 1 /\ g[Len(d) + 1] = c[j]
        /\ \A l \in 1..Len(d) : g[l] = d[l]
    BY <2>2, <2>4
  <2> HIDE DEF e, g
  <2>6. Len(g) = j /\ g[j] = c[j] /\ \A l \in 1..(j - 1) : g[l] = c[l]
    BY <2>1, <2>2, <2>5
  <2>7. ASSUME NEW l \in 1..j PROVE e[l] = g[l]
    <3>1. e[l] = c[l]
      BY <2>3
    <3>2. l \in 1..(j - 1) \/ l = j
      BY <2>1
    <3>3. CASE l \in 1..(j - 1)
      BY <2>6, <3>1, <3>3
    <3>4. CASE l = j
      BY <2>6, <3>1, <3>4
    <3> QED  BY <3>2, <3>3, <3>4
  <2>8. e = g
    BY <2>3, <2>5, <2>6, <2>7, SeqEqual
  <2> QED  BY <2>2, <2>4, <2>8 DEF e, g
<1> HIDE DEF d
<1>2. a \o d \in Seq(Nat)
  BY <1>1
<1>3. Append(a \o d, c[j]) = a \o Append(d, c[j])
  <2>1. \A x \in Seq(Nat) : \A z \in Nat : Append(x, z) = x \o <<z>>
    OBVIOUS
  <2>2. Append(a \o d, c[j]) = (a \o d) \o <<c[j]>> /\ Append(d, c[j]) = d \o <<c[j]>>
    BY <1>1, <1>2, <2>1
  <2>3. <<c[j]>> \in Seq(Nat) /\ d \in Seq(Nat)
    BY <1>1
  <2>4. (a \o d) \o <<c[j]>> = a \o (d \o <<c[j]>>)
    <3>1. \A x, y, z \in Seq(Nat) : (x \o y) \o z = x \o (y \o z)
      BY NumbersAssociate
    <3> QED  BY <2>3, <3>1, Zenon
  <2> QED  BY <2>2, <2>4, Zenon
<1> QED  BY <1>1, <1>2, <1>3 DEF d

\* Where a cluster has been read, the next one is read.
LEMMA ReadsLine ==
    ASSUME NEW s \in Seq(Nat), NEW c \in Seq(Nat), NEW p, Reads(p, s), p[Len(s)].left = 0
    PROVE  \E r : /\ Reads(r, s \o (<<Len(c)>> \o c))
                  /\ r[Len(s \o (<<Len(c)>> \o c))] = [left |-> 0, seq |-> p[Len(s)].seq \o c]
<1> DEFINE line == <<Len(c)>> \o c
           m == Len(s)
           n == Len(c)
           t == s \o line
           a == p[m].seq
           Acc == [left : Nat, seq : Seq(Nat)]
           at(j) == [left |-> n - j, seq |-> a \o SubSeq(c, 1, j)]
           r == [k \in 0..(m + 1 + n) |-> IF k <= m THEN p[k] ELSE at(k - (m + 1))]
<1>1. m \in Nat /\ n \in Nat
  OBVIOUS
<1>2. line \in Seq(Nat) /\ Len(line) = n + 1 /\ line[1] = n /\ \A j \in 1..n : line[j + 1] = c[j]
  BY LineType
<1>3. /\ t \in Seq(Nat) /\ Len(t) = m + Len(line)
      /\ \A k \in 1..m : t[k] = s[k]
      /\ \A k \in 1..Len(line) : t[m + k] = line[k]
  <2>1. line \in Seq(Nat)
    BY <1>2
  <2> HIDE DEF line
  <2> QED  BY <2>1, ConcatFacts
<1>4. /\ p \in [0..m -> Acc] /\ p[0] = NoLabels /\ p[m].left = 0
      /\ \A k \in 1..m : p[k] = Read(p[k - 1], s[k])
  BY DEF Reads
<1>5. p[m] \in Acc /\ a \in Seq(Nat)
  <2>1. m \in 0..m /\ \A x \in Acc : x.seq \in Seq(Nat)
    BY <1>1
  <2>2. \A k \in 0..m : p[k] \in Acc
    <3> HIDE DEF Acc
    <3> QED  BY <1>4
  <2> HIDE DEF Acc, m
  <2> QED  BY <2>1, <2>2, Zenon
<1>6. \A j \in 0..n : at(j) \in Acc
  <2> SUFFICES ASSUME NEW j \in 0..n PROVE at(j) \in Acc
    OBVIOUS
  <2>1. n - j \in Nat
    BY <1>1
  <2>2. SubSeq(c, 1, j) \in Seq(Nat)
    OBVIOUS
  <2>3. a \o SubSeq(c, 1, j) \in Seq(Nat)
    BY <1>5, <2>2, ConcatFacts
  <2> QED  BY <2>1, <2>3
<1>7. a \o SubSeq(c, 1, 0) = a /\ SubSeq(c, 1, n) = c
  <2>1. SubSeq(c, 1, 0) = <<>> /\ SubSeq(c, 1, n) = c
    OBVIOUS
  <2> QED  BY <1>5, <2>1, EmptyBefore
<1>8. \A k \in 0..m : r[k] = p[k]
  BY <1>1
<1>9. \A j \in 0..n : r[m + 1 + j] = at(j)
  <2> SUFFICES ASSUME NEW j \in 0..n PROVE r[m + 1 + j] = at(j)
    OBVIOUS
  <2>1. m + 1 + j \in 0..(m + 1 + n) /\ ~(m + 1 + j <= m) /\ (m + 1 + j) - (m + 1) = j
    BY <1>1
  <2> HIDE DEF at
  <2> QED  BY <2>1
<1>10. \A k \in 0..(m + 1 + n) : k \in 0..m \/ \E j \in 0..n : k = m + 1 + j
  <2> SUFFICES ASSUME NEW k \in 0..(m + 1 + n), k \notin 0..m PROVE \E j \in 0..n : k = m + 1 + j
    OBVIOUS
  <2>1. k - (m + 1) \in 0..n /\ k = m + 1 + (k - (m + 1))
    BY <1>1
  <2> QED  BY <2>1
<1>11. r = [k \in 0..(m + 1 + n) |-> r[k]]
  OBVIOUS
<1> HIDE DEF r
<1>12. r \in [0..(m + 1 + n) -> Acc]
  <2>1. \A k \in 0..(m + 1 + n) : r[k] \in Acc
    <3> SUFFICES ASSUME NEW k \in 0..(m + 1 + n) PROVE r[k] \in Acc
      OBVIOUS
    <3> HIDE DEF at, Acc
    <3>1. CASE k \in 0..m
      BY <1>4, <1>8, <3>1
    <3>2. CASE k \notin 0..m
      <4>1. PICK j \in 0..n : k = m + 1 + j
        BY <1>10, <3>2
      <4> QED  BY <1>6, <1>9, <4>1
    <3> QED  BY <3>1, <3>2
  <2> QED  BY <1>11, <2>1
<1>13. r[m + 1] = Read(r[m], t[m + 1])
  <2>1. r[m] = p[m] /\ r[m + 1] = at(0)
    <3>1. m \in 0..m /\ 0 \in 0..n /\ m + 1 + 0 = m + 1
      BY <1>1
    <3> HIDE DEF at
    <3> QED  BY <1>8, <1>9, <3>1
  <2>2. t[m + 1] = n
    BY <1>1, <1>2, <1>3
  <2>3. Read(p[m], n) = [left |-> n, seq |-> a]
    BY <1>4 DEF Read
  <2>4. at(0) = [left |-> n, seq |-> a]
    <3>1. n - 0 = n
      BY <1>1
    <3> QED  BY <1>7, <3>1, Zenon
  <2> QED  BY <2>1, <2>2, <2>3, <2>4
<1>14. \A j \in 1..n : r[m + 1 + j] = Read(r[m + 1 + (j - 1)], t[m + (j + 1)])
  <2> SUFFICES ASSUME NEW j \in 1..n
               PROVE  r[m + 1 + j] = Read(r[m + 1 + (j - 1)], t[m + (j + 1)])
    OBVIOUS
  <2>1. j \in 0..n /\ j - 1 \in 0..n /\ j + 1 \in 1..(n + 1) /\ n - (j - 1) # 0
        /\ (n - (j - 1)) - 1 = n - j
    BY <1>1
  <2>2. r[m + 1 + j] = at(j) /\ r[m + 1 + (j - 1)] = at(j - 1)
    <3> HIDE DEF at
    <3> QED  BY <1>9, <2>1
  <2>3. t[m + (j + 1)] = c[j]
    BY <1>2, <1>3, <2>1
  <2>4. Append(a \o SubSeq(c, 1, j - 1), c[j]) = a \o SubSeq(c, 1, j)
    BY <1>5, FrontGrows
  <2>5. Read(at(j - 1), c[j]) = at(j)
    BY <2>1, <2>4 DEF Read
  <2> HIDE DEF at
  <2> QED  BY <2>2, <2>3, <2>5
<1>15. \A k \in 1..(m + 1 + n) : r[k] = Read(r[k - 1], t[k])
  <2> SUFFICES ASSUME NEW k \in 1..(m + 1 + n) PROVE r[k] = Read(r[k - 1], t[k])
    OBVIOUS
  <2>1. CASE k \in 0..m
    <3>1. k \in 1..m /\ k - 1 \in 0..m
      BY <1>1, <2>1
    <3> QED  BY <1>3, <1>4, <1>8, <2>1, <3>1
  <2>2. CASE k = m + 1
    <3>1. k - 1 = m
      BY <1>1, <2>2
    <3> QED  BY <1>13, <2>2, <3>1
  <2>3. CASE k \notin 0..m /\ k # m + 1
    <3>1. k - (m + 1) \in 1..n /\ m + 1 + (k - (m + 1)) = k
          /\ m + 1 + ((k - (m + 1)) - 1) = k - 1 /\ m + ((k - (m + 1)) + 1) = k
      <4>1. m \in Nat /\ n \in Nat /\ k \in Int /\ k <= m + 1 + n /\ k > m + 1
        BY <1>1, <2>3
      <4> HIDE DEF m, n
      <4> QED  BY <4>1
    <3> DEFINE l == k - (m + 1)
    <3>2. l \in 1..n /\ m + 1 + l = k /\ m + 1 + (l - 1) = k - 1 /\ m + (l + 1) = k
      BY <3>1
    <3> HIDE DEF l, t
    <3>3. r[m + 1 + l] = Read(r[m + 1 + (l - 1)], t[m + (l + 1)])
      BY <1>14, <3>2
    <3> QED  BY <3>2, <3>3, Zenon
  <2> QED  BY <2>1, <2>2, <2>3
<1>16. r[m + 1 + n] = [left |-> 0, seq |-> a \o c]
  <2>1. at(n) = [left |-> 0, seq |-> a \o c]
    <3>1. n - n = 0
      BY <1>1
    <3> QED  BY <1>7, <3>1, Zenon
  <2>2. n \in 0..n
    BY <1>1
  <2> HIDE DEF at
  <2> QED  BY <1>9, <2>1, <2>2
<1>17. Len(t) = m + 1 + n
  <2> HIDE DEF t, line
  <2> QED  BY <1>1, <1>2, <1>3
<1>18. r[0] = NoLabels
  BY <1>1, <1>4, <1>8
<1>19. Reads(r, t)
  <2> HIDE DEF t
  <2> QED  BY <1>12, <1>15, <1>17, <1>18 DEF Reads
<1>20. r[Len(t)] = [left |-> 0, seq |-> a \o c]
  <2> HIDE DEF t
  <2> QED  BY <1>16, <1>17
<1> QED  BY <1>19, <1>20

\* A log of clusters says what their blocks are.
LEMMA LabelsOfPrinted ==
    ASSUME NEW cl \in Clusters
    PROVE  LabelsOf(Printed(cl)) = FlattenSeq(cl)
<1> DEFINE n == Len(cl)
           ss == Lines(cl)
<1>1. n \in Nat /\ cl \in Seq(Seq(Nat)) /\ \A k \in 1..n : cl[k] \in Seq(Nat)
  BY ClustersFacts
<1>2. /\ ss \in Seq(Seq(Nat)) /\ Len(ss) = n
      /\ \A k \in 1..n : ss[k] = <<Len(cl[k])>> \o cl[k]
      /\ Printed(cl) = FlattenSeq(ss)
  BY LinesFacts
<1> HIDE DEF ss
<1>3. PICK q : Joins(q, ss, Nat)
  BY <1>2, JoinsExist
<1>4. PICK f : Joins(f, cl, Nat)
  BY <1>1, JoinsExist
<1>5. Printed(cl) = q[n]
  <2>1. FlattenSeq(ss) = q[Len(ss)]
    BY <1>2, <1>3, FlattenIs
  <2> QED  BY <1>2, <2>1
<1>6. FlattenSeq(cl) = f[n]
  BY <1>1, <1>4, FlattenIs
<1>7. /\ q \in [0..n -> Seq(Nat)] /\ q[0] = <<>>
      /\ \A k \in 1..n : q[k] = q[k - 1] \o ss[k]
  BY <1>2, <1>3 DEF Joins
<1>8. /\ f \in [0..n -> Seq(Nat)] /\ f[0] = <<>>
      /\ \A k \in 1..n : f[k] = f[k - 1] \o cl[k]
  BY <1>4 DEF Joins
<1> HIDE DEF n
<1> DEFINE Good(s, g) == \E p : Reads(p, s) /\ p[Len(s)] = [left |-> 0, seq |-> g]
           S == {k \in 0..n : Good(q[k], f[k])}
<1>9. 0 \in S
  <2> DEFINE p == [k \in 0..0 |-> NoLabels]
  <2>1. p \in [0..0 -> [left : Nat, seq : Seq(Nat)]] /\ p[0] = NoLabels
    BY DEF NoLabels
  <2> HIDE DEF p
  <2>2. Len(<<>>) = 0
    OBVIOUS
  <2>3. Reads(p, <<>>) /\ p[Len(<<>>)] = [left |-> 0, seq |-> <<>>]
    BY <2>1, <2>2 DEF Reads, NoLabels
  <2>4. Good(q[0], f[0])
    BY <1>7, <1>8, <2>3
  <2> QED  BY <1>1, <2>4
<1>10. ASSUME NEW k \in 1..n, k - 1 \in S PROVE k \in S
  <2> DEFINE s == q[k - 1]
             c == cl[k]
             g == f[k - 1]
  <2>1. k - 1 \in 0..n /\ k \in 0..n
    BY <1>1
  <2>2. s \in Seq(Nat) /\ c \in Seq(Nat) /\ q[k] = s \o (<<Len(c)>> \o c) /\ f[k] = g \o c
    BY <1>1, <1>2, <1>7, <1>8, <2>1
  <2>3. PICK p : Reads(p, s) /\ p[Len(s)] = [left |-> 0, seq |-> g]
    BY <1>10
  <2> HIDE DEF s, c, g
  <2>4. p[Len(s)].left = 0 /\ p[Len(s)].seq = g
    BY <2>3
  <2>5. PICK r : /\ Reads(r, s \o (<<Len(c)>> \o c))
                 /\ r[Len(s \o (<<Len(c)>> \o c))] = [left |-> 0, seq |-> p[Len(s)].seq \o c]
    <3>1. p[Len(s)].left = 0 /\ Reads(p, s)
      BY <2>3, <2>4
    <3> QED  BY <2>2, <3>1, ReadsLine
  <2>6. Reads(r, q[k]) /\ r[Len(q[k])] = [left |-> 0, seq |-> f[k]]
    BY <2>2, <2>4, <2>5, Zenon
  <2> QED  BY <2>1, <2>6
<1>11. \A k \in 1..n : k - 1 \in S => k \in S
  BY <1>10
<1> HIDE DEF S
<1>12. \A k \in 0..n : k \in S
  BY <1>1, <1>9, <1>11, UpTo
<1>13. n \in S
  BY <1>1, <1>12
<1>14. PICK p : Reads(p, q[n]) /\ p[Len(q[n])] = [left |-> 0, seq |-> f[n]]
  BY <1>13 DEF S
<1>15. q[n] \in Seq(Nat)
  BY <1>1, <1>7
<1>16. LabelsOf(q[n]) = p[Len(q[n])].seq
  BY <1>14, <1>15, LabelsIs
<1>17. LabelsOf(q[n]) = f[n]
  BY <1>14, <1>16
<1> QED  BY <1>5, <1>6, <1>17

LEMMA UniqueFacts == UniqueList \in Seq(Blocks) /\ IsInjective(UniqueList)
<1> DEFINE n == Cardinality(Blocks)
           s == [b \in Blocks |-> b]
           S == {b \in Blocks : \A c \in 1..(b - 1) : Hash[c] # Hash[b]}
<1>1. n \in Nat /\ Blocks = 1..n
  BY TraceAssumption, FS_CardinalityType
<1>2. s = [b \in 1..n |-> b] /\ \A b \in 1..n : b \in Blocks
  BY <1>1
<1> HIDE DEF n
<1>3. [b \in 1..n |-> b] \in Seq(Blocks)
  BY <1>1, <1>2, IsASeq
<1>4. s \in Seq(Blocks) /\ IsInjective(s)
  BY <1>2, <1>3 DEF IsInjective
<1>5. UniqueList = Kept(s, S)
  BY DEF UniqueList
<1> HIDE DEF s, S
<1> QED  BY <1>4, <1>5, KeptFacts

\* A block with the least sum is one of its cluster.
LEMMA LeastSumIn ==
    ASSUME NEW c \in Seq(Blocks), NEW tried, NEW sums \in [DOMAIN c -> Nat],
           tried \cap ToSet(c) # {}
    PROVE  LeastSum(c, tried, sums) \in ToSet(c)
<1> DEFINE Tried == {a \in DOMAIN c : c[a] \in tried}
           V == {sums[a] : a \in Tried}
           best(a) == \A b \in DOMAIN c : c[b] \in tried =>
                         /\ sums[a] <= sums[b]
                         /\ sums[a] = sums[b] => a <= b
<1>1. V \subseteq Nat /\ V # {} /\ DOMAIN c \subseteq Nat
  <2>1. PICK x \in DOMAIN c : c[x] \in tried
    BY DEF ToSet
  <2>2. V # {}
    BY <2>1
  <2>3. V \subseteq Nat
    OBVIOUS
  <2>4. DOMAIN c \subseteq Nat
    OBVIOUS
  <2> QED  BY <2>2, <2>3, <2>4
<1>2. PICK v \in V : \A w \in V : v <= w
  <2> HIDE DEF V
  <2> QED  BY <1>1, LeastNumber
<1> DEFINE W == {a \in Tried : sums[a] = v}
<1>3. W \subseteq Nat /\ W # {}
  BY <1>1
<1>4. PICK a \in W : \A b \in W : a <= b
  <2> HIDE DEF W
  <2> QED  BY <1>3, LeastNumber
<1>5. a \in DOMAIN c /\ c[a] \in tried /\ best(a)
  <2>1. a \in DOMAIN c /\ c[a] \in tried /\ sums[a] = v
    BY <1>4
  <2>2. \A b \in DOMAIN c : c[b] \in tried => sums[b] \in V /\ (sums[b] = v => b \in W)
    OBVIOUS
  <2> HIDE DEF V, W
  <2> QED  BY <1>2, <1>4, <2>1, <2>2
<1>6. LeastSum(c, tried, sums) = c[CHOOSE x \in DOMAIN c : c[x] \in tried /\ best(x)]
  BY DEF LeastSum
<1>7. (CHOOSE x \in DOMAIN c : c[x] \in tried /\ best(x)) \in DOMAIN c
  <2> HIDE DEF best
  <2> QED  BY <1>5
<1> HIDE DEF best
<1> QED  BY <1>6, <1>7 DEF ToSet

LEMMA DeltaSumsType ==
    ASSUME NEW c \in Seq(Blocks), NEW own \in [Blocks -> Nat]
    PROVE  DeltaSums(c, own) \in [DOMAIN c -> Nat]
<1>1. \A a, b \in DOMAIN c : (IF c[a] = c[b] THEN own[c[a]] ELSE Dist[c[a]][c[b]]) \in Nat
  <2> SUFFICES ASSUME NEW a \in DOMAIN c, NEW b \in DOMAIN c
               PROVE  own[c[a]] \in Nat /\ Dist[c[a]][c[b]] \in Nat
    OBVIOUS
  <2>1. c[a] \in Blocks /\ c[b] \in Blocks
    OBVIOUS
  <2> QED  BY <2>1, DistAssumption
<1> DEFINE row(a) == [b \in DOMAIN c |-> IF c[a] = c[b] THEN own[c[a]] ELSE Dist[c[a]][c[b]]]
<1>2. \A a \in DOMAIN c : row(a) \in Seq(Nat)
  <2> SUFFICES ASSUME NEW a \in DOMAIN c PROVE row(a) \in Seq(Nat)
    OBVIOUS
  <2> DEFINE e(b) == IF c[a] = c[b] THEN own[c[a]] ELSE Dist[c[a]][c[b]]
  <2>1. Len(c) \in Nat /\ DOMAIN c = 1..Len(c)
    OBVIOUS
  <2>2. \A b \in 1..Len(c) : e(b) \in Nat
    BY <1>1, <2>1
  <2>3. row(a) = [b \in 1..Len(c) |-> e(b)]
    BY <2>1
  <2> HIDE DEF e
  <2>4. [b \in 1..Len(c) |-> e(b)] \in Seq(Nat)
    BY <2>1, <2>2, IsASeq
  <2> QED  BY <2>3, <2>4
<1>3. DeltaSums(c, own) = [a \in DOMAIN c |-> Total(row(a))]
  BY DEF DeltaSums
<1> HIDE DEF row
<1> QED  BY <1>2, <1>3, TotalType

\* The representatives alone, and the others: the same blocks, each once.
Alone(reps) == [k \in DOMAIN reps |-> <<reps[k]>>]

LEMMA RegroupFacts ==
    ASSUME NEW cl \in Clusters, Apart(cl), NEW reps, DOMAIN reps = DOMAIN cl,
           \A k \in DOMAIN cl : reps[k] \in ToSet(cl[k])
    PROVE  /\ Others(cl, reps) \in Seq(Blocks) /\ IsInjective(Others(cl, reps))
           /\ Alone(reps) \in Clusters /\ Apart(Alone(reps))
           /\ All(Alone(reps)) \cap ToSet(Others(cl, reps)) = {}
           /\ All(Alone(reps)) \cup ToSet(Others(cl, reps)) = All(cl)
<1> DEFINE n == Len(cl)
           part(k) == Kept(cl[k], ToSet(cl[k]) \ {reps[k]})
           parts == [k \in 1..n |-> part(k)]
<1>1. n \in Nat /\ DOMAIN cl = 1..n /\ \A k \in 1..n : cl[k] \in Seq(Blocks)
  BY ClustersFacts
<1>2. \A k \in 1..n : /\ part(k) \in Seq(Blocks)
                      /\ ToSet(part(k)) = ToSet(cl[k]) \ {reps[k]}
                      /\ IsInjective(part(k))
  <2> SUFFICES ASSUME NEW k \in 1..n
               PROVE  /\ part(k) \in Seq(Blocks)
                      /\ ToSet(part(k)) = ToSet(cl[k]) \ {reps[k]}
                      /\ IsInjective(part(k))
    OBVIOUS
  <2> DEFINE S == ToSet(cl[k]) \ {reps[k]}
  <2>1. cl[k] \in Seq(Blocks) /\ IsInjective(cl[k])
    BY <1>1 DEF Apart
  <2> HIDE DEF S
  <2>2. /\ Kept(cl[k], S) \in Seq(Blocks) /\ ToSet(Kept(cl[k], S)) = ToSet(cl[k]) \cap S
        /\ IsInjective(Kept(cl[k], S))
    BY <2>1, KeptFacts
  <2> QED  BY <2>2 DEF S
<1>3. Others(cl, reps) = FlattenSeq(parts)
  BY <1>1 DEF Others
<1> HIDE DEF n, part
<1>4. parts \in Seq(Seq(Blocks)) /\ DOMAIN parts = 1..n /\ \A k \in 1..n : parts[k] = part(k)
  BY <1>1, <1>2, IsASeq
<1> HIDE DEF parts
<1>5. \A k \in 1..n : parts[k] \in Seq(Blocks) /\ ToSet(parts[k]) = ToSet(cl[k]) \ {reps[k]}
                      /\ IsInjective(parts[k])
  BY <1>2, <1>4
<1>6. \A k, l \in 1..n : k # l => ToSet(cl[k]) \cap ToSet(cl[l]) = {}
  BY <1>1 DEF Apart
<1>7. Apart(parts)
  <2>1. \A k \in DOMAIN parts : IsInjective(parts[k])
    BY <1>4, <1>5
  <2>2. \A k, l \in 1..n : k # l => ToSet(parts[k]) \cap ToSet(parts[l]) = {}
    <3> SUFFICES ASSUME NEW k \in 1..n, NEW l \in 1..n, k # l
                 PROVE  ToSet(parts[k]) \cap ToSet(parts[l]) = {}
      OBVIOUS
    <3>1. ToSet(parts[k]) \subseteq ToSet(cl[k]) /\ ToSet(parts[l]) \subseteq ToSet(cl[l])
      BY <1>5
    <3> QED  BY <1>6, <3>1
  <2> QED  BY <1>4, <2>1, <2>2 DEF Apart
<1>8. /\ Others(cl, reps) \in Seq(Blocks) /\ IsInjective(Others(cl, reps))
      /\ ToSet(Others(cl, reps)) = All(parts)
  BY <1>3, <1>4, <1>7, FlattenFacts
<1>9. \A k \in 1..n : reps[k] \in ToSet(cl[k]) /\ reps[k] \in Blocks
  <2> SUFFICES ASSUME NEW k \in 1..n
               PROVE  reps[k] \in ToSet(cl[k]) /\ reps[k] \in Blocks
    OBVIOUS
  <2>1. reps[k] \in ToSet(cl[k])
    BY <1>1
  <2>2. \A c \in Seq(Blocks) : ToSet(c) \subseteq Blocks
    BY DEF ToSet
  <2>3. cl[k] \in Seq(Blocks)
    BY <1>1
  <2> QED  BY <2>1, <2>2, <2>3
<1> DEFINE new == Alone(reps)
<1>10. new = [k \in 1..n |-> <<reps[k]>>]
  BY <1>1 DEF Alone
<1>11. new \in Clusters
  <2>1. \A k \in 1..n : <<reps[k]>> \in Seq(Blocks) \ {<<>>}
    BY <1>9
  <2> DEFINE e(k) == <<reps[k]>>
             U == Seq(Blocks) \ {<<>>}
  <2>2. \A k \in 1..n : e(k) \in U
    BY <2>1
  <2>3. new = [k \in 1..n |-> e(k)]
    BY <1>10
  <2> HIDE DEF new, e, U
  <2>4. [k \in 1..n |-> e(k)] \in Seq(U)
    BY <1>1, <2>2, IsASeq
  <2> QED  BY <2>3, <2>4 DEF Clusters, U
<1>12. DOMAIN new = 1..n /\ \A k \in 1..n : new[k] = <<reps[k]>>
  BY <1>10
<1> HIDE DEF new
<1>13. \A k \in 1..n : ToSet(new[k]) = {reps[k]} /\ IsInjective(new[k])
  BY <1>12 DEF ToSet, IsInjective
<1>14. \A k, l \in 1..n : k # l => reps[k] # reps[l]
  BY <1>6, <1>9
<1>15. Apart(new)
  BY <1>12, <1>13, <1>14 DEF Apart
<1>16. All(new) = {reps[k] : k \in 1..n}
  BY <1>12, <1>13 DEF All
<1>17. All(parts) = UNION {ToSet(cl[k]) \ {reps[k]} : k \in 1..n}
  BY <1>4, <1>5 DEF All
<1>18. All(cl) = UNION {ToSet(cl[k]) : k \in 1..n}
  BY <1>1 DEF All
<1>19. All(new) \cap All(parts) = {}
  <2> SUFFICES ASSUME NEW k \in 1..n, NEW l \in 1..n, reps[k] \in ToSet(cl[l]) \ {reps[l]}
               PROVE  FALSE
    BY <1>16, <1>17
  <2> QED  BY <1>6, <1>9
<1>20. All(new) \cup All(parts) = All(cl)
  BY <1>9, <1>16, <1>17, <1>18
<1> QED  BY <1>8, <1>11, <1>15, <1>19, <1>20 DEF new

-----------------------------------------------------------------------------
(***************************************************************************)
(* The two programs, when they pass blocks and non-empty clusters          *)
(* (ArgumentsOK), which is shown further down.                             *)
(***************************************************************************)

\* Init is the first call of coarse.
LEMMA InitInv ==
    ASSUME Init, ArgumentsOK
    PROVE  BInv /\ StageInv /\ WithinThreshold
<1>1. /\ todo \in Seq(Blocks) /\ cluster = <<>> /\ rep_list = <<>>
      /\ exact = FALSE /\ threshold \in 0..(INF - 1)
      /\ i = 0 /\ pc = "wait" /\ resultQ = {} /\ now = NoResult
      /\ job = [w \in Workers |-> Idle] /\ stage = "coarse"
  BY TraceAssumption DEF Init, ArgumentsOK
<1> DEFINE n == LeastOf(MAX_QSIZE, Len(todo))
<1>2. produceQ = [k \in 1..n |-> k]
  BY DEF Init
<1>3. MAX_QSIZE \in Nat /\ Len(todo) \in Nat
  <2>1. exact \in BOOLEAN
    BY <1>1, Zenon
  <2>2. Len(todo) \in Nat
    BY <1>1
  <2> QED  BY <2>1, <2>2, QSizeType
<1> HIDE DEF MAX_QSIZE
<1>4. n \in Nat
  BY <1>3 DEF LeastOf
<1>5. Hi = n /\ Lo = 1
  <2>1. \A q \in Nat : 0 + q = q
    OBVIOUS
  <2> QED  BY <1>1, <1>3, <2>1 DEF Hi, Lo
<1> HIDE DEF n
<1>6. produceQ \in Seq(Nat) /\ Len(produceQ) = n
  BY <1>2, <1>4
<1>7. Rest = 0
  BY <1>4, <1>5, <1>6 DEF Rest
<1>8. Running /\ Busy = {}
  BY <1>1 DEF Running, Busy, Idle
<1>9. BTypeOK
  <2>1. NoResult \in [i : Nat, mx : Nat, min : Nat, ref : Nat]
    BY DistAssumption DEF NoResult
  <2>2. exact \in BOOLEAN
    BY <1>1, Zenon
  <2>3. cluster \in Clusters /\ rep_list \in Seq(Blocks)
    BY <1>1 DEF Clusters
  <2>4. job \in [Workers -> {Idle, Returned} \cup Comparing]
    BY <1>1
  <2>5. i \in Nat /\ pc \in {"wait"} /\ resultQ = {} /\ now = NoResult
    BY <1>1
  <2> QED  BY <1>1, <1>6, <2>1, <2>2, <2>3, <2>4, <2>5 DEF BTypeOK
<1>10. MainInv
  BY <1>1, <1>3, <1>8 DEF MainInv
<1>11. QueueInv
  BY <1>2, <1>4, <1>6, <1>7 DEF QueueInv
<1>12. HeldInv /\ OnceInv
  BY <1>1, <1>5, <1>7, <1>8 DEF HeldInv, OnceInv
<1>13. CountInv
  <2>1. IsFiniteSet({}) /\ Cardinality({}) = 0
    BY FS_EmptySet
  <2> QED  BY <1>1, <1>4, <1>5, <1>6, <1>8, <2>1 DEF CountInv
<1>14. ResultInv
  <2>1. Reps(<<>>) = <<>>
    BY DEF Reps
  <2> QED  BY <1>1, <1>8, <2>1 DEF ResultInv
<1>15. StageInv /\ WithinThreshold
  BY <1>1 DEF StageInv, WithinThreshold, ToSet
<1> QED  BY <1>9, <1>10, <1>11, <1>12, <1>13, <1>14, <1>15 DEF BInv, ThreadInv

\* Clusters of one block each.
Singletons(cl) == \A k \in DOMAIN cl : Len(cl[k]) = 1

\* Between two calls the programs leave the state of bruteForceCluster alone or
\* call it again, with at most one block in each cluster.
LEMMA MainNextCalls ==
    ASSUME BInv, StageInv, MainNext, ArgumentsOK'
    PROVE  /\ \/ UNCHANGED bvars
              \/ AnyCall /\ Singletons(cluster')
           /\ StageInv'
<1>1. BTypeOK
  BY DEF BInv
<1>2. ASSUME NEW list, NEW cl, NEW limit \in 0..(INF - 1), Call(list, cl, limit),
             pc = "return", exact' \in BOOLEAN, Singletons(cl)
      PROVE  AnyCall /\ Singletons(cluster')
  <2>1. i' = 0 /\ pc' \in {"wait", "alone"} /\ todo' = list /\ cluster' = cl
    BY <1>2 DEF Call
  <2>2. list \in Seq(Blocks) /\ cl \in Clusters
    BY <2>1 DEF ArgumentsOK
  <2> QED  BY <1>2, <2>1, <2>2 DEF AnyCall
<1>3. \A reps : Singletons([k \in DOMAIN reps |-> <<reps[k]>>])
  BY DEF Singletons
<1>4. Singletons(<<>>)
  BY DEF Singletons
<1>5. ASSUME NEW reps, NEW limit \in 0..(INF - 1), Regroup(reps, limit), pc = "return",
             exact' = exact
      PROVE  AnyCall /\ Singletons(cluster')
  BY <1>1, <1>2, <1>3, <1>5 DEF Regroup, BTypeOK
<1>6. CASE CoarseAgain
  <2>1. COARSE_T \in 0..(INF - 1)
    BY TraceAssumption
  <2>2. PICK reps : Regroup(reps, COARSE_T)
    BY <1>6 DEF CoarseAgain
  <2>3. pc = "return" /\ exact' = exact /\ stage' = "coarse again"
    BY <1>6 DEF CoarseAgain
  <2> QED  BY <1>5, <2>1, <2>2, <2>3 DEF StageInv
<1>7. CASE CoarseEnd
  BY <1>7 DEF CoarseEnd, StageInv, bvars
<1>8. CASE FineRead
  <2>1. pc = "return"
    BY <1>8 DEF FineRead, StageInv
  <2>2. CASE UNCHANGED bvars /\ stage' = stage
    BY <2>1, <2>2 DEF StageInv, bvars
  <2>3. CASE exact' = TRUE /\ stage' = "fine first" /\ \E list : Call(list, <<>>, FineStep)
    <3>1. FineStep \in 0..(INF - 1)
      BY TraceAssumption, DistAssumption
    <3> QED  BY <1>2, <1>4, <2>1, <2>3, <3>1 DEF StageInv
  <2> QED  BY <1>8, <2>2, <2>3 DEF FineRead
<1>9. CASE FineEpoch
  <2>1. threshold \in 0..(INF - 1)
    BY <1>1 DEF BTypeOK
  <2>2. PICK reps : Regroup(reps, threshold)
    BY <1>9 DEF FineEpoch
  <2>3. pc = "return" /\ exact' = exact /\ stage' \notin {"fine read", "end"}
    BY <1>9 DEF FineEpoch
  <2> QED  BY <1>5, <2>1, <2>2, <2>3 DEF StageInv
<1>10. CASE FineJudge
  <2>1. pc = "return"
    BY <1>10 DEF FineJudge
  <2>2. CASE UNCHANGED bvars /\ stage' = "fine read"
    BY <2>1, <2>2 DEF StageInv, bvars
  <2>3. CASE /\ threshold + FineStep <= FineMax /\ exact' = exact /\ stage' = "fine first"
             /\ Call(members, <<>>, threshold + FineStep)
    <3>1. threshold + FineStep \in 0..(INF - 1)
      <4>1. threshold \in Nat /\ INF \in Nat
        BY <1>1, DistAssumption DEF BTypeOK
      <4>2. FineStep \in Nat /\ FineMax \in Nat /\ FineMax <= INF - 1
        BY DistAssumption, TraceAssumption
      <4>3. threshold + FineStep <= FineMax
        BY <2>3
      <4> QED  BY <4>1, <4>2, <4>3
    <3> QED  BY <1>1, <1>2, <1>4, <2>1, <2>3, <3>1 DEF StageInv, BTypeOK
  <2> QED  BY <1>10, <2>2, <2>3 DEF FineJudge
<1>11. CASE FineEnd
  BY <1>11 DEF FineEnd, StageInv, bvars
<1> QED  BY <1>6, <1>7, <1>8, <1>9, <1>10, <1>11 DEF MainNext

\* A block that joins a cluster is within the threshold of its representative.
LEMMA PlacesWithin ==
    ASSUME BTypeOK, WithinThreshold, NEW u \in Blocks, NEW k, Places(u, k),
           threshold' = threshold
    PROVE  WithinThreshold'
<1> DEFINE best == Scan(u, Reps(cluster), 1, k, NoBest)
<1>1. /\ best \in [min : Nat, ref : Nat]
      /\ best.min <= threshold => /\ best.ref \in 1..Len(cluster)
                                  /\ best.min = Dist[u][cluster[best.ref][1]]
  BY PlacesFacts
<1>2. cluster' = Placed(cluster, u, best, threshold)
  BY DEF Places
<1> HIDE DEF best
<1>3. cluster \in Seq(Seq(Blocks) \ {<<>>}) /\ Len(cluster) \in Nat
  BY DEF BTypeOK, Clusters
<1>4. \A n \in 1..Len(cluster) : \A j \in 2..Len(cluster[n]) :
          Dist[cluster[n][j]][cluster[n][1]] <= threshold
  <2>1. \A n \in 1..Len(cluster) : cluster[n] \in ToSet(cluster)
    BY <1>3 DEF ToSet
  <2> QED  BY <2>1 DEF WithinThreshold
<1>5. \A n \in DOMAIN cluster' : \A j \in 2..Len(cluster'[n]) :
          Dist[cluster'[n][j]][cluster'[n][1]] <= threshold
  <2>1. CASE best.min <= threshold
    <3>1. cluster' = [cluster EXCEPT ![best.ref] = Append(cluster[best.ref], u)]
      BY <1>2, <2>1 DEF Placed
    <3> DEFINE c == cluster[best.ref]
    <3>2. best.ref \in 1..Len(cluster) /\ c \in Seq(Blocks) /\ c # <<>>
      BY <1>1, <1>3, <2>1
    <3>3. \A j \in 2..Len(c) : Dist[c[j]][c[1]] <= threshold
      BY <1>4, <3>2
    <3>4. Dist[u][c[1]] <= threshold
      BY <1>1, <2>1
    <3>5. cluster'[best.ref] = Append(c, u)
      BY <1>3, <3>1, <3>2
    <3>6. \A n \in 1..Len(cluster) : n # best.ref => cluster'[n] = cluster[n]
      BY <1>3, <3>1
    <3>7. DOMAIN cluster' = 1..Len(cluster)
      BY <1>3, <3>1
    <3> HIDE DEF c
    <3>8. \A j \in 2..Len(Append(c, u)) : Dist[Append(c, u)[j]][Append(c, u)[1]] <= threshold
      <4>1. Len(c) \in Nat \ {0} /\ Len(Append(c, u)) = Len(c) + 1
        BY <3>2
      <4>2. Append(c, u)[1] = c[1] /\ Append(c, u)[Len(c) + 1] = u
        BY <3>2, <4>1
      <4>3. \A j \in 2..Len(c) : Append(c, u)[j] = c[j]
        BY <3>2, <4>1
      <4>4. \A j \in 2..(Len(c) + 1) : j \in 2..Len(c) \/ j = Len(c) + 1
        BY <4>1
      <4> QED  BY <3>3, <3>4, <4>1, <4>2, <4>3, <4>4
    <3> QED  BY <1>4, <3>5, <3>6, <3>7, <3>8
  <2>2. CASE ~(best.min <= threshold)
    <3>1. cluster' = Append(cluster, <<u>>)
      BY <1>2, <2>2 DEF Placed
    <3>2. /\ DOMAIN cluster' = 1..(Len(cluster) + 1)
          /\ cluster'[Len(cluster) + 1] = <<u>>
          /\ \A n \in 1..Len(cluster) : cluster'[n] = cluster[n]
      BY <1>3, <3>1
    <3>3. \A n \in 1..(Len(cluster) + 1) : n \in 1..Len(cluster) \/ n = Len(cluster) + 1
      BY <1>3
    <3> QED  BY <1>4, <3>2, <3>3
  <2> QED  BY <2>1, <2>2
<1> QED  BY <1>5 DEF WithinThreshold, ToSet

LEMMA BNextWithin ==
    ASSUME BInv, WithinThreshold, [BNext]_bvars
    PROVE  WithinThreshold'
<1>1. BTypeOK
  BY DEF BInv
<1>2. CASE Place
  <2>1. threshold' = threshold
    BY <1>2 DEF Place
  <2> QED  BY <1>1, <1>2, <2>1, PlaceEffect, PlacesWithin
<1>3. CASE PlaceAlone
  <2>1. threshold' = threshold
    BY <1>3 DEF PlaceAlone
  <2> QED  BY <1>1, <1>3, <2>1, AloneEffect, PlacesWithin
<1>4. CASE cluster' = cluster /\ threshold' = threshold
  BY <1>4 DEF WithinThreshold, ToSet
<1> QED
  BY <1>2, <1>3, <1>4 DEF bvars, BNext, MainStep, WorkerStep, TakeResult, Refill, Stop, Join,
                          ReturnAlone, BFTake, BFResult, BFReturn

LEMMA CallWithin ==
    ASSUME AnyCall, Singletons(cluster')
    PROVE  WithinThreshold'
BY DEF Singletons, WithinThreshold, ToSet

\* What Spec, with typed arguments, preserves.
ProgInv == BInv /\ StageInv /\ WithinThreshold

LEMMA ProgStep ==
    ASSUME ProgInv, [Next]_vars, ArgumentsOK'
    PROVE  /\ ProgInv'
           /\ [G!GNext]_(G!gvars)
<1> USE DEF ProgInv
<1>1. CASE UNCHANGED vars \/ ClusterStep
  <2>1. [BNext]_bvars /\ (StageInv' \/ pc' # pc)
    BY <1>1 DEF vars, pvars, ClusterStep, bvars, StageInv
  <2>2. BInv' /\ WithinThreshold' /\ [G!GNext]_(G!gvars)
    BY <2>1, BNextStep, BNextWithin, BNextRefines
  <2>3. StageInv'
    <3>1. stage' = stage
      BY <1>1 DEF vars, pvars, ClusterStep
    <3>2. pc = "return" => pc' = "return"
      BY <2>1 DEF bvars, BNext, MainStep, WorkerStep, TakeResult, Place, Refill, Stop, Join,
                  PlaceAlone, ReturnAlone, BFTake, BFResult, BFReturn
    <3> QED  BY <3>1, <3>2 DEF StageInv
  <2> QED  BY <2>2, <2>3
<1>2. CASE MainNext
  <2>1. StageInv' /\ (UNCHANGED bvars \/ (AnyCall /\ Singletons(cluster')))
    BY <1>2, MainNextCalls
  <2>2. CASE UNCHANGED bvars
    <3>1. [BNext]_bvars
      BY <2>2
    <3> QED  BY <2>1, <3>1, BNextStep, BNextWithin, BNextRefines
  <2>3. CASE AnyCall /\ Singletons(cluster')
    BY <2>1, <2>3, AnyCallStep, CallWithin, AnyCallRefines
  <2> QED  BY <2>1, <2>2, <2>3
<1> QED  BY <1>1, <1>2 DEF Next

-----------------------------------------------------------------------------
(***************************************************************************)
(* No block is lost or doubled: a step of a call.                          *)
(***************************************************************************)

\* A new block in its cluster.
LEMMA PlacedWhole ==
    ASSUME NEW cl \in Clusters, Apart(cl), NEW u \in Blocks, u \notin All(cl),
           NEW best, NEW limit, best.min <= limit => best.ref \in 1..Len(cl)
    PROVE  /\ Apart(Placed(cl, u, best, limit))
           /\ All(Placed(cl, u, best, limit)) = All(cl) \cup {u}
<1> DEFINE p == Placed(cl, u, best, limit)
           n == Len(cl)
<1>1. /\ cl \in Seq(Seq(Blocks)) /\ n \in Nat /\ DOMAIN cl = 1..n
      /\ \A k \in 1..n : cl[k] \in Seq(Blocks)
  BY ClustersFacts
<1>2. /\ \A k \in 1..n : IsInjective(cl[k]) /\ u \notin ToSet(cl[k])
      /\ \A k, l \in 1..n : k # l => ToSet(cl[k]) \cap ToSet(cl[l]) = {}
  BY <1>1 DEF Apart, All
<1>3. CASE best.min <= limit
  <2> DEFINE r == best.ref
             c == Append(cl[r], u)
  <2>1. p = [cl EXCEPT ![r] = c] /\ r \in 1..n
    BY <1>3 DEF Placed
  <2>2. /\ DOMAIN p = 1..n /\ p[r] = c /\ \A k \in 1..n : k # r => p[k] = cl[k]
    BY <1>1, <2>1
  <2>3. ToSet(c) = ToSet(cl[r]) \cup {u} /\ IsInjective(c)
    BY <1>1, <1>2, <2>1, AppendSet
  <2> HIDE DEF p, c, r
  <2>4. \A k \in 1..n : IsInjective(p[k])
    BY <1>2, <2>2, <2>3
  <2>5. ASSUME NEW k \in 1..n, NEW l \in 1..n, k # l
        PROVE  ToSet(p[k]) \cap ToSet(p[l]) = {}
    <3>1. /\ ToSet(cl[k]) \cap ToSet(cl[l]) = {}
          /\ u \notin ToSet(cl[k]) /\ u \notin ToSet(cl[l])
      BY <1>2, <2>5
    <3>2. ToSet(p[k]) \subseteq ToSet(cl[k]) \cup {u} /\ (k # r => p[k] = cl[k])
      BY <2>2, <2>3
    <3>3. ToSet(p[l]) \subseteq ToSet(cl[l]) \cup {u} /\ (l # r => p[l] = cl[l])
      BY <2>2, <2>3
    <3>4. CASE k # r
      BY <3>1, <3>2, <3>3, <3>4
    <3>5. CASE l # r
      BY <3>1, <3>2, <3>3, <3>5
    <3> QED  BY <2>5, <3>4, <3>5
  <2> HIDE DEF n
  <2>a. r \in 1..n /\ ToSet(p[r]) = ToSet(cl[r]) \cup {u}
    BY <2>1, <2>2, <2>3
  <2>b. \A k \in 1..n : k # r => ToSet(p[k]) = ToSet(cl[k])
    BY <2>2
  <2>6. All(p) = All(cl) \cup {u}
    <3>1. All(p) = UNION {ToSet(p[k]) : k \in 1..n} /\ All(cl) = UNION {ToSet(cl[k]) : k \in 1..n}
      BY <1>1, <2>2 DEF All
    <3>2. ASSUME NEW x PROVE (\E k \in 1..n : x \in ToSet(p[k])) <=> (x = u \/ \E k \in 1..n : x \in ToSet(cl[k]))
      BY <2>a, <2>b
    <3> QED  BY <3>1, <3>2
  <2>7. Apart(p)
    BY <2>2, <2>4, <2>5 DEF Apart
  <2> QED  BY <2>6, <2>7 DEF p
<1>4. CASE ~(best.min <= limit)
  <2>1. p = Append(cl, <<u>>)
    BY <1>4 DEF Placed
  <2>2. /\ DOMAIN p = 1..(n + 1) /\ p[n + 1] = <<u>> /\ \A k \in 1..n : p[k] = cl[k]
    BY <1>1, <2>1
  <2>3. ToSet(<<u>>) = {u} /\ IsInjective(<<u>>)
    BY DEF ToSet, IsInjective
  <2>4. \A k \in 1..(n + 1) : k \in 1..n \/ k = n + 1
    BY <1>1
  <2>5. \A k \in 1..n : k \in 1..(n + 1)
    BY <1>1
  <2>6. n + 1 \in 1..(n + 1)
    BY <1>1
  <2> DEFINE m == n + 1
  <2> HIDE DEF p, n, m
  <2>7. /\ DOMAIN p = 1..m /\ p[m] = <<u>> /\ m \in 1..m
        /\ \A k \in 1..m : k \in 1..n \/ k = m
    BY <2>2, <2>4, <2>6 DEF m
  <2>8. ToSet(p[m]) = {u} /\ IsInjective(p[m])
    BY <2>3, <2>7
  <2>9. \A k \in 1..n : k \in 1..m /\ p[k] = cl[k]
    BY <2>2, <2>5 DEF m
  <2>10. \A k \in 1..m : IsInjective(p[k])
    BY <1>2, <2>7, <2>8, <2>9
  <2>11. ASSUME NEW k \in 1..m, NEW l \in 1..m, k # l
         PROVE  ToSet(p[k]) \cap ToSet(p[l]) = {}
    <3>1. CASE k \in 1..n /\ l \in 1..n
      BY <1>2, <2>9, <2>11, <3>1
    <3>2. CASE k = m /\ l \in 1..n
      <4>1. p[l] = cl[l] /\ u \notin ToSet(cl[l])
        BY <1>2, <2>9, <3>2
      <4> QED  BY <2>8, <3>2, <4>1
    <3>3. CASE l = m /\ k \in 1..n
      <4>1. p[k] = cl[k] /\ u \notin ToSet(cl[k])
        BY <1>2, <2>9, <3>3
      <4> QED  BY <2>8, <3>3, <4>1
    <3> QED  BY <2>7, <2>11, <3>1, <3>2, <3>3
  <2>12. All(p) = All(cl) \cup {u}
    BY <1>1, <2>7, <2>8, <2>9 DEF All
  <2>13. Apart(p)
    BY <2>7, <2>10, <2>11 DEF Apart
  <2> QED  BY <2>12, <2>13 DEF p
<1> QED  BY <1>3, <1>4

\* The block that is placed next is no longer ahead.
LEMMA PlacesWhole ==
    ASSUME BTypeOK, CallWhole, NEW k, placed \in Nat, placed < Len(todo),
           Places(todo[placed + 1], k),
           placed' = placed + 1, UNCHANGED <<exact, todo, members>>
    PROVE  CallWhole'
<1> DEFINE u == todo[placed + 1]
           best == Scan(u, Reps(cluster), 1, k, NoBest)
           A == {todo[n] : n \in (placed + 2)..Len(todo)}
<1>1. todo \in Seq(Blocks) /\ Len(todo) \in Nat /\ cluster \in Clusters
  BY DEF BTypeOK
<1>2. placed + 1 \in 1..Len(todo) /\ u \in Blocks
  BY <1>1
<1>3. /\ best.min <= threshold => best.ref \in 1..Len(cluster)
      /\ cluster' = Placed(cluster, u, best, threshold)
  BY <1>2, PlacesFacts DEF Places
<1>4. /\ Apart(cluster) /\ All(cluster) \cap Ahead = {}
      /\ All(cluster) \cup Ahead = ToSet(IF exact THEN members ELSE UniqueList)
      /\ \A m, n \in (placed + 1)..Len(todo) : todo[m] = todo[n] => m = n
  BY DEF CallWhole
<1>5. /\ placed + 1 \in (placed + 1)..Len(todo)
      /\ \A n \in (placed + 2)..Len(todo) : n \in (placed + 1)..Len(todo) /\ n # placed + 1
      /\ \A n \in (placed + 1)..Len(todo) : n = placed + 1 \/ n \in (placed + 2)..Len(todo)
  BY <1>1
<1>6. Ahead = A \cup {u} /\ u \notin A
  BY <1>4, <1>5 DEF Ahead
<1>7. Ahead' = A
  <2>1. (placed + 1) + 1 = placed + 2
    OBVIOUS
  <2>2. Ahead' = {todo[n] : n \in ((placed + 1) + 1)..Len(todo)}
    BY DEF Ahead
  <2> QED  BY <2>1, <2>2
<1>8. \A m, n \in (placed + 2)..Len(todo) : todo[m] = todo[n] => m = n
  BY <1>4, <1>5
<1>9. u \notin All(cluster)
  BY <1>4, <1>6
<1> HIDE DEF best, u, A
<1>10. Apart(cluster') /\ All(cluster') = All(cluster) \cup {u}
  <2>1. /\ Apart(Placed(cluster, u, best, threshold))
        /\ All(Placed(cluster, u, best, threshold)) = All(cluster) \cup {u}
    BY <1>1, <1>2, <1>3, <1>4, <1>9, PlacedWhole
  <2> QED  BY <1>3, <2>1
<1>11. /\ All(cluster') \cap Ahead' = {}
       /\ All(cluster') \cup Ahead' = ToSet(IF exact THEN members ELSE UniqueList)
  BY <1>4, <1>6, <1>7, <1>10
<1>12. \A m, n \in (placed' + 1)..Len(todo') : todo'[m] = todo'[n] => m = n
  <2>1. placed' + 1 = placed + 2 /\ todo' = todo
    OBVIOUS
  <2> QED  BY <1>8, <2>1
<1>13. ToSet(IF exact' THEN members' ELSE UniqueList) = ToSet(IF exact THEN members ELSE UniqueList)
  OBVIOUS
<1> QED  BY <1>10, <1>11, <1>12, <1>13 DEF CallWhole

\* A step of a call: main places the next block, or nothing moves.
LEMMA BNextCall ==
    ASSUME BInv, CallWhole, [BNext]_bvars, UNCHANGED members
    PROVE  CallWhole' /\ exact' = exact
<1>1. BTypeOK
  BY DEF BInv
<1>2. CASE Place
  <2>1. pc = "place" /\ pc' = "refill" /\ i' = i /\ UNCHANGED <<exact, todo, members>>
    BY <1>2 DEF Place
  <2>2. placed = i /\ placed' = i + 1
    BY <2>1 DEF placed
  <2>3. i \in Nat /\ i < Len(todo) /\ \E k : Places(todo[i + 1], k)
    BY <1>2, PlaceEffect
  <2>4. PICK k : Places(todo[placed + 1], k)
    BY <2>2, <2>3
  <2>5. placed \in Nat /\ placed < Len(todo) /\ placed' = placed + 1
    BY <2>2, <2>3
  <2> QED  BY <1>1, <2>1, <2>4, <2>5, PlacesWhole
<1>3. CASE PlaceAlone
  <2>1. pc = "alone" /\ pc' = "alone" /\ i' = i + 1 /\ UNCHANGED <<exact, todo, members>>
    BY <1>3 DEF PlaceAlone
  <2>2. placed = i /\ placed' = i + 1
    BY <2>1 DEF placed
  <2>3. i \in Nat /\ i < Len(todo) /\ Places(todo[i + 1], Len(cluster))
    BY <1>3, AloneEffect
  <2>4. PICK k : Places(todo[placed + 1], k)
    BY <2>2, <2>3
  <2>5. placed \in Nat /\ placed < Len(todo) /\ placed' = placed + 1
    BY <2>2, <2>3
  <2> QED  BY <1>1, <2>1, <2>4, <2>5, PlacesWhole
<1>4. CASE UNCHANGED <<exact, todo, cluster>> /\ placed' = placed
  <2>1. Ahead' = Ahead
    BY <1>4 DEF Ahead
  <2> HIDE DEF placed, Ahead
  <2> QED  BY <1>4, <2>1 DEF CallWhole
<1> QED
  BY <1>2, <1>3, <1>4 DEF bvars, BNext, MainStep, WorkerStep, TakeResult, Refill, Stop, Join,
                          ReturnAlone, BFTake, BFResult, BFReturn, placed

\* When a call has returned, its clusters have all the blocks.
LEMMA ReturnedWhole ==
    ASSUME BInv, CallWhole, pc = "return"
    PROVE  Whole(cluster, ToSet(IF exact THEN members ELSE UniqueList))
<1>1. placed = Len(todo) /\ Len(todo) \in Nat /\ cluster \in Clusters
  BY DEF BInv, ThreadInv, MainInv, BTypeOK, placed
<1>2. \A n \in (placed + 1)..Len(todo) : FALSE
  BY <1>1
<1>3. Ahead = {}
  BY <1>2 DEF Ahead
<1> QED  BY <1>1, <1>3 DEF CallWhole, Whole

\* A call with blocks that are in its clusters or its list, and not in both.
LEMMA NewCall ==
    ASSUME NEW list \in Seq(Blocks), NEW cl \in Clusters, NEW limit, Call(list, cl, limit),
           IsInjective(list), Apart(cl), All(cl) \cap ToSet(list) = {},
           NEW S, S = ToSet(IF exact' THEN members' ELSE UniqueList),
           All(cl) \cup ToSet(list) = S
    PROVE  ArgumentsOK' /\ CallWhole'
<1>1. todo' = list /\ cluster' = cl /\ i' = 0 /\ pc' \in {"wait", "alone"}
  BY DEF Call
<1>2. placed' = 0
  BY <1>1 DEF placed
<1>3. Len(list) \in Nat /\ DOMAIN list = 1..Len(list) /\ 0 + 1 = 1
  OBVIOUS
<1>4. Ahead' = ToSet(list)
  <2>1. Ahead' = {list[n] : n \in (0 + 1)..Len(list)}
    BY <1>1, <1>2 DEF Ahead
  <2> QED  BY <1>3, <2>1 DEF ToSet
<1>5. \A m, n \in 1..Len(list) : list[m] = list[n] => m = n
  BY <1>3 DEF IsInjective
<1>6. \A m, n \in (placed' + 1)..Len(todo') : todo'[m] = todo'[n] => m = n
  BY <1>1, <1>2, <1>3, <1>5
<1>7. ArgumentsOK'
  BY <1>1 DEF ArgumentsOK
<1> HIDE DEF placed, Ahead
<1>8. Apart(cluster') /\ All(cluster') \cap Ahead' = {} /\ All(cluster') \cup Ahead' = S
  BY <1>1, <1>4
<1> QED  BY <1>6, <1>7, <1>8 DEF CallWhole

\* The representatives in clusters of their own, the other blocks in the list.
LEMMA RegroupCall ==
    ASSUME BInv, CallWhole, pc = "return", UNCHANGED <<exact, members>>,
           NEW reps, DOMAIN reps = DOMAIN cluster,
           \A k \in DOMAIN cluster : reps[k] \in ToSet(cluster[k]),
           NEW limit, Regroup(reps, limit)
    PROVE  ArgumentsOK' /\ CallWhole'
<1> DEFINE S == ToSet(IF exact THEN members ELSE UniqueList)
<1>1. cluster \in Clusters /\ Apart(cluster) /\ All(cluster) = S
  BY ReturnedWhole DEF Whole
<1> DEFINE list == Others(cluster, reps)
           cl == Alone(reps)
<1>2. /\ list \in Seq(Blocks) /\ IsInjective(list)
      /\ cl \in Clusters /\ Apart(cl)
      /\ All(cl) \cap ToSet(list) = {} /\ All(cl) \cup ToSet(list) = All(cluster)
  BY <1>1, RegroupFacts
<1>3. Call(list, cl, limit)
  BY DEF Regroup, Alone
<1>4. S = ToSet(IF exact' THEN members' ELSE UniqueList)
  OBVIOUS
<1> HIDE DEF list, cl, S
<1>5. All(cl) \cup ToSet(list) = S
  BY <1>1, <1>2
<1> QED  BY <1>2, <1>3, <1>4, <1>5, NewCall

\* The first call of coarse.
LEMMA InitWhole ==
    ASSUME Init
    PROVE  ArgumentsOK /\ WholeInv
<1>1. /\ exact = FALSE /\ todo = UniqueList /\ cluster = <<>> /\ i = 0 /\ pc = "wait"
      /\ stage = "coarse" /\ singles = {} /\ fineLog = <<>>
  BY DEF Init
<1>2. UniqueList \in Seq(Blocks) /\ IsInjective(UniqueList) /\ <<>> \in Clusters
  BY UniqueFacts, PrintedEmpty
<1>3. placed = 0
  BY <1>1 DEF placed
<1> DEFINE list == UniqueList
<1> HIDE DEF list
<1>4. todo = list /\ list \in Seq(Blocks) /\ IsInjective(list)
  BY <1>1, <1>2 DEF list
<1>5. Len(list) \in Nat /\ DOMAIN list = 1..Len(list) /\ 0 + 1 = 1
  BY <1>4
<1>6. Ahead = ToSet(list)
  BY <1>3, <1>4, <1>5 DEF Ahead, ToSet
<1>7. \A m, n \in (placed + 1)..Len(todo) : todo[m] = todo[n] => m = n
  BY <1>3, <1>4, <1>5 DEF IsInjective
<1>8. Apart(cluster) /\ All(cluster) = {}
  BY <1>1 DEF Apart, All
<1>9. CallWhole
  <2>1. ToSet(IF exact THEN members ELSE UniqueList) = ToSet(list)
    BY <1>1 DEF list
  <2> HIDE DEF placed, Ahead
  <2> QED  BY <1>6, <1>7, <1>8, <2>1 DEF CallWhole
<1>10. ArgumentsOK
  BY <1>1, <1>2 DEF ArgumentsOK
<1>11. ChoiceWhole /\ LogWhole /\ CoarseWhole
  BY <1>1 DEF ChoiceWhole, LogWhole, CoarseWhole, Splitting
<1> QED  BY <1>9, <1>10, <1>11 DEF WholeInv

-----------------------------------------------------------------------------
(***************************************************************************)
(* No block is lost or doubled: between two calls.                         *)
(***************************************************************************)

\* The representative found is a block of the cluster.
LEMMA RepOfCluster ==
    ASSUME NEW cl \in Clusters, NEW own \in [Blocks -> Nat], NEW k \in DOMAIN cl, NEW tried,
           tried \cap ToSet(cl[k]) # {}
    PROVE  LeastSum(cl[k], tried, DeltaSums(cl[k], own)) \in ToSet(cl[k])
<1> DEFINE c == cl[k]
<1>1. c \in Seq(Blocks)
  BY ClustersFacts
<1> HIDE DEF c
<1>2. DeltaSums(c, own) \in [DOMAIN c -> Nat]
  BY <1>1, DeltaSumsType
<1> DEFINE d == DeltaSums(c, own)
<1>3. d \in [DOMAIN c -> Nat] /\ tried \cap ToSet(c) # {}
  BY <1>2 DEF c
<1> HIDE DEF d
<1>4. LeastSum(c, tried, d) \in ToSet(c)
  BY <1>1, <1>3, LeastSumIn
<1> QED  BY <1>4 DEF d, c

\* No cluster is without a block.
LEMMA ClusterNotEmpty ==
    ASSUME NEW cl \in Clusters, NEW k \in DOMAIN cl
    PROVE  ToSet(cl[k]) # {}
<1>1. cl[k] \in Seq(Blocks) /\ cl[k] # <<>>
  BY ClustersFacts
<1>2. \A c \in Seq(Blocks) : c # <<>> => 1 \in DOMAIN c
  OBVIOUS
<1> QED  BY <1>1, <1>2 DEF ToSet

LEMMA CoarseAgainWhole ==
    ASSUME ProgInv, WholeInv, CoarseAgain
    PROVE  ArgumentsOK' /\ WholeInv'
<1>1. /\ pc = "return" /\ stage = "coarse" /\ stage' = "coarse again"
      /\ UNCHANGED <<exact, members, singles, fineLog>>
  BY DEF CoarseAgain
<1>2. BInv /\ BTypeOK /\ CallWhole /\ CoarseWhole /\ cluster \in Clusters
  BY DEF ProgInv, BInv, BTypeOK, WholeInv
<1> DEFINE large == {k \in DOMAIN cluster : Len(cluster[k]) > SampleLimit}
           all == {ToSet(cluster[k]) : k \in large}
           own == [u \in Blocks |-> Dist[u][u]]
           reps(tried) == [k \in DOMAIN cluster |->
                    LeastSum(cluster[k],
                             IF k \in large THEN tried ELSE ToSet(cluster[k]),
                             DeltaSums(cluster[k], own))]
<1>3. PICK tried : (\A c \in all : tried \cap c # {}) /\ Regroup(reps(tried), COARSE_T)
  BY DEF CoarseAgain
<1>4. own \in [Blocks -> Nat]
  BY DistAssumption
<1>5. \A k \in DOMAIN cluster :
          (IF k \in large THEN tried ELSE ToSet(cluster[k])) \cap ToSet(cluster[k]) # {}
  BY <1>2, <1>3, ClusterNotEmpty
<1> DEFINE r == reps(tried)
<1>6. DOMAIN r = DOMAIN cluster
  OBVIOUS
<1>7. \A k \in DOMAIN cluster : r[k] \in ToSet(cluster[k])
  <2> SUFFICES ASSUME NEW k \in DOMAIN cluster PROVE r[k] \in ToSet(cluster[k])
    OBVIOUS
  <2> DEFINE t == IF k \in large THEN tried ELSE ToSet(cluster[k])
  <2>1. r[k] = LeastSum(cluster[k], t, DeltaSums(cluster[k], own)) /\ t \cap ToSet(cluster[k]) # {}
    BY <1>5
  <2> HIDE DEF t, own, r
  <2> QED  BY <1>2, <1>4, <2>1, RepOfCluster
<1>8. Regroup(r, COARSE_T)
  BY <1>3
<1> HIDE DEF r
<1>9. ArgumentsOK' /\ CallWhole'
  BY <1>1, <1>2, <1>6, <1>7, <1>8, RegroupCall
<1>10. ChoiceWhole' /\ LogWhole' /\ CoarseWhole'
  BY <1>1, <1>2 DEF ChoiceWhole, LogWhole, CoarseWhole, Splitting
<1> QED  BY <1>9, <1>10 DEF WholeInv

\* In fine the log does not change while a cluster is split.
LEMMA SplittingLog ==
    ASSUME LogWhole, Splitting, Splitting', UNCHANGED <<fineLog, unread, singles, members>>
    PROVE  LogWhole'
<1>1. PICK done \in Clusters, rest \in Clusters : LogParts(done, rest)
  BY DEF LogWhole, Splitting
<1>2. Current' = Current /\ stage' # "end"
  BY DEF Current, Splitting
<1> HIDE DEF Current
<1>3. LogParts(done, rest)'
  BY <1>1, <1>2 DEF LogParts
<1> QED  BY <1>3 DEF LogWhole

LEMMA FineEpochWhole ==
    ASSUME ProgInv, WholeInv, FineEpoch
    PROVE  ArgumentsOK' /\ WholeInv'
<1>1. /\ pc = "return" /\ stage \in {"fine first", "fine epoch"}
      /\ stage' \in {"fine epoch", "fine last"}
      /\ UNCHANGED <<exact, members, optimal, ans, unread, singles, fineLog>>
  BY DEF FineEpoch
<1>2. BInv /\ BTypeOK /\ CallWhole /\ ChoiceWhole /\ LogWhole /\ cluster \in Clusters
  BY DEF ProgInv, BInv, BTypeOK, WholeInv
<1> DEFINE own == [u \in Blocks |-> 0]
           r == [k \in DOMAIN cluster |->
                    LeastSum(cluster[k], ToSet(cluster[k]), DeltaSums(cluster[k], own))]
<1>3. Regroup(r, threshold)
  BY DEF FineEpoch
<1>4. own \in [Blocks -> Nat]
  OBVIOUS
<1>5. \A k \in DOMAIN cluster : ToSet(cluster[k]) \cap ToSet(cluster[k]) # {}
  BY <1>2, ClusterNotEmpty
<1>6. DOMAIN r = DOMAIN cluster
  OBVIOUS
<1>7. \A k \in DOMAIN cluster : r[k] \in ToSet(cluster[k])
  <2> SUFFICES ASSUME NEW k \in DOMAIN cluster PROVE r[k] \in ToSet(cluster[k])
    OBVIOUS
  <2> DEFINE t == ToSet(cluster[k])
  <2>1. r[k] = LeastSum(cluster[k], t, DeltaSums(cluster[k], own)) /\ t \cap ToSet(cluster[k]) # {}
    BY <1>5
  <2> HIDE DEF t, own, r
  <2> QED  BY <1>2, <1>4, <2>1, RepOfCluster
<1> HIDE DEF r
<1>8. ArgumentsOK' /\ CallWhole'
  BY <1>1, <1>2, <1>3, <1>6, <1>7, RegroupCall
<1>9. Splitting /\ Splitting'
  BY <1>1 DEF Splitting
<1>10. LogWhole'
  BY <1>1, <1>2, <1>9, SplittingLog
<1>11. ChoiceWhole' /\ CoarseWhole'
  BY <1>1, <1>2, <1>9 DEF ChoiceWhole, CoarseWhole
<1> QED  BY <1>8, <1>10, <1>11 DEF WholeInv

\* Two lists of clusters, one behind the other.
LEMMA ConcatWhole ==
    ASSUME NEW a \in Clusters, NEW b \in Clusters, Apart(a), Apart(b), All(a) \cap All(b) = {}
    PROVE  Apart(a \o b) /\ All(a \o b) = All(a) \cup All(b)
<1> DEFINE c == a \o b
           m == Len(a)
           n == Len(b)
           T == Seq(Blocks)
<1>1. /\ a \in Seq(T) /\ DOMAIN a = 1..m /\ m \in Nat
      /\ b \in Seq(T) /\ DOMAIN b = 1..n /\ n \in Nat
  BY ClustersFacts
<1> HIDE DEF T
<1>2. /\ Len(c) = m + n /\ DOMAIN c = 1..Len(c)
      /\ \A k \in 1..m : c[k] = a[k]
      /\ \A k \in 1..n : c[m + k] = b[k]
  BY <1>1, ConcatFacts
<1> HIDE DEF c, m, n
<1> DEFINE I == 1..m
           J == (m + 1)..(m + n)
<1>3. /\ \A k \in J : k - m \in 1..n /\ m + (k - m) = k
      /\ \A k \in 1..n : m + k \in J
      /\ DOMAIN c = I \cup J /\ I \cap J = {}
  BY <1>1, <1>2
<1>4. \A k \in J : c[k] = b[k - m] /\ k - m \in 1..n
  BY <1>2, <1>3
<1>5. \A k, l \in J : k # l => k - m # l - m
  BY <1>1
<1>6. \A k \in I : IsInjective(c[k]) /\ ToSet(c[k]) \subseteq All(a)
  BY <1>1, <1>2 DEF Apart, All
<1>7. \A k \in J : IsInjective(c[k]) /\ ToSet(c[k]) \subseteq All(b)
  BY <1>1, <1>4 DEF Apart, All
<1>8. \A k, l \in I : k # l => ToSet(c[k]) \cap ToSet(c[l]) = {}
  BY <1>1, <1>2 DEF Apart
<1>9. \A k, l \in J : k # l => ToSet(c[k]) \cap ToSet(c[l]) = {}
  BY <1>1, <1>4, <1>5 DEF Apart
<1>10. \A k \in I, l \in J : ToSet(c[k]) \cap ToSet(c[l]) = {}
  BY <1>6, <1>7
<1> HIDE DEF I, J
<1>11. Apart(c)
  <2>1. \A k \in DOMAIN c : IsInjective(c[k])
    BY <1>3, <1>6, <1>7
  <2>2. ASSUME NEW k \in DOMAIN c, NEW l \in DOMAIN c, k # l
        PROVE  ToSet(c[k]) \cap ToSet(c[l]) = {}
    <3>1. (k \in I \/ k \in J) /\ (l \in I \/ l \in J)
      BY <1>3
    <3>2. CASE k \in I /\ l \in J
      BY <1>10, <3>2
    <3>3. CASE k \in J /\ l \in I
      BY <1>10, <3>3
    <3> QED  BY <1>8, <1>9, <2>2, <3>1, <3>2, <3>3
  <2> QED  BY <2>1, <2>2 DEF Apart
<1>12. All(c) \subseteq All(a) \cup All(b)
  BY <1>3, <1>6, <1>7 DEF All
<1>13. All(a) \subseteq All(c)
  <2>1. \A k \in DOMAIN a : k \in DOMAIN c /\ ToSet(a[k]) = ToSet(c[k])
    BY <1>1, <1>2, <1>3 DEF I
  <2> QED  BY <2>1 DEF All
<1>14. All(b) \subseteq All(c)
  <2>1. \A k \in DOMAIN b : m + k \in DOMAIN c /\ ToSet(b[k]) = ToSet(c[m + k])
    BY <1>1, <1>2, <1>3
  <2> QED  BY <2>1 DEF All
<1> QED  BY <1>11, <1>12, <1>13, <1>14 DEF c

\* The first cluster of a list, and the others.
LEMMA FirstWhole ==
    ASSUME NEW cl \in Clusters, cl # <<>>, Apart(cl)
    PROVE  /\ cl[1] \in Seq(Blocks) /\ IsInjective(cl[1]) /\ cl[1] # <<>>
           /\ Apart(Tail(cl)) /\ ToSet(cl[1]) \cap All(Tail(cl)) = {}
           /\ All(cl) = ToSet(cl[1]) \cup All(Tail(cl))
<1> DEFINE t == Tail(cl)
           n == Len(cl)
<1>1. /\ n \in Nat /\ DOMAIN cl = 1..n /\ 1 \in 1..n /\ cl \in Seq(Seq(Blocks))
      /\ \A k \in 1..n : cl[k] \in Seq(Blocks) /\ cl[k] # <<>>
  <2>1. n # 0
    BY DEF Clusters
  <2> QED  BY <2>1, ClustersFacts
<1>2. DOMAIN t = 1..(n - 1) /\ \A k \in 1..(n - 1) : t[k] = cl[k + 1]
  BY <1>1
<1>3. /\ \A k \in 1..(n - 1) : k + 1 \in 1..n /\ k + 1 # 1
      /\ \A k, l \in 1..(n - 1) : k # l => k + 1 # l + 1
      /\ \A k \in 1..n : k = 1 \/ (k - 1 \in 1..(n - 1) /\ (k - 1) + 1 = k)
  BY <1>1
<1>4. /\ \A k \in 1..n : IsInjective(cl[k])
      /\ \A k, l \in 1..n : k # l => ToSet(cl[k]) \cap ToSet(cl[l]) = {}
  BY <1>1 DEF Apart
<1> HIDE DEF t, n
<1>5. Apart(t)
  <2>1. \A k \in DOMAIN t : IsInjective(t[k])
    BY <1>2, <1>3, <1>4
  <2>2. ASSUME NEW k \in DOMAIN t, NEW l \in DOMAIN t, k # l
        PROVE  ToSet(t[k]) \cap ToSet(t[l]) = {}
    <3>1. k \in 1..(n - 1) /\ l \in 1..(n - 1) /\ t[k] = cl[k + 1] /\ t[l] = cl[l + 1]
      BY <1>2
    <3>2. k + 1 \in 1..n /\ l + 1 \in 1..n /\ k + 1 # l + 1
      BY <1>3, <2>2, <3>1
    <3>3. ToSet(cl[k + 1]) \cap ToSet(cl[l + 1]) = {}
      BY <1>4, <3>2
    <3> QED  BY <3>1, <3>3
  <2> QED  BY <2>1, <2>2 DEF Apart
<1>6. \A k \in DOMAIN t : ToSet(cl[1]) \cap ToSet(t[k]) = {}
  BY <1>1, <1>2, <1>3, <1>4
<1>7. ToSet(cl[1]) \cap All(t) = {}
  BY <1>6 DEF All
<1>8. All(t) \subseteq All(cl)
  <2>1. \A k \in DOMAIN t : k + 1 \in DOMAIN cl /\ ToSet(t[k]) = ToSet(cl[k + 1])
    BY <1>1, <1>2, <1>3
  <2> QED  BY <2>1 DEF All
<1>9. ToSet(cl[1]) \subseteq All(cl)
  BY <1>1 DEF All
<1>10. All(cl) \subseteq ToSet(cl[1]) \cup All(t)
  <2> SUFFICES ASSUME NEW k \in 1..n PROVE ToSet(cl[k]) \subseteq ToSet(cl[1]) \cup All(t)
    BY <1>1 DEF All
  <2>1. CASE k = 1
    BY <2>1
  <2>2. CASE k # 1
    <3>1. k - 1 \in DOMAIN t /\ t[k - 1] = cl[k]
      BY <1>2, <1>3, <2>2
    <3> QED  BY <3>1 DEF All
  <2> QED  BY <2>1, <2>2
<1>11. cl[1] \in Seq(Blocks) /\ IsInjective(cl[1]) /\ cl[1] # <<>>
  BY <1>1, <1>4
<1> QED  BY <1>5, <1>7, <1>8, <1>9, <1>10, <1>11 DEF t

\* A step that leaves the call alone.
LEMMA CallStays ==
    ASSUME CallWhole, BInv, UNCHANGED bvars, UNCHANGED members
    PROVE  ArgumentsOK' /\ CallWhole'
<1>1. [BNext]_bvars
  OBVIOUS
<1>2. CallWhole'
  BY <1>1, BNextCall
<1>3. todo' \in Seq(Blocks) /\ cluster' \in Clusters
  BY DEF BInv, BTypeOK, bvars
<1> QED  BY <1>2, <1>3 DEF ArgumentsOK

LEMMA CoarseEndWhole ==
    ASSUME ProgInv, WholeInv, CoarseEnd
    PROVE  ArgumentsOK' /\ WholeInv'
<1>1. /\ pc = "return" /\ stage = "coarse again" /\ stage' = "fine read"
      /\ unread' = Printed(cluster)
      /\ UNCHANGED <<bvars, members, singles, fineLog>>
  BY DEF CoarseEnd
<1>2. BInv /\ CallWhole /\ CoarseWhole
  BY DEF ProgInv, WholeInv
<1>3. ArgumentsOK' /\ CallWhole'
  BY <1>1, <1>2, CallStays
<1>4. ~exact /\ singles' = {} /\ fineLog' = <<>>
  BY <1>1, <1>2 DEF CoarseWhole
<1>5. cluster \in Clusters /\ Apart(cluster) /\ All(cluster) = ToSet(UniqueList)
  BY <1>1, <1>2, <1>4, ReturnedWhole DEF Whole
<1>6. Current' = {} /\ stage' # "end"
  BY <1>1 DEF Current, Splitting
<1>7. Apart(<<>>) /\ All(<<>>) = {} /\ <<>> \in Clusters /\ Printed(<<>>) = <<>>
  BY PrintedEmpty DEF Apart, All
<1> DEFINE rest == cluster
           done == <<>>
<1> HIDE DEF rest, done
<1>8. /\ done \in Clusters /\ Apart(done) /\ All(done) = {} /\ fineLog' = Printed(done)
      /\ rest \in Clusters /\ Apart(rest) /\ All(rest) = ToSet(UniqueList)
      /\ unread' = Printed(rest)
  BY <1>1, <1>4, <1>5, <1>7 DEF rest, done
<1>9. LogWhole'
  <2> HIDE DEF Current
  <2>1. PICK d \in Clusters, r \in Clusters : d = done /\ r = rest
    BY <1>8
  <2>2. LogParts(d, r)'
    BY <1>4, <1>6, <1>8, <2>1 DEF LogParts
  <2> QED  BY <2>2 DEF LogWhole
<1>10. ChoiceWhole' /\ CoarseWhole'
  BY <1>1 DEF ChoiceWhole, CoarseWhole, Splitting
<1> QED  BY <1>3, <1>9, <1>10 DEF WholeInv

LEMMA FineReadWhole ==
    ASSUME ProgInv, WholeInv, FineRead
    PROVE  ArgumentsOK' /\ WholeInv'
<1>1. stage = "fine read" /\ unread # <<>> /\ fineLog' = fineLog
  BY DEF FineRead
<1>2. BInv /\ CallWhole /\ LogWhole
  BY DEF ProgInv, WholeInv
<1>3. PICK done \in Clusters, rest \in Clusters : LogParts(done, rest)
  BY <1>1, <1>2 DEF LogWhole
<1>4. Current = {}
  BY <1>1 DEF Current, Splitting
<1>5. /\ fineLog = Printed(done) /\ unread = Printed(rest)
      /\ Apart(done) /\ Apart(rest) /\ All(done) \cap All(rest) = {}
      /\ singles \cap (All(done) \cup All(rest)) = {}
      /\ All(done) \cup All(rest) \cup singles \subseteq ToSet(UniqueList)
      /\ SumsBelowINF => All(done) \cup All(rest) \cup singles = ToSet(UniqueList)
  BY <1>3, <1>4 DEF LogParts
<1>6. rest # <<>>
  BY <1>1, <1>5, PrintedEmpty
<1> DEFINE c == rest[1]
           t == Tail(rest)
           sz == Head(unread)
           list == SubSeq(unread, 2, sz + 1)
<1>7. /\ t \in Clusters /\ sz = Len(c) /\ list = c
      /\ SubSeq(unread, sz + 2, Len(unread)) = Printed(t)
  BY <1>5, <1>6, PrintedRead
<1>8. /\ c \in Seq(Blocks) /\ IsInjective(c) /\ c # <<>>
      /\ Apart(t) /\ ToSet(c) \cap All(t) = {} /\ All(rest) = ToSet(c) \cup All(t)
  BY <1>5, <1>6, FirstWhole
<1>9. unread' = Printed(t)
  BY <1>7 DEF FineRead
<1>10. CASE sz = 1
  <2>1. /\ singles' = singles \cup {c[1]}
        /\ UNCHANGED <<bvars, stage, members, optimal, ans>>
    BY <1>7, <1>10 DEF FineRead
  <2>2. ToSet(c) = {c[1]}
    <3>1. \A x \in Seq(Blocks) : Len(x) = 1 => ToSet(x) = {x[1]}
      BY DEF ToSet
    <3> QED  BY <1>7, <1>8, <1>10, <3>1
  <2>3. ArgumentsOK' /\ CallWhole'
    BY <1>2, <2>1, CallStays
  <2>4. Current' = {} /\ stage' # "end"
    BY <1>1, <2>1 DEF Current, Splitting
  <2> HIDE DEF c, t, sz, list, Current
  <2>5. LogParts(done, t)'
    BY <1>1, <1>5, <1>8, <1>9, <2>1, <2>2, <2>4 DEF LogParts
  <2>6. LogWhole'
    BY <1>7, <2>5 DEF LogWhole
  <2>7. ChoiceWhole' /\ CoarseWhole'
    BY <1>1, <2>1 DEF ChoiceWhole, CoarseWhole, Splitting
  <2> QED  BY <2>3, <2>6, <2>7 DEF WholeInv
<1>11. CASE sz # 1
  <2>1. /\ members' = c /\ optimal' = INF /\ ans' = <<>> /\ exact' = TRUE
        /\ Call(c, <<>>, FineStep) /\ stage' = "fine first" /\ singles' = singles
    BY <1>7, <1>11 DEF FineRead
  <2>2. Apart(<<>>) /\ All(<<>>) = {} /\ <<>> \in Clusters
    BY PrintedEmpty DEF Apart, All
  <2> HIDE DEF c, t, sz, list
  <2>3. ToSet(c) = ToSet(IF exact' THEN members' ELSE UniqueList)
    BY <2>1
  <2>4. ArgumentsOK' /\ CallWhole'
    <3>1. All(<<>>) \cap ToSet(c) = {} /\ All(<<>>) \cup ToSet(c) = ToSet(c)
      BY <2>2
    <3> DEFINE e == <<>>
               S == ToSet(c)
    <3>2. /\ e \in Clusters /\ Apart(e) /\ All(e) \cap ToSet(c) = {} /\ All(e) \cup ToSet(c) = S
          /\ Call(c, e, FineStep) /\ S = ToSet(IF exact' THEN members' ELSE UniqueList)
      BY <2>1, <2>2, <2>3, <3>1
    <3> HIDE DEF e, S
    <3> QED  BY <1>8, <3>2, NewCall
  <2>5. Current' = ToSet(c) /\ stage' # "end" /\ Splitting'
    BY <2>1 DEF Current, Splitting
  <2> HIDE DEF Current
  <2>6. LogParts(done, t)'
    BY <1>1, <1>5, <1>8, <1>9, <2>1, <2>5 DEF LogParts
  <2>7. LogWhole'
    BY <1>7, <2>6 DEF LogWhole
  <2>8. ChoiceWhole'
    <3>1. /\ exact' /\ members' \in Seq(Blocks) /\ IsInjective(members')
          /\ ans' \in Clusters /\ Apart(ans') /\ All(ans') = {} /\ optimal' = INF
      BY <1>8, <2>1, <2>2
    <3> QED  BY <3>1 DEF ChoiceWhole, Whole
  <2>9. CoarseWhole'
    BY <2>1 DEF CoarseWhole
  <2> QED  BY <2>4, <2>7, <2>8, <2>9 DEF WholeInv
<1> QED  BY <1>10, <1>11

LEMMA FineJudgeWhole ==
    ASSUME ProgInv, WholeInv, FineJudge
    PROVE  ArgumentsOK' /\ WholeInv'
<1> DEFINE sum == StoredSize(cluster)
           better == sum < optimal
<1>1. /\ stage = "fine last" /\ pc = "return" /\ Splitting
      /\ optimal' = IF better THEN sum ELSE optimal
      /\ ans' = IF better THEN cluster ELSE ans
      /\ UNCHANGED <<unread, members, singles>>
  BY DEF FineJudge, Splitting
<1>2. BInv /\ CallWhole /\ LogWhole /\ ChoiceWhole
  BY DEF ProgInv, WholeInv
<1>3. /\ exact /\ members \in Seq(Blocks) /\ IsInjective(members)
      /\ ans \in Clusters /\ Apart(ans) /\ All(ans) \subseteq ToSet(members)
      /\ optimal # INF => All(ans) = ToSet(members)
  BY <1>1, <1>2 DEF ChoiceWhole, Whole
<1>4. cluster \in Clusters /\ Apart(cluster) /\ All(cluster) = ToSet(members)
  BY <1>1, <1>2, <1>3, ReturnedWhole DEF Whole
<1>5. SumsBelowINF => sum < INF
  BY <1>4 DEF SumsBelowINF
<1> HIDE DEF sum
<1>6. /\ ans' \in Clusters /\ Apart(ans') /\ All(ans') \subseteq ToSet(members)
      /\ optimal' # INF => All(ans') = ToSet(members)
  BY <1>1, <1>3, <1>4
<1>7. SumsBelowINF => All(ans') = ToSet(members)
  <2>1. INF \in Nat => ~(INF < INF)
    OBVIOUS
  <2>2. CASE better
    BY <1>1, <1>4, <2>2
  <2>3. CASE ~better
    BY <1>1, <1>3, <1>5, <2>3
  <2> QED  BY <2>2, <2>3
<1>8. CASE stage' = "fine first"
  <2>1. exact' = exact /\ Call(members, <<>>, threshold + FineStep) /\ fineLog' = fineLog
    BY <1>8 DEF FineJudge
  <2>2. Apart(<<>>) /\ All(<<>>) = {} /\ <<>> \in Clusters
    BY PrintedEmpty DEF Apart, All
  <2>3. ArgumentsOK' /\ CallWhole'
    <3>1. All(<<>>) \cap ToSet(members) = {} /\ All(<<>>) \cup ToSet(members) = ToSet(members)
      BY <2>2
    <3>2. ToSet(members) = ToSet(IF exact' THEN members' ELSE UniqueList)
      BY <1>1, <1>3, <2>1
    <3> DEFINE e == <<>>
               S == ToSet(members)
    <3>3. /\ e \in Clusters /\ Apart(e) /\ All(e) \cap ToSet(members) = {}
          /\ All(e) \cup ToSet(members) = S
          /\ Call(members, e, threshold + FineStep)
          /\ S = ToSet(IF exact' THEN members' ELSE UniqueList)
      BY <2>1, <2>2, <3>1, <3>2
    <3> HIDE DEF e, S
    <3> QED  BY <1>3, <3>3, NewCall
  <2>4. Splitting'
    BY <1>8 DEF Splitting
  <2>5. LogWhole'
    BY <1>1, <1>2, <2>1, <2>4, SplittingLog
  <2>6. ChoiceWhole'
    <3>1. exact' /\ members' \in Seq(Blocks) /\ IsInjective(members') /\ ToSet(members') = ToSet(members)
      BY <1>1, <1>3, <2>1
    <3> QED  BY <1>6, <3>1 DEF ChoiceWhole, Whole
  <2>7. CoarseWhole'
    BY <1>8 DEF CoarseWhole
  <2> QED  BY <2>3, <2>5, <2>6, <2>7 DEF WholeInv
<1>9. CASE stage' = "fine read"
  <2>1. fineLog' = fineLog \o Printed(ans') /\ UNCHANGED bvars
    BY <1>9 DEF FineJudge
  <2>2. ArgumentsOK' /\ CallWhole'
    BY <1>1, <1>2, <2>1, CallStays
  <2>3. PICK done \in Clusters, rest \in Clusters : LogParts(done, rest)
    BY <1>1, <1>2 DEF LogWhole
  <2>4. Current = ToSet(members) /\ Current' = {} /\ stage' # "end"
    BY <1>1, <1>9 DEF Current, Splitting
  <2> HIDE DEF Current
  <2>5. /\ fineLog = Printed(done) /\ unread = Printed(rest)
        /\ Apart(done) /\ Apart(rest) /\ All(done) \cap All(rest) = {}
        /\ singles \cap (All(done) \cup All(rest)) = {}
        /\ ToSet(members) \cap (All(done) \cup All(rest)) = {}
        /\ singles \cap ToSet(members) = {}
        /\ All(done) \cup All(rest) \cup singles \cup ToSet(members) \subseteq ToSet(UniqueList)
        /\ SumsBelowINF =>
              All(done) \cup All(rest) \cup singles \cup ToSet(members) = ToSet(UniqueList)
    BY <2>3, <2>4 DEF LogParts
  <2> DEFINE found == ans'
             d == done \o found
  <2>6. /\ found \in Clusters /\ Apart(found) /\ All(found) \subseteq ToSet(members)
        /\ SumsBelowINF => All(found) = ToSet(members)
    BY <1>6, <1>7
  <2> HIDE DEF found
  <2>7. d \in Clusters /\ Printed(d) = Printed(done) \o Printed(found)
    BY <2>6, PrintedConcat
  <2>8. Apart(d) /\ All(d) = All(done) \cup All(found)
    BY <2>5, <2>6, ConcatWhole
  <2>9. fineLog' = Printed(d)
    BY <2>1, <2>5, <2>7 DEF found
  <2> HIDE DEF d
  <2>10. PICK d2 \in Clusters : d2 = d
    BY <2>7
  <2>11. LogParts(d2, rest)'
    <3>1. /\ fineLog' = Printed(d2) /\ unread' = Printed(rest)
          /\ stage' = "end" => rest = <<>>
          /\ Apart(d2) /\ Apart(rest)
      BY <1>1, <2>4, <2>5, <2>8, <2>9, <2>10
    <3>2. /\ All(d2) \cap All(rest) = {}
          /\ (singles' \cup Current') \cap (All(d2) \cup All(rest)) = {}
          /\ singles' \cap Current' = {}
      BY <1>1, <2>4, <2>5, <2>6, <2>8, <2>10
    <3>3. All(d2) \cup All(rest) \cup singles' \cup Current' \subseteq ToSet(UniqueList)
      BY <1>1, <2>4, <2>5, <2>6, <2>8, <2>10
    <3>4. SumsBelowINF => All(d2) \cup All(rest) \cup singles' \cup Current' = ToSet(UniqueList)
      BY <1>1, <2>4, <2>5, <2>6, <2>8, <2>10
    <3> QED  BY <3>1, <3>2, <3>3, <3>4 DEF LogParts
  <2>12. LogWhole'
    BY <2>11 DEF LogWhole
  <2>13. ChoiceWhole' /\ CoarseWhole'
    BY <1>9 DEF ChoiceWhole, CoarseWhole, Splitting
  <2> QED  BY <2>2, <2>12, <2>13 DEF WholeInv
<1> QED  BY <1>8, <1>9 DEF FineJudge

LEMMA FineEndWhole ==
    ASSUME ProgInv, WholeInv, FineEnd
    PROVE  ArgumentsOK' /\ WholeInv'
<1>1. /\ stage = "fine read" /\ unread = <<>> /\ stage' = "end"
      /\ UNCHANGED <<bvars, unread, members, singles, fineLog>>
  BY DEF FineEnd
<1>2. BInv /\ CallWhole /\ LogWhole
  BY DEF ProgInv, WholeInv
<1>3. PICK done \in Clusters, rest \in Clusters : LogParts(done, rest)
  BY <1>1, <1>2 DEF LogWhole
<1>4. Current = {} /\ Current' = {}
  BY <1>1 DEF Current, Splitting
<1>5. unread = Printed(rest)
  BY <1>3 DEF LogParts
<1>6. rest = <<>>
  BY <1>1, <1>5, PrintedRead
<1> HIDE DEF Current
<1>7. LogParts(done, rest)'
  BY <1>1, <1>3, <1>4, <1>6 DEF LogParts
<1>8. LogWhole'
  BY <1>7 DEF LogWhole
<1>9. ChoiceWhole' /\ CoarseWhole'
  BY <1>1 DEF ChoiceWhole, CoarseWhole, Splitting
<1>10. ArgumentsOK' /\ CallWhole'
  BY <1>1, <1>2, CallStays
<1> QED  BY <1>8, <1>9, <1>10 DEF WholeInv

\* Every step of the programs.
LEMMA WholeStep ==
    ASSUME ProgInv, WholeInv, [Next]_vars
    PROVE  ArgumentsOK' /\ WholeInv'
<1>1. CASE UNCHANGED vars \/ ClusterStep
  <2>1. [BNext]_bvars /\ UNCHANGED pvars
    BY <1>1 DEF vars, ClusterStep
  <2>2. UNCHANGED <<stage, unread, members, optimal, ans, singles, fineLog>>
    BY <2>1 DEF pvars
  <2>3. BInv /\ CallWhole /\ ChoiceWhole /\ LogWhole /\ CoarseWhole
    BY DEF ProgInv, WholeInv
  <2>4. CallWhole' /\ exact' = exact
    BY <2>1, <2>2, <2>3, BNextCall
  <2>5. BInv'
    BY <2>1, <2>3, BNextStep
  <2>6. ArgumentsOK'
    BY <2>5 DEF BInv, BTypeOK, ArgumentsOK
  <2>7. ChoiceWhole' /\ CoarseWhole'
    BY <2>2, <2>3, <2>4 DEF ChoiceWhole, CoarseWhole, Splitting
  <2>8. LogWhole'
    <3>1. CASE stage \in {"coarse", "coarse again"}
      BY <2>2, <3>1 DEF LogWhole
    <3>2. CASE stage \notin {"coarse", "coarse again"}
      <4>1. PICK done \in Clusters, rest \in Clusters : LogParts(done, rest)
        BY <2>3, <3>2 DEF LogWhole
      <4>2. Current' = Current
        BY <2>2 DEF Current, Splitting
      <4> HIDE DEF Current
      <4>3. LogParts(done, rest)'
        BY <2>2, <4>1, <4>2 DEF LogParts
      <4> QED  BY <4>3 DEF LogWhole
    <3> QED  BY <3>1, <3>2
  <2> QED  BY <2>4, <2>6, <2>7, <2>8 DEF WholeInv
<1>2. CASE MainNext
  BY <1>2, CoarseAgainWhole, CoarseEndWhole, FineReadWhole, FineEpochWhole, FineJudgeWhole,
     FineEndWhole DEF MainNext
<1> QED  BY <1>1, <1>2 DEF Next

-----------------------------------------------------------------------------
(***************************************************************************)
(* What the two programs do.                                               *)
(***************************************************************************)
LEMMA ProgramInv == Spec => [](ProgInv /\ WholeInv)
<1>1. Init => ProgInv /\ WholeInv
  BY InitInv, InitWhole DEF ProgInv
<1>2. ProgInv /\ WholeInv /\ [Next]_vars => (ProgInv /\ WholeInv)'
  BY ProgStep, WholeStep
<1> QED  BY <1>1, <1>2, PTL DEF Spec

\* coarse and fine, one call after another, cluster as the sequential algorithm
\* does: in fine every block meets every representative of the blocks before
\* it, although workers search while main opens clusters.
THEOREM ProgramsAreSequential == Spec => SequentialClustering
<1>1. Init => G!GInit
  <2> SUFFICES ASSUME Init PROVE G!GInit
    OBVIOUS
  <2>1. BTypeOK
    BY InitInv, InitWhole DEF BInv
  <2> QED  BY <2>1, SameOps DEF Init, BTypeOK, G!GInit
<1>2. ProgInv /\ WholeInv /\ [Next]_vars => [G!GNext]_(G!gvars)
  BY ProgStep, WholeStep
<1> QED  BY <1>1, <1>2, ProgramInv, PTL DEF Spec, SequentialClustering, G!GSpec

\* A block of a cluster is within the threshold of the call of its
\* representative, whichever thread compared them.
THEOREM BlocksAreWithin == Spec => []WithinThreshold
<1>1. ProgInv => WithinThreshold
  BY DEF ProgInv
<1> QED  BY <1>1, ProgramInv, PTL

\* At most MAX_QSIZE blocks of todo are handed out and not yet placed.
THEOREM WindowIsBounded == Spec => []WindowBounded
<1>1. ProgInv => WindowBounded
  <2> SUFFICES ASSUME BTypeOK, ThreadInv, Running
               PROVE  Len(produceQ) + Cardinality(Busy) + Cardinality(resultQ) <= MAX_QSIZE
    BY DEF ProgInv, BInv, WindowBounded, Running, Busy
  <2>1. Len(produceQ) + Cardinality(Busy) + Cardinality(resultQ) = Hi + 1 - Lo
    BY DEF ThreadInv, CountInv
  <2>2. Lo >= i + 1
    BY WindowEnds DEF Lo
  <2>3. Hi + 1 - Lo <= MAX_QSIZE
    BY <2>2, WindowEnds
  <2> QED  BY <2>1, <2>3
<1> QED  BY <1>1, ProgramInv, PTL

\* The programs keep the types and the invariant of the threads.
THEOREM ProgramsAreConsistent == Spec => [](BTypeOK /\ ThreadInv)
<1>1. ProgInv => BTypeOK /\ ThreadInv
  BY DEF ProgInv, BInv
<1> QED  BY <1>1, ProgramInv, PTL

\* A block of a call of bruteForceCluster is in one cluster or waits in todo, and
\* is in one place there: none is lost or placed twice, whichever thread compared
\* it, and however the two main() regroup the clusters between the calls.
THEOREM BlocksAreOnce == Spec => []EachBlockOnce
<1>1. ProgInv /\ WholeInv => EachBlockOnce
  <2> SUFFICES ASSUME BTypeOK, MainInv, CallWhole PROVE EachBlockOnce
    BY DEF ProgInv, BInv, ThreadInv, WholeInv
  <2> DEFINE a == FlattenSeq(cluster)
             b == SubSeq(todo, placed + 1, Len(todo))
  <2>1. todo \in Seq(Blocks) /\ Len(todo) \in Nat /\ cluster \in Clusters
    BY DEF BTypeOK
  <2>2. placed \in Nat /\ placed <= Len(todo)
    BY <2>1 DEF BTypeOK, MainInv, placed
  <2>3. a \in Seq(Blocks) /\ ToSet(a) = All(cluster) /\ IsInjective(a)
    <3>1. cluster \in Seq(Seq(Blocks)) /\ Apart(cluster)
      BY <2>1, ClustersFacts DEF CallWhole
    <3> QED  BY <3>1, FlattenFacts
  <2>4. /\ b \in Seq(Blocks) /\ Len(b) = Len(todo) - placed
        /\ \A n \in 1..(Len(todo) - placed) : b[n] = todo[placed + n]
    BY <2>1, <2>2
  <2> DEFINE m == Len(todo) - placed
  <2>5. /\ m \in Nat
        /\ \A n \in 1..m : placed + n \in (placed + 1)..Len(todo)
        /\ \A n \in (placed + 1)..Len(todo) : n - placed \in 1..m /\ placed + (n - placed) = n
        /\ \A k, l \in 1..m : placed + k = placed + l => k = l
    BY <2>1, <2>2
  <2> HIDE DEF a, b, m, placed
  <2>6. DOMAIN b = 1..m /\ \A n \in 1..m : b[n] = todo[placed + n]
    BY <2>4 DEF m
  <2>7. ToSet(b) \subseteq Ahead
    BY <2>5, <2>6 DEF ToSet, Ahead
  <2>8. Ahead \subseteq ToSet(b)
    <3> SUFFICES ASSUME NEW n \in (placed + 1)..Len(todo) PROVE todo[n] \in ToSet(b)
      BY DEF Ahead
    <3>1. n - placed \in DOMAIN b /\ b[n - placed] = todo[n]
      BY <2>5, <2>6
    <3> QED  BY <3>1 DEF ToSet
  <2>9. IsInjective(b)
    <3> SUFFICES ASSUME NEW k \in 1..m, NEW l \in 1..m, b[k] = b[l] PROVE k = l
      BY <2>6 DEF IsInjective
    <3>1. todo[placed + k] = todo[placed + l]
      BY <2>6
    <3>2. placed + k = placed + l
      BY <2>5, <3>1 DEF CallWhole
    <3> QED  BY <2>5, <3>2
  <2>10. ToSet(a) \cap ToSet(b) = {} /\ ToSet(a) \cup ToSet(b) = All(cluster) \cup Ahead
    BY <2>3, <2>7, <2>8 DEF CallWhole
  <2>11. ToSet(a \o b) = All(cluster) \cup Ahead /\ IsInjective(a \o b)
    BY <2>3, <2>4, <2>9, <2>10, ConcatSet
  <2>12. All(cluster) \cup Ahead = ToSet(IF exact THEN members ELSE UniqueList)
    BY DEF CallWhole
  <2> QED  BY <2>11, <2>12 DEF EachBlockOnce, a, b
<1> QED  BY <1>1, ProgramInv, PTL

\* What fine has written when it ends, read back: no block has two labels, and
\* all are of the trace.
LEMMA LabelsOnce ==
    ASSUME WholeInv, stage = "end"
    PROVE  /\ IsInjective(LabelsOf(fineLog))
           /\ ToSet(LabelsOf(fineLog)) \cap singles = {}
           /\ ToSet(LabelsOf(fineLog)) \cup singles \subseteq ToSet(UniqueList)
           /\ SumsBelowINF => ToSet(LabelsOf(fineLog)) \cup singles = ToSet(UniqueList)
<1>1. PICK done \in Clusters, rest \in Clusters : LogParts(done, rest)
  BY DEF WholeInv, LogWhole
<1>2. Current = {}
  BY DEF Current, Splitting
<1>3. All(<<>>) = {}
  BY DEF All
<1>4. /\ fineLog = Printed(done) /\ Apart(done) /\ All(rest) = {}
      /\ singles \cap All(done) = {} /\ All(done) \cup singles \subseteq ToSet(UniqueList)
      /\ SumsBelowINF => All(done) \cup singles = ToSet(UniqueList)
  BY <1>1, <1>2, <1>3 DEF LogParts
<1>5. LabelsOf(fineLog) = FlattenSeq(done)
  BY <1>4, LabelsOfPrinted
<1>6. ToSet(FlattenSeq(done)) = All(done) /\ IsInjective(FlattenSeq(done))
  <2>1. done \in Seq(Seq(Blocks))
    BY ClustersFacts
  <2> QED  BY <1>4, <2>1, FlattenFacts
<1> QED  BY <1>4, <1>5, <1>6

\* When fine ends, every block with a new content has a label and only one: it is
\* in the log of fine (print_cluster) or on its stdout.  The sums of lz4_sum must
\* stay below INF, where optimal starts; above, fine keeps no clustering at all.
THEOREM LabelsAreComplete ==
    ASSUME SumsBelowINF
    PROVE  Spec => []LabelsComplete
<1>1. ProgInv /\ WholeInv => LabelsComplete
  BY LabelsOnce DEF LabelsComplete
<1> QED  BY <1>1, ProgramInv, PTL

=============================================================================
