-------------------------- MODULE DeltaStoreProofs --------------------------
(***************************************************************************)
(* Proofs about the programs that store a trace (src/training/finesse/ and *)
(* src/training/deepsketch/): their recipes bring back the blocks, for     *)
(* every trace, every way blocks compress and every reference found.       *)
(***************************************************************************)
EXTENDS TraceTools, TLAPS, SequenceTheorems, FiniteSetTheorems, WellFoundedInduction

-----------------------------------------------------------------------------
(***************************************************************************)
(* The inductive invariant.                                                *)
(***************************************************************************)
Kinds == {"raw", "self", "delta"}
PieceSet == [kind : Kinds, block : Contents, base : Seq(Contents), size : Nat \ {0}]
RecipeSet == [flag : Kinds \cup {"dup"}, ref : Int, offset : Nat, size : Nat]

TraceOK == trace \in Seq(Contents) /\ trace # <<>> /\ i \in 1..(N + 1)

\* Piece p of ps is what recipe r of a block like block b says.
Holds(ps, p, r, b) ==
    /\ Offsets(ps)[p - 1] = r.offset
    /\ ps[p].kind = r.flag
    /\ ps[p].block = trace[b]
    /\ r.flag # "raw" => ps[p].size = r.size + 1
    /\ r.flag = "delta" => r.ref \in 1..(b - 1) /\ ps[p].base = <<trace[r.ref]>>

\* Recipe r leads to the contents of block b, through earlier blocks only.
Stands(ps, r, b) ==
    IF r.flag = "dup" THEN r.ref \in 1..(b - 1) /\ trace[r.ref] = trace[b]
    ELSE \E p \in 1..Len(ps) : Holds(ps, p, r, b)

RecipesOK ==
    /\ pieces \in Seq(PieceSet)
    /\ recipe \in Seq(RecipeSet)
    /\ \A b \in 1..Len(recipe) : Stands(pieces, recipe[b], b)

\* With n recipes inserted and main at block m: blocks q wait for their
\* sketches or to be stored, the duplicates in lazy for their recipes, both
\* in order, and together they are all blocks between.
Between(q, n, m) ==
    /\ \A k \in 1..Len(q) : q[k] \in Nat /\ n < q[k] /\ q[k] < m
    /\ \A j, k \in 1..Len(q) : j < k => q[j] < q[k]

Duplicates(lazy, n, m) ==
    /\ \A k \in 1..Len(lazy) :
          /\ lazy[k][1] \in Nat /\ n < lazy[k][1] /\ lazy[k][1] < m
          /\ lazy[k][2] \in 1..(lazy[k][1] - 1)
          /\ trace[lazy[k][2]] = trace[lazy[k][1]]
    /\ \A j, k \in 1..Len(lazy) : j < k => lazy[j][1] < lazy[k][1]

Apart(q, lazy) == \A j \in 1..Len(q), k \in 1..Len(lazy) : q[j] # lazy[k][1]

Covered(q, lazy, n, m) ==
    \A b \in (n + 1)..(m - 1) : \/ \E j \in 1..Len(q) : q[j] = b
                                \/ \E j \in 1..Len(lazy) : lazy[j][1] = b

Pending(q, lazy, n, m) ==
    /\ q \in Seq(Nat) /\ lazy \in Seq(Nat \X Nat)
    /\ n \in Nat /\ m \in Nat /\ n < m
    /\ Between(q, n, m)
    /\ Duplicates(lazy, n, m)
    /\ Apart(q, lazy)
    /\ Covered(q, lazy, n, m)

\* The other programs have nothing pending: their recipes are up to date.
PendingOK ==
    /\ batch \in Seq(Nat) /\ work \in Seq(Nat)
    /\ Pending(work \o batch, dedup_lazy_recipe, Len(recipe), i)
    /\ Len(batch) < BATCH_SIZE /\ Len(batch) + Len(work) <= BATCH_SIZE
    /\ prog # "deepsketch" => work = <<>> /\ batch = <<>> /\ dedup_lazy_recipe = <<>>

DedupOK == \A c \in DOMAIN dedup : dedup[c] \in 1..(i - 1) /\ trace[dedup[c]] = c

\* A table of labels: blocks up to n, under their own keys.
Table(f, key, n) ==
    \A v \in DOMAIN f :
        /\ f[v] \in Seq(1..n) /\ f[v] # <<>>
        /\ \A k \in 1..Len(f[v]) : key[trace[f[v][k]]] = v

SFKey(k) == [c \in Contents |-> SuperFeature[c][k]]
HashKey == [c \in Contents |-> MyHash[c]]
SketchSet == {MyHash[c] : c \in Contents}

TablesOK ==
    /\ DOMAIN sfTable = SF
    /\ \A k \in SF : Table(sfTable[k], SFKey(k), Len(recipe))
    /\ Table(hashtable, HashKey, Len(recipe))
    /\ linear \in Seq(SketchSet) /\ indexed \subseteq SketchSet
    /\ DOMAIN hashtable = ToSet(linear) \cup indexed /\ ToSet(linear) \cap indexed = {}
    /\ IsInjective(linear) /\ Len(linear) < LINEAR_SIZE

FileOK ==
    file # <<>> =>
        /\ file = [b \in 1..N |-> IF b <= Len(recipe) THEN recipe[b] ELSE Undefined]
        /\ i = N + 1 /\ work = <<>> /\ batch = <<>>

StoreInv == TraceOK /\ RecipesOK /\ PendingOK /\ DedupOK /\ TablesOK /\ FileOK

-----------------------------------------------------------------------------
(***************************************************************************)
(* Numbers, and where the pieces begin.                                    *)
(***************************************************************************)
\* Every set of numbers that is not empty has a least one.
LEMMA LeastNumber ==
    ASSUME NEW T, T \subseteq Nat, T # {}
    PROVE  \E x \in T : \A y \in T : x <= y
<1>1. \E x \in T : \A y \in T : ~(<<y, x>> \in OpToRel(<, Nat))
  BY NatLessThanWellFounded, WFMin
<1>2. PICK x \in T : \A y \in T : ~(<<y, x>> \in OpToRel(<, Nat))
  BY <1>1
<1>3. \A y \in T : ~(y < x)
  BY <1>2 DEF OpToRel
<1>4. x \in Nat /\ \A y \in T : y \in Nat
  OBVIOUS
<1> QED  BY <1>3, <1>4

\* Every set of numbers that is not empty and has a bound has a greatest one.
LEMMA GreatestNumber ==
    ASSUME NEW T, T \subseteq Nat, T # {}, NEW n \in Nat, \A x \in T : x <= n
    PROVE  \E x \in T : \A y \in T : y <= x
<1> DEFINE U == {u \in Nat : \A x \in T : x <= u}
<1>1. n \in U
  OBVIOUS
<1>2. PICK u \in U : \A v \in U : u <= v
  <2>1. U \subseteq Nat /\ U # {}
    BY <1>1
  <2> HIDE DEF U
  <2> QED  BY <2>1, LeastNumber
<1>3. CASE u \in T
  BY <1>2, <1>3
<1>4. CASE u \notin T
  <2>1. PICK x \in T : TRUE
    OBVIOUS
  <2>2. \A y \in T : y <= u - 1
    BY <1>4
  <2>3. u - 1 \in U
    BY <2>1, <2>2
  <2> QED  BY <1>2, <2>3
<1> QED  BY <1>3, <1>4

\* p[k] is the size of the first k pieces, for k up to n.
Sums(p, ps, n) ==
    /\ p \in [0..n -> Nat]
    /\ p[0] = 0
    /\ \A k \in 1..n : p[k] = p[k - 1] + ps[k].size

LEMMA PieceSize ==
    ASSUME NEW ps \in Seq(PieceSet), NEW k \in 1..Len(ps)
    PROVE  ps[k].size \in Nat /\ ps[k].size > 0
<1>1. ps[k] \in PieceSet
  OBVIOUS
<1> QED  BY <1>1 DEF PieceSet

LEMMA SumsExist ==
    ASSUME NEW ps \in Seq(PieceSet), NEW n \in 0..Len(ps)
    PROVE  \E p : Sums(p, ps, n)
<1> DEFINE T == {m \in 0..Len(ps) : ~\E p : Sums(p, ps, m)}
<1>0. Len(ps) \in Nat
  OBVIOUS
<1>1. SUFFICES ASSUME T # {} PROVE FALSE
  OBVIOUS
<1>2. PICK x \in T : \A y \in T : x <= y
  <2>1. T \subseteq Nat
    OBVIOUS
  <2> HIDE DEF T
  <2> QED  BY <1>1, <2>1, LeastNumber
<1>3. x \in 0..Len(ps) /\ ~\E p : Sums(p, ps, x)
  OBVIOUS
<1>4. CASE x = 0
  <2> DEFINE p == [k \in 0..0 |-> 0]
  <2>1. Sums(p, ps, 0)
    BY DEF Sums
  <2> QED  BY <1>3, <1>4, <2>1
<1>5. CASE x # 0
  <2>1. x - 1 \in 0..Len(ps) /\ x \in 1..Len(ps) /\ x \in Nat /\ ~(x <= x - 1)
    BY <1>0, <1>3, <1>5
  <2>2. PICK p : Sums(p, ps, x - 1)
    BY <1>2, <2>1
  <2> DEFINE q == [k \in 0..x |-> IF k = x THEN p[x - 1] + ps[x].size ELSE p[k]]
  <2>3. ps[x].size \in Nat
    BY <2>1, PieceSize
  <2>4. \A k \in 0..(x - 1) : p[k] \in Nat /\ q[k] = p[k]
    BY <2>1, <2>2 DEF Sums
  <2>5. q[x] = p[x - 1] + ps[x].size
    BY <2>1
  <2>6. q \in [0..x -> Nat]
    <3>1. x - 1 \in 0..(x - 1) /\ \A k \in 0..x : k = x \/ k \in 0..(x - 1)
      BY <2>1
    <3>2. q = [k \in 0..x |-> q[k]]
      OBVIOUS
    <3> HIDE DEF q
    <3>3. p[x - 1] \in Nat
      BY <2>4, <3>1
    <3>4. \A k \in 0..x : q[k] \in Nat
      BY <2>3, <2>4, <2>5, <3>1, <3>3
    <3> QED  BY <3>2, <3>4
  <2>7. \A k \in 1..x : q[k] = q[k - 1] + ps[k].size
    <3> SUFFICES ASSUME NEW k \in 1..x PROVE q[k] = q[k - 1] + ps[k].size
      OBVIOUS
    <3>1. k - 1 \in 0..(x - 1)
      BY <2>1
    <3>2. CASE k = x
      BY <2>4, <2>5, <3>1, <3>2
    <3>3. CASE k # x
      <4>1. k \in 0..(x - 1) /\ k \in 1..(x - 1)
        BY <2>1, <3>3
      <4> QED  BY <2>2, <2>4, <3>1, <4>1 DEF Sums
    <3> QED  BY <3>2, <3>3
  <2>8. q[0] = 0
    BY <2>1, <2>2, <2>4 DEF Sums
  <2>9. Sums(q, ps, x)
    BY <2>6, <2>7, <2>8 DEF Sums
  <2> QED  BY <1>3, <2>9
<1> QED  BY <1>4, <1>5

\* f is the recursive function of Offsets.
IsOffsets(f, ps) == f = [n \in 0..Len(ps) |-> IF n = 0 THEN 0 ELSE f[n - 1] + ps[n].size]

LEMMA OffsetsAreSums ==
    ASSUME NEW ps \in Seq(PieceSet), NEW p, Sums(p, ps, Len(ps))
    PROVE  Offsets(ps) = p
<1> DEFINE f == CHOOSE g : IsOffsets(g, ps)
<1>0. Len(ps) \in Nat
  OBVIOUS
<1>1. Offsets(ps) = f
  BY DEF Offsets, IsOffsets
<1>2. IsOffsets(p, ps)
  <2> DEFINE q == [n \in 0..Len(ps) |-> IF n = 0 THEN 0 ELSE p[n - 1] + ps[n].size]
  <2>1. \A n \in 0..Len(ps) : p[n] = q[n]
    <3> SUFFICES ASSUME NEW n \in 0..Len(ps) PROVE p[n] = q[n]
      OBVIOUS
    <3>1. CASE n = 0
      BY <3>1 DEF Sums
    <3>2. CASE n # 0
      <4>1. n \in 1..Len(ps)
        BY <1>0, <3>2
      <4> QED  BY <3>2, <4>1 DEF Sums
    <3> QED  BY <3>1, <3>2
  <2>2. p = [n \in 0..Len(ps) |-> p[n]]
    BY DEF Sums
  <2>3. [n \in 0..Len(ps) |-> p[n]] = [n \in 0..Len(ps) |-> q[n]]
    BY <2>1
  <2>4. [n \in 0..Len(ps) |-> q[n]] = q
    OBVIOUS
  <2>5. p = q
    BY <2>2, <2>3, <2>4
  <2> QED  BY <2>5 DEF IsOffsets
<1>3. IsOffsets(f, ps)
  BY <1>2
<1> HIDE DEF f
<1>4. /\ \A n \in 0..Len(ps) : f[n] = IF n = 0 THEN 0 ELSE f[n - 1] + ps[n].size
      /\ f = [n \in 0..Len(ps) |-> f[n]]
  BY <1>3 DEF IsOffsets
<1>5. \A n \in 0..Len(ps) : f[n] = p[n]
  <2> DEFINE T == {n \in 0..Len(ps) : f[n] # p[n]}
  <2> SUFFICES ASSUME T # {} PROVE FALSE
    OBVIOUS
  <2>1. T \subseteq Nat
    OBVIOUS
  <2>2. PICK x \in T : \A y \in T : x <= y
    BY <2>1, LeastNumber
  <2>3. x \in 0..Len(ps) /\ f[x] # p[x]
    OBVIOUS
  <2>4. x # 0
    BY <1>0, <1>4, <2>3 DEF Sums
  <2>5. x \in 1..Len(ps) /\ x - 1 \in 0..Len(ps) /\ ~(x <= x - 1)
    BY <1>0, <2>3, <2>4
  <2>6. f[x - 1] = p[x - 1]
    BY <2>2, <2>5
  <2>7. f[x] = f[x - 1] + ps[x].size /\ p[x] = p[x - 1] + ps[x].size
    BY <1>4, <2>3, <2>4, <2>5 DEF Sums
  <2> QED  BY <2>3, <2>6, <2>7
<1>6. p = [n \in 0..Len(ps) |-> p[n]]
  BY DEF Sums
<1> QED  BY <1>1, <1>4, <1>5, <1>6

LEMMA OffsetsFacts ==
    ASSUME NEW ps \in Seq(PieceSet)
    PROVE  Sums(Offsets(ps), ps, Len(ps))
<1>1. PICK p : Sums(p, ps, Len(ps))
  BY SumsExist
<1> QED  BY <1>1, OffsetsAreSums

\* Two pieces never begin at the same byte.
LEMMA OffsetsDiffer ==
    ASSUME NEW ps \in Seq(PieceSet), NEW m \in 0..Len(ps), NEW n \in 0..Len(ps), m < n
    PROVE  Offsets(ps)[m] < Offsets(ps)[n]
<1> DEFINE f == Offsets(ps)
           T == {k \in (m + 1)..Len(ps) : ~(f[m] < f[k])}
<1>0. Len(ps) \in Nat /\ m \in Nat /\ n \in (m + 1)..Len(ps)
  OBVIOUS
<1>1. Sums(f, ps, Len(ps))
  BY OffsetsFacts
<1> HIDE DEF f
<1>2. SUFFICES ASSUME T # {} PROVE FALSE
  BY <1>0 DEF f
<1>3. PICK x \in T : \A y \in T : x <= y
  <2>1. T \subseteq Nat
    BY <1>0
  <2> HIDE DEF T
  <2> QED  BY <1>2, <2>1, LeastNumber
<1>4. x \in (m + 1)..Len(ps) /\ ~(f[m] < f[x])
  OBVIOUS
<1>5. x \in 1..Len(ps) /\ x - 1 \in 0..Len(ps) /\ x \in 0..Len(ps) /\ ~(x <= x - 1)
  BY <1>0, <1>4
<1>6. ps[x].size \in Nat /\ ps[x].size > 0
  BY <1>5, PieceSize
<1>7. f[x] = f[x - 1] + ps[x].size /\ f[x] \in Nat /\ f[x - 1] \in Nat /\ f[m] \in Nat
  BY <1>1, <1>5 DEF Sums
<1>8. CASE x = m + 1
  BY <1>0, <1>4, <1>6, <1>7, <1>8
<1>9. CASE x # m + 1
  <2>1. x - 1 \in (m + 1)..Len(ps)
    BY <1>0, <1>4, <1>9
  <2>2. f[m] < f[x - 1]
    BY <1>3, <1>5, <2>1
  <2> QED  BY <1>4, <1>6, <1>7, <2>2
<1> QED  BY <1>8, <1>9

\* A piece that is written at the end moves none before it.
LEMMA OffsetsAppend ==
    ASSUME NEW ps \in Seq(PieceSet), NEW x \in PieceSet
    PROVE  /\ Append(ps, x) \in Seq(PieceSet)
           /\ \A n \in 0..Len(ps) : Offsets(Append(ps, x))[n] = Offsets(ps)[n]
<1> DEFINE f == Offsets(ps)
           l == Append(ps, x)
           p == [k \in 0..Len(l) |-> IF k = Len(l) THEN f[Len(ps)] + x.size ELSE f[k]]
<1>1. l \in Seq(PieceSet) /\ Len(l) = Len(ps) + 1 /\ Len(ps) \in Nat /\ l[Len(ps) + 1] = x
  OBVIOUS
<1>2. \A k \in 1..Len(ps) : l[k] = ps[k]
  OBVIOUS
<1>3. Sums(f, ps, Len(ps))
  BY OffsetsFacts
<1>4. x.size \in Nat
  BY DEF PieceSet
<1> HIDE DEF f, l
<1>5. \A k \in 0..Len(ps) : p[k] = f[k] /\ f[k] \in Nat
  BY <1>1, <1>3 DEF Sums
<1>6. p[Len(l)] = f[Len(ps)] + x.size
  BY <1>1
<1>7. p \in [0..Len(l) -> Nat]
  <2>1. Len(ps) \in 0..Len(ps) /\ \A k \in 0..Len(l) : k = Len(l) \/ k \in 0..Len(ps)
    BY <1>1
  <2>2. p = [k \in 0..Len(l) |-> p[k]]
    OBVIOUS
  <2> HIDE DEF p
  <2>3. f[Len(ps)] \in Nat
    BY <1>5, <2>1
  <2>4. \A k \in 0..Len(l) : p[k] \in Nat
    BY <1>4, <1>5, <1>6, <2>1, <2>3
  <2> QED  BY <2>2, <2>4
<1>8. \A k \in 1..Len(l) : p[k] = p[k - 1] + l[k].size
  <2> SUFFICES ASSUME NEW k \in 1..Len(l) PROVE p[k] = p[k - 1] + l[k].size
    OBVIOUS
  <2>1. k - 1 \in 0..Len(ps)
    BY <1>1
  <2>2. CASE k = Len(l)
    BY <1>1, <1>5, <1>6, <2>1, <2>2
  <2>3. CASE k # Len(l)
    <3>1. k \in 0..Len(ps) /\ k \in 1..Len(ps)
      BY <1>1, <2>3
    <3>2. f[k] = f[k - 1] + ps[k].size
      BY <1>3, <3>1 DEF Sums
    <3> QED  BY <1>2, <1>5, <2>1, <3>1, <3>2
  <2> QED  BY <2>2, <2>3
<1>9. p[0] = 0
  BY <1>1, <1>3, <1>5 DEF Sums
<1>10. Sums(p, l, Len(l))
  BY <1>7, <1>8, <1>9 DEF Sums
<1>11. Offsets(l) = p
  <2> HIDE DEF p
  <2> QED  BY <1>1, <1>10, OffsetsAreSums
<1> QED  BY <1>1, <1>5, <1>11 DEF f, l

-----------------------------------------------------------------------------
(***************************************************************************)
(* What a reader gets.                                                     *)
(***************************************************************************)
LEMMA AtOnce ==
    ASSUME pieces \in Seq(PieceSet), NEW o, NEW p \in At(o), NEW q \in At(o)
    PROVE  p = q
<1>1. /\ p \in 1..Len(pieces) /\ q \in 1..Len(pieces) /\ Len(pieces) \in Nat
      /\ Offsets(pieces)[p - 1] = o /\ Offsets(pieces)[q - 1] = o
  BY DEF At
<1>2. p - 1 \in 0..Len(pieces) /\ q - 1 \in 0..Len(pieces)
  BY <1>1
<1>3. \A n \in 0..Len(pieces) : Offsets(pieces)[n] \in Nat
  BY OffsetsFacts DEF Sums
<1>4. ~(p - 1 < q - 1)
  BY <1>1, <1>2, <1>3, OffsetsDiffer
<1>5. ~(q - 1 < p - 1)
  BY <1>1, <1>2, <1>3, OffsetsDiffer
<1> QED  BY <1>1, <1>4, <1>5

LEMMA ReadsStands ==
    ASSUME pieces \in Seq(PieceSet), NEW b \in 1..N, NEW r, Stands(pieces, r, b),
           NEW f, \A a \in 1..(b - 1) : f[a] = trace[a]
    PROVE  Reads(r, f) = trace[b]
<1>1. CASE r.flag = "dup"
  BY <1>1 DEF Stands, Reads
<1>2. CASE r.flag # "dup"
  <2> DEFINE is(p) == /\ pieces[p].kind = r.flag
                      /\ r.flag # "raw" => pieces[p].size = r.size + 1
                      /\ r.flag = "delta" => pieces[p].base = <<f[r.ref]>>
             found == {p \in At(r.offset) : is(p)}
  <2>1. Reads(r, f) = IF found # {} THEN pieces[CHOOSE p \in found : TRUE].block ELSE "lost"
    BY <1>2 DEF Reads
  <2>2. PICK p \in 1..Len(pieces) : Holds(pieces, p, r, b)
    BY <1>2 DEF Stands
  <2>3. p \in At(r.offset)
    BY <2>2 DEF At, Holds
  <2>4. is(p)
    BY <2>2 DEF Holds
  <2>5. p \in found
    BY <2>3, <2>4
  <2>6. \A q \in found : q = p
    BY <2>3, AtOnce
  <2> HIDE DEF found
  <2>7. (CHOOSE q \in found : TRUE) = p
    BY <2>5, <2>6
  <2> QED  BY <2>1, <2>2, <2>5, <2>7 DEF Holds
<1> QED  BY <1>1, <1>2

LEMMA ReadsUndefined ==
    ASSUME pieces \in Seq(PieceSet), NEW r, r.flag = "undefined", NEW f
    PROVE  Reads(r, f) = "lost"
<1>1. \A p \in At(r.offset) : pieces[p] \in PieceSet
  BY DEF At
<1>2. \A p \in At(r.offset) : pieces[p].kind # r.flag
  BY <1>1 DEF PieceSet, Kinds
<1> QED  BY <1>2 DEF Reads

\* f is the recursive function of Restored.
IsBlocks(f, rs) == f = [k \in DOMAIN rs |-> Reads(rs[k], f)]

\* What n recipes and undefined ones behind them bring back.
LEMMA RestoredFacts ==
    ASSUME pieces \in Seq(PieceSet), N \in Nat,
           NEW m \in 0..N, NEW n \in 0..m, NEW rs, DOMAIN rs = 1..m,
           \A b \in 1..n : Stands(pieces, rs[b], b),
           \A b \in (n + 1)..m : rs[b].flag = "undefined"
    PROVE  Restored(rs) = [b \in 1..m |-> IF b <= n THEN trace[b] ELSE "lost"]
<1> DEFINE g == [b \in 1..m |-> IF b <= n THEN trace[b] ELSE "lost"]
           f == CHOOSE h : IsBlocks(h, rs)
<1>1. Restored(rs) = [k \in 1..m |-> f[k]]
  BY DEF Restored, IsBlocks
<1>2. IsBlocks(g, rs)
  <2>1. \A b \in 1..m : g[b] = Reads(rs[b], g)
    <3> SUFFICES ASSUME NEW b \in 1..m PROVE g[b] = Reads(rs[b], g)
      OBVIOUS
    <3>1. CASE b <= n
      <4>1. \A a \in 1..(b - 1) : g[a] = trace[a]
        BY <3>1
      <4>2. b \in 1..n /\ b \in 1..N /\ g[b] = trace[b]
        BY <3>1
      <4> HIDE DEF g
      <4> QED  BY <4>1, <4>2, ReadsStands
    <3>2. CASE ~(b <= n)
      <4>1. b \in (n + 1)..m /\ g[b] = "lost"
        BY <3>2
      <4> HIDE DEF g
      <4> QED  BY <4>1, ReadsUndefined
    <3> QED  BY <3>1, <3>2
  <2>2. g = [b \in 1..m |-> g[b]]
    OBVIOUS
  <2> HIDE DEF g
  <2>3. [b \in 1..m |-> g[b]] = [b \in 1..m |-> Reads(rs[b], g)]
    BY <2>1
  <2> QED  BY <2>2, <2>3 DEF IsBlocks
<1>3. IsBlocks(f, rs)
  <2> HIDE DEF g
  <2> QED  BY <1>2
<1> HIDE DEF f
<1>4. \A b \in 1..m : f[b] = Reads(rs[b], f)
  BY <1>3 DEF IsBlocks
<1>5. \A b \in 1..n : f[b] = trace[b]
  <2> DEFINE T == {b \in 1..n : f[b] # trace[b]}
  <2> SUFFICES ASSUME T # {} PROVE FALSE
    OBVIOUS
  <2>1. T \subseteq Nat
    OBVIOUS
  <2>2. PICK x \in T : \A y \in T : x <= y
    BY <2>1, LeastNumber
  <2>3. x \in 1..n /\ x \in 1..m /\ x \in 1..N /\ f[x] # trace[x]
    OBVIOUS
  <2>4. \A a \in 1..(x - 1) : a \in 1..n /\ ~(x <= a)
    BY <2>3
  <2>5. \A a \in 1..(x - 1) : f[a] = trace[a]
    BY <2>2, <2>4
  <2>6. Reads(rs[x], f) = trace[x]
    BY <2>3, <2>5, ReadsStands
  <2> QED  BY <1>4, <2>3, <2>6
<1>6. \A b \in (n + 1)..m : f[b] = "lost"
  <2>1. \A b \in (n + 1)..m : b \in 1..m
    OBVIOUS
  <2>2. \A b \in (n + 1)..m : Reads(rs[b], f) = "lost"
    BY ReadsUndefined
  <2> QED  BY <1>4, <2>1, <2>2
<1>7. \A b \in 1..m : f[b] = IF b <= n THEN trace[b] ELSE "lost"
  <2>1. \A b \in 1..m : IF b <= n THEN b \in 1..n ELSE b \in (n + 1)..m
    OBVIOUS
  <2> QED  BY <1>5, <1>6, <2>1
<1> QED  BY <1>1, <1>7

-----------------------------------------------------------------------------
(***************************************************************************)
(* The blocks that wait.                                                   *)
(***************************************************************************)
LEMMA PendingTypes ==
    ASSUME NEW q, NEW lazy, NEW n, NEW m, Pending(q, lazy, n, m)
    PROVE  /\ q \in Seq(Nat) /\ Len(q) \in Nat /\ lazy \in Seq(Nat \X Nat) /\ Len(lazy) \in Nat
           /\ n \in Nat /\ m \in Nat /\ n < m
BY DEF Pending

LEMMA AppendFacts ==
    ASSUME NEW S, NEW s \in Seq(S), NEW x \in S
    PROVE  /\ Append(s, x) \in Seq(S)
           /\ Len(s) \in Nat /\ Len(Append(s, x)) = Len(s) + 1
           /\ Append(s, x)[Len(s) + 1] = x
           /\ \A k \in 1..Len(s) : Append(s, x)[k] = s[k] /\ k \in 1..Len(Append(s, x))
           /\ \A k \in 1..Len(Append(s, x)) : k = Len(s) + 1 \/ k \in 1..Len(s)
           /\ Len(s) + 1 \in 1..Len(Append(s, x))
           /\ \A j, k \in 1..Len(Append(s, x)) : j < k => j \in 1..Len(s)
OBVIOUS

LEMMA PendingDup ==
    ASSUME NEW q, NEW lazy, NEW n, NEW m, Pending(q, lazy, n, m),
           NEW ref \in 1..(m - 1), trace[ref] = trace[m]
    PROVE  Pending(q, Append(lazy, <<m, ref>>), n, m + 1)
<1> DEFINE l == Append(lazy, <<m, ref>>)
<1>1. /\ q \in Seq(Nat) /\ lazy \in Seq(Nat \X Nat) /\ Len(lazy) \in Nat
      /\ n \in Nat /\ m \in Nat /\ n < m
  BY PendingTypes
<1>2. ref \in Nat /\ <<m, ref>> \in Nat \X Nat
  BY <1>1
<1>3. /\ l \in Seq(Nat \X Nat)
      /\ l[Len(lazy) + 1] = <<m, ref>>
      /\ \A k \in 1..Len(lazy) : l[k] = lazy[k] /\ k \in 1..Len(l)
      /\ \A k \in 1..Len(l) : k = Len(lazy) + 1 \/ k \in 1..Len(lazy)
      /\ Len(lazy) + 1 \in 1..Len(l)
      /\ \A j, k \in 1..Len(l) : j < k => j \in 1..Len(lazy)
  BY <1>1, <1>2, AppendFacts
<1>4. l[Len(lazy) + 1][1] = m /\ l[Len(lazy) + 1][2] = ref
  BY <1>3
<1> HIDE DEF l
<1>5. Between(q, n, m + 1)
  <2>1. Between(q, n, m)
    BY DEF Pending
  <2>2. \A u \in Nat : u < m => u < m + 1
    BY <1>1
  <2> QED  BY <2>1, <2>2 DEF Between
<1>6. Duplicates(lazy, n, m) /\ Apart(q, lazy) /\ Covered(q, lazy, n, m) /\ Between(q, n, m)
  BY DEF Pending
<1>7. Duplicates(l, n, m + 1)
  <2>1. \A u \in Nat : u < m => u < m + 1
    BY <1>1
  <2>2. \A k \in 1..Len(l) :
          /\ l[k][1] \in Nat /\ n < l[k][1] /\ l[k][1] < m + 1
          /\ l[k][2] \in 1..(l[k][1] - 1)
          /\ trace[l[k][2]] = trace[l[k][1]]
    <3> SUFFICES ASSUME NEW k \in 1..Len(l)
                 PROVE  /\ l[k][1] \in Nat /\ n < l[k][1] /\ l[k][1] < m + 1
                        /\ l[k][2] \in 1..(l[k][1] - 1)
                        /\ trace[l[k][2]] = trace[l[k][1]]
      OBVIOUS
    <3>1. CASE k \in 1..Len(lazy)
      <4>1. l[k] = lazy[k]
        BY <1>3, <3>1
      <4> QED  BY <1>6, <2>1, <3>1, <4>1 DEF Duplicates
    <3>2. CASE k = Len(lazy) + 1
      <4>1. m < m + 1
        BY <1>1
      <4> QED  BY <1>1, <1>4, <3>2, <4>1
    <3> QED  BY <1>3, <3>1, <3>2
  <2>3. \A j, k \in 1..Len(l) : j < k => l[j][1] < l[k][1]
    <3> SUFFICES ASSUME NEW j \in 1..Len(l), NEW k \in 1..Len(l), j < k PROVE l[j][1] < l[k][1]
      OBVIOUS
    <3>1. j \in 1..Len(lazy) /\ l[j] = lazy[j]
      BY <1>3
    <3>2. CASE k \in 1..Len(lazy)
      <4>1. l[k] = lazy[k]
        BY <1>3, <3>2
      <4> QED  BY <1>6, <3>1, <3>2, <4>1 DEF Duplicates
    <3>3. CASE k = Len(lazy) + 1
      BY <1>4, <1>6, <3>1, <3>3 DEF Duplicates
    <3> QED  BY <1>3, <3>2, <3>3
  <2> QED  BY <2>2, <2>3 DEF Duplicates
<1>8. Apart(q, l)
  <2> SUFFICES ASSUME NEW j \in 1..Len(q), NEW k \in 1..Len(l) PROVE q[j] # l[k][1]
    BY DEF Apart
  <2>1. CASE k \in 1..Len(lazy)
    BY <1>3, <1>6, <2>1 DEF Apart
  <2>2. CASE k = Len(lazy) + 1
    <3>1. q[j] < m /\ q[j] \in Nat
      BY <1>6 DEF Between
    <3>2. q[j] # m
      BY <1>1, <3>1
    <3> QED  BY <1>4, <2>2, <3>2
  <2> QED  BY <1>3, <2>1, <2>2
<1>9. Covered(q, l, n, m + 1)
  <2>0. (m + 1) - 1 = m
    BY <1>1
  <2> SUFFICES ASSUME NEW b \in (n + 1)..m
               PROVE  \/ \E j \in 1..Len(q) : q[j] = b
                      \/ \E j \in 1..Len(l) : l[j][1] = b
    BY <2>0 DEF Covered
  <2>1. CASE b = m
    BY <1>3, <1>4, <2>1
  <2>2. CASE b # m
    <3>1. b \in (n + 1)..(m - 1)
      BY <1>1, <2>2
    <3>2. (\E j \in 1..Len(q) : q[j] = b) \/ \E j \in 1..Len(lazy) : lazy[j][1] = b
      BY <1>6, <3>1 DEF Covered
    <3> QED  BY <1>3, <3>2
  <2> QED  BY <2>1, <2>2
<1>10. m + 1 \in Nat /\ n < m + 1
  BY <1>1
<1>11. Pending(q, l, n, m + 1)
  BY <1>1, <1>3, <1>5, <1>7, <1>8, <1>9, <1>10 DEF Pending
<1> QED  BY <1>11 DEF l

LEMMA PendingNew ==
    ASSUME NEW q, NEW lazy, NEW n, NEW m, Pending(q, lazy, n, m)
    PROVE  Pending(Append(q, m), lazy, n, m + 1)
<1> DEFINE l == Append(q, m)
<1>1. /\ q \in Seq(Nat) /\ lazy \in Seq(Nat \X Nat) /\ Len(lazy) \in Nat
      /\ n \in Nat /\ m \in Nat /\ n < m
  BY PendingTypes
<1>2. /\ l \in Seq(Nat)
      /\ l[Len(q) + 1] = m
      /\ \A k \in 1..Len(q) : l[k] = q[k] /\ k \in 1..Len(l)
      /\ \A k \in 1..Len(l) : k = Len(q) + 1 \/ k \in 1..Len(q)
      /\ Len(q) + 1 \in 1..Len(l)
      /\ \A j, k \in 1..Len(l) : j < k => j \in 1..Len(q)
  BY <1>1, AppendFacts
<1> HIDE DEF l
<1>3. \A u \in Nat : u < m => u < m + 1 /\ u # m
  BY <1>1
<1>4. Duplicates(lazy, n, m) /\ Apart(q, lazy) /\ Covered(q, lazy, n, m) /\ Between(q, n, m)
  BY DEF Pending
<1>5. Duplicates(lazy, n, m + 1)
  BY <1>3, <1>4 DEF Duplicates
<1>6. Between(l, n, m + 1)
  <2>1. \A k \in 1..Len(l) : l[k] \in Nat /\ n < l[k] /\ l[k] < m + 1
    <3> SUFFICES ASSUME NEW k \in 1..Len(l) PROVE l[k] \in Nat /\ n < l[k] /\ l[k] < m + 1
      OBVIOUS
    <3>1. CASE k \in 1..Len(q)
      BY <1>2, <1>3, <1>4, <3>1 DEF Between
    <3>2. CASE k = Len(q) + 1
      <4>1. m < m + 1
        BY <1>1
      <4> QED  BY <1>1, <1>2, <3>2, <4>1
    <3> QED  BY <1>2, <3>1, <3>2
  <2>2. \A j, k \in 1..Len(l) : j < k => l[j] < l[k]
    <3> SUFFICES ASSUME NEW j \in 1..Len(l), NEW k \in 1..Len(l), j < k PROVE l[j] < l[k]
      OBVIOUS
    <3>1. j \in 1..Len(q) /\ l[j] = q[j]
      BY <1>2
    <3>2. CASE k \in 1..Len(q)
      BY <1>2, <1>4, <3>1, <3>2 DEF Between
    <3>3. CASE k = Len(q) + 1
      BY <1>2, <1>4, <3>1, <3>3 DEF Between
    <3> QED  BY <1>2, <3>2, <3>3
  <2> QED  BY <2>1, <2>2 DEF Between
<1>7. Apart(l, lazy)
  <2> SUFFICES ASSUME NEW j \in 1..Len(l), NEW k \in 1..Len(lazy) PROVE l[j] # lazy[k][1]
    BY DEF Apart
  <2>1. CASE j \in 1..Len(q)
    BY <1>2, <1>4, <2>1 DEF Apart
  <2>2. CASE j = Len(q) + 1
    <3>1. lazy[k][1] \in Nat /\ lazy[k][1] < m
      BY <1>4 DEF Duplicates
    <3> QED  BY <1>2, <1>3, <2>2, <3>1
  <2> QED  BY <1>2, <2>1, <2>2
<1>8. Covered(l, lazy, n, m + 1)
  <2>0. (m + 1) - 1 = m
    BY <1>1
  <2> SUFFICES ASSUME NEW b \in (n + 1)..m
               PROVE  \/ \E j \in 1..Len(l) : l[j] = b
                      \/ \E j \in 1..Len(lazy) : lazy[j][1] = b
    BY <2>0 DEF Covered
  <2>1. CASE b = m
    BY <1>2, <2>1
  <2>2. CASE b # m
    <3>1. b \in (n + 1)..(m - 1)
      BY <1>1, <2>2
    <3>2. (\E j \in 1..Len(q) : q[j] = b) \/ \E j \in 1..Len(lazy) : lazy[j][1] = b
      BY <1>4, <3>1 DEF Covered
    <3> QED  BY <1>2, <3>2
  <2> QED  BY <2>1, <2>2
<1>9. m + 1 \in Nat /\ n < m + 1
  BY <1>1
<1>10. Pending(l, lazy, n, m + 1)
  BY <1>1, <1>2, <1>5, <1>6, <1>7, <1>8, <1>9 DEF Pending
<1> QED  BY <1>10 DEF l

\* With nothing waiting the recipes are up to date.
LEMMA PendingNone ==
    ASSUME NEW n, NEW m, Pending(<<>>, <<>>, n, m)
    PROVE  n \in Nat /\ m = n + 1 /\ Pending(<<>>, <<>>, n + 1, m + 1)
<1>1. m \in Nat /\ n \in Nat /\ n < m
  BY PendingTypes
<1>2. 1..Len(<<>>) = {}
  OBVIOUS
<1>3. \A b \in (n + 1)..(m - 1) : FALSE
  BY <1>2 DEF Pending, Covered
<1>4. m = n + 1
  <2>1. n + 1 \notin (n + 1)..(m - 1)
    BY <1>3
  <2> QED  BY <1>1, <2>1
<1>5. /\ ((n + 1) + 1)..((m + 1) - 1) = {}
      /\ n + 1 \in Nat /\ m + 1 \in Nat /\ n + 1 < m + 1
  BY <1>1, <1>4
<1>6. <<>> \in Seq(Nat) /\ <<>> \in Seq(Nat \X Nat)
  OBVIOUS
<1>7. Between(<<>>, n + 1, m + 1) /\ Duplicates(<<>>, n + 1, m + 1) /\ Apart(<<>>, <<>>)
  BY <1>2 DEF Between, Duplicates, Apart
<1>8. Covered(<<>>, <<>>, n + 1, m + 1)
  <2>1. \A b \in ((n + 1) + 1)..((m + 1) - 1) : FALSE
    BY <1>5
  <2> QED  BY <2>1 DEF Covered
<1> QED  BY <1>1, <1>4, <1>5, <1>6, <1>7, <1>8 DEF Pending

\* The duplicates before the first block of q are at the front of lazy, one
\* for each block.
LEMMA PendingFront ==
    ASSUME NEW q, NEW lazy, NEW n, NEW m, Pending(q, lazy, n, m), q # <<>>,
           NEW j \in 1..(q[1] - 1 - n)
    PROVE  j \in 1..Len(lazy) /\ lazy[j][1] = n + j
<1> DEFINE b == q[1]
           T == {k \in 1..(b - 1 - n) : ~(k \in 1..Len(lazy) /\ lazy[k][1] = n + k)}
<1>1. q \in Seq(Nat) /\ Len(q) \in Nat /\ Len(lazy) \in Nat /\ n \in Nat /\ m \in Nat /\ n < m
  BY PendingTypes
<1>2. Duplicates(lazy, n, m) /\ Covered(q, lazy, n, m) /\ Between(q, n, m)
  BY DEF Pending
<1>3. 1 \in 1..Len(q)
  BY <1>1
<1>4. b \in Nat /\ n < b /\ b < m
  BY <1>2, <1>3 DEF Between
<1> HIDE DEF b
<1>5. SUFFICES ASSUME T # {} PROVE FALSE
  BY DEF b
<1>6. PICK x \in T : \A y \in T : x <= y
  <2>1. T \subseteq Nat
    BY <1>1, <1>4
  <2> HIDE DEF T
  <2> QED  BY <1>5, <2>1, LeastNumber
<1>7. x \in 1..(b - 1 - n) /\ ~(x \in 1..Len(lazy) /\ lazy[x][1] = n + x)
  OBVIOUS
<1>8. x \in Nat /\ x > 0 /\ n + x \in (n + 1)..(m - 1) /\ n + x < b /\ n + x \in Nat
  BY <1>1, <1>4, <1>7
<1>9. \A y \in 1..(x - 1) : y \in 1..Len(lazy) /\ lazy[y][1] = n + y
  <2>1. \A y \in 1..(x - 1) : y \in 1..(b - 1 - n) /\ ~(x <= y)
    BY <1>1, <1>4, <1>7, <1>8
  <2> QED  BY <1>6, <2>1
<1>10. \A k \in 1..Len(q) : q[k] # n + x
  <2> SUFFICES ASSUME NEW k \in 1..Len(q) PROVE q[k] # n + x
    OBVIOUS
  <2>1. CASE k = 1
    BY <1>4, <1>8, <2>1 DEF b
  <2>2. CASE k # 1
    <3>1. 1 < k
      BY <1>1, <2>2
    <3>2. b < q[k] /\ q[k] \in Nat
      BY <1>2, <1>3, <3>1 DEF Between, b
    <3> QED  BY <1>4, <1>8, <3>2
  <2> QED  BY <2>1, <2>2
<1>11. PICK y \in 1..Len(lazy) : lazy[y][1] = n + x
  BY <1>2, <1>8, <1>10 DEF Covered
<1>12. CASE y < x
  <2>1. y \in 1..(x - 1)
    BY <1>8, <1>12
  <2>2. n + y = n + x
    BY <1>9, <1>11, <2>1
  <2> QED  BY <1>1, <1>8, <1>12, <2>2
<1>13. CASE y = x
  BY <1>7, <1>11, <1>13
<1>14. CASE y > x
  <2>1. x \in 1..Len(lazy) /\ x < y
    BY <1>1, <1>8, <1>14
  <2>2. lazy[x][1] < n + x /\ n < lazy[x][1] /\ lazy[x][1] \in Nat
    BY <1>2, <1>11, <2>1 DEF Duplicates
  <2>3. \A u \in Nat : u < n + x /\ n < u => u - n \in 1..(x - 1) /\ u = n + (u - n)
    BY <1>1, <1>8
  <2>4. PICK z \in 1..(x - 1) : lazy[x][1] = n + z
    BY <2>2, <2>3
  <2>5. z \in 1..Len(lazy) /\ lazy[z][1] = n + z /\ z < x
    BY <1>8, <1>9, <2>4
  <2>6. lazy[z][1] < lazy[x][1]
    BY <1>2, <2>1, <2>5 DEF Duplicates
  <2> QED  BY <2>2, <2>4, <2>5, <2>6
<1> QED  BY <1>8, <1>12, <1>13, <1>14

LEMMA TailFacts ==
    ASSUME NEW S, NEW s \in Seq(S), s # <<>>
    PROVE  /\ Tail(s) \in Seq(S)
           /\ Len(s) \in Nat /\ Len(Tail(s)) = Len(s) - 1 /\ 1 \in 1..Len(s)
           /\ \A k \in 1..Len(Tail(s)) : Tail(s)[k] = s[k + 1] /\ k + 1 \in 1..Len(s)
           /\ \A k \in 1..Len(s) : k # 1 => k - 1 \in 1..Len(Tail(s)) /\ (k - 1) + 1 = k
OBVIOUS

LEMMA DropFacts ==
    ASSUME NEW S, NEW s \in Seq(S), NEW d \in 0..Len(s), NEW l, l = SubSeq(s, d + 1, Len(s))
    PROVE  /\ l \in Seq(S)
           /\ \A k \in 1..Len(l) : l[k] = s[k + d] /\ k + d \in (d + 1)..Len(s) /\ k + d \in 1..Len(s)
           /\ \A k \in 1..Len(s) : k \notin 1..d => k - d \in 1..Len(l) /\ (k - d) + d = k
<1>1. Len(s) \in Nat /\ d \in Nat /\ d <= Len(s)
  OBVIOUS
<1>2. \A k \in (d + 1)..Len(s) : s[k] \in S
  BY <1>1
<1>3. /\ l \in Seq(S)
      /\ Len(l) = IF d + 1 <= Len(s) THEN Len(s) - (d + 1) + 1 ELSE 0
      /\ \A k \in 1..(Len(s) - (d + 1) + 1) : l[k] = s[(d + 1) + k - 1]
  BY <1>1, <1>2, SubSeqProperties
<1>4. Len(l) = Len(s) - d
  BY <1>1, <1>3
<1>5. \A k \in 1..Len(l) : /\ k \in 1..(Len(s) - (d + 1) + 1)
                           /\ (d + 1) + k - 1 = k + d
                           /\ k + d \in (d + 1)..Len(s) /\ k + d \in 1..Len(s)
  BY <1>1, <1>4
<1>6. \A k \in 1..Len(l) : l[k] = s[k + d]
  BY <1>3, <1>5
<1>7. \A k \in 1..Len(s) : k \notin 1..d => k - d \in 1..Len(l) /\ (k - d) + d = k
  BY <1>1, <1>4
<1> QED  BY <1>3, <1>5, <1>6, <1>7

\* How many duplicates come before the first block of q.
AheadOf(q, n) == q[1] - 1 - n

\* The first block of q is stored: its recipe and those of the duplicates
\* before it are inserted.
LEMMA PendingStored ==
    ASSUME NEW q, NEW lazy, NEW n, NEW m, Pending(q, lazy, n, m), q # <<>>
    PROVE  /\ q[1] \in Nat /\ n < q[1] /\ q[1] < m /\ AheadOf(q, n) \in 0..Len(lazy)
           /\ \A k \in 1..AheadOf(q, n) : lazy[k][1] = n + k
           /\ \A k \in (AheadOf(q, n) + 1)..Len(lazy) : lazy[k][1] > q[1]
           /\ Pending(Tail(q), SubSeq(lazy, AheadOf(q, n) + 1, Len(lazy)), q[1], m)
<1> DEFINE b == q[1]
           d == AheadOf(q, n)
           t == Tail(q)
           l == SubSeq(lazy, d + 1, Len(lazy))
<1>1. /\ q \in Seq(Nat) /\ lazy \in Seq(Nat \X Nat)
      /\ Len(lazy) \in Nat /\ n \in Nat /\ m \in Nat /\ n < m
  BY PendingTypes
<1>2. Duplicates(lazy, n, m) /\ Apart(q, lazy) /\ Covered(q, lazy, n, m) /\ Between(q, n, m)
  BY DEF Pending
<1>3. /\ t \in Seq(Nat) /\ 1 \in 1..Len(q)
      /\ \A k \in 1..Len(t) : t[k] = q[k + 1] /\ k + 1 \in 1..Len(q)
      /\ \A k \in 1..Len(q) : k # 1 => k - 1 \in 1..Len(t) /\ (k - 1) + 1 = k
  BY <1>1, TailFacts
<1>4. b \in Nat /\ n < b /\ b < m
  BY <1>2, <1>3 DEF Between
<1>5. \A k \in 1..d : k \in 1..Len(lazy) /\ lazy[k][1] = n + k
  BY PendingFront DEF AheadOf
<1>20. d = b - 1 - n
  BY DEF AheadOf
<1> HIDE DEF b, d, t, l
<1>6. d \in 0..Len(lazy)
  <2>1. d \in Nat
    BY <1>1, <1>4, <1>20
  <2>2. CASE d = 0
    BY <1>1, <2>2
  <2>3. CASE d # 0
    <3>1. d \in 1..d
      BY <2>1, <2>3
    <3> QED  BY <1>1, <1>5, <3>1
  <2> QED  BY <2>2, <2>3
<1>7. \A k \in 1..Len(lazy) : lazy[k][1] \in Nat /\ n < lazy[k][1] /\ lazy[k][1] < m /\ lazy[k][1] # b
  BY <1>2, <1>3 DEF Duplicates, Apart, b
<1>8. \A k \in (d + 1)..Len(lazy) : lazy[k][1] > b
  <2> SUFFICES ASSUME NEW k \in (d + 1)..Len(lazy) PROVE lazy[k][1] > b
    OBVIOUS
  <2>1. k \in 1..Len(lazy) /\ d < k
    BY <1>1, <1>6
  <2>2. lazy[k][1] \in Nat /\ n < lazy[k][1] /\ lazy[k][1] # b
    BY <1>7, <2>1
  <2>3. CASE d = 0
    <3>1. b = n + 1
      BY <1>1, <1>4, <1>20, <2>3
    <3>2. \A u \in Nat : n < u /\ u # n + 1 => u > n + 1
      BY <1>1
    <3> QED  BY <2>2, <3>1, <3>2
  <2>4. CASE d # 0
    <3>1. d \in 1..Len(lazy) /\ d \in 1..d
      BY <1>6, <2>4
    <3>2. lazy[d][1] = n + d /\ lazy[d][1] < lazy[k][1]
      BY <1>2, <1>5, <2>1, <3>1 DEF Duplicates
    <3>3. n + d = b - 1
      BY <1>1, <1>4, <1>20
    <3>4. \A u \in Nat : b - 1 < u /\ u # b => u > b
      BY <1>4
    <3> QED  BY <2>2, <3>2, <3>3, <3>4
  <2> QED  BY <2>3, <2>4
<1>9. /\ l \in Seq(Nat \X Nat)
      /\ \A k \in 1..Len(l) : l[k] = lazy[k + d] /\ k + d \in (d + 1)..Len(lazy) /\ k + d \in 1..Len(lazy)
      /\ \A k \in 1..Len(lazy) : k \notin 1..d => k - d \in 1..Len(l) /\ (k - d) + d = k
  <2> DEFINE P == Nat \X Nat
  <2>1. l = SubSeq(lazy, d + 1, Len(lazy)) /\ lazy \in Seq(P)
    BY <1>1 DEF l
  <2> HIDE DEF P
  <2>2. /\ l \in Seq(P)
        /\ \A k \in 1..Len(l) : l[k] = lazy[k + d] /\ k + d \in (d + 1)..Len(lazy) /\ k + d \in 1..Len(lazy)
        /\ \A k \in 1..Len(lazy) : k \notin 1..d => k - d \in 1..Len(l) /\ (k - d) + d = k
    BY <1>6, <2>1, DropFacts
  <2> QED  BY <2>2 DEF P
<1>10. \A k \in 1..Len(t) : q[k + 1] \in Nat /\ b < q[k + 1] /\ q[k + 1] < m
  <2> SUFFICES ASSUME NEW k \in 1..Len(t) PROVE q[k + 1] \in Nat /\ b < q[k + 1] /\ q[k + 1] < m
    OBVIOUS
  <2>1. 1 < k + 1 /\ k + 1 \in 1..Len(q)
    BY <1>3
  <2> QED  BY <1>2, <1>3, <2>1 DEF Between, b
<1>11. Between(t, b, m)
  <2>1. \A j, k \in 1..Len(t) : j < k => t[j] < t[k]
    <3> SUFFICES ASSUME NEW j \in 1..Len(t), NEW k \in 1..Len(t), j < k PROVE t[j] < t[k]
      OBVIOUS
    <3>1. j + 1 < k + 1 /\ j + 1 \in 1..Len(q) /\ k + 1 \in 1..Len(q)
      BY <1>3
    <3>2. q[j + 1] < q[k + 1]
      BY <1>2, <3>1 DEF Between
    <3> QED  BY <1>3, <3>2
  <2>2. \A k \in 1..Len(t) : t[k] \in Nat /\ b < t[k] /\ t[k] < m
    BY <1>3, <1>10
  <2> QED  BY <2>1, <2>2 DEF Between
<1>12. Duplicates(l, b, m)
  <2>1. \A j, k \in 1..Len(l) : j < k => l[j][1] < l[k][1]
    <3> SUFFICES ASSUME NEW j \in 1..Len(l), NEW k \in 1..Len(l), j < k PROVE l[j][1] < l[k][1]
      OBVIOUS
    <3>1. j + d < k + d /\ j + d \in 1..Len(lazy) /\ k + d \in 1..Len(lazy)
      BY <1>6, <1>9
    <3>2. lazy[j + d][1] < lazy[k + d][1]
      BY <1>2, <3>1 DEF Duplicates
    <3> QED  BY <1>9, <3>2
  <2>2. ASSUME NEW k \in 1..Len(l)
        PROVE  /\ l[k][1] \in Nat /\ b < l[k][1] /\ l[k][1] < m
               /\ l[k][2] \in 1..(l[k][1] - 1)
               /\ trace[l[k][2]] = trace[l[k][1]]
    <3>1. k + d \in 1..Len(lazy) /\ l[k] = lazy[k + d] /\ lazy[k + d][1] > b
      BY <1>8, <1>9
    <3>2. /\ lazy[k + d][1] \in Nat /\ lazy[k + d][1] < m
          /\ lazy[k + d][2] \in 1..(lazy[k + d][1] - 1)
          /\ trace[lazy[k + d][2]] = trace[lazy[k + d][1]]
      BY <1>2, <3>1 DEF Duplicates
    <3>3. \A u \in Nat : u > b => b < u
      BY <1>4
    <3> QED  BY <3>1, <3>2, <3>3
  <2> QED  BY <2>1, <2>2 DEF Duplicates
<1>13. Apart(t, l)
  <2> SUFFICES ASSUME NEW j \in 1..Len(t), NEW k \in 1..Len(l) PROVE t[j] # l[k][1]
    BY DEF Apart
  <2>1. t[j] = q[j + 1] /\ j + 1 \in 1..Len(q) /\ l[k] = lazy[k + d] /\ k + d \in 1..Len(lazy)
    BY <1>3, <1>9
  <2> QED  BY <1>2, <2>1 DEF Apart
<1>14. Covered(t, l, b, m)
  <2> SUFFICES ASSUME NEW a \in (b + 1)..(m - 1)
               PROVE  \/ \E j \in 1..Len(t) : t[j] = a
                      \/ \E j \in 1..Len(l) : l[j][1] = a
    BY DEF Covered
  <2>1. a \in (n + 1)..(m - 1) /\ a # b /\ a > b /\ a \in Nat
    BY <1>1, <1>4
  <2>2. CASE \E j \in 1..Len(q) : q[j] = a
    <3>1. PICK j \in 1..Len(q) : q[j] = a
      BY <2>2
    <3>2. j # 1
      BY <2>1, <3>1 DEF b
    <3> QED  BY <1>3, <3>1, <3>2
  <2>3. CASE \E j \in 1..Len(lazy) : lazy[j][1] = a
    <3>1. PICK j \in 1..Len(lazy) : lazy[j][1] = a
      BY <2>3
    <3>2. ~(j \in 1..d)
      <4> SUFFICES ASSUME j \in 1..d PROVE FALSE
        OBVIOUS
      <4>1. a = n + j
        BY <1>5, <3>1
      <4>2. j <= b - 1 - n
        BY <1>1, <1>4, <1>20
      <4> QED  BY <1>1, <1>4, <2>1, <4>1, <4>2
    <3>3. j - d \in 1..Len(l) /\ (j - d) + d = j
      BY <1>9, <3>1, <3>2
    <3>4. l[j - d] = lazy[(j - d) + d]
      BY <1>9, <3>3
    <3>5. l[j - d][1] = a
      BY <3>1, <3>3, <3>4
    <3> QED  BY <3>3, <3>5
  <2> QED  BY <1>2, <2>1, <2>2, <2>3 DEF Covered
<1>15. Pending(t, l, b, m)
  BY <1>1, <1>3, <1>4, <1>9, <1>11, <1>12, <1>13, <1>14 DEF Pending
<1> QED  BY <1>4, <1>5, <1>6, <1>8, <1>15 DEF b, d, t, l

-----------------------------------------------------------------------------
(***************************************************************************)
(* The tables of labels and what a request finds in them.                  *)
(***************************************************************************)
LEMMA TableLatest ==
    ASSUME NEW f, NEW key, NEW n \in Nat, Table(f, key, n), NEW v \in DOMAIN f
    PROVE  f[v][Len(f[v])] \in 1..n
<1>1. f[v] \in Seq(1..n) /\ f[v] # <<>>
  BY DEF Table
<1> QED  BY <1>1

LEMMA TableGrows ==
    ASSUME NEW f, NEW key, NEW n \in Nat, NEW m \in Nat, n <= m, Table(f, key, n)
    PROVE  Table(f, key, m)
<1> SUFFICES ASSUME NEW v \in DOMAIN f
             PROVE  /\ f[v] \in Seq(1..m) /\ f[v] # <<>>
                    /\ \A k \in 1..Len(f[v]) : key[trace[f[v][k]]] = v
  BY DEF Table
<1>1. f[v] \in Seq(1..n) /\ f[v] # <<>> /\ \A k \in 1..Len(f[v]) : key[trace[f[v][k]]] = v
  BY DEF Table
<1>2. \A k \in 1..n : k \in 1..m
  OBVIOUS
<1>3. f[v] \in Seq(1..m)
  BY <1>1, <1>2
<1> QED  BY <1>1, <1>3

LEMMA TablePushed ==
    ASSUME NEW f, NEW key, NEW n \in Nat, Table(f, key, n), NEW b \in Nat, n < b,
           NEW x, key[trace[b]] = x
    PROVE  Table(Pushed(f, x, b), key, b) /\ DOMAIN Pushed(f, x, b) = DOMAIN f \cup {x}
<1> DEFINE g == Pushed(f, x, b)
           s == IF x \in DOMAIN f THEN f[x] ELSE <<>>
           a == s \o <<b>>
<1>1. DOMAIN g = DOMAIN f \cup {x} /\ g[x] = a /\ \A v \in DOMAIN f : v # x => g[v] = f[v]
  BY DEF Pushed, With
<1>2. Table(f, key, b)
  BY TableGrows
<1>3. s \in Seq(1..b) /\ \A k \in 1..Len(s) : key[trace[s[k]]] = x
  <2>1. CASE x \in DOMAIN f
    <3>1. s = f[x]
      BY <2>1
    <3> HIDE DEF s
    <3>2. f[x] \in Seq(1..b) /\ \A k \in 1..Len(f[x]) : key[trace[f[x][k]]] = x
      BY <1>2, <2>1 DEF Table
    <3> QED  BY <3>1, <3>2
  <2>2. CASE x \notin DOMAIN f
    <3>1. s = <<>>
      BY <2>2
    <3> HIDE DEF s
    <3> QED  BY <3>1
  <2> QED  BY <2>1, <2>2
<1>4. b \in 1..b
  OBVIOUS
<1> HIDE DEF s, g
<1>5. a \in Seq(1..b) /\ a # <<>> /\ Len(a) = Len(s) + 1 /\ a[Len(s) + 1] = b
      /\ \A k \in 1..Len(s) : a[k] = s[k]
  <2> DEFINE S == 1..b
  <2>1. s \in Seq(S) /\ <<b>> \in Seq(S) /\ Len(<<b>>) = 1 /\ <<b>>[1] = b
    BY <1>3, <1>4
  <2> HIDE DEF S
  <2>2. a \in Seq(S) /\ Len(a) = Len(s) + 1 /\ Len(s) \in Nat
    BY <2>1
  <2>3. \A k \in 1..Len(s) : a[k] = s[k]
    BY <2>1
  <2>4. a[Len(s) + 1] = b
    BY <2>1
  <2> QED  BY <2>2, <2>3, <2>4 DEF S
<1>6. \A k \in 1..Len(a) : k \in 1..Len(s) \/ k = Len(s) + 1
  BY <1>3, <1>5
<1> HIDE DEF a
<1>7. \A k \in 1..Len(a) : key[trace[a[k]]] = x
  BY <1>3, <1>5, <1>6
<1>8. Table(g, key, b)
  BY <1>1, <1>2, <1>5, <1>7 DEF Table
<1> QED  BY <1>1, <1>8 DEF g

\* A reference is the label of a stored block.
IsRef(ref, n) == ref = NoRef \/ ref \in 1..n

\* The tables are tried in turn from any one on: the first with a label is
\* found.
LEMMA Rotation ==
    ASSUME NEW n \in Nat \ {0}, NEW r \in 0..(n - 1), NEW y \in 1..n
    PROVE  \E k \in 0..(n - 1) : ((r + k) % n) + 1 = y
<1>1. \A a \in 0..(n - 1) : a % n = a /\ (a + n) % n = a
  OBVIOUS
<1>2. CASE r <= y - 1
  <2>1. (y - 1) - r \in 0..(n - 1) /\ r + ((y - 1) - r) = y - 1 /\ y - 1 \in 0..(n - 1)
    BY <1>2
  <2>2. ((r + ((y - 1) - r)) % n) + 1 = y
    BY <1>1, <2>1
  <2> QED  BY <2>1, <2>2
<1>3. CASE r > y - 1
  <2>1. (y - 1) - r + n \in 0..(n - 1) /\ r + ((y - 1) - r + n) = (y - 1) + n /\ y - 1 \in 0..(n - 1)
    BY <1>3
  <2>2. ((r + ((y - 1) - r + n)) % n) + 1 = y
    BY <1>1, <2>1
  <2> QED  BY <2>1, <2>2
<1> QED  BY <1>2, <1>3

LEMMA RequestsFacts ==
    ASSUME TablesOK, Len(recipe) \in Nat, NEW ref \in Requests
    PROVE  IsRef(ref, Len(recipe))
<1> DEFINE sf == SuperFeature[trace[i]]
           c == Cardinality(SF)
           hits == {k \in SF : sf[k] \in DOMAIN sfTable[k]}
           at(r, k) == ((r + k) % c) + 1
           hit(r, k) == at(r, k) \in hits /\ \A l \in 0..(k - 1) : at(r, l) \notin hits
           first(r) == at(r, CHOOSE k \in 0..(c - 1) : hit(r, k))
           label(k) == sfTable[k][sf[k]][Len(sfTable[k][sf[k]])]
<1>1. Requests = IF hits = {} THEN {NoRef} ELSE {label(first(r)) : r \in 0..(c - 1)}
  BY DEF Requests
<1>2. c \in Nat \ {0} /\ SF = 1..c
  <2>1. c \in Nat /\ SF = 1..c
    BY SketchAssumption, FS_CardinalityType
  <2> QED  BY <2>1, SketchAssumption
<1>3. CASE hits = {}
  BY <1>1, <1>3 DEF IsRef
<1>4. CASE hits # {}
  <2>1. PICK r \in 0..(c - 1) : ref = label(first(r))
    BY <1>1, <1>4
  <2>2. PICK y \in hits : TRUE
    BY <1>4
  <2>3. y \in 1..c
    BY <1>2
  <2> DEFINE T == {k \in 0..(c - 1) : at(r, k) \in hits}
  <2>4. T # {}
    <3> HIDE DEF c, hits
    <3>1. c \in Nat \ {0} /\ r \in 0..(c - 1) /\ y \in 1..c
      BY <1>2, <2>3
    <3>2. PICK k \in 0..(c - 1) : ((r + k) % c) + 1 = y
      BY <3>1, Rotation
    <3>3. k \in T
      BY <2>2, <3>2
    <3> QED  BY <3>3
  <2>5. T \subseteq Nat
    BY <1>2
  <2>6. PICK k \in T : \A l \in T : k <= l
    <3> HIDE DEF T
    <3> QED  BY <2>4, <2>5, LeastNumber
  <2>7. k \in 0..(c - 1) /\ at(r, k) \in hits
    OBVIOUS
  <2>8. \A l \in 0..(k - 1) : at(r, l) \notin hits
    <3>1. \A l \in 0..(k - 1) : l \in 0..(c - 1) /\ ~(k <= l)
      BY <1>2, <2>7
    <3>2. \A l \in 0..(k - 1) : l \notin T
      BY <2>6, <3>1
    <3> HIDE DEF at, hits
    <3> QED  BY <3>1, <3>2
  <2>9. hit(r, k)
    BY <2>7, <2>8
  <2> HIDE DEF hit
  <2>10. hit(r, CHOOSE l \in 0..(c - 1) : hit(r, l))
    BY <2>7, <2>9
  <2>11. first(r) \in hits
    BY <2>10 DEF hit
  <2>12. first(r) \in SF /\ sf[first(r)] \in DOMAIN sfTable[first(r)]
    BY <2>11
  <2> HIDE DEF first, hits
  <2>13. Table(sfTable[first(r)], SFKey(first(r)), Len(recipe))
    BY <2>12 DEF TablesOK
  <2>14. label(first(r)) \in 1..Len(recipe)
    BY <2>12, <2>13, TableLatest
  <2> QED  BY <2>1, <2>14 DEF IsRef
<1> QED  BY <1>3, <1>4

LEMMA SketchList ==
    ASSUME TablesOK
    PROVE  /\ linear \in Seq(SketchSet) /\ Len(linear) \in Nat
           /\ \A x : x \in ToSet(linear) <=> \E k \in 1..Len(linear) : linear[k] = x
           /\ \A g \in ToSet(linear) \cup indexed : g \in DOMAIN hashtable
<1>1. linear \in Seq(SketchSet) /\ DOMAIN hashtable = ToSet(linear) \cup indexed
  BY DEF TablesOK
<1>2. \A x : x \in ToSet(linear) <=> \E k \in 1..Len(linear) : linear[k] = x
  BY <1>1 DEF ToSet
<1> QED  BY <1>1, <1>2

LEMMA LatestFacts ==
    ASSUME TablesOK, Len(recipe) \in Nat, NEW g \in DOMAIN hashtable
    PROVE  Latest(g) \in 1..Len(recipe)
BY TableLatest DEF TablesOK, Latest

LEMMA AnnFacts ==
    ASSUME TablesOK, Len(recipe) \in Nat, NEW h, NEW ref \in AnnRequests(h)
    PROVE  IsRef(ref, Len(recipe))
<1> DEFINE near(S) == {g \in S : \A f \in S : Dist[h][g] <= Dist[h][f]}
           inList == near(ToSet(linear))
           last(k) == linear[k] \in inList /\ \A l \in DOMAIN linear : l > k => linear[l] \notin inList
           listed == IF linear = <<>> THEN NoRef
                     ELSE Latest(linear[CHOOSE k \in DOMAIN linear : last(k)])
           best(found) == near(found \cup inList)
           here(found) == {Latest(g) : g \in best(found) \cap found}
           own(found) == IF best(found) \cap inList = {} THEN {} ELSE {listed}
           pick(found) ==
             IF best(found) = {} \/ \E g \in best(found) : Dist[h][g] > THRESHOLD THEN NoRef
             ELSE IF own(found) = {} THEN CHOOSE b \in here(found) : \A c \in here(found) : c <= b
             ELSE CHOOSE b \in here(found) \cup own(found) : \A c \in here(found) \cup own(found) : c <= b
           n == Len(recipe)
<1>1. AnnRequests(h) = {pick(found) : found \in SUBSET indexed}
  BY DEF AnnRequests
<1>2. PICK found \in SUBSET indexed : ref = pick(found)
  BY <1>1
<1>3. /\ \A x : x \in ToSet(linear) <=> \E k \in 1..Len(linear) : linear[k] = x
      /\ \A g \in ToSet(linear) \cup indexed : g \in DOMAIN hashtable
      /\ DOMAIN linear = 1..Len(linear) /\ Len(linear) \in Nat
  BY SketchList
<1>4. \A S : near(S) \subseteq S
  OBVIOUS
<1>5. inList \subseteq ToSet(linear) /\ best(found) \subseteq found \cup inList
  BY <1>4
<1> HIDE DEF near, inList, best
<1>6. here(found) \subseteq 1..n
  <2>1. \A g \in found : Latest(g) \in 1..n
    BY <1>3, LatestFacts
  <2> QED  BY <2>1
<1>7. inList # {} => listed \in 1..n
  <2> SUFFICES ASSUME inList # {} PROVE listed \in 1..n
    OBVIOUS
  <2> DEFINE T == {k \in 1..Len(linear) : linear[k] \in inList}
  <2>1. T # {} /\ T \subseteq Nat /\ \A k \in T : k <= Len(linear)
    BY <1>3, <1>5
  <2>2. PICK k \in T : \A l \in T : l <= k
    <3> HIDE DEF T
    <3> QED  BY <1>3, <2>1, GreatestNumber
  <2>3. k \in DOMAIN linear /\ last(k)
    <3>1. \A l \in DOMAIN linear : l > k => ~(l <= k)
      BY <1>3
    <3> QED  BY <1>3, <2>2, <3>1
  <2> HIDE DEF last
  <2>4. (CHOOSE l \in DOMAIN linear : last(l)) \in DOMAIN linear
    BY <2>3
  <2>5. linear # <<>>
    BY <1>3, <2>3
  <2>6. linear[CHOOSE l \in DOMAIN linear : last(l)] \in DOMAIN hashtable
    BY <1>3, <2>4
  <2> QED  BY <2>5, <2>6, LatestFacts
<1> HIDE DEF listed
<1>8. own(found) \subseteq 1..n
  BY <1>5, <1>7
<1>9. \A S : S \subseteq 1..n /\ S # {} => (CHOOSE b \in S : \A c \in S : c <= b) \in 1..n
  <2> SUFFICES ASSUME NEW S, S \subseteq 1..n, S # {}
               PROVE  (CHOOSE b \in S : \A c \in S : c <= b) \in 1..n
    OBVIOUS
  <2>1. S \subseteq Nat /\ \A x \in S : x <= n
    OBVIOUS
  <2>2. \E b \in S : \A c \in S : c <= b
    BY <2>1, GreatestNumber
  <2> QED  BY <2>2
<1>10. CASE best(found) = {} \/ \E g \in best(found) : Dist[h][g] > THRESHOLD
  BY <1>2, <1>10 DEF IsRef
<1>11. CASE ~(best(found) = {} \/ \E g \in best(found) : Dist[h][g] > THRESHOLD)
  <2>1. CASE own(found) = {}
    <3>1. best(found) \cap inList = {}
      BY <2>1
    <3>2. here(found) # {}
      BY <1>5, <1>11, <3>1
    <3>3. pick(found) = CHOOSE b \in here(found) : \A c \in here(found) : c <= b
      BY <1>11, <2>1
    <3> HIDE DEF here
    <3> QED  BY <1>2, <1>6, <1>9, <3>2, <3>3 DEF IsRef
  <2>2. CASE own(found) # {}
    <3>1. pick(found) = CHOOSE b \in here(found) \cup own(found) : \A c \in here(found) \cup own(found) : c <= b
      BY <1>11, <2>2
    <3> HIDE DEF here, own
    <3>2. here(found) \cup own(found) \subseteq 1..n /\ here(found) \cup own(found) # {}
      BY <1>6, <1>8, <2>2
    <3> QED  BY <1>2, <1>9, <3>1, <3>2 DEF IsRef
  <2> QED  BY <2>1, <2>2
<1> QED  BY <1>10, <1>11

-----------------------------------------------------------------------------
(***************************************************************************)
(* A block that is stored.                                                 *)
(***************************************************************************)
LEMMA PieceFacts ==
    ASSUME TraceOK, RecipesOK, NEW b \in 1..N, NEW ref, IsRef(ref, b - 1)
    PROVE  /\ Piece(b, ref) \in PieceSet
           /\ RecipeOf(b, ref) \in RecipeSet
           /\ Stands(Append(pieces, Piece(b, ref)), RecipeOf(b, ref), b)
<1> DEFINE p == Piece(b, ref)
           r == RecipeOf(b, ref)
           ps == Append(pieces, p)
           c == trace[b]
<1>1. trace \in Seq(Contents) /\ N \in Nat /\ c \in Contents /\ b \in Nat
  BY DEF TraceOK, N
<1>2. Lz4[c] \in Nat \ {0} /\ BLOCK_SIZE \in Nat \ {0}
  BY <1>1, TraceAssumption
<1>3. ASSUME ref \in 1..(b - 1) PROVE trace[ref] \in Contents /\ Delta[c][trace[ref]] \in Nat \ {0} /\ ref \in Int
  <2>1. ref \in 1..N
    BY <1>1, <1>3
  <2>2. trace[ref] \in Contents
    BY <1>1, <2>1 DEF N
  <2> QED  BY <1>1, <2>1, <2>2, TraceAssumption
<1>4. Kind(b, ref) \in Kinds /\ (Kind(b, ref) = "delta" => ref \in 1..(b - 1))
  BY DEF Kind, Kinds, IsRef
<1>5. /\ p.kind = Kind(b, ref) /\ p.block = c
      /\ p.base = IF Kind(b, ref) = "delta" THEN <<trace[ref]>> ELSE <<>>
      /\ p.size = CASE Kind(b, ref) = "delta" -> Delta[c][trace[ref]]
                    [] Kind(b, ref) = "self" -> Lz4[c]
                    [] Kind(b, ref) = "raw" -> BLOCK_SIZE
      /\ p = [kind |-> p.kind, block |-> p.block, base |-> p.base, size |-> p.size]
  <2> DEFINE k == Kind(b, ref)
             e == IF k = "delta" THEN <<trace[ref]>> ELSE <<>>
             z == CASE k = "delta" -> Delta[c][trace[ref]]
                    [] k = "self" -> Lz4[c]
                    [] k = "raw" -> BLOCK_SIZE
  <2>1. p = [kind |-> k, block |-> c, base |-> e, size |-> z]
    BY DEF Piece
  <2> HIDE DEF p, k, c, e, z
  <2>2. /\ p.kind = k /\ p.block = c /\ p.base = e /\ p.size = z
        /\ p = [kind |-> p.kind, block |-> p.block, base |-> p.base, size |-> p.size]
    BY <2>1
  <2> QED  BY <2>2 DEF k, e, z
<1>6. p.base \in Seq(Contents)
  BY <1>3, <1>4, <1>5
<1>7. p.size \in Nat \ {0}
  BY <1>2, <1>3, <1>4, <1>5 DEF Kinds
<1>8. p \in PieceSet
  <2> HIDE DEF p
  <2> QED  BY <1>1, <1>4, <1>5, <1>6, <1>7 DEF PieceSet
<1>9. pieces \in Seq(PieceSet) /\ Len(pieces) \in Nat
  BY DEF RecipesOK
<1>10. total \in Nat
  BY <1>9, OffsetsFacts DEF total, Sums
<1>11. /\ r.flag = p.kind /\ r.offset = total
       /\ r.ref = IF p.kind = "delta" THEN ref ELSE 0
       /\ r.size = IF p.kind = "raw" THEN 0 ELSE p.size - 1
       /\ r = [flag |-> r.flag, ref |-> r.ref, offset |-> r.offset, size |-> r.size]
  BY DEF RecipeOf, Recipe
<1> HIDE DEF p, r
<1>12. r \in RecipeSet
  <2>1. r.flag \in Kinds \cup {"dup"} /\ r.offset \in Nat
    BY <1>4, <1>5, <1>10, <1>11
  <2>2. r.ref \in Int
    BY <1>3, <1>4, <1>5, <1>11
  <2>3. r.size \in Nat
    BY <1>7, <1>11
  <2> QED  BY <1>11, <2>1, <2>2, <2>3 DEF RecipeSet
<1>13. /\ Len(pieces) + 1 \in 1..Len(ps) /\ ps[Len(pieces) + 1] = p
       /\ (Len(pieces) + 1) - 1 = Len(pieces) /\ Len(pieces) \in 0..Len(pieces)
  BY <1>8, <1>9
<1>14. Offsets(ps)[Len(pieces)] = total
  BY <1>8, <1>9, <1>13, OffsetsAppend DEF total
<1>15. p.kind # "raw" => p.size = (p.size - 1) + 1
  BY <1>7
<1> HIDE DEF ps
<1>16. Holds(ps, Len(pieces) + 1, r, b)
  <2>1. r.flag # "raw" => ps[Len(pieces) + 1].size = r.size + 1
    BY <1>11, <1>13, <1>15
  <2>2. r.flag = "delta" => r.ref \in 1..(b - 1) /\ ps[Len(pieces) + 1].base = <<trace[r.ref]>>
    BY <1>4, <1>5, <1>11, <1>13
  <2> QED  BY <1>5, <1>11, <1>13, <1>14, <2>1, <2>2 DEF Holds
<1>17. r.flag # "dup"
  BY <1>4, <1>5, <1>11 DEF Kinds
<1> QED  BY <1>8, <1>12, <1>13, <1>16, <1>17 DEF Stands, p, r, ps

\* What was written before stays where it is.
LEMMA StandsStays ==
    ASSUME NEW ps \in Seq(PieceSet), NEW x \in PieceSet, NEW r, NEW b, Stands(ps, r, b)
    PROVE  Stands(Append(ps, x), r, b)
<1>1. CASE r.flag = "dup"
  BY <1>1 DEF Stands
<1>2. CASE r.flag # "dup"
  <2>1. PICK p \in 1..Len(ps) : Holds(ps, p, r, b)
    BY <1>2 DEF Stands
  <2>2. p \in 1..Len(Append(ps, x)) /\ Append(ps, x)[p] = ps[p] /\ p - 1 \in 0..Len(ps)
    OBVIOUS
  <2>3. Offsets(Append(ps, x))[p - 1] = Offsets(ps)[p - 1]
    BY <2>2, OffsetsAppend
  <2>4. Holds(Append(ps, x), p, r, b)
    BY <2>1, <2>2, <2>3 DEF Holds
  <2> QED  BY <1>2, <2>2, <2>4 DEF Stands
<1> QED  BY <1>1, <1>2

LEMMA DupFacts ==
    ASSUME NEW b \in Nat, NEW ref \in 1..(b - 1), trace[ref] = trace[b], NEW ps
    PROVE  DupRecipe(ref) \in RecipeSet /\ Stands(ps, DupRecipe(ref), b)
<1>1. ref \in Int
  OBVIOUS
<1> QED  BY <1>1 DEF DupRecipe, Recipe, RecipeSet, Stands, Kinds

\* What the new recipes hold of the new pieces, in the new state.
LEMMA StandsPrimed ==
    ASSUME trace' = trace, NEW k, Stands(pieces', recipe'[k], k)
    PROVE  Stands(pieces, recipe[k], k)'
BY DEF Stands, Holds

\* The recipes of duplicates, then that of a block that is stored.
LEMMA RecipesGrow ==
    ASSUME TraceOK, RecipesOK, NEW ds \in Seq(RecipeSet), NEW b \in 1..N, b = Len(recipe) + Len(ds) + 1,
           \A k \in 1..Len(ds) : \A ps : Stands(ps, ds[k], Len(recipe) + k),
           NEW ref, IsRef(ref, b - 1),
           pieces' = Append(pieces, Piece(b, ref)),
           recipe' = Append(recipe \o ds, RecipeOf(b, ref)),
           trace' = trace
    PROVE  RecipesOK' /\ Len(recipe') = b
<1> DEFINE x == Piece(b, ref)
           r == RecipeOf(b, ref)
           n == Len(recipe)
           rs == recipe \o ds
<1>1. x \in PieceSet /\ r \in RecipeSet /\ Stands(pieces', r, b)
  BY PieceFacts
<1>2. pieces \in Seq(PieceSet) /\ recipe \in Seq(RecipeSet) /\ n \in Nat
  BY DEF RecipesOK
<1> HIDE DEF x, r
<1>3. pieces' \in Seq(PieceSet)
  BY <1>1, <1>2 DEF x
<1>4. /\ rs \in Seq(RecipeSet) /\ Len(rs) = n + Len(ds) /\ Len(ds) \in Nat
      /\ \A k \in 1..n : rs[k] = recipe[k]
      /\ \A k \in (n + 1)..Len(rs) : rs[k] = ds[k - n]
  BY <1>2
<1>5. recipe' = Append(rs, r)
  BY DEF r
<1> HIDE DEF rs
<1>6. /\ recipe' \in Seq(RecipeSet) /\ Len(recipe') = Len(rs) + 1
      /\ recipe'[Len(rs) + 1] = r
      /\ \A k \in 1..Len(rs) : recipe'[k] = rs[k]
  <2> DEFINE s == Append(rs, r)
  <2>1. /\ s \in Seq(RecipeSet) /\ Len(s) = Len(rs) + 1 /\ s[Len(rs) + 1] = r
        /\ \A k \in 1..Len(rs) : s[k] = rs[k]
    BY <1>1, <1>4, AppendFacts
  <2>2. recipe' = s
    BY <1>5
  <2> HIDE DEF s
  <2> QED  BY <2>1, <2>2
<1>7. Len(recipe') = b /\ b = Len(rs) + 1
  BY <1>2, <1>4, <1>6
<1>8. ASSUME NEW k \in 1..Len(recipe')
      PROVE  Stands(pieces', recipe'[k], k)
  <2>1. CASE k \in 1..n
    <3>1. Stands(pieces, recipe[k], k)
      BY <2>1 DEF RecipesOK
    <3>2. k \in 1..Len(rs)
      BY <1>2, <1>4, <2>1
    <3>3. recipe'[k] = recipe[k]
      BY <1>4, <1>6, <2>1, <3>2
    <3>4. Stands(Append(pieces, x), recipe[k], k)
      BY <1>1, <1>2, <3>1, StandsStays
    <3> QED  BY <3>3, <3>4 DEF x
  <2>2. CASE k \in (n + 1)..Len(rs)
    <3>1. k - n \in 1..Len(ds) /\ n + (k - n) = k /\ k \in 1..Len(rs)
      BY <1>2, <1>4, <2>2
    <3>2. recipe'[k] = ds[k - n]
      BY <1>4, <1>6, <2>2, <3>1
    <3>3. Stands(pieces', ds[k - n], n + (k - n))
      BY <3>1
    <3> QED  BY <3>1, <3>2, <3>3
  <2>3. CASE k = b
    BY <1>1, <1>6, <1>7, <2>3
  <2>4. k \in 1..n \/ k \in (n + 1)..Len(rs) \/ k = b
    BY <1>2, <1>4, <1>6, <1>7
  <2> QED  BY <2>1, <2>2, <2>3, <2>4
<1>9. \A k \in 1..Len(recipe') : Stands(pieces, recipe[k], k)'
  BY <1>8, StandsPrimed
<1> QED  BY <1>3, <1>6, <1>7, <1>9 DEF RecipesOK

-----------------------------------------------------------------------------
(***************************************************************************)
(* The steps.                                                              *)
(***************************************************************************)
LEMMA TraceFacts ==
    ASSUME TraceOK
    PROVE  /\ trace \in Seq(Contents) /\ N \in Nat /\ N > 0 /\ i \in Nat /\ i > 0 /\ i <= N + 1
           /\ \A b \in 1..N : trace[b] \in Contents
BY DEF TraceOK, N

LEMMA RecipeLength ==
    ASSUME StoreInv
    PROVE  /\ Len(recipe) \in Nat /\ Len(recipe) < i /\ recipe \in Seq(RecipeSet)
           /\ Pending(work \o batch, dedup_lazy_recipe, Len(recipe), i)
<1>1. recipe \in Seq(RecipeSet)
  BY DEF StoreInv, RecipesOK
<1>2. Pending(work \o batch, dedup_lazy_recipe, Len(recipe), i)
  BY DEF StoreInv, PendingOK
<1> QED  BY <1>1, <1>2, PendingTypes

\* finesse_comp is never behind.
LEMMA FinesseUpToDate ==
    ASSUME StoreInv, prog # "deepsketch"
    PROVE  /\ work = <<>> /\ batch = <<>> /\ dedup_lazy_recipe = <<>>
           /\ i = Len(recipe) + 1
           /\ Pending(<<>>, <<>>, i, i + 1)
<1>1. work = <<>> /\ batch = <<>> /\ dedup_lazy_recipe = <<>>
  BY DEF StoreInv, PendingOK
<1>2. Pending(<<>>, <<>>, Len(recipe), i)
  <2>1. <<>> \o <<>> = <<>>
    OBVIOUS
  <2> QED  BY <1>1, <2>1, RecipeLength
<1> QED  BY <1>1, <1>2, PendingNone

\* The file is written last.
LEMMA NotWritten ==
    ASSUME StoreInv, i <= N \/ work # <<>> \/ batch # <<>>
    PROVE  file = <<>>
<1>1. FileOK /\ TraceOK
  BY DEF StoreInv
<1>2. ~(i <= N /\ i = N + 1)
  BY <1>1, TraceFacts
<1> QED  BY <1>1, <1>2 DEF FileOK

LEMMA TablesGrow ==
    ASSUME TablesOK, Len(recipe) \in Nat, Len(recipe') \in Nat, Len(recipe) <= Len(recipe'),
           UNCHANGED <<sfTable, hashtable, linear, indexed, trace>>
    PROVE  TablesOK'
<1> DEFINE n == Len(recipe')
<1>1. Table(hashtable, HashKey, n)
  BY TableGrows DEF TablesOK
<1>2. \A k \in SF : Table(sfTable[k], SFKey(k), n)
  BY TableGrows DEF TablesOK
<1>3. Table(hashtable, HashKey, Len(recipe))'
  BY <1>1 DEF Table, HashKey
<1>4. \A k \in SF : Table(sfTable[k], SFKey(k), Len(recipe))'
  BY <1>2 DEF Table, SFKey
<1> QED  BY <1>3, <1>4 DEF TablesOK

\* A new block enters the map of contents.
LEMMA DedupEntered ==
    ASSUME TraceOK, DedupOK, i \in 1..N, trace' = trace, i' = i + 1,
           dedup' = With(dedup, trace[i], i)
    PROVE  DedupOK'
<1> SUFFICES ASSUME NEW c \in DOMAIN dedup'
             PROVE  dedup'[c] \in 1..(i' - 1) /\ trace'[dedup'[c]] = c
  BY DEF DedupOK
<1>1. i \in Nat /\ i' - 1 = i /\ i \in 1..i
  BY TraceFacts
<1>2. DOMAIN dedup' = DOMAIN dedup \cup {trace[i]} /\ dedup'[c] = IF c = trace[i] THEN i ELSE dedup[c]
  BY DEF With
<1>3. CASE c = trace[i]
  BY <1>1, <1>2, <1>3
<1>4. CASE c # trace[i]
  <2>1. dedup[c] \in 1..(i - 1) /\ trace[dedup[c]] = c
    BY <1>2, <1>4 DEF DedupOK
  <2> QED  BY <1>1, <1>2, <1>4, <2>1
<1> QED  BY <1>3, <1>4

LEMMA DedupKept ==
    ASSUME TraceOK, DedupOK, UNCHANGED <<trace, dedup>>, i' = i \/ i' = i + 1
    PROVE  DedupOK'
<1>1. \A x \in 1..(i - 1) : x \in 1..(i' - 1)
  BY TraceFacts
<1> QED  BY <1>1 DEF DedupOK

LEMMA TraceKept ==
    ASSUME TraceOK, trace' = trace, i' = i \/ (i' = i + 1 /\ i <= N)
    PROVE  TraceOK'
<1>1. i' \in 1..(N + 1)
  BY TraceFacts
<1> QED  BY <1>1 DEF TraceOK, N

LEMMA FileKept ==
    ASSUME file = <<>>, file' = file
    PROVE  FileOK'
BY DEF FileOK

LEMMA FinesseDupStep ==
    ASSUME StoreInv, FinesseDup, trace' = trace
    PROVE  StoreInv'
<1> DEFINE ref == dedup[trace[i]]
           n == Len(recipe)
<1>1. TraceOK /\ RecipesOK /\ PendingOK /\ DedupOK /\ TablesOK /\ FileOK
  BY DEF StoreInv
<1>2. prog = "finesse" /\ i <= N /\ trace[i] \in DOMAIN dedup /\ recipe' = Append(recipe, DupRecipe(ref)) /\ i' = i + 1
  BY DEF FinesseDup, Known
<1>3. UNCHANGED <<prog, dedup, sfTable, batch, work, hashtable, linear, indexed, dedup_lazy_recipe, pieces, file>>
  BY DEF FinesseDup, annVars
<1>4. work = <<>> /\ batch = <<>> /\ dedup_lazy_recipe = <<>> /\ i = n + 1 /\ Pending(<<>>, <<>>, i, i + 1)
  BY <1>2, FinesseUpToDate
<1>5. i \in Nat /\ n \in Nat /\ recipe \in Seq(RecipeSet)
  BY <1>1, TraceFacts, RecipeLength
<1>6. DupRecipe(ref) \in RecipeSet /\ \A ps : Stands(ps, DupRecipe(ref), i)
  <2>1. ref \in 1..(i - 1) /\ trace[ref] = trace[i]
    BY <1>1, <1>2 DEF DedupOK
  <2> QED  BY <1>5, <2>1, DupFacts
<1>7. /\ recipe' \in Seq(RecipeSet) /\ Len(recipe') = n + 1 /\ recipe'[n + 1] = DupRecipe(ref)
      /\ \A k \in 1..n : recipe'[k] = recipe[k]
      /\ \A k \in 1..Len(recipe') : k = n + 1 \/ k \in 1..n
  BY <1>2, <1>5, <1>6, AppendFacts
<1> HIDE DEF ref, n
<1>8. RecipesOK'
  <2>1. \A k \in 1..Len(recipe') : Stands(pieces, recipe'[k], k)
    <3> SUFFICES ASSUME NEW k \in 1..Len(recipe') PROVE Stands(pieces, recipe'[k], k)
      OBVIOUS
    <3>1. CASE k = n + 1
      BY <1>4, <1>6, <1>7, <3>1
    <3>2. CASE k \in 1..n
      BY <1>1, <1>7, <3>2 DEF RecipesOK, n
    <3> QED  BY <1>7, <3>1, <3>2
  <2>2. \A k \in 1..Len(recipe') : Stands(pieces, recipe[k], k)'
    BY <1>3, <2>1 DEF Stands, Holds
  <2>3. pieces' \in Seq(PieceSet)
    BY <1>1, <1>3 DEF RecipesOK
  <2> QED  BY <1>7, <2>2, <2>3 DEF RecipesOK
<1>9. TablesOK'
  <2>1. Len(recipe) <= Len(recipe') /\ Len(recipe') \in Nat /\ Len(recipe) \in Nat
    BY <1>5, <1>7 DEF n
  <2> QED  BY <1>1, <1>3, <2>1, TablesGrow
<1>10. Pending(work \o batch, dedup_lazy_recipe, Len(recipe), i)'
  <2>1. work' \o batch' = <<>> /\ dedup_lazy_recipe' = <<>> /\ Len(recipe') = i
    BY <1>3, <1>4, <1>7
  <2>2. Pending(work' \o batch', dedup_lazy_recipe', Len(recipe'), i')
    BY <1>2, <1>4, <2>1
  <2> QED  BY <2>2 DEF Pending, Between, Duplicates, Apart, Covered
<1>11. PendingOK'
  BY <1>1, <1>3, <1>10 DEF PendingOK
<1>12. TraceOK' /\ DedupOK' /\ FileOK'
  BY <1>1, <1>2, <1>3, NotWritten, FileKept, DedupKept, TraceKept
<1> QED  BY <1>8, <1>9, <1>11, <1>12 DEF StoreInv

LEMMA PendingNext ==
    ASSUME trace' = trace, Pending(work' \o batch', dedup_lazy_recipe', Len(recipe'), i')
    PROVE  Pending(work \o batch, dedup_lazy_recipe, Len(recipe), i)'
BY DEF Pending, Between, Duplicates, Apart, Covered

LEMMA FinesseStoreStep ==
    ASSUME StoreInv, FinesseStore, trace' = trace
    PROVE  StoreInv'
<1> DEFINE n == Len(recipe)
<1>1. TraceOK /\ RecipesOK /\ PendingOK /\ DedupOK /\ TablesOK /\ FileOK
  BY DEF StoreInv
<1>2. prog = "finesse" /\ i <= N /\ dedup' = With(dedup, trace[i], i) /\ i' = i + 1
  BY DEF FinesseStore
<1>3. UNCHANGED <<prog, batch, work, hashtable, linear, indexed, dedup_lazy_recipe, file>>
  BY DEF FinesseStore, annVars
<1>4. work = <<>> /\ batch = <<>> /\ dedup_lazy_recipe = <<>> /\ i = n + 1 /\ Pending(<<>>, <<>>, i, i + 1)
  BY <1>2, FinesseUpToDate
<1>5. i \in Nat /\ n \in Nat /\ recipe \in Seq(RecipeSet) /\ i \in 1..N
  BY <1>1, <1>2, TraceFacts, RecipeLength
<1>6. PICK ref \in Requests : /\ pieces' = Append(pieces, Piece(i, ref))
                              /\ recipe' = Append(recipe, RecipeOf(i, ref))
  BY DEF FinesseStore
<1>7. IsRef(ref, i - 1)
  <2>1. IsRef(ref, n)
    BY <1>1, <1>5, RequestsFacts
  <2>2. i - 1 = n
    BY <1>4, <1>5
  <2> QED  BY <2>1, <2>2
<1>8. RecipesOK' /\ Len(recipe') = i
  <2> DEFINE ds == <<>>
  <2>1. ds \in Seq(RecipeSet) /\ i = Len(recipe) + Len(ds) + 1 /\ recipe \o ds = recipe /\ 1..Len(ds) = {}
    BY <1>4, <1>5
  <2>2. \A k \in 1..Len(ds) : \A ps : Stands(ps, ds[k], Len(recipe) + k)
    BY <2>1
  <2>3. recipe' = Append(recipe \o ds, RecipeOf(i, ref))
    BY <1>6, <2>1
  <2> HIDE DEF ds
  <2> QED  BY <1>1, <1>5, <1>6, <1>7, <2>1, <2>2, <2>3, RecipesGrow
<1>9. TablesOK'
  <2>1. sfTable' = [k \in SF |-> Pushed(sfTable[k], SuperFeature[trace[i]][k], i)]
    BY DEF FinesseStore
  <2>2. trace[i] \in Contents
    BY <1>1, <1>5, TraceFacts
  <2>3. ASSUME NEW k \in SF PROVE Table(sfTable'[k], SFKey(k), i)
    <3>1. SFKey(k)[trace[i]] = SuperFeature[trace[i]][k]
      BY <2>2 DEF SFKey
    <3>2. Table(sfTable[k], SFKey(k), n) /\ n < i
      BY <1>1, <1>4, <1>5 DEF TablesOK
    <3>3. Table(Pushed(sfTable[k], SuperFeature[trace[i]][k], i), SFKey(k), i)
      BY <1>5, <3>1, <3>2, TablePushed
    <3> QED  BY <2>1, <3>3
  <2>4. Table(hashtable, HashKey, i)
    <3>1. n <= i
      BY <1>4, <1>5
    <3> QED  BY <1>1, <1>5, <3>1, TableGrows DEF TablesOK
  <2>5. Table(hashtable, HashKey, Len(recipe))'
    BY <1>3, <1>8, <2>4 DEF Table, HashKey
  <2>6. \A k \in SF : Table(sfTable[k], SFKey(k), Len(recipe))'
    BY <1>8, <2>3 DEF Table, SFKey
  <2>7. DOMAIN sfTable' = SF
    BY <2>1
  <2> QED  BY <1>1, <1>3, <2>5, <2>6, <2>7 DEF TablesOK
<1>10. Pending(work \o batch, dedup_lazy_recipe, Len(recipe), i)'
  <2>1. work' \o batch' = <<>> /\ dedup_lazy_recipe' = <<>> /\ Len(recipe') = i
    BY <1>3, <1>4, <1>8
  <2>2. Pending(work' \o batch', dedup_lazy_recipe', Len(recipe'), i')
    BY <1>2, <1>4, <2>1
  <2> QED  BY <2>2, PendingNext
<1>11. PendingOK'
  BY <1>1, <1>3, <1>10 DEF PendingOK
<1>12. TraceOK' /\ DedupOK' /\ FileOK'
  BY <1>1, <1>2, <1>3, <1>5, NotWritten, FileKept, DedupEntered, TraceKept
<1> QED  BY <1>8, <1>9, <1>11, <1>12 DEF StoreInv

LEMMA RecipesKept ==
    ASSUME RecipesOK, TablesOK, UNCHANGED <<trace, recipe, pieces, sfTable, hashtable, linear, indexed>>
    PROVE  RecipesOK' /\ TablesOK'
<1>1. RecipesOK'
  <2>1. \A k \in 1..Len(recipe) : Stands(pieces, recipe[k], k)'
    BY DEF RecipesOK, Stands, Holds
  <2> QED  BY <2>1 DEF RecipesOK
<1>2. TablesOK'
  BY DEF TablesOK, Table, SFKey, HashKey
<1> QED  BY <1>1, <1>2

LEMMA LazyDupStep ==
    ASSUME StoreInv, LazyDup, trace' = trace
    PROVE  StoreInv'
<1> DEFINE ref == dedup[trace[i]]
<1>1. TraceOK /\ RecipesOK /\ PendingOK /\ DedupOK /\ TablesOK /\ FileOK
  BY DEF StoreInv
<1>2. /\ prog = "deepsketch" /\ i <= N /\ trace[i] \in DOMAIN dedup /\ i' = i + 1
      /\ dedup_lazy_recipe' = Append(dedup_lazy_recipe, <<i, ref>>)
  BY DEF LazyDup, Known
<1>3. UNCHANGED <<prog, dedup, sfTable, batch, work, hashtable, linear, indexed, recipe, pieces, file>>
  BY DEF LazyDup
<1>4. ref \in 1..(i - 1) /\ trace[ref] = trace[i]
  BY <1>1, <1>2 DEF DedupOK
<1>5. Pending(work \o batch, dedup_lazy_recipe, Len(recipe), i)
  BY RecipeLength
<1> HIDE DEF ref
<1>6. Pending(work \o batch, Append(dedup_lazy_recipe, <<i, ref>>), Len(recipe), i + 1)
  BY <1>4, <1>5, PendingDup
<1>7. Pending(work \o batch, dedup_lazy_recipe, Len(recipe), i)'
  <2>1. Pending(work' \o batch', dedup_lazy_recipe', Len(recipe'), i')
    BY <1>2, <1>3, <1>6
  <2> QED  BY <2>1, PendingNext
<1>8. PendingOK'
  BY <1>1, <1>2, <1>3, <1>7 DEF PendingOK
<1>9. TraceOK' /\ DedupOK' /\ FileOK'
  BY <1>1, <1>2, <1>3, NotWritten, FileKept, DedupKept, TraceKept
<1> QED  BY <1>1, <1>3, <1>8, <1>9, RecipesKept DEF StoreInv

LEMMA EmptyBefore == ASSUME NEW s \in Seq(Nat) PROVE <<>> \o s = s /\ s \o <<>> = s
OBVIOUS

LEMMA PushStep ==
    ASSUME StoreInv, Push, trace' = trace
    PROVE  StoreInv'
<1> DEFINE more == Append(batch, i)
<1>1. TraceOK /\ RecipesOK /\ PendingOK /\ DedupOK /\ TablesOK /\ FileOK
  BY DEF StoreInv
<1>2. prog = "deepsketch" /\ i <= N /\ work = <<>> /\ dedup' = With(dedup, trace[i], i) /\ i' = i + 1
  BY DEF Push
<1>3. UNCHANGED <<prog, sfTable, hashtable, linear, indexed, dedup_lazy_recipe, recipe, pieces, file>>
  BY DEF Push
<1>4. IF Len(more) = BATCH_SIZE THEN batch' = <<>> /\ work' = more ELSE batch' = more /\ work' = work
  BY DEF Push
<1>5. i \in Nat /\ i \in 1..N /\ batch \in Seq(Nat) /\ Len(batch) < BATCH_SIZE /\ BATCH_SIZE \in Nat \ {0}
  BY <1>1, <1>2, TraceFacts, SketchAssumption DEF PendingOK
<1>6. more \in Seq(Nat) /\ Len(more) = Len(batch) + 1 /\ Len(batch) \in Nat /\ Len(<<>>) = 0
  BY <1>5
<1>7. Pending(batch, dedup_lazy_recipe, Len(recipe), i)
  BY <1>2, <1>5, RecipeLength, EmptyBefore
<1>8. Pending(more, dedup_lazy_recipe, Len(recipe), i + 1)
  BY <1>7, PendingNew
<1> HIDE DEF more
<1>9. work' \o batch' = more /\ work' \in Seq(Nat) /\ batch' \in Seq(Nat)
  <2>1. <<>> \o more = more /\ more \o <<>> = more
    BY <1>6, EmptyBefore
  <2>2. CASE Len(more) = BATCH_SIZE
    <3>1. batch' = <<>> /\ work' = more /\ <<>> \in Seq(Nat)
      BY <1>4, <2>2
    <3> QED  BY <1>6, <2>1, <3>1, Zenon
  <2>3. CASE Len(more) # BATCH_SIZE
    <3>1. batch' = more /\ work' = <<>> /\ <<>> \in Seq(Nat)
      BY <1>2, <1>4, <2>3
    <3> QED  BY <1>6, <2>1, <3>1, Zenon
  <2> QED  BY <2>2, <2>3
<1>10. Len(batch') < BATCH_SIZE /\ Len(batch') + Len(work') <= BATCH_SIZE
  <2>1. CASE Len(more) = BATCH_SIZE
    BY <1>4, <1>5, <1>6, <2>1
  <2>2. CASE Len(more) # BATCH_SIZE
    BY <1>2, <1>4, <1>5, <1>6, <2>2
  <2> QED  BY <2>1, <2>2
<1>11. Pending(work \o batch, dedup_lazy_recipe, Len(recipe), i)'
  <2>1. Pending(work' \o batch', dedup_lazy_recipe', Len(recipe'), i')
    BY <1>2, <1>3, <1>8, <1>9
  <2> QED  BY <2>1, PendingNext
<1>12. PendingOK'
  BY <1>2, <1>3, <1>9, <1>10, <1>11 DEF PendingOK
<1>13. TraceOK' /\ DedupOK' /\ FileOK'
  BY <1>1, <1>2, <1>3, <1>5, NotWritten, FileKept, DedupEntered, TraceKept
<1> QED  BY <1>1, <1>3, <1>12, <1>13, RecipesKept DEF StoreInv

LEMMA LastRequestStep ==
    ASSUME StoreInv, LastRequest, trace' = trace
    PROVE  StoreInv'
<1>1. TraceOK /\ RecipesOK /\ PendingOK /\ DedupOK /\ TablesOK /\ FileOK
  BY DEF StoreInv
<1>2. prog = "deepsketch" /\ work = <<>> /\ batch # <<>> /\ work' = batch /\ batch' = <<>>
  BY DEF LastRequest
<1>3. UNCHANGED <<prog, i, dedup, sfTable, hashtable, linear, indexed, dedup_lazy_recipe, recipe, pieces, file>>
  BY DEF LastRequest
<1>4. batch \in Seq(Nat) /\ Len(batch) < BATCH_SIZE /\ BATCH_SIZE \in Nat \ {0} /\ Len(<<>>) = 0
  BY <1>1, SketchAssumption DEF PendingOK
<1>5. work' \o batch' = work \o batch /\ work' \in Seq(Nat) /\ batch' \in Seq(Nat)
  BY <1>2, <1>4, EmptyBefore
<1>6. Len(batch') < BATCH_SIZE /\ Len(batch') + Len(work') <= BATCH_SIZE
  BY <1>2, <1>4
<1>7. Pending(work \o batch, dedup_lazy_recipe, Len(recipe), i)'
  <2>1. Pending(work' \o batch', dedup_lazy_recipe', Len(recipe'), i')
    BY <1>3, <1>5, RecipeLength
  <2> QED  BY <2>1, PendingNext
<1>8. PendingOK'
  BY <1>2, <1>3, <1>5, <1>6, <1>7 DEF PendingOK
<1>9. TraceOK' /\ DedupOK' /\ FileOK'
  BY <1>1, <1>2, <1>3, NotWritten, FileKept, DedupKept, TraceKept
<1> QED  BY <1>1, <1>3, <1>8, <1>9, RecipesKept DEF StoreInv

LEMMA HashPushed ==
    ASSUME NEW n \in Nat, Table(hashtable, HashKey, n), NEW b \in Nat, n < b
    PROVE  /\ Table(Pushed(hashtable, HashKey[trace[b]], b), HashKey, b)
           /\ DOMAIN Pushed(hashtable, HashKey[trace[b]], b) = DOMAIN hashtable \cup {HashKey[trace[b]]}
<1> DEFINE x == HashKey[trace[b]]
<1>1. HashKey[trace[b]] = x
  OBVIOUS
<1> HIDE DEF x
<1>2. Table(Pushed(hashtable, x, b), HashKey, b) /\ DOMAIN Pushed(hashtable, x, b) = DOMAIN hashtable \cup {x}
  BY <1>1, TablePushed
<1> QED  BY <1>1, <1>2

\* The sketch of a block that is stored goes into the list or, with the whole
\* list, into the index.
LEMMA AnnInsertFacts ==
    ASSUME TraceOK, TablesOK, Len(recipe) \in Nat, NEW b \in 1..N, Len(recipe) < b, Len(recipe') = b,
           NEW h, h = MyHash[trace[b]], AnnInsert(h, b), UNCHANGED <<trace, sfTable>>
    PROVE  TablesOK'
<1> DEFINE list == IF h \in DOMAIN hashtable THEN linear ELSE Append(linear, h)
           full == h \notin DOMAIN hashtable /\ Len(list) = LINEAR_SIZE
<1>1. /\ hashtable' = Pushed(hashtable, h, b)
      /\ linear' = IF full THEN <<>> ELSE list
      /\ indexed' = IF full THEN indexed \cup ToSet(list) ELSE indexed
  BY DEF AnnInsert
<1>2. b \in Nat /\ trace[b] \in Contents
  BY TraceFacts
<1>3. HashKey[trace[b]] = h /\ h \in SketchSet
  BY <1>2 DEF HashKey, SketchSet
<1>4. Table(hashtable', HashKey, b) /\ DOMAIN hashtable' = DOMAIN hashtable \cup {h}
  <2>1. Table(hashtable, HashKey, Len(recipe))
    BY DEF TablesOK
  <2>2. /\ Table(Pushed(hashtable, HashKey[trace[b]], b), HashKey, b)
        /\ DOMAIN Pushed(hashtable, HashKey[trace[b]], b) = DOMAIN hashtable \cup {HashKey[trace[b]]}
    BY <1>2, <2>1, HashPushed
  <2> QED  BY <1>1, <1>3, <2>2
<1>5. Table(hashtable, HashKey, Len(recipe))'
  BY <1>4 DEF Table, HashKey
<1>6. \A k \in SF : Table(sfTable[k], SFKey(k), b)
  BY <1>2, TableGrows DEF TablesOK
<1>7. \A k \in SF : Table(sfTable[k], SFKey(k), Len(recipe))'
  BY <1>6 DEF Table, SFKey
<1>8. /\ linear \in Seq(SketchSet) /\ Len(linear) \in Nat /\ indexed \subseteq SketchSet
      /\ DOMAIN hashtable = ToSet(linear) \cup indexed /\ ToSet(linear) \cap indexed = {}
      /\ IsInjective(linear) /\ Len(linear) < LINEAR_SIZE /\ LINEAR_SIZE \in Nat \ {0}
      /\ \A x : x \in ToSet(linear) <=> \E k \in 1..Len(linear) : linear[k] = x
  BY SketchList, SketchAssumption DEF TablesOK
<1>9. IsInjective(<<>>) /\ ToSet(<<>>) = {} /\ Len(<<>>) = 0
  BY DEF IsInjective, ToSet
<1>10. CASE h \in DOMAIN hashtable
  <2>1. linear' = linear /\ indexed' = indexed /\ DOMAIN hashtable' = DOMAIN hashtable
    BY <1>1, <1>4, <1>10
  <2> QED  BY <1>5, <1>7, <1>8, <2>1 DEF TablesOK
<1>11. CASE h \notin DOMAIN hashtable
  <2> DEFINE l == Append(linear, h)
  <2>1. /\ l \in Seq(SketchSet) /\ Len(l) = Len(linear) + 1 /\ l[Len(linear) + 1] = h
        /\ \A k \in 1..Len(linear) : l[k] = linear[k] /\ k \in 1..Len(l)
        /\ \A k \in 1..Len(l) : k = Len(linear) + 1 \/ k \in 1..Len(linear)
        /\ Len(linear) + 1 \in 1..Len(l)
    BY <1>3, <1>8, AppendFacts
  <2>2. list = l
    BY <1>11
  <2> HIDE DEF l
  <2>3. \A x : x \in ToSet(l) <=> \E k \in 1..Len(l) : l[k] = x
    BY <2>1 DEF ToSet
  <2>4. ToSet(l) = ToSet(linear) \cup {h}
    <3>1. \A x : x \in ToSet(l) <=> x \in ToSet(linear) \/ x = h
      BY <1>8, <2>1, <2>3
    <3> QED  BY <3>1
  <2>5. IsInjective(l)
    <3> SUFFICES ASSUME NEW j \in 1..Len(l), NEW k \in 1..Len(l), l[j] = l[k] PROVE j = k
      <4>1. DOMAIN l = 1..Len(l)
        BY <2>1
      <4> QED  BY <4>1 DEF IsInjective
    <3>1. \A e \in 1..Len(linear) : linear[e] # h
      BY <1>8, <1>11
    <3>2. \A d, e \in 1..Len(linear) : linear[d] = linear[e] => d = e
      BY <1>8 DEF IsInjective
    <3> QED  BY <2>1, <3>1, <3>2
  <2>6. ToSet(l) \subseteq SketchSet
    BY <1>3, <1>8, <2>4
  <2>7. ToSet(l) \cap indexed = {} /\ DOMAIN hashtable' = ToSet(l) \cup indexed
    BY <1>4, <1>8, <1>11, <2>4
  <2>8. CASE Len(l) = LINEAR_SIZE
    <3>1. linear' = <<>> /\ indexed' = indexed \cup ToSet(l)
      BY <1>1, <1>11, <2>2, <2>8
    <3>2. linear' \in Seq(SketchSet) /\ indexed' \subseteq SketchSet /\ Len(linear') < LINEAR_SIZE
      BY <1>8, <1>9, <2>6, <3>1
    <3>3. IsInjective(linear') /\ ToSet(linear') \cap indexed' = {} /\ DOMAIN hashtable' = ToSet(linear') \cup indexed'
      BY <1>9, <2>7, <3>1
    <3> QED  BY <1>5, <1>7, <3>2, <3>3 DEF TablesOK
  <2>9. CASE Len(l) # LINEAR_SIZE
    <3>1. linear' = l /\ indexed' = indexed
      BY <1>1, <1>11, <2>2, <2>9
    <3>2. Len(l) < LINEAR_SIZE
      BY <1>8, <2>1, <2>9
    <3> QED  BY <1>5, <1>7, <1>8, <2>1, <2>5, <2>7, <3>1, <3>2 DEF TablesOK
  <2> QED  BY <2>8, <2>9
<1> QED  BY <1>10, <1>11

\* The list is cut behind the duplicates before the block.
LEMMA DueFacts ==
    ASSUME NEW q, NEW n, Pending(q, dedup_lazy_recipe, n, i), q # <<>>
    PROVE  DueNumber(q[1]) = AheadOf(q, n)
<1> DEFINE lazy == dedup_lazy_recipe
           d == AheadOf(q, n)
           b == q[1]
           Is(k) == /\ \A j \in 1..k : lazy[j][1] < b
                    /\ k < Len(lazy) => lazy[k + 1][1] >= b
<1>1. /\ b \in Nat /\ n < b /\ n \in Nat /\ d \in 0..Len(lazy) /\ Len(lazy) \in Nat
      /\ \A k \in 1..d : lazy[k][1] = n + k
      /\ \A k \in (d + 1)..Len(lazy) : lazy[k][1] > b
  BY PendingStored, PendingTypes
<1>2. d = b - 1 - n
  BY DEF AheadOf
<1>3. \A k \in 1..Len(lazy) : lazy[k][1] \in Nat
  BY DEF Pending, Duplicates
<1> HIDE DEF lazy, d, b
<1>4. Is(d)
  <2>1. ASSUME NEW j \in 1..d PROVE lazy[j][1] < b
    <3>1. lazy[j][1] = n + j
      BY <1>1
    <3>2. n + j < b
      BY <1>1, <1>2
    <3> QED  BY <3>1, <3>2
  <2>2. ASSUME d < Len(lazy) PROVE lazy[d + 1][1] >= b
    <3>1. d + 1 \in (d + 1)..Len(lazy) /\ d + 1 \in 1..Len(lazy)
      BY <1>1, <2>2
    <3>2. lazy[d + 1][1] > b /\ lazy[d + 1][1] \in Nat
      BY <1>1, <1>3, <3>1
    <3>3. \A u \in Nat : u > b => u >= b
      BY <1>1
    <3> QED  BY <3>2, <3>3
  <2> QED  BY <2>1, <2>2
<1>5. ASSUME NEW k \in 0..Len(lazy), Is(k) PROVE k = d
  <2>1. ~(k < d)
    <3> SUFFICES ASSUME k < d PROVE FALSE
      OBVIOUS
    <3>1. k + 1 \in 1..d /\ k < Len(lazy)
      BY <1>1
    <3>2. lazy[k + 1][1] < b
      BY <1>4, <3>1
    <3>3. lazy[k + 1][1] >= b
      BY <1>5, <3>1
    <3>4. lazy[k + 1][1] \in Nat
      BY <1>1, <1>3, <3>1
    <3> QED  BY <1>1, <3>2, <3>3, <3>4
  <2>2. ~(d < k)
    <3> SUFFICES ASSUME d < k PROVE FALSE
      OBVIOUS
    <3>1. d + 1 \in 1..k /\ d < Len(lazy) /\ d + 1 \in 1..Len(lazy)
      BY <1>1
    <3>2. lazy[d + 1][1] < b
      BY <1>5, <3>1
    <3>3. lazy[d + 1][1] >= b
      BY <1>4, <3>1
    <3>4. lazy[d + 1][1] \in Nat
      BY <1>3, <3>1
    <3> QED  BY <1>1, <3>2, <3>3, <3>4
  <2> QED  BY <1>1, <2>1, <2>2
<1>6. DueNumber(b) = CHOOSE k \in 0..Len(lazy) : Is(k)
  BY DEF DueNumber, lazy
<1> HIDE DEF Is
<1>7. DueNumber(b) = d
  BY <1>1, <1>4, <1>5, <1>6
<1> QED  BY <1>7 DEF b, d

LEMMA SketchStoreStep ==
    ASSUME StoreInv, SketchStore, trace' = trace
    PROVE  StoreInv'
<1> DEFINE b == Head(work)
           h == MyHash[trace[b]]
           n == Len(recipe)
           q == work \o batch
           lazy == dedup_lazy_recipe
           d == AheadOf(q, n)
           due == Due(b)
           ds == DupRecipes(due)
<1>1. TraceOK /\ RecipesOK /\ PendingOK /\ DedupOK /\ TablesOK /\ FileOK
  BY DEF StoreInv
<1>2. work # <<>> /\ work' = Tail(work) /\ AnnInsert(h, b) /\ lazy' = NotDue(b)
  BY DEF SketchStore
<1>3. UNCHANGED <<prog, i, dedup, sfTable, batch, file>>
  BY DEF SketchStore
<1>4. PICK ref \in AnnRequests(h) : /\ pieces' = Append(pieces, Piece(b, ref))
                                    /\ recipe' = Append(recipe \o ds, RecipeOf(b, ref))
  BY DEF SketchStore
<1>5. work \in Seq(Nat) /\ batch \in Seq(Nat) /\ Pending(q, lazy, n, i) /\ n \in Nat
  BY <1>1, RecipeLength DEF PendingOK
<1>6. q # <<>> /\ q[1] = b /\ Tail(q) = Tail(work) \o batch
  BY <1>2, <1>5
<1>7. i \in Nat /\ i <= N + 1 /\ N \in Nat /\ \A k \in 1..N : trace[k] \in Contents
  BY <1>1, TraceFacts
<1> HIDE DEF b, q, lazy, d, n
<1>8. /\ b \in Nat /\ n < b /\ b < i /\ d \in 0..Len(lazy)
      /\ \A k \in 1..d : lazy[k][1] = n + k
      /\ Pending(Tail(q), SubSeq(lazy, d + 1, Len(lazy)), b, i)
  <2>1. /\ q[1] \in Nat /\ n < q[1] /\ q[1] < i /\ AheadOf(q, n) \in 0..Len(lazy)
        /\ \A k \in 1..AheadOf(q, n) : lazy[k][1] = n + k
        /\ Pending(Tail(q), SubSeq(lazy, AheadOf(q, n) + 1, Len(lazy)), q[1], i)
    BY <1>5, <1>6, PendingStored
  <2> QED  BY <1>6, <2>1 DEF d
<1>9. DueNumber(b) = d /\ d = b - 1 - n
  BY <1>5, <1>6, DueFacts DEF d, lazy, AheadOf
<1>10. b \in 1..N
  BY <1>5, <1>7, <1>8
<1>11. IsRef(ref, b - 1)
  <2>1. IsRef(ref, n)
    BY <1>1, <1>5, AnnFacts DEF n
  <2>2. \A x \in 1..n : x \in 1..(b - 1)
    BY <1>5, <1>8
  <2> QED  BY <2>1, <2>2 DEF IsRef
<1>12. lazy \in Seq(Nat \X Nat) /\ Len(lazy) \in Nat /\ Duplicates(lazy, n, i)
  BY <1>5, PendingTypes DEF Pending
<1>13. /\ DOMAIN due = 1..d /\ Len(due) = d
       /\ \A k \in 1..d : due[k] = lazy[k] /\ k \in 1..Len(lazy)
  <2>1. due = SubSeq(lazy, 1, d)
    BY <1>9 DEF Due, lazy
  <2> HIDE DEF due
  <2>2. \A k \in 1..d : k \in 1..Len(lazy)
    BY <1>8, <1>12
  <2>3. d \in Nat /\ d <= Len(lazy)
    BY <1>8, <1>12
  <2>4. due = [k \in 1..d |-> lazy[k]]
    BY <1>12, <2>1, <2>3
  <2> QED  BY <2>2, <2>3, <2>4
<1>14. /\ ds = [k \in 1..d |-> DupRecipe(due[k][2])]
  BY <1>13 DEF DupRecipes
<1> HIDE DEF ds, due
<1>15. ASSUME NEW k \in 1..d
       PROVE  ds[k] \in RecipeSet /\ \A ps : Stands(ps, ds[k], n + k)
  <2>1. k \in 1..Len(lazy) /\ lazy[k][1] = n + k /\ ds[k] = DupRecipe(lazy[k][2])
    BY <1>8, <1>13, <1>14
  <2>2. lazy[k][2] \in 1..((n + k) - 1) /\ trace[lazy[k][2]] = trace[n + k] /\ n + k \in Nat
    BY <1>12, <2>1 DEF Duplicates
  <2> QED  BY <2>1, <2>2, DupFacts
<1>16. ds \in Seq(RecipeSet) /\ Len(ds) = d
  BY <1>8, <1>12, <1>14, <1>15
<1>17. RecipesOK' /\ Len(recipe') = b
  <2>1. b = Len(recipe) + Len(ds) + 1
    BY <1>5, <1>8, <1>9, <1>16 DEF n
  <2>2. \A k \in 1..Len(ds) : \A ps : Stands(ps, ds[k], Len(recipe) + k)
    BY <1>15, <1>16 DEF n
  <2> QED  BY <1>1, <1>4, <1>10, <1>11, <1>16, <2>1, <2>2, RecipesGrow
<1>18. TablesOK'
  BY <1>1, <1>2, <1>3, <1>5, <1>8, <1>10, <1>17, AnnInsertFacts DEF n
<1>19. Pending(work \o batch, dedup_lazy_recipe, Len(recipe), i)'
  <2>1. dedup_lazy_recipe' = SubSeq(lazy, d + 1, Len(lazy))
    BY <1>2, <1>9 DEF NotDue, lazy
  <2>2. Pending(work' \o batch', dedup_lazy_recipe', Len(recipe'), i')
    BY <1>2, <1>3, <1>6, <1>8, <1>17, <2>1
  <2> QED  BY <2>2, PendingNext
<1>20. PendingOK'
  <2>1. Len(work') <= Len(work) /\ work' \in Seq(Nat) /\ Len(work) \in Nat /\ Len(work') \in Nat
    BY <1>2, <1>5
  <2>2. Len(batch) \in Nat /\ BATCH_SIZE \in Nat
    BY <1>5, SketchAssumption
  <2>3. Len(batch) < BATCH_SIZE /\ Len(batch) + Len(work) <= BATCH_SIZE /\ prog = "deepsketch"
    BY <1>1, <1>2 DEF PendingOK
  <2>4. Len(batch) + Len(work') <= BATCH_SIZE
    BY <2>1, <2>2, <2>3
  <2> QED  BY <1>3, <1>5, <1>19, <2>1, <2>3, <2>4 DEF PendingOK
<1>21. TraceOK' /\ DedupOK' /\ FileOK'
  BY <1>1, <1>2, <1>3, NotWritten, FileKept, DedupKept, TraceKept
<1> QED  BY <1>17, <1>18, <1>20, <1>21 DEF StoreInv

LEMMA RecipeWriteStep ==
    ASSUME StoreInv, RecipeWrite, trace' = trace
    PROVE  StoreInv'
<1>1. TraceOK /\ RecipesOK /\ PendingOK /\ DedupOK /\ TablesOK /\ FileOK
  BY DEF StoreInv
<1>2. /\ i = N + 1 /\ work = <<>> /\ batch = <<>>
      /\ file' = [b \in 1..N |-> IF b <= Len(recipe) THEN recipe[b] ELSE Undefined]
  BY DEF RecipeWrite
<1>3. UNCHANGED <<prog, i, dedup, sfTable, batch, work, hashtable, linear, indexed, dedup_lazy_recipe, recipe, pieces>>
  BY DEF RecipeWrite, annVars
<1>4. PendingOK'
  <2>1. Pending(work' \o batch', dedup_lazy_recipe', Len(recipe'), i')
    BY <1>3, RecipeLength
  <2>2. Pending(work \o batch, dedup_lazy_recipe, Len(recipe), i)'
    BY <2>1, PendingNext
  <2> QED  BY <1>1, <1>3, <2>2 DEF PendingOK
<1>5. FileOK'
  BY <1>2, <1>3 DEF FileOK, N, Undefined, Recipe
<1>6. TraceOK' /\ DedupOK'
  BY <1>1, <1>3, DedupKept, TraceKept
<1> QED  BY <1>1, <1>3, <1>4, <1>5, <1>6, RecipesKept DEF StoreInv

LEMMA StoreInit == Init => StoreInv
<1> SUFFICES ASSUME Init PROVE StoreInv
  OBVIOUS
<1>1. /\ i = 1 /\ dedup = <<>> /\ sfTable = [k \in SF |-> <<>>] /\ batch = <<>> /\ work = <<>>
      /\ hashtable = <<>> /\ linear = <<>> /\ indexed = {} /\ dedup_lazy_recipe = <<>>
      /\ recipe = <<>> /\ pieces = <<>> /\ file = <<>>
  BY DEF Init, DSInit
<1>2. trace \in Seq(Contents) /\ trace # <<>>
  BY TraceAssumption, SearchAssumption DEF Init
<1>3. TraceOK
  BY <1>1, <1>2 DEF TraceOK, N
<1>4. RecipesOK
  BY <1>1 DEF RecipesOK
<1>5. DOMAIN <<>> = {} /\ Len(<<>>) = 0 /\ <<>> \in Seq(Nat) /\ <<>> \in Seq(SketchSet)
      /\ <<>> \in Seq(Nat \X Nat) /\ 1..Len(<<>>) = {} /\ <<>> \o <<>> = <<>>
  OBVIOUS
<1>6. DedupOK
  BY <1>1, <1>5 DEF DedupOK
<1>7. TablesOK
  <2>1. \A key, n : Table(<<>>, key, n)
    BY <1>5 DEF Table
  <2>2. IsInjective(<<>>) /\ ToSet(<<>>) = {}
    BY DEF IsInjective, ToSet
  <2>3. LINEAR_SIZE \in Nat \ {0} /\ 0 < LINEAR_SIZE
    BY SketchAssumption
  <2> QED  BY <1>1, <1>5, <2>1, <2>2, <2>3 DEF TablesOK
<1>8. PendingOK
  <2>1. \A b \in (0 + 1)..(1 - 1) : FALSE
    OBVIOUS
  <2>2. Between(<<>>, 0, 1) /\ Duplicates(<<>>, 0, 1) /\ Apart(<<>>, <<>>)
    BY <1>5 DEF Between, Duplicates, Apart
  <2>3. Covered(<<>>, <<>>, 0, 1)
    BY <2>1 DEF Covered
  <2>4. Pending(<<>>, <<>>, 0, 1)
    BY <1>5, <2>2, <2>3 DEF Pending
  <2>5. Pending(work \o batch, dedup_lazy_recipe, Len(recipe), i)
    BY <1>1, <1>5, <2>4
  <2>6. 0 < BATCH_SIZE /\ 0 + 0 <= BATCH_SIZE
    BY SketchAssumption
  <2> QED  BY <1>1, <1>5, <2>5, <2>6 DEF PendingOK
<1>9. FileOK
  BY <1>1 DEF FileOK
<1> QED  BY <1>3, <1>4, <1>6, <1>7, <1>8, <1>9 DEF StoreInv

LEMMA StoreStep == StoreInv /\ [Next]_vars => StoreInv'
<1> SUFFICES ASSUME StoreInv, [Next]_vars PROVE StoreInv'
  OBVIOUS
<1>1. CASE DSNext /\ UNCHANGED <<trace, bfvars>>
  BY <1>1, FinesseDupStep, FinesseStoreStep, LazyDupStep, PushStep, LastRequestStep, SketchStoreStep,
     RecipeWriteStep DEF DSNext
<1>2. CASE UNCHANGED <<trace, dsvars>>
  <2>1. UNCHANGED <<trace, i, prog, dedup, sfTable, batch, work, hashtable, linear, indexed, dedup_lazy_recipe,
                    recipe, pieces, file>>
    BY <1>2 DEF dsvars
  <2>2. TraceOK /\ RecipesOK /\ PendingOK /\ DedupOK /\ TablesOK /\ FileOK
    BY DEF StoreInv
  <2>3. RecipesOK' /\ TablesOK' /\ TraceOK' /\ DedupOK'
    BY <2>1, <2>2, RecipesKept, DedupKept, TraceKept
  <2>4. Pending(work' \o batch', dedup_lazy_recipe', Len(recipe'), i')
    BY <2>1, RecipeLength
  <2>5. Pending(work \o batch, dedup_lazy_recipe, Len(recipe), i)'
    BY <2>1, <2>4, PendingNext
  <2>6. PendingOK'
    BY <2>1, <2>2, <2>5 DEF PendingOK
  <2>7. FileOK'
    BY <2>1, <2>2 DEF FileOK, N, Undefined, Recipe
  <2> QED  BY <2>3, <2>6, <2>7 DEF StoreInv
<1> QED  BY <1>1, <1>2 DEF Next, vars

LEMMA StoreInvariant == Spec => []StoreInv
BY StoreInit, StoreStep, PTL DEF Spec

-----------------------------------------------------------------------------
(***************************************************************************)
(* What the recipes bring back.                                            *)
(***************************************************************************)
\* The first m elements of two sequences that agree on them.
LEMMA SameFront ==
    ASSUME NEW S, NEW s \in Seq(S), NEW R, NEW t \in Seq(R), NEW m \in Nat, m <= Len(s), m <= Len(t),
           \A k \in 1..m : s[k] = t[k]
    PROVE  SubSeq(s, 1, m) = SubSeq(t, 1, m)
<1>1. SubSeq(s, 1, m) = [k \in 1..m |-> s[k]]
  OBVIOUS
<1>2. SubSeq(t, 1, m) = [k \in 1..m |-> t[k]]
  OBVIOUS
<1> QED  BY <1>1, <1>2

LEMMA RecipesBound ==
    ASSUME StoreInv
    PROVE  /\ Len(recipe) \in Nat /\ N \in Nat /\ Len(recipe) <= N /\ DOMAIN recipe = 1..Len(recipe)
           /\ pieces \in Seq(PieceSet) /\ trace \in Seq(Contents)
           /\ \A b \in 1..Len(recipe) : recipe[b] \in RecipeSet /\ Stands(pieces, recipe[b], b)
<1>1. TraceOK /\ RecipesOK
  BY DEF StoreInv
<1>2. Len(recipe) \in Nat /\ Len(recipe) < i /\ recipe \in Seq(RecipeSet)
  BY RecipeLength
<1>3. N \in Nat /\ i \in Nat /\ i <= N + 1 /\ trace \in Seq(Contents)
  BY <1>1, TraceFacts
<1> QED  BY <1>1, <1>2, <1>3 DEF RecipesOK

LEMMA RecipesRestoreHolds ==
    ASSUME StoreInv
    PROVE  RecipesRestore
<1> DEFINE n == Len(recipe)
<1>1. /\ n \in Nat /\ N \in Nat /\ n <= N /\ DOMAIN recipe = 1..n
      /\ pieces \in Seq(PieceSet) /\ trace \in Seq(Contents)
      /\ \A b \in 1..n : recipe[b] \in RecipeSet /\ Stands(pieces, recipe[b], b)
  BY RecipesBound
<1>2. N = Len(trace)
  BY DEF N
<1> HIDE DEF n
<1>3. \A k \in DOMAIN recipe : recipe[k].flag \in {"dup", "delta"} => recipe[k].ref \in 1..(k - 1)
  BY <1>1 DEF Stands, Holds
<1>4. Restored(recipe) = [b \in 1..n |-> IF b <= n THEN trace[b] ELSE "lost"]
  <2>1. n \in 0..N /\ n \in 0..n /\ \A b \in (n + 1)..n : FALSE
    BY <1>1
  <2> QED  BY <1>1, <2>1, RestoredFacts
<1>5. Restored(recipe) = [b \in 1..n |-> trace[b]]
  <2>1. \A b \in 1..n : (IF b <= n THEN trace[b] ELSE "lost") = trace[b]
    BY <1>1
  <2> QED  BY <1>4, <2>1
<1>6. SubSeq(trace, 1, n) = [b \in 1..n |-> trace[b]]
  BY <1>1, <1>2
<1> QED  BY <1>3, <1>5, <1>6 DEF RecipesRestore, n

\* What the recipe file brings back, and where the recipes end.
LEMMA FileFacts ==
    ASSUME StoreInv, file # <<>>
    PROVE  /\ Restored(file) = [b \in 1..N |-> IF b <= Len(recipe) THEN trace[b] ELSE "lost"]
           /\ prog # "deepsketch" => Len(recipe) = N
           /\ \A b \in (Len(recipe) + 1)..N : \E a \in 1..(b - 1) : trace[a] = trace[b]
<1> DEFINE n == Len(recipe)
<1>1. /\ n \in Nat /\ N \in Nat /\ n <= N /\ DOMAIN recipe = 1..n /\ pieces \in Seq(PieceSet)
      /\ \A b \in 1..n : recipe[b] \in RecipeSet /\ Stands(pieces, recipe[b], b)
  BY RecipesBound
<1>2. /\ file = [b \in 1..N |-> IF b <= n THEN recipe[b] ELSE Undefined]
      /\ i = N + 1 /\ work = <<>> /\ batch = <<>>
  BY DEF StoreInv, FileOK
<1>3. Pending(work \o batch, dedup_lazy_recipe, n, i)
  BY RecipeLength
<1>4. prog # "deepsketch" => n = N
  <2>1. prog # "deepsketch" => i = n + 1
    BY FinesseUpToDate
  <2>2. \A u, v \in Nat : v + 1 = u + 1 => u = v
    OBVIOUS
  <2>3. i = N + 1 /\ n \in Nat /\ N \in Nat
    BY <1>1, <1>2
  <2> HIDE DEF n
  <2> QED  BY <2>1, <2>2, <2>3
<1>5. Undefined.flag = "undefined"
  BY DEF Undefined, Recipe
<1> HIDE DEF n
<1>6. DOMAIN file = 1..N
  BY <1>2
<1>7. \A b \in 1..n : b \in 1..N /\ file[b] = recipe[b]
  BY <1>1, <1>2
<1>8. \A b \in (n + 1)..N : b \in 1..N /\ ~(b <= n)
  BY <1>1
<1>9. \A b \in (n + 1)..N : file[b].flag = "undefined"
  BY <1>2, <1>5, <1>8
<1>10. Restored(file) = [b \in 1..N |-> IF b <= n THEN trace[b] ELSE "lost"]
  <2>1. N \in 0..N /\ n \in 0..N /\ \A b \in 1..n : Stands(pieces, file[b], b)
    BY <1>1, <1>7
  <2> QED  BY <1>1, <1>6, <1>9, <2>1, RestoredFacts
<1>11. \A b \in (n + 1)..N : \E a \in 1..(b - 1) : trace[a] = trace[b]
  <2>1. <<>> \o <<>> = <<>> /\ \A j \in 1..Len(<<>>) : FALSE
    OBVIOUS
  <2>2. Duplicates(dedup_lazy_recipe, n, i) /\ Covered(<<>>, dedup_lazy_recipe, n, i)
    BY <1>2, <1>3, <2>1 DEF Pending
  <2>3. (n + 1)..(i - 1) = (n + 1)..N
    BY <1>1, <1>2
  <2>4. \A b \in (n + 1)..N : \E j \in 1..Len(dedup_lazy_recipe) : dedup_lazy_recipe[j][1] = b
    BY <2>1, <2>2, <2>3 DEF Covered
  <2> QED  BY <2>2, <2>4 DEF Duplicates
<1> QED  BY <1>4, <1>10, <1>11 DEF n

LEMMA FileRestoresHolds ==
    ASSUME StoreInv
    PROVE  FileRestores
<1> DEFINE n == Len(recipe)
           last == CHOOSE b \in UniqueBlocks : \A a \in UniqueBlocks : a <= b
           to == IF prog = "finesse" THEN N ELSE last
<1> SUFFICES ASSUME file # <<>> PROVE SubSeq(Restored(file), 1, to) = SubSeq(trace, 1, to)
  BY DEF FileRestores
<1>1. n \in Nat /\ N \in Nat /\ n <= N /\ trace \in Seq(Contents) /\ N = Len(trace) /\ N > 0
  BY RecipesBound, TraceFacts DEF StoreInv, N
<1>2. /\ Restored(file) = [b \in 1..N |-> IF b <= n THEN trace[b] ELSE "lost"]
      /\ prog # "deepsketch" => n = N
      /\ \A b \in (n + 1)..N : \E a \in 1..(b - 1) : trace[a] = trace[b]
  BY FileFacts
<1> HIDE DEF n
<1>3. last \in UniqueBlocks
  <2>1. UniqueBlocks \subseteq Nat /\ \A x \in UniqueBlocks : x <= N
    BY <1>1 DEF UniqueBlocks
  <2>2. 1 \in UniqueBlocks
    <3>1. 1 \in 1..N /\ \A a \in 1..(1 - 1) : FALSE
      BY <1>1
    <3> QED  BY <3>1 DEF UniqueBlocks
  <2>3. \E x \in UniqueBlocks : \A y \in UniqueBlocks : y <= x
    BY <1>1, <2>1, <2>2, GreatestNumber
  <2> QED  BY <2>3
<1> HIDE DEF last
<1>4. last \in 1..N /\ \A a \in 1..(last - 1) : trace[a] # trace[last]
  BY <1>3 DEF UniqueBlocks
<1>5. last <= n
  <2> SUFFICES ASSUME ~(last <= n) PROVE FALSE
    OBVIOUS
  <2>1. last \in (n + 1)..N
    BY <1>1, <1>4
  <2> QED  BY <1>2, <1>4, <2>1
<1>6. to \in Nat /\ to <= n /\ to <= N
  BY <1>1, <1>2, <1>4, <1>5
<1> HIDE DEF to
<1> DEFINE s == Restored(file)
           R == Contents \cup {"lost"}
<1>7. \A b \in 1..N : (IF b <= n THEN trace[b] ELSE "lost") \in R
  BY <1>1
<1>8. s \in Seq(R) /\ Len(s) = N
  <2> HIDE DEF R
  <2> QED  BY <1>1, <1>2, <1>7
<1>9. \A k \in 1..to : s[k] = trace[k]
  <2>1. \A k \in 1..to : k \in 1..N /\ k <= n
    BY <1>1, <1>6
  <2> QED  BY <1>2, <2>1
<1> HIDE DEF s, R
<1>10. SubSeq(s, 1, to) = SubSeq(trace, 1, to)
  BY <1>1, <1>6, <1>8, <1>9, SameFront
<1> QED  BY <1>10 DEF s

LEMMA DSTypesHold ==
    ASSUME StoreInv
    PROVE  DSTypeOK
<1>1. TraceOK /\ PendingOK /\ DedupOK /\ TablesOK
  BY DEF StoreInv
<1>2. i \in 1..(N + 1) /\ i \in Nat /\ N \in Nat
  BY <1>1, TraceFacts DEF TraceOK
<1>3. \A c \in DOMAIN dedup : trace[dedup[c]] = c /\ dedup[c] < i
  BY <1>1, <1>2 DEF DedupOK
<1>4. Len(batch) < BATCH_SIZE /\ Len(batch) + Len(work) <= BATCH_SIZE
  BY <1>1 DEF PendingOK
<1>5. ASSUME NEW f, NEW key, Table(f, key, Len(recipe)), NEW v \in DOMAIN f, NEW b \in ToSet(f[v])
      PROVE  b \in 1..Len(recipe) /\ key[trace[b]] = v
  <2>1. f[v] \in Seq(1..Len(recipe)) /\ \A k \in 1..Len(f[v]) : key[trace[f[v][k]]] = v
    BY <1>5 DEF Table
  <2>2. PICK k \in 1..Len(f[v]) : b = f[v][k]
    BY <1>5, <2>1 DEF ToSet
  <2> QED  BY <2>1, <2>2
<1>6. \A b \in 1..Len(recipe) : trace[b] \in Contents
  BY <1>1, TraceFacts, RecipesBound
<1>7. ASSUME NEW k \in SF, NEW b \in 1..N, NEW v \in DOMAIN sfTable[k], b \in ToSet(sfTable[k][v])
      PROVE  SuperFeature[trace[b]][k] = v
  <2>1. Table(sfTable[k], SFKey(k), Len(recipe))
    BY <1>1 DEF TablesOK
  <2>2. b \in 1..Len(recipe) /\ SFKey(k)[trace[b]] = v
    BY <1>5, <1>7, <2>1
  <2> QED  BY <1>6, <2>2 DEF SFKey
<1>8. ASSUME NEW h \in DOMAIN hashtable, NEW b \in ToSet(hashtable[h])
      PROVE  MyHash[trace[b]] = h
  <2>1. Table(hashtable, HashKey, Len(recipe))
    BY <1>1 DEF TablesOK
  <2>2. b \in 1..Len(recipe) /\ HashKey[trace[b]] = h
    BY <1>5, <2>1
  <2> QED  BY <1>6, <2>2 DEF HashKey
<1>9. /\ DOMAIN hashtable = ToSet(linear) \cup indexed /\ ToSet(linear) \cap indexed = {}
      /\ IsInjective(linear) /\ Len(linear) < LINEAR_SIZE
  BY <1>1 DEF TablesOK
<1> QED  BY <1>2, <1>3, <1>4, <1>7, <1>8, <1>9 DEF DSTypeOK

\* For every trace, all sizes the blocks compress to and all super-features,
\* sketches and distances: a recipe of finesse_comp or deepsketch_comp refers
\* only to recipes before it, and the recipes inserted so far bring back the
\* blocks of the trace in order.
THEOREM RecipesBringBack == Spec => []RecipesRestore
BY StoreInvariant, RecipesRestoreHolds, PTL

\* The file recipe_write leaves brings back every block up to the last new
\* one; that of finesse_comp, the whole trace.
THEOREM FileBringsBack == Spec => []FileRestores
BY StoreInvariant, FileRestoresHolds, PTL

\* The tables of finesse_comp and of ANN hold every block under its own keys,
\* the batch is never full, and each sketch is in the list or in the index.
THEOREM StoreTypes == Spec => []DSTypeOK
BY StoreInvariant, DSTypesHold, PTL

=============================================================================
