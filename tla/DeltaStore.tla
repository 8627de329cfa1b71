----------------------------- MODULE DeltaStore -----------------------------
(***************************************************************************)
(* The programs that store a trace of blocks with deduplication and delta  *)
(* compression (src/training/finesse/ and src/training/deepsketch/).       *)
(* Finesse looks for a similar block by super-features and writes a recipe *)
(* per block as it goes; DeepSketch sketches blocks in batches, looks for  *)
(* the nearest sketch, and inserts the recipes of duplicates later, when a *)
(* block behind them is stored.  Blocks are numbered from 1.               *)
(***************************************************************************)
EXTENDS BlockTrace

CONSTANTS SF,           \* the numbers of the super-features, 1..SF_NUM
          SuperFeature, \* SuperFeature[c][k]: a super-feature of c
          MyHash,       \* MyHash[c]: the sketch of c
          Dist,         \* Dist[h][g]: the Hamming distance of two sketches
          BATCH_SIZE,   \* sketches computed at a time (256)
          LINEAR_SIZE,  \* sketches searched one by one (128)
          THRESHOLD     \* largest distance of a reference

ASSUME SketchAssumption ==
    /\ IsFiniteSet(SF) /\ SF # {} /\ SF = 1..Cardinality(SF)
    /\ BATCH_SIZE \in Nat \ {0} /\ LINEAR_SIZE \in Nat \ {0}

VARIABLES prog,     \* "finesse" or "deepsketch"; another program: "none"
          i,        \* the block main is at
          dedup,    \* the first block with each content
          sfTable,  \* by super-feature number and value: the labels
          batch,    \* the blocks NetworkHash has not sketched yet
          work,     \* myhash: the blocks whose sketches it returned
          hashtable, linear, indexed,   \* of ANN: labels by sketch, the list, the index
          dedup_lazy_recipe,
          recipe,   \* inserted
          pieces,   \* what write_file wrote, each piece with its size
          file      \* the recipe file

dsvars == <<prog, i, dedup, sfTable, batch, work, hashtable, linear, indexed,
            dedup_lazy_recipe, recipe, pieces, file>>
annVars == <<batch, work, hashtable, linear, indexed, dedup_lazy_recipe>>

\* How many bytes the first n pieces take.
Offsets(ps) ==
    LET upTo[n \in 0..Len(ps)] == IF n = 0 THEN 0 ELSE upTo[n - 1] + ps[n].size
    IN  upTo
total == Offsets(pieces)[Len(pieces)]

\* Flags: raw 00, self 01, dup 10, delta 11.
Recipe(flag, ref, offset, size) == [flag |-> flag, ref |-> ref, offset |-> offset, size |-> size]
DupRecipe(ref) == Recipe("dup", ref, 0, 0)

DSInit ==
    /\ i = 1
    /\ dedup = <<>>
    /\ sfTable = [k \in SF |-> <<>>]
    /\ batch = <<>> /\ work = <<>>
    /\ hashtable = <<>> /\ linear = <<>> /\ indexed = {}
    /\ dedup_lazy_recipe = <<>>
    /\ recipe = <<>> /\ pieces = <<>> /\ file = <<>>

\* A duplicate.
Known == trace[i] \in DOMAIN dedup
With(f, x, y) == [z \in DOMAIN f \cup {x} |-> IF z = x THEN y ELSE f[z]]
Pushed(f, x, label) == With(f, x, (IF x \in DOMAIN f THEN f[x] ELSE <<>>) \o <<label>>)

-----------------------------------------------------------------------------
(***************************************************************************)
(* How a block is stored: as the delta when that is smaller than the block *)
(* and than its own compression, else compressed, else as it is.           *)
(***************************************************************************)
Smaller(m, n) == IF m < n THEN m ELSE n

Kind(b, ref) ==
    LET self == Lz4[trace[b]]
    IN  IF ref # NoRef /\ Delta[trace[b]][trace[ref]] < Smaller(self, BLOCK_SIZE) THEN "delta"
        ELSE IF self < BLOCK_SIZE THEN "self" ELSE "raw"

\* What is written, and the recipe that says where.  A recipe holds the size
\* less one, and none for a raw block.
Piece(b, ref) ==
    LET kind == Kind(b, ref)
    IN  [kind |-> kind, block |-> trace[b],
         base |-> IF kind = "delta" THEN <<trace[ref]>> ELSE <<>>,
         size |-> CASE kind = "delta" -> Delta[trace[b]][trace[ref]]
                    [] kind = "self" -> Lz4[trace[b]]
                    [] kind = "raw" -> BLOCK_SIZE]

RecipeOf(b, ref) ==
    LET p == Piece(b, ref)
    IN  Recipe(p.kind, IF p.kind = "delta" THEN ref ELSE 0, total,
               IF p.kind = "raw" THEN 0 ELSE p.size - 1)

-----------------------------------------------------------------------------
(***************************************************************************)
(* finesse_comp: one turn of the loop.                                     *)
(***************************************************************************)
\* Finesse::request: the tables are tried from a random one on; the last
\* block with the first super-feature found is the reference.
Requests ==
    LET sf == SuperFeature[trace[i]]
        hits == {k \in SF : sf[k] \in DOMAIN sfTable[k]}
        at(r, k) == ((r + k) % Cardinality(SF)) + 1
        first(r) == at(r, CHOOSE k \in 0..(Cardinality(SF) - 1) :
                            at(r, k) \in hits /\ \A l \in 0..(k - 1) : at(r, l) \notin hits)
        label(k) == LET labels == sfTable[k][sf[k]] IN labels[Len(labels)]
    IN  IF hits = {} THEN {NoRef} ELSE {label(first(r)) : r \in 0..(Cardinality(SF) - 1)}

FinesseDup ==
    /\ prog = "finesse" /\ i <= N /\ Known
    /\ recipe' = Append(recipe, DupRecipe(dedup[trace[i]]))
    /\ i' = i + 1
    /\ UNCHANGED <<prog, dedup, sfTable, annVars, pieces, file>>

FinesseStore ==
    /\ prog = "finesse" /\ i <= N /\ ~Known
    /\ dedup' = With(dedup, trace[i], i)
    /\ \E ref \in Requests :
          /\ pieces' = Append(pieces, Piece(i, ref))
          /\ recipe' = Append(recipe, RecipeOf(i, ref))
    /\ sfTable' = [k \in SF |-> Pushed(sfTable[k], SuperFeature[trace[i]][k], i)]
    /\ i' = i + 1
    /\ UNCHANGED <<prog, annVars, file>>

-----------------------------------------------------------------------------
(***************************************************************************)
(* deepsketch_comp.                                                        *)
(***************************************************************************)
LazyDup ==
    /\ prog = "deepsketch" /\ i <= N /\ work = <<>> /\ Known
    /\ dedup_lazy_recipe' = Append(dedup_lazy_recipe, <<i, dedup[trace[i]]>>)
    /\ i' = i + 1
    /\ UNCHANGED <<prog, dedup, sfTable, batch, work, hashtable, linear, indexed, recipe, pieces, file>>

\* NetworkHash::push, and NetworkHash::request when the batch is full.
Push ==
    /\ prog = "deepsketch" /\ i <= N /\ work = <<>> /\ ~Known
    /\ dedup' = With(dedup, trace[i], i)
    /\ LET more == Append(batch, i)
       IN  IF Len(more) = BATCH_SIZE THEN batch' = <<>> /\ work' = more
           ELSE batch' = more /\ UNCHANGED work
    /\ i' = i + 1
    /\ UNCHANGED <<prog, sfTable, hashtable, linear, indexed, dedup_lazy_recipe, recipe, pieces, file>>

\* Mutant: the batch the trace ends in is dropped.
LastRequestForgets ==
    /\ prog = "deepsketch" /\ i = N + 1 /\ work = <<>> /\ batch # <<>>
    /\ work' = <<>> /\ batch' = <<>>
    /\ UNCHANGED <<prog, i, dedup, sfTable, hashtable, linear, indexed, dedup_lazy_recipe,
                   recipe, pieces, file>>

\* LAST REQUEST.
LastRequest ==
    /\ prog = "deepsketch" /\ i = N + 1 /\ work = <<>> /\ batch # <<>>
    /\ work' = batch /\ batch' = <<>>
    /\ UNCHANGED <<prog, i, dedup, sfTable, hashtable, linear, indexed, dedup_lazy_recipe,
                   recipe, pieces, file>>

\* ANN::request: of the list the nearest sketch, the latest first; of what
\* the index finds (any of the sketches in it) a nearer one, or a later
\* block at the same distance.
Latest(h) == hashtable[h][Len(hashtable[h])]
AnnRequests(h) ==
    LET near(S) == {g \in S : \A f \in S : Dist[h][g] <= Dist[h][f]}
        inList == near(ToSet(linear))
        listed == IF linear = <<>> THEN NoRef
                  ELSE Latest(linear[CHOOSE k \in DOMAIN linear :
                          linear[k] \in inList /\ \A l \in DOMAIN linear :
                                                     l > k => linear[l] \notin inList])
        pick(found) ==
            LET best == near(found \cup inList)
                here == {Latest(g) : g \in best \cap found}
                own == IF best \cap inList = {} THEN {} ELSE {listed}
            IN  IF best = {} \/ \E g \in best : Dist[h][g] > THRESHOLD THEN NoRef
                ELSE IF own = {} THEN CHOOSE b \in here : \A c \in here : c <= b
                ELSE CHOOSE b \in here \cup own : \A c \in here \cup own : c <= b
    IN  {pick(found) : found \in SUBSET indexed}

\* Mutant: a list that went into the index is not cleared.
AnnInsertKeepsList(h, label) ==
    LET list == IF h \in DOMAIN hashtable THEN linear ELSE Append(linear, h)
        full == h \notin DOMAIN hashtable /\ Len(list) = LINEAR_SIZE
    IN  /\ hashtable' = Pushed(hashtable, h, label)
        /\ linear' = list
        /\ indexed' = IF full THEN indexed \cup ToSet(list) ELSE indexed

\* ANN::insert: a full list goes into the index.
AnnInsert(h, label) ==
    LET list == IF h \in DOMAIN hashtable THEN linear ELSE Append(linear, h)
        full == h \notin DOMAIN hashtable /\ Len(list) = LINEAR_SIZE
    IN  /\ hashtable' = Pushed(hashtable, h, label)
        /\ linear' = IF full THEN <<>> ELSE list
        /\ indexed' = IF full THEN indexed \cup ToSet(list) ELSE indexed

\* The recipes of the duplicates before block b: those at the front of the
\* list, up to one of a later block.
DueNumber(b) ==
    CHOOSE n \in 0..Len(dedup_lazy_recipe) :
        /\ \A k \in 1..n : dedup_lazy_recipe[k][1] < b
        /\ n < Len(dedup_lazy_recipe) => dedup_lazy_recipe[n + 1][1] >= b
Due(b) == SubSeq(dedup_lazy_recipe, 1, DueNumber(b))
NotDue(b) == SubSeq(dedup_lazy_recipe, DueNumber(b) + 1, Len(dedup_lazy_recipe))
DupRecipes(due) == [k \in DOMAIN due |-> DupRecipe(due[k][2])]

\* Mutant: the recipe of the block before those of the duplicates.
SketchStoreFirst ==
    /\ work # <<>>
    /\ LET b == Head(work)
           h == MyHash[trace[b]]
       IN  /\ \E ref \in AnnRequests(h) :
                 /\ pieces' = Append(pieces, Piece(b, ref))
                 /\ recipe' = Append(recipe, RecipeOf(b, ref)) \o DupRecipes(Due(b))
           /\ AnnInsert(h, b)
           /\ dedup_lazy_recipe' = NotDue(b)
    /\ work' = Tail(work)
    /\ UNCHANGED <<prog, i, dedup, sfTable, batch, file>>

\* One block of a batch.
SketchStore ==
    /\ work # <<>>
    /\ LET b == Head(work)
           h == MyHash[trace[b]]
       IN  /\ \E ref \in AnnRequests(h) :
                 /\ pieces' = Append(pieces, Piece(b, ref))
                 /\ recipe' = Append(recipe \o DupRecipes(Due(b)), RecipeOf(b, ref))
           /\ AnnInsert(h, b)
           /\ dedup_lazy_recipe' = NotDue(b)
    /\ work' = Tail(work)
    /\ UNCHANGED <<prog, i, dedup, sfTable, batch, file>>

-----------------------------------------------------------------------------
\* recipe_write: N recipes, also where fewer were inserted; what lies behind
\* the last one is undefined.
Undefined == Recipe("undefined", NoRef, 0, 0)

RecipeWrite ==
    /\ prog \in {"finesse", "deepsketch"} /\ i = N + 1 /\ work = <<>> /\ batch = <<>>
    /\ file = <<>>
    /\ file' = [b \in 1..N |-> IF b <= Len(recipe) THEN recipe[b] ELSE Undefined]
    /\ UNCHANGED <<prog, i, dedup, sfTable, annVars, recipe, pieces>>

DSNext == FinesseDup \/ FinesseStore \/ LazyDup \/ Push \/ LastRequest \/ SketchStore \/ RecipeWrite

-----------------------------------------------------------------------------
\* The tables hold blocks under their own contents, super-features and
\* sketches, the batch is never full, and ANN::insert loses no sketch: each is
\* either in the list, which is never full, or in the index.
DSTypeOK ==
    /\ i \in 1..(N + 1)
    /\ \A c \in DOMAIN dedup : trace[dedup[c]] = c /\ dedup[c] < i
    /\ Len(batch) < BATCH_SIZE /\ Len(batch) + Len(work) <= BATCH_SIZE
    /\ \A k \in SF, b \in 1..N : \A v \in DOMAIN sfTable[k] :
          b \in ToSet(sfTable[k][v]) => SuperFeature[trace[b]][k] = v
    /\ DOMAIN hashtable = ToSet(linear) \cup indexed /\ ToSet(linear) \cap indexed = {}
    /\ IsInjective(linear) /\ Len(linear) < LINEAR_SIZE
    /\ \A h \in DOMAIN hashtable : \A b \in ToSet(hashtable[h]) : MyHash[trace[b]] = h

\* What a reader of recipes rs and of the output gets: a block whose recipe
\* is undefined, or leads to bytes of another block, is lost.
At(offset) == {p \in DOMAIN pieces : Offsets(pieces)[p - 1] = offset}

\* Through recipe r, when block holds what the recipes before it bring back.
Reads(r, block) ==
    LET is(p) == /\ pieces[p].kind = r.flag
                 /\ r.flag # "raw" => pieces[p].size = r.size + 1
                 /\ r.flag = "delta" => pieces[p].base = <<block[r.ref]>>
        found == {p \in At(r.offset) : is(p)}
    IN  IF r.flag = "dup" THEN block[r.ref]
        ELSE IF found # {} THEN pieces[CHOOSE p \in found : TRUE].block
        ELSE "lost"

Restored(rs) ==
    LET block[k \in DOMAIN rs] == Reads(rs[k], block)
    IN  [k \in DOMAIN rs |-> block[k]]

\* A recipe refers only to recipes before it, and the recipes inserted so
\* far bring back the blocks of the trace in order, however the batches of
\* deepsketch_comp delay the recipes of duplicates and whichever reference
\* Finesse::request or ANN::request found.
RecipesRestore ==
    /\ \A k \in DOMAIN recipe : recipe[k].flag \in {"dup", "delta"} => recipe[k].ref \in 1..(k - 1)
    /\ Restored(recipe) = SubSeq(trace, 1, Len(recipe))

\* The recipe file brings back every block up to the last new one; with
\* finesse_comp, the whole trace.  (deepsketch_comp writes no recipe for the
\* duplicates behind the last new block.)
FileRestores ==
    file # <<>> =>
        LET last == CHOOSE b \in UniqueBlocks : \A a \in UniqueBlocks : a <= b
            to == IF prog = "finesse" THEN N ELSE last
        IN  SubSeq(Restored(file), 1, to) = SubSeq(trace, 1, to)
=============================================================================
