----------------------------- MODULE ServeProofs -----------------------------
(***************************************************************************)
(* Proofs about PushPull: what the dedups guarantee holds whatever the     *)
(* GETs do, and no GET is ever sent another file than the one pushed.      *)
(***************************************************************************)
EXTENDS PushPullInv, DedupScanProofs, SequenceTheorems

-----------------------------------------------------------------------------
(* A GET does not disturb the dedups. *)

\* Everything that is proved of the dedups.
DedupInv ==
    /\ TypeInv /\ RecipeInv /\ FileInv /\ TidyInv /\ DiffOwned
    /\ GenuineInv /\ WholeInv /\ OrderInv

\* What a GET may do to the variables of LayerDedup: count a pull in the RLMap
\* and meet a Redis error.
GetFrame ==
    /\ UNCHANGED <<fileDesc, sliceRecipe, layerRecipe, storeVars, counter, workerVars, historyVars>>
    /\ faults' \in Nat /\ faults' >= faults
    /\ IsMap(rlmap', Repos, RLEntry)

LEMMA DedupInit == Init => DedupInv
BY TypeInit, RecipeInit, PathInit, ScanInit, LiveInit, TidyInit, DiffInit, GenuineInit, WholeInit,
   OrderInit DEF DedupInv, FileInv

LEMMA DedupNext == DedupInv /\ [Next]_vars => DedupInv'
<1> SUFFICES ASSUME DedupInv, [Next]_vars PROVE DedupInv'
  OBVIOUS
<1>1. TypeInv'
  BY TypeStep DEF DedupInv
<1>2. RecipeInv'
  BY RecipeStep DEF DedupInv
<1>3. FileInv'
  BY <1>1, PathStep, ScanStep, LiveStep DEF DedupInv, FileInv
<1>4. TidyInv'
  BY <1>1, TidyStep DEF DedupInv, FileInv
<1>5. DiffOwned'
  BY <1>1, DiffStep DEF DedupInv, FileInv
<1>6. GenuineInv'
  BY GenuineStep DEF DedupInv, FileInv
<1>7. WholeInv'
  BY WholeStep DEF DedupInv
<1>8. OrderInv'
  BY OrderStep DEF DedupInv
<1> QED
  BY <1>1, <1>2, <1>3, <1>4, <1>5, <1>6, <1>7, <1>8 DEF DedupInv

\* The guarantees only become weaker when a command fails.
LEMMA DedupFrame == DedupInv /\ GetFrame => DedupInv'
<1> SUFFICES ASSUME DedupInv, GetFrame PROVE DedupInv'
  OBVIOUS
<1>1. /\ UNCHANGED <<fileDesc, sliceRecipe, layerRecipe>>
      /\ UNCHANGED <<layerFile, committed, partial, unpack, diff>>
      /\ UNCHANGED <<counter, pc, loc, crashes, events>>
  BY DEF GetFrame, storeVars, workerVars, historyVars
<1>2. /\ faults' \in Nat /\ IsMap(rlmap', Repos, RLEntry)
      /\ faults' = 0 => faults = 0
  BY DEF GetFrame, DedupInv, TypeInv, TypeOK, MetadataTypeOK
<1>3. TypeInv'
  BY <1>1, <1>2 DEF DedupInv, TypeInv, TypeOK, MetadataTypeOK, StoreTypeOK, LocalShape
<1>4. RecipeInv'
  BY <1>1, <1>2 DEF DedupInv, RecipeInv, WroteStored, SlicesNonEmpty, RecipesClosed,
                    FinishHasRecipe, OriginalKept
<1>5. PathInv'
  BY <1>1 DEF DedupInv, FileInv, PathInv, FreshPaths, OwnedPaths, DescriptorsWellFormed,
              PendingUnregistered, Pending, Registered
<1>6. ScanInv'
  BY <1>1, <1>2 DEF DedupInv, FileInv, ScanInv, Exclusive, ChunkPresent, NothingWrong, Active,
                    UnpackDir, Quiet
<1>7. LiveInv'
  BY <1>1, <1>2 DEF DedupInv, FileInv, LiveInv, PendingLive, DescriptorsLive, Pending, Quiet
<1>8. TidyInv'
  BY <1>1 DEF DedupInv, TidyInv, WrongScan, PartialOwned, UnpackOwned, AllListed, Owns, UnpackDir,
              Tidy
<1>9. DiffOwned'
  BY <1>1 DEF DedupInv, DiffOwned, Kept, Registered, Active, Pending
<1>10. GenuineInv'
  BY <1>1, <1>2 DEF DedupInv, GenuineInv, SlicesGenuine, RecipesGenuine, HostsGenuine, Genuine
<1>11. WholeInv'
  <2>1. Whole' => Whole
    BY <1>1, <1>2 DEF Whole, Tidy
  <2>2. ScanCollects' /\ SlicesOfLayer'
    <3> SUFFICES ASSUME Whole', NEW v \in Pushes PROVE OwnCollects(v)' /\ OwnOfLayer(v)'
      BY DEF ScanCollects, SlicesOfLayer, OwnCollects, OwnOfLayer
    <3> QED
      BY <1>1, <2>1, WholeOwn, WholeOthers, ExtendsRefl DEF DedupInv
  <2>3. SliceRecipesWhole' /\ LayerRecipesWhole'
    BY <1>1, <2>1 DEF DedupInv, WholeInv, SliceRecipesWhole, LayerRecipesWhole
  <2> QED
    BY <2>2, <2>3 DEF WholeInv
<1>12. OrderInv'
  BY <1>1, <1>2 DEF DedupInv, OrderInv, SlicesInOrder, RecipesInOrder, Ordered
<1> QED
  BY <1>3, <1>4, <1>5, <1>6, <1>7, <1>8, <1>9, <1>10, <1>11, <1>12 DEF DedupInv, FileInv

-----------------------------------------------------------------------------
(* Types. *)

LEMMA GetFacts ==
    ASSUME NEW g \in Gets
    PROVE  g.srv \in Servers /\ g.repo \in Repos /\ g.layer \in Layers /\ Dir(g) \in Servers \X Layers
BY GetsAssumption DEF PushType, Dir

LEMMA AnswerTypes ==
    /\ Gotta \in Answer /\ Garbled \in Answer /\ Failed \in Answer /\ NoAnswer \in Answer
    /\ \A data \in Seq(Blocks) : Bytes(data) \in Answer
BY DEF Gotta, Garbled, Failed, NoAnswer, Bytes, Answer

LEMMA NoGetLocalType == NoGetLocal \in GetLocal
BY AnswerTypes DEF NoGetLocal, GetLocal, RLEntry, EmptyRLEntry

\* Every step of a GET keeps to its frame.
LEMMA GetKeepsFrame ==
    ASSUME TypeInv, RestoreTypeOK, NEW g \in Gets, PPGet(g) \/ PPServe(g)
    PROVE  GetFrame
<1>1. UNCHANGED <<storeVars, counter, workerVars, historyVars>>
  BY DEF PPGet, PPServe, DedupOwnVars
<1>2. /\ faults \in Nat /\ IsMap(rlmap, Repos, RLEntry)
      /\ g.repo \in Repos /\ gloc[g].rl \in RLEntry
  BY GetFacts DEF TypeInv, TypeOK, MetadataTypeOK, RestoreTypeOK, GetLocal
<1>3. CASE UNCHANGED metadataVars
  BY <1>1, <1>2, <1>3 DEF GetFrame, metadataVars
<1>4. ASSUME NEW db, NEW key, NEW reply, Stat(db, key, reply),
             UNCHANGED <<fileDesc, sliceRecipe, layerRecipe, rlmap>>
      PROVE  GetFrame
  BY <1>1, <1>2, <1>4 DEF GetFrame, Stat, RedisError
<1>5. CASE ReadLayerRecipe(g)
  BY <1>4, <1>5 DEF ReadLayerRecipe, StatLayerRecipe
<1>6. CASE ReadSliceRecipe(g)
  BY <1>4, <1>6 DEF ReadSliceRecipe, StatSliceRecipe
<1>7. CASE ReadRLMap(g)
  BY <1>4, <1>7 DEF ReadRLMap, StatRLMapEntry
<1>8. CASE WriteRLMap(g)
  <2>1. PICK reply \in SetReplies : SetRLMapEntry(g.repo, gloc[g].rl, reply)
    BY <1>8 DEF WriteRLMap
  <2>2. IsMap(Put(rlmap, g.repo, gloc[g].rl), Repos, RLEntry)
    BY <1>2, PutMap
  <2> QED
    BY <1>1, <1>2, <2>1, <2>2 DEF SetRLMapEntry, RedisError, GetFrame
<1> QED
  BY <1>3, <1>5, <1>6, <1>7, <1>8
     DEF PPGet, PPServe, GetStep, Get, LookupLayer, LoadOrStore, WaitLayer, LockBuffer, PackFile,
         Encode, Fallback, Transfer

-----------------------------------------------------------------------------
(* What each step of a GET does. *)

GetOthers(g) ==
    \A q \in Gets : q # g => gpc'[q] = gpc[q] /\ gloc'[q] = gloc[q] /\ answer'[q] = answer[q]

\* GET g goes to label with local variables l.
Moves(g, label, l) ==
    /\ gpc' = [gpc EXCEPT ![g] = label]
    /\ gloc' = [gloc EXCEPT ![g] = l]

sharedVars == <<restoring, locked, gotta, layerCache, chunkCache>>

LEMMA MovesEffect ==
    ASSUME RestoreTypeOK, NEW g \in Gets, NEW label \in GetPCs, NEW l \in GetLocal,
           Moves(g, label, l)
    PROVE  /\ gpc' \in [Gets -> GetPCs] /\ gloc' \in [Gets -> GetLocal]
           /\ gpc'[g] = label /\ gloc'[g] = l
           /\ UNCHANGED answer => GetOthers(g) /\ answer' \in [Gets -> Answer]
BY DEF RestoreTypeOK, Moves, GetOthers

\* The local variables after an assignment to one or two of them.
LEMMA LocalUpdates ==
    ASSUME NEW l \in GetLocal
    PROVE  /\ \A a \in Answer : [l EXCEPT !.bss = a] \in GetLocal
           /\ \A a \in Answer : [l EXCEPT !.bss = a, !.cok = TRUE] \in GetLocal
           /\ \A hosts \in SUBSET Hosts : [l EXCEPT !.hosts = hosts, !.sawRecipe = TRUE] \in GetLocal
           /\ \A files \in Seq(SliceEntry) : [l EXCEPT !.files = files] \in GetLocal
           /\ \A chunk \in Seq(Blocks) : [l EXCEPT !.buf = @ \o chunk, !.i = @ + 1] \in GetLocal
           /\ \A rl \in RLEntry : [l EXCEPT !.rl = rl] \in GetLocal
           /\ [NoGetLocal EXCEPT !.sawRecipe = l.sawRecipe] \in GetLocal
<1>1. \A chunk \in Seq(Blocks) : [l EXCEPT !.buf = @ \o chunk, !.i = @ + 1] \in GetLocal
  <2> SUFFICES ASSUME NEW chunk \in Seq(Blocks)
               PROVE  [l EXCEPT !.buf = @ \o chunk, !.i = @ + 1] \in GetLocal
    OBVIOUS
  <2>1. l.buf \o chunk \in Seq(Blocks) /\ l.i + 1 \in Nat
    BY DEF GetLocal
  <2> QED
    BY <2>1 DEF GetLocal
<1> QED
  BY <1>1, NoGetLocalType DEF GetLocal

LEMMA GetEffect ==
    ASSUME RestoreTypeOK, NEW g \in Gets, Get(g)
    PROVE  /\ gpc[g] = "idle" /\ gpc'[g] = "cache" /\ gloc'[g] = gloc[g]
           /\ UNCHANGED <<answer, sharedVars>> /\ GetOthers(g)
           /\ RestoreTypeOK'
<1>1. Moves(g, "cache", gloc[g]) /\ gloc[g] \in GetLocal
  BY DEF Get, GetGoto, Moves, RestoreTypeOK
<1>2. UNCHANGED <<answer, sharedVars>>
  BY DEF Get, sharedVars
<1> QED
  BY <1>1, <1>2, MovesEffect DEF Get, RestoreTypeOK, GetPCs, sharedVars

LEMMA LookupEffect ==
    ASSUME RestoreTypeOK, NEW g \in Gets, LookupLayer(g)
    PROVE  /\ gpc[g] = "cache"
           /\ \/ /\ Dir(g) \in DOMAIN layerCache
                 /\ gpc'[g] = "transfer"
                 /\ gloc'[g] = [gloc[g] EXCEPT !.bss = layerCache[Dir(g)]]
              \/ gpc'[g] = "recipe" /\ gloc'[g] = gloc[g]
           /\ UNCHANGED <<answer, sharedVars>> /\ GetOthers(g)
           /\ RestoreTypeOK'
<1>1. UNCHANGED <<answer, sharedVars>> /\ gloc[g] \in GetLocal /\ gpc[g] = "cache"
  BY DEF LookupLayer, sharedVars, RestoreTypeOK
<1>2. CASE Dir(g) \in DOMAIN layerCache /\ Moves(g, "transfer", [gloc[g] EXCEPT !.bss = layerCache[Dir(g)]])
  <2>1. [gloc[g] EXCEPT !.bss = layerCache[Dir(g)]] \in GetLocal
    BY <1>1, <1>2, LocalUpdates DEF RestoreTypeOK, IsMap
  <2> QED
    BY <1>1, <1>2, <2>1, MovesEffect DEF RestoreTypeOK, GetPCs, sharedVars
<1>3. CASE Moves(g, "recipe", gloc[g])
  BY <1>1, <1>3, MovesEffect DEF RestoreTypeOK, GetPCs, sharedVars
<1> QED
  BY <1>1, <1>2, <1>3 DEF LookupLayer, GetGoto, Moves, RestoreTypeOK

LEMMA RecipeEffect ==
    ASSUME TypeInv, RestoreTypeOK, NEW g \in Gets, ReadLayerRecipe(g)
    PROVE  /\ gpc[g] = "recipe"
           /\ \/ /\ g.layer \in DOMAIN layerRecipe
                 /\ gpc'[g] = "load"
                 /\ gloc'[g] = [gloc[g] EXCEPT !.hosts = layerRecipe[g.layer], !.sawRecipe = TRUE]
              \/ gpc'[g] = "fallback" /\ gloc'[g] = gloc[g]
           /\ UNCHANGED <<answer, sharedVars>> /\ GetOthers(g)
           /\ RestoreTypeOK'
<1>1. UNCHANGED <<answer, sharedVars>> /\ gloc[g] \in GetLocal /\ gpc[g] = "recipe"
  BY DEF ReadLayerRecipe, sharedVars, RestoreTypeOK
<1> DEFINE l == [gloc[g] EXCEPT !.hosts = layerRecipe[g.layer], !.sawRecipe = TRUE]
<1>2. \/ g.layer \in DOMAIN layerRecipe /\ Moves(g, "load", l)
      \/ Moves(g, "fallback", gloc[g])
  BY DEF ReadLayerRecipe, StatLayerRecipe, Stat, GetGoto, Moves, RestoreTypeOK
<1>3. CASE g.layer \in DOMAIN layerRecipe /\ Moves(g, "load", l)
  <2>1. layerRecipe[g.layer] \in SUBSET Hosts
    BY <1>3 DEF TypeInv, TypeOK, MetadataTypeOK, IsMap
  <2>2. l \in GetLocal
    BY <1>1, <2>1, LocalUpdates
  <2> HIDE DEF l
  <2>3. gpc'[g] = "load" /\ gloc'[g] = l /\ GetOthers(g) /\ RestoreTypeOK'
    BY <1>1, <1>3, <2>2, MovesEffect DEF RestoreTypeOK, GetPCs, sharedVars
  <2> QED
    BY <1>1, <1>3, <2>3 DEF l
<1>4. CASE Moves(g, "fallback", gloc[g])
  BY <1>1, <1>4, MovesEffect DEF RestoreTypeOK, GetPCs, sharedVars
<1> QED
  BY <1>2, <1>3, <1>4

LEMMA LoadEffect ==
    ASSUME RestoreTypeOK, NEW g \in Gets, LoadOrStore(g)
    PROVE  /\ gpc[g] = "load" /\ gloc'[g] = gloc[g]
           /\ \/ Dir(g) \in DOMAIN restoring /\ gpc'[g] = "wait"
              \/ gpc'[g] = "lock"
           /\ DOMAIN restoring \subseteq DOMAIN restoring'
           /\ UNCHANGED <<answer, locked, gotta, layerCache, chunkCache>> /\ GetOthers(g)
           /\ RestoreTypeOK'
<1>1. /\ UNCHANGED <<answer, locked, gotta, layerCache, chunkCache>>
      /\ gloc[g] \in GetLocal /\ gpc[g] = "load"
  BY DEF LoadOrStore, RestoreTypeOK
<1>2. IsMap(restoring', Servers \X Layers, Gets) /\ DOMAIN restoring \subseteq DOMAIN restoring'
  <2>1. IsMap(Put(restoring, Dir(g), g), Servers \X Layers, Gets)
    BY GetFacts, PutMap DEF RestoreTypeOK
  <2>2. DOMAIN Put(restoring, Dir(g), g) = DOMAIN restoring \cup {Dir(g)}
    BY PutFacts
  <2>3. restoring' = restoring \/ restoring' = Put(restoring, Dir(g), g)
    BY DEF LoadOrStore
  <2>4. IsMap(restoring, Servers \X Layers, Gets)
    BY DEF RestoreTypeOK
  <2> QED
    BY <2>1, <2>2, <2>3, <2>4
<1>3. \/ Dir(g) \in DOMAIN restoring /\ Moves(g, "wait", gloc[g])
      \/ Moves(g, "lock", gloc[g])
  BY DEF LoadOrStore, GetGoto, Moves, RestoreTypeOK
<1> QED
  BY <1>1, <1>2, <1>3, MovesEffect DEF RestoreTypeOK, GetPCs

LEMMA WaitEffect ==
    ASSUME RestoreTypeOK, NEW g \in Gets, WaitLayer(g)
    PROVE  /\ gpc[g] = "wait"
           /\ \/ /\ restoring[Dir(g)] \in gotta
                 /\ gpc'[g] = "transfer"
                 /\ gloc'[g] = [gloc[g] EXCEPT !.bss = Gotta, !.cok = TRUE]
              \/ gpc'[g] = "lock" /\ gloc'[g] = gloc[g]
           /\ UNCHANGED <<answer, sharedVars>> /\ GetOthers(g)
           /\ RestoreTypeOK'
<1>1. UNCHANGED <<answer, sharedVars>> /\ gloc[g] \in GetLocal /\ gpc[g] = "wait"
  BY DEF WaitLayer, sharedVars, RestoreTypeOK
<1> DEFINE l == [gloc[g] EXCEPT !.bss = Gotta, !.cok = TRUE]
<1>2. \/ restoring[Dir(g)] \in gotta /\ Moves(g, "transfer", l)
      \/ Moves(g, "lock", gloc[g])
  BY DEF WaitLayer, GetGoto, Moves, RestoreTypeOK
<1>3. l \in GetLocal
  BY <1>1, LocalUpdates, AnswerTypes
<1> HIDE DEF l
<1>4. /\ \/ restoring[Dir(g)] \in gotta /\ gpc'[g] = "transfer" /\ gloc'[g] = l
         \/ gpc'[g] = "lock" /\ gloc'[g] = gloc[g]
      /\ GetOthers(g) /\ RestoreTypeOK'
  BY <1>1, <1>2, <1>3, MovesEffect DEF RestoreTypeOK, GetPCs, sharedVars
<1> QED
  BY <1>1, <1>4 DEF l

LEMMA LockEffect ==
    ASSUME RestoreTypeOK, NEW g \in Gets, LockBuffer(g)
    PROVE  /\ gpc[g] = "lock" /\ gloc'[g] = gloc[g]
           /\ \/ Cardinality(gloc[g].hosts) = 1 /\ gpc'[g] = "slice"
              \/ Cardinality(gloc[g].hosts) # 1 /\ gpc'[g] = "fallback"
           /\ locked' = locked \cup {g}
           /\ UNCHANGED <<answer, restoring, gotta, layerCache, chunkCache>> /\ GetOthers(g)
           /\ RestoreTypeOK'
<1>1. /\ UNCHANGED <<answer, restoring, gotta, layerCache, chunkCache>>
      /\ gloc[g] \in GetLocal /\ gpc[g] = "lock" /\ locked' = locked \cup {g}
  BY DEF LockBuffer, RestoreTypeOK
<1>2. \/ Cardinality(gloc[g].hosts) = 1 /\ Moves(g, "slice", gloc[g])
      \/ Cardinality(gloc[g].hosts) # 1 /\ Moves(g, "fallback", gloc[g])
  BY DEF LockBuffer, GetGoto, Moves, RestoreTypeOK
<1> QED
  BY <1>1, <1>2, MovesEffect DEF RestoreTypeOK, GetPCs

LEMMA SliceEffect ==
    ASSUME TypeInv, RestoreTypeOK, NEW g \in Gets, ReadSliceRecipe(g)
    PROVE  /\ gpc[g] = "slice"
           /\ \/ /\ <<g.layer, g.srv>> \in DOMAIN sliceRecipe
                 /\ sliceRecipe[<<g.layer, g.srv>>] # <<>>
                 /\ gpc'[g] = "pack"
                 /\ gloc'[g] = [gloc[g] EXCEPT !.files = sliceRecipe[<<g.layer, g.srv>>]]
                 /\ UNCHANGED <<locked, gotta>>
              \/ /\ \/ faults' > 0
                    \/ <<g.layer, g.srv>> \notin DOMAIN sliceRecipe
                    \/ sliceRecipe[<<g.layer, g.srv>>] = <<>>
                 /\ gpc'[g] = "transfer"
                 /\ gloc'[g] = [gloc[g] EXCEPT !.bss = Gotta, !.cok = TRUE]
                 /\ gotta' = gotta \cup {g}
                 /\ locked' = locked \ {g}
           /\ UNCHANGED <<answer, restoring, layerCache, chunkCache>> /\ GetOthers(g)
           /\ RestoreTypeOK'
<1> DEFINE key == <<g.layer, g.srv>>
           l == [gloc[g] EXCEPT !.files = sliceRecipe[key]]
           m == [gloc[g] EXCEPT !.bss = Gotta, !.cok = TRUE]
<1>1. /\ UNCHANGED <<answer, restoring, layerCache, chunkCache>>
      /\ gloc[g] \in GetLocal /\ gpc[g] = "slice" /\ faults \in Nat
  BY DEF ReadSliceRecipe, RestoreTypeOK, TypeInv, TypeOK, MetadataTypeOK
<1>2. \/ /\ key \in DOMAIN sliceRecipe /\ sliceRecipe[key] # <<>>
         /\ Moves(g, "pack", l)
         /\ UNCHANGED <<locked, gotta>>
      \/ /\ faults' > 0 \/ key \notin DOMAIN sliceRecipe \/ sliceRecipe[key] = <<>>
         /\ Moves(g, "transfer", m)
         /\ gotta' = gotta \cup {g}
         /\ locked' = locked \ {g}
  <2>1. PICK reply \in StatReplies :
           /\ Stat(sliceRecipe, key, reply)
           /\ IF reply = "ok" /\ sliceRecipe[key] # <<>>
              THEN /\ gloc' = [gloc EXCEPT ![g].files = sliceRecipe[key]]
                   /\ GetGoto(g, "pack")
                   /\ UNCHANGED <<locked, gotta>>
              ELSE /\ gloc' = [gloc EXCEPT ![g].bss = Gotta, ![g].cok = TRUE]
                   /\ gotta' = gotta \cup {g}
                   /\ locked' = locked \ {g}
                   /\ GetGoto(g, "transfer")
    BY DEF ReadSliceRecipe, StatSliceRecipe
  <2>2. CASE reply = "ok" /\ sliceRecipe[key] # <<>>
    BY <2>1, <2>2 DEF Stat, GetGoto, Moves, RestoreTypeOK
  <2>3. CASE ~(reply = "ok" /\ sliceRecipe[key] # <<>>)
    <3>1. faults' > 0 \/ key \notin DOMAIN sliceRecipe \/ sliceRecipe[key] = <<>>
      BY <1>1, <2>1, <2>3 DEF Stat, StatReplies, RedisError
    <3> QED
      BY <2>1, <2>3, <3>1 DEF GetGoto, Moves, RestoreTypeOK
  <2> QED
    BY <2>2, <2>3
<1>3. key \in DOMAIN sliceRecipe => l \in GetLocal
  <2>1. key \in DOMAIN sliceRecipe => sliceRecipe[key] \in Seq(SliceEntry)
    BY DEF TypeInv, TypeOK, MetadataTypeOK, IsMap
  <2> QED
    BY <1>1, <2>1, LocalUpdates
<1>4. m \in GetLocal
  BY <1>1, LocalUpdates, AnswerTypes
<1> HIDE DEF l, m, key
<1>5. /\ \/ /\ key \in DOMAIN sliceRecipe /\ sliceRecipe[key] # <<>>
            /\ gpc'[g] = "pack" /\ gloc'[g] = l
            /\ UNCHANGED <<locked, gotta>>
         \/ /\ faults' > 0 \/ key \notin DOMAIN sliceRecipe \/ sliceRecipe[key] = <<>>
            /\ gpc'[g] = "transfer" /\ gloc'[g] = m
            /\ gotta' = gotta \cup {g}
            /\ locked' = locked \ {g}
      /\ GetOthers(g) /\ RestoreTypeOK'
  <2>1. CASE /\ key \in DOMAIN sliceRecipe /\ sliceRecipe[key] # <<>>
             /\ Moves(g, "pack", l)
             /\ UNCHANGED <<locked, gotta>>
    BY <1>1, <1>3, <2>1, MovesEffect DEF RestoreTypeOK, GetPCs
  <2>2. CASE /\ faults' > 0 \/ key \notin DOMAIN sliceRecipe \/ sliceRecipe[key] = <<>>
             /\ Moves(g, "transfer", m)
             /\ gotta' = gotta \cup {g}
             /\ locked' = locked \ {g}
    BY <1>1, <1>4, <2>2, MovesEffect DEF RestoreTypeOK, GetPCs
  <2> QED
    BY <1>2, <2>1, <2>2
<1> QED
  BY <1>1, <1>5 DEF l, m, key

LEMMA PackEffect ==
    ASSUME TypeInv, RestoreTypeOK, NEW g \in Gets, PackFile(g),
           NEW path, path = gloc[g].files[gloc[g].i].path
    PROVE  /\ gpc[g] = "pack" /\ gloc[g].i <= Len(gloc[g].files)
           /\ \/ /\ <<g.srv, path>> \in DOMAIN chunkCache
                 /\ gloc'[g] = [gloc[g] EXCEPT !.buf = @ \o chunkCache[<<g.srv, path>>], !.i = @ + 1]
                 /\ gpc'[g] = "pack"
                 /\ UNCHANGED <<locked, chunkCache>>
              \/ /\ path \in DOMAIN diff
                 /\ gloc'[g] = [gloc[g] EXCEPT !.buf = @ \o diff[path], !.i = @ + 1]
                 /\ gpc'[g] = "pack"
                 /\ chunkCache' = Put(chunkCache, <<g.srv, path>>, diff[path])
                 /\ UNCHANGED locked
              \/ /\ ~(path \in DOMAIN diff /\ path[1].srv = g.srv)
                 /\ gloc'[g] = gloc[g] /\ gpc'[g] = "fallback"
                 /\ locked' = locked \ {g}
                 /\ UNCHANGED chunkCache
           /\ UNCHANGED <<answer, restoring, gotta, layerCache>> /\ GetOthers(g)
           /\ RestoreTypeOK'
<1> DEFINE key == <<g.srv, path>>
           M(chunk) == [gloc[g] EXCEPT !.buf = @ \o chunk, !.i = @ + 1]
<1>1. /\ UNCHANGED <<answer, restoring, gotta, layerCache>>
      /\ gloc[g] \in GetLocal /\ gpc[g] = "pack" /\ gloc[g].i <= Len(gloc[g].files)
  BY DEF PackFile, RestoreTypeOK
<1>2. \/ /\ key \in DOMAIN chunkCache
         /\ Moves(g, "pack", M(chunkCache[key]))
         /\ UNCHANGED <<locked, chunkCache>>
      \/ /\ path \in DOMAIN diff
         /\ Moves(g, "pack", M(diff[path]))
         /\ chunkCache' = Put(chunkCache, key, diff[path])
         /\ UNCHANGED locked
      \/ /\ ~(path \in DOMAIN diff /\ path[1].srv = g.srv)
         /\ Moves(g, "fallback", gloc[g])
         /\ locked' = locked \ {g}
         /\ UNCHANGED chunkCache
  <2>1. CASE /\ key \in DOMAIN chunkCache
             /\ gloc' = [gloc EXCEPT ![g].buf = @ \o chunkCache[key], ![g].i = @ + 1]
             /\ UNCHANGED <<gpc, locked, chunkCache>>
    BY <1>1, <2>1 DEF Moves, RestoreTypeOK
  <2>2. CASE /\ path \in DOMAIN diff
             /\ gloc' = [gloc EXCEPT ![g].buf = @ \o diff[path], ![g].i = @ + 1]
             /\ chunkCache' = Put(chunkCache, key, diff[path])
             /\ UNCHANGED <<gpc, locked>>
    BY <1>1, <2>2 DEF Moves, RestoreTypeOK
  <2>3. CASE /\ ~(path \in DOMAIN diff /\ path[1].srv = g.srv)
             /\ locked' = locked \ {g}
             /\ GetGoto(g, "fallback")
             /\ UNCHANGED <<gloc, chunkCache>>
    BY <1>1, <2>3 DEF Moves, GetGoto, RestoreTypeOK
  <2> QED
    BY <2>1, <2>2, <2>3 DEF PackFile
<1>3. CASE /\ key \in DOMAIN chunkCache
           /\ Moves(g, "pack", M(chunkCache[key]))
           /\ UNCHANGED <<locked, chunkCache>>
  <2>1. chunkCache[key] \in Seq(Blocks)
    BY <1>3 DEF RestoreTypeOK, IsMap, Chunk
  <2>2. M(chunkCache[key]) \in GetLocal
    BY <1>1, <2>1, LocalUpdates
  <2> HIDE DEF M, key
  <2>3. gpc'[g] = "pack" /\ gloc'[g] = M(chunkCache[key]) /\ GetOthers(g) /\ RestoreTypeOK'
    BY <1>1, <1>3, <2>2, MovesEffect DEF RestoreTypeOK, GetPCs
  <2> QED
    BY <1>1, <1>3, <2>3 DEF M, key
<1>4. CASE /\ path \in DOMAIN diff
           /\ Moves(g, "pack", M(diff[path]))
           /\ chunkCache' = Put(chunkCache, key, diff[path])
           /\ UNCHANGED locked
  <2>1. diff[path] \in Seq(Blocks) /\ path \in Path
    BY <1>4 DEF TypeInv, TypeOK, StoreTypeOK, IsMap, Chunk
  <2>2. M(diff[path]) \in GetLocal
    BY <1>1, <2>1, LocalUpdates
  <2>3. IsMap(chunkCache', Servers \X Path, Chunk)
    <3>1. key \in Servers \X Path /\ diff[path] \in Chunk
      BY <2>1, GetFacts DEF Chunk
    <3> HIDE DEF key
    <3> QED
      BY <1>4, <3>1, PutMap DEF RestoreTypeOK
  <2> HIDE DEF M, key
  <2>4. gpc'[g] = "pack" /\ gloc'[g] = M(diff[path]) /\ GetOthers(g) /\ RestoreTypeOK'
    BY <1>1, <1>4, <2>2, <2>3, MovesEffect DEF RestoreTypeOK, GetPCs
  <2> QED
    BY <1>1, <1>4, <2>4 DEF M, key
<1>5. CASE /\ ~(path \in DOMAIN diff /\ path[1].srv = g.srv)
           /\ Moves(g, "fallback", gloc[g])
           /\ locked' = locked \ {g}
           /\ UNCHANGED chunkCache
  BY <1>1, <1>5, MovesEffect DEF RestoreTypeOK, GetPCs
<1> QED
  BY <1>2, <1>3, <1>4, <1>5

LEMMA EncodeEffect ==
    ASSUME RestoreTypeOK, NEW g \in Gets, Encode(g)
    PROVE  /\ gpc[g] = "pack" /\ gloc[g].i > Len(gloc[g].files)
           /\ \/ /\ gloc[g].buf = Content[g.layer] /\ g.layer \notin NotGzip
                 /\ gpc'[g] = "transfer"
                 /\ gloc'[g] = [gloc[g] EXCEPT !.bss = Bytes(gloc[g].buf), !.cok = TRUE]
              \/ /\ gloc[g].buf # Content[g.layer] \/ g.layer \in NotGzip
                 /\ gpc'[g] = "transfer"
                 /\ gloc'[g] = [gloc[g] EXCEPT !.bss = Garbled, !.cok = TRUE]
              \/ /\ gloc[g].buf # Content[g.layer] \/ g.layer \in NotGzip
                 /\ gpc'[g] = "fallback" /\ gloc'[g] = gloc[g]
           /\ locked' = locked \ {g}
           /\ UNCHANGED <<answer, restoring, gotta, layerCache, chunkCache>> /\ GetOthers(g)
           /\ RestoreTypeOK'
<1> DEFINE l == [gloc[g] EXCEPT !.bss = Bytes(gloc[g].buf), !.cok = TRUE]
           m == [gloc[g] EXCEPT !.bss = Garbled, !.cok = TRUE]
           wrong == gloc[g].buf # Content[g.layer] \/ g.layer \in NotGzip
<1>1. /\ UNCHANGED <<answer, restoring, gotta, layerCache, chunkCache>>
      /\ gloc[g] \in GetLocal /\ gpc[g] = "pack" /\ gloc[g].i > Len(gloc[g].files)
      /\ locked' = locked \ {g}
  BY DEF Encode, RestoreTypeOK
<1>2. \/ /\ gloc[g].buf = Content[g.layer] /\ g.layer \notin NotGzip
         /\ Moves(g, "transfer", l)
      \/ wrong /\ Moves(g, "transfer", m)
      \/ wrong /\ Moves(g, "fallback", gloc[g])
  BY DEF Encode, GetGoto, Moves, RestoreTypeOK
<1>3. l \in GetLocal /\ m \in GetLocal
  <2>1. Bytes(gloc[g].buf) \in Answer /\ Garbled \in Answer
    BY <1>1, AnswerTypes DEF GetLocal
  <2> QED
    BY <1>1, <2>1, LocalUpdates
<1> HIDE DEF l, m, wrong
<1>4. /\ \/ /\ gloc[g].buf = Content[g.layer] /\ g.layer \notin NotGzip
            /\ gpc'[g] = "transfer" /\ gloc'[g] = l
         \/ wrong /\ gpc'[g] = "transfer" /\ gloc'[g] = m
         \/ wrong /\ gpc'[g] = "fallback" /\ gloc'[g] = gloc[g]
      /\ GetOthers(g) /\ RestoreTypeOK'
  BY <1>1, <1>2, <1>3, MovesEffect DEF RestoreTypeOK, GetPCs
<1> QED
  BY <1>1, <1>4 DEF l, m, wrong

LEMMA FallbackEffect ==
    ASSUME RestoreTypeOK, NEW g \in Gets, Fallback(g)
    PROVE  /\ gpc[g] = "fallback"
           /\ \/ /\ Dir(g) \in layerFile
                 /\ gpc'[g] = "transfer"
                 /\ gloc'[g] = [gloc[g] EXCEPT !.bss = Bytes(Content[g.layer])]
                 /\ UNCHANGED answer
              \/ /\ Dir(g) \notin layerFile
                 /\ gpc'[g] = "done" /\ gloc'[g] = gloc[g] /\ answer'[g] = Failed
           /\ UNCHANGED sharedVars /\ GetOthers(g)
           /\ RestoreTypeOK'
<1> DEFINE l == [gloc[g] EXCEPT !.bss = Bytes(Content[g.layer])]
<1>1. UNCHANGED sharedVars /\ gloc[g] \in GetLocal /\ gpc[g] = "fallback"
  BY DEF Fallback, RestoreTypeOK, sharedVars
<1>2. \/ /\ Dir(g) \in layerFile
         /\ Moves(g, "transfer", l)
         /\ UNCHANGED answer
      \/ /\ Dir(g) \notin layerFile
         /\ Moves(g, "done", gloc[g])
         /\ answer' = [answer EXCEPT ![g] = Failed]
  BY DEF Fallback, GetGoto, Moves, RestoreTypeOK
<1>3. l \in GetLocal
  <2>1. Bytes(Content[g.layer]) \in Answer
    BY GetFacts, ContentAssumption, AnswerTypes
  <2> QED
    BY <1>1, <2>1, LocalUpdates
<1> HIDE DEF l
<1>4. CASE Dir(g) \in layerFile /\ Moves(g, "transfer", l) /\ UNCHANGED answer
  <2>1. gpc'[g] = "transfer" /\ gloc'[g] = l /\ GetOthers(g) /\ RestoreTypeOK'
    BY <1>1, <1>3, <1>4, MovesEffect DEF RestoreTypeOK, GetPCs, sharedVars
  <2> QED
    BY <1>1, <1>4, <2>1 DEF l
<1>5. CASE /\ Dir(g) \notin layerFile /\ Moves(g, "done", gloc[g])
           /\ answer' = [answer EXCEPT ![g] = Failed]
  <2>1. answer' \in [Gets -> Answer] /\ answer'[g] = Failed
    BY <1>5, AnswerTypes DEF RestoreTypeOK
  <2>2. gpc' \in [Gets -> GetPCs] /\ gloc' \in [Gets -> GetLocal] /\ gpc'[g] = "done" /\ gloc'[g] = gloc[g]
    BY <1>1, <1>5, MovesEffect DEF GetPCs
  <2>3. GetOthers(g)
    BY <1>5 DEF GetOthers, Moves, RestoreTypeOK
  <2> QED
    BY <1>1, <1>5, <2>1, <2>2, <2>3 DEF RestoreTypeOK, sharedVars
<1> QED
  BY <1>2, <1>4, <1>5

LEMMA TransferEffect ==
    ASSUME RestoreTypeOK, NEW g \in Gets, Transfer(g)
    PROVE  /\ gpc[g] = "transfer" /\ gpc'[g] = "statrl" /\ gloc'[g] = gloc[g]
           /\ answer'[g] = gloc[g].bss
           /\ layerCache' = layerCache \/ layerCache' = Put(layerCache, Dir(g), gloc[g].bss)
           /\ UNCHANGED <<restoring, locked, gotta, chunkCache>> /\ GetOthers(g)
           /\ RestoreTypeOK'
<1>1. /\ UNCHANGED <<restoring, locked, gotta, chunkCache>>
      /\ gloc[g] \in GetLocal /\ gpc[g] = "transfer"
      /\ Moves(g, "statrl", gloc[g])
      /\ answer' = [answer EXCEPT ![g] = gloc[g].bss]
      /\ layerCache' = layerCache \/ layerCache' = Put(layerCache, Dir(g), gloc[g].bss)
  BY DEF Transfer, RestoreTypeOK, GetGoto, Moves
<1>2. gloc[g].bss \in Answer
  BY <1>1 DEF GetLocal
<1>3. answer' \in [Gets -> Answer] /\ answer'[g] = gloc[g].bss
  BY <1>1, <1>2 DEF RestoreTypeOK
<1>4. gpc' \in [Gets -> GetPCs] /\ gloc' \in [Gets -> GetLocal] /\ gpc'[g] = "statrl" /\ gloc'[g] = gloc[g]
  BY <1>1, MovesEffect DEF GetPCs
<1>5. GetOthers(g)
  BY <1>1 DEF GetOthers, Moves, RestoreTypeOK
<1>6. IsMap(Put(layerCache, Dir(g), gloc[g].bss), Servers \X Layers, Answer)
  BY <1>2, GetFacts, PutMap DEF RestoreTypeOK
<1>7. IsMap(layerCache', Servers \X Layers, Answer)
  BY <1>1, <1>6 DEF RestoreTypeOK
<1> QED
  BY <1>1, <1>3, <1>4, <1>5, <1>7 DEF RestoreTypeOK

LEMMA ReadRLMapEffect ==
    ASSUME TypeInv, RestoreTypeOK, NEW g \in Gets, ReadRLMap(g)
    PROVE  /\ gpc[g] = "statrl" /\ gpc'[g] = "setrl"
           /\ \E rl \in RLEntry : gloc'[g] = [gloc[g] EXCEPT !.rl = rl]
           /\ UNCHANGED <<answer, sharedVars>> /\ GetOthers(g)
           /\ RestoreTypeOK'
<1>1. UNCHANGED <<answer, sharedVars>> /\ gloc[g] \in GetLocal /\ gpc[g] = "statrl" /\ g.layer \in Layers
  BY GetFacts DEF ReadRLMap, RestoreTypeOK, sharedVars
<1>2. PICK reply \in StatReplies :
         /\ Stat(rlmap, g.repo, reply)
         /\ LET entry == IF reply = "ok" THEN rlmap[g.repo] ELSE EmptyRLEntry IN
            gloc' = [gloc EXCEPT ![g].rl = [entry EXCEPT ![g.layer] = @ + 1]]
  BY DEF ReadRLMap, StatRLMapEntry
<1> DEFINE entry == IF reply = "ok" THEN rlmap[g.repo] ELSE EmptyRLEntry
           rl == [entry EXCEPT ![g.layer] = @ + 1]
           l == [gloc[g] EXCEPT !.rl = rl]
<1>3. entry \in RLEntry
  BY <1>2 DEF Stat, TypeInv, TypeOK, MetadataTypeOK, IsMap, RLEntry, EmptyRLEntry
<1>4. rl \in RLEntry
  BY <1>1, <1>3 DEF RLEntry
<1>5. gloc' = [gloc EXCEPT ![g].rl = rl]
  BY <1>2
<1> HIDE DEF rl
<1>6. Moves(g, "setrl", l)
  BY <1>5 DEF Moves, ReadRLMap, GetGoto, RestoreTypeOK
<1>7. l \in GetLocal
  BY <1>1, <1>4, LocalUpdates
<1> HIDE DEF l
<1>8. gpc'[g] = "setrl" /\ gloc'[g] = l /\ GetOthers(g) /\ RestoreTypeOK'
  BY <1>1, <1>6, <1>7, MovesEffect DEF RestoreTypeOK, GetPCs, sharedVars
<1> QED
  BY <1>1, <1>4, <1>8 DEF l

LEMMA WriteRLMapEffect ==
    ASSUME RestoreTypeOK, NEW g \in Gets, WriteRLMap(g)
    PROVE  /\ gpc[g] = "setrl" /\ gpc'[g] = "done"
           /\ gloc'[g] = [NoGetLocal EXCEPT !.sawRecipe = gloc[g].sawRecipe]
           /\ UNCHANGED <<answer, sharedVars>> /\ GetOthers(g)
           /\ RestoreTypeOK'
<1> DEFINE l == [NoGetLocal EXCEPT !.sawRecipe = gloc[g].sawRecipe]
<1>1. UNCHANGED <<answer, sharedVars>> /\ gloc[g] \in GetLocal /\ gpc[g] = "setrl"
  BY DEF WriteRLMap, RestoreTypeOK, sharedVars
<1>2. Moves(g, "done", l)
  BY DEF Moves, WriteRLMap, GetGoto
<1>3. l \in GetLocal
  BY <1>1, LocalUpdates
<1> HIDE DEF l
<1>4. gpc'[g] = "done" /\ gloc'[g] = l /\ GetOthers(g) /\ RestoreTypeOK'
  BY <1>1, <1>2, <1>3, MovesEffect DEF RestoreTypeOK, GetPCs, sharedVars
<1> QED
  BY <1>1, <1>4 DEF l

\* When a process dies its GETs end, and what it had stored in memory is gone.
LEMMA RestoreDiesEffect ==
    ASSUME RestoreTypeOK, NEW s \in Servers, RestoreDies(s)
    PROVE  /\ \A g \in Gets : \/ gpc'[g] = gpc[g] /\ gloc'[g] = gloc[g]
                              \/ GetActive(g) /\ gpc'[g] = "dead" /\ gloc'[g] = NoGetLocal
           /\ \A g \in Gets : g.srv # s => gpc'[g] = gpc[g] /\ gloc'[g] = gloc[g]
           /\ \A g \in Gets : g.srv = s => gpc'[g] \in {"idle", "done", "dead"}
           /\ \A d \in DOMAIN restoring : d[1] # s => d \in DOMAIN restoring'
           /\ gotta' \subseteq gotta
           /\ \A d \in DOMAIN layerCache' : d \in DOMAIN layerCache /\ layerCache'[d] = layerCache[d]
           /\ UNCHANGED answer
           /\ RestoreTypeOK'
<1>1. gpc' \in [Gets -> GetPCs] /\ gloc' \in [Gets -> GetLocal]
  BY NoGetLocalType DEF RestoreDies, RestoreTypeOK, GetPCs
<1>2. /\ IsMap(restoring', Servers \X Layers, Gets)
      /\ IsMap(layerCache', Servers \X Layers, Answer)
      /\ IsMap(chunkCache', Servers \X Path, Chunk)
  BY DropMap DEF RestoreDies, RestoreTypeOK
<1>3. RestoreTypeOK'
  BY <1>1, <1>2 DEF RestoreDies, RestoreTypeOK
<1>4. \A d \in DOMAIN restoring : d[1] # s => d \in DOMAIN restoring'
  <2>1. restoring' = Drop(restoring, {s} \X Layers)
    BY DEF RestoreDies
  <2>2. DOMAIN restoring' = DOMAIN restoring \ ({s} \X Layers)
    BY <2>1 DEF Drop
  <2> QED
    BY <2>2
<1>5. \A d \in DOMAIN layerCache' : d \in DOMAIN layerCache /\ layerCache'[d] = layerCache[d]
  <2>1. layerCache' = Drop(layerCache, {s} \X Layers)
    BY DEF RestoreDies
  <2> QED
    BY <2>1 DEF Drop
<1> QED
  BY <1>3, <1>4, <1>5 DEF RestoreDies, GetActive

-----------------------------------------------------------------------------
(* The steps of PushPull. *)

\* What no step takes back: a recipe, a fault, a rare event.
Monotone ==
    /\ MetadataGrows
    /\ faults' \in Nat /\ faults' >= faults
    /\ faults' = 0 => faults = 0
    /\ Undisturbed' => Undisturbed

LEMMA DedupMonotone ==
    ASSUME TypeInv, NEW w \in Pushes, Push(w) \/ DedupStep(w)
    PROVE  Monotone
<1>1. MetadataGrows /\ UNCHANGED crashes
  BY StepGrows, NoCrash
<1>2. faults \in Nat
  BY DEF TypeInv, TypeOK, MetadataTypeOK
<1>3. faults' \in Nat /\ faults' >= faults /\ events \subseteq events'
  <2>1. CASE Push(w)
    BY <1>2, <2>1 DEF Push, metadataVars
  <2>2. CASE OpenLayer(w) \/ StatRLMap(w) \/ SetRLMap(w) \/ Decode(w) \/ SplitFileChunk(w)
    BY <2>2, EarlyEffect
  <2>3. CASE ListUnpack(w)
    BY <1>2, <2>3, ListUnpackEffect DEF metadataVars
  <2>4. CASE CheckChunk(w)
    BY <2>4, CheckChunkEffect
  <2>5. CASE DropDuplicate(w)
    <3>1. UNCHANGED faults
      BY <2>5 DEF DropDuplicate, metadataVars
    <3>2. events \subseteq events'
      BY <2>5, DropDuplicateEffect
    <3> QED
      BY <1>2, <3>1, <3>2
  <2>6. CASE RenameUnique(w)
    <3>1. UNCHANGED faults
      BY <2>6 DEF RenameUnique, metadataVars
    <3>2. events \subseteq events'
      BY <2>6, RenameUniqueEffect
    <3> QED
      BY <1>2, <3>1, <3>2
  <2>7. CASE Decide(w)
    BY <1>2, <2>7, DecideEffect DEF metadataVars
  <2>8. CASE RegisterFile(w)
    BY <2>8, RegisterFileEffect
  <2>9. CASE AddExisting(w)
    BY <2>9, AddExistingEffect
  <2>10. CASE SetSlice(w)
    BY <2>10, SetSliceEffect
  <2>11. CASE SetEmptyRecipe(w) \/ SetLayer(w)
    BY <2>11, LayerEffect
  <2>12. CASE Finish(w)
    <3>1. UNCHANGED faults
      BY <2>12 DEF Finish, metadataVars
    <3>2. events \subseteq events'
      BY <2>12, FinishEffect
    <3> QED
      BY <1>2, <3>1, <3>2
  <2> QED
    BY <2>1, <2>2, <2>3, <2>4, <2>5, <2>6, <2>7, <2>8, <2>9, <2>10, <2>11, <2>12 DEF DedupStep
<1>4. faults' = 0 => faults = 0
  BY <1>2, <1>3
<1> QED
  BY <1>1, <1>3, <1>4 DEF Monotone, Undisturbed

LEMMA GetMonotone ==
    ASSUME TypeInv, GetFrame
    PROVE  Monotone
<1>1. faults \in Nat
  BY DEF TypeInv, TypeOK, MetadataTypeOK
<1>2. faults' = 0 => faults = 0
  BY <1>1 DEF GetFrame
<1> QED
  BY <1>2, GrowsUnchanged DEF GetFrame, Monotone, Undisturbed, historyVars

LEMMA DiesMonotone ==
    ASSUME TypeInv, NEW s \in Servers, ProcessDies(s)
    PROVE  Monotone /\ ~Undisturbed'
<1>1. /\ UNCHANGED metadataVars /\ crashes' > 0 /\ crashes' # 0
      /\ faults \in Nat
  BY DiesEffect DEF TypeInv, TypeOK, MetadataTypeOK
<1> QED
  BY <1>1, GrowsUnchanged DEF Monotone, Undisturbed, metadataVars

DedupGoes == (\E w \in Pushes : Push(w) \/ DedupStep(w)) /\ UNCHANGED getVars
ServerDies == \E s \in Servers : ProcessDies(s) /\ RestoreDies(s)
GetGoes(g) == (Get(g) \/ GetStep(g)) /\ GetFrame

\* A step is one of a dedup, the death of a process, or one of a GET.
LEMMA StepKinds ==
    ASSUME TypeInv, RestoreTypeOK, [PPNext]_allVars
    PROVE  DedupGoes \/ ServerDies \/ (\E g \in Gets : GetGoes(g)) \/ UNCHANGED allVars
<1>1. ASSUME NEW w \in Pushes, PPPush(w) \/ PPDedup(w) \/ PPPanic(w)
      PROVE  DedupGoes \/ ServerDies
  BY <1>1, PushFacts DEF PPPush, PPDedup, PPPanic, Panic, DedupGoes, ServerDies
<1>2. ASSUME NEW s \in Servers, PPCrash(s) PROVE ServerDies
  BY <1>2 DEF PPCrash, Crash, ServerDies
<1>3. ASSUME NEW g \in Gets, PPGet(g) \/ PPServe(g) PROVE GetGoes(g)
  BY <1>3, GetKeepsFrame DEF PPGet, PPServe, GetGoes
<1> QED
  BY <1>1, <1>2, <1>3 DEF PPNext

LEMMA StepMonotone ==
    ASSUME TypeInv, RestoreTypeOK, [PPNext]_allVars
    PROVE  Monotone
<1>1. UNCHANGED allVars => Monotone
  BY GrowsUnchanged DEF allVars, vars, metadataVars, historyVars, Monotone, Undisturbed, TypeInv,
                        TypeOK, MetadataTypeOK
<1> QED
  BY <1>1, StepKinds, DedupMonotone, GetMonotone, DiesMonotone DEF DedupGoes, ServerDies, GetGoes

-----------------------------------------------------------------------------
(* The dedups and the types. *)

PPInv == DedupInv /\ RestoreTypeOK

LEMMA PPInvInit == PPInit => PPInv
<1> SUFFICES ASSUME PPInit PROVE RestoreTypeOK
  BY DedupInit DEF PPInit, PPInv
<1> QED
  BY EmptyIsMap, NoGetLocalType, AnswerTypes DEF PPInit, RestoreInit, RestoreTypeOK, GetPCs

LEMMA GetType ==
    ASSUME TypeInv, RestoreTypeOK, NEW g \in Gets, Get(g) \/ GetStep(g)
    PROVE  RestoreTypeOK'
BY GetEffect, LookupEffect, RecipeEffect, LoadEffect, WaitEffect, LockEffect, SliceEffect, PackEffect,
   EncodeEffect, FallbackEffect, TransferEffect, ReadRLMapEffect, WriteRLMapEffect DEF GetStep

LEMMA PPInvStep == PPInv /\ [PPNext]_allVars => PPInv'
<1> SUFFICES ASSUME PPInv, [PPNext]_allVars PROVE PPInv'
  OBVIOUS
<1>1. TypeInv /\ DedupInv /\ RestoreTypeOK
  BY DEF PPInv, DedupInv
<1>2. CASE DedupGoes
  <2>1. Next
    BY <1>2 DEF DedupGoes, Next
  <2>2. RestoreTypeOK'
    BY <1>1, <1>2 DEF DedupGoes, RestoreTypeOK, getVars
  <2> QED
    BY <1>1, <2>1, <2>2, DedupNext DEF PPInv
<1>3. CASE PPNext /\ ServerDies /\ ~DedupGoes /\ ~\E g \in Gets : GetGoes(g)
  <2>1. Next
    <3>1. ASSUME NEW w \in Pushes, PPPush(w) \/ PPDedup(w) PROVE FALSE
      BY <1>3, <3>1 DEF PPPush, PPDedup, DedupGoes
    <3>2. ASSUME NEW g \in Gets, PPGet(g) \/ PPServe(g) PROVE FALSE
      BY <1>1, <1>3, <3>2, GetKeepsFrame DEF PPGet, PPServe, GetGoes
    <3> QED
      BY <1>3, <3>1, <3>2 DEF PPNext, Next, PPPanic, PPCrash
  <2> QED
    BY <1>1, <1>3, <2>1, DedupNext, RestoreDiesEffect DEF PPInv, ServerDies
<1>4. CASE \E g \in Gets : GetGoes(g)
  BY <1>1, <1>4, DedupFrame, GetType DEF PPInv, GetGoes
<1>5. CASE UNCHANGED allVars
  BY <1>1, <1>5, DedupNext DEF PPInv, allVars, RestoreTypeOK, getVars
<1> QED
  BY <1>1, <1>2, <1>3, <1>4, <1>5, StepKinds

-----------------------------------------------------------------------------
(* What a GET has read. *)

\* What RecipeRead says of one GET.
OwnRead(g) ==
    /\ gpc[g] \in {"load", "wait", "lock", "slice"} => HasHosts(g)
    /\ gpc[g] = "slice" => Cardinality(gloc[g].hosts) = 1
    /\ gpc[g] \in {"idle", "cache", "recipe"} => gloc[g] = NoGetLocal
    /\ gpc[g] \in {"load", "wait", "lock", "slice"} => gloc[g].i = 1 /\ gloc[g].buf = <<>>
    /\ gpc[g] = "wait" => Dir(g) \in DOMAIN restoring

LEMMA ReadInit == PPInit => RecipeRead
BY DEF PPInit, RestoreInit, RecipeRead

\* A GET that does not move keeps what it has read.
LEMMA ReadKeeps ==
    ASSUME MetadataGrows, NEW g \in Gets, OwnRead(g), gpc'[g] = gpc[g], gloc'[g] = gloc[g],
           Dir(g) \in DOMAIN restoring => Dir(g) \in DOMAIN restoring'
    PROVE  OwnRead(g)'
BY DEF OwnRead, HasHosts, MetadataGrows, Extends

\* A GET finds in its variables what it has read of the layer recipe.
LEMMA ReadOwnStep ==
    ASSUME TypeInv, RestoreTypeOK, NEW g \in Gets, GetGoes(g), OwnRead(g)
    PROVE  OwnRead(g)'
<1>1. UNCHANGED layerRecipe
  BY DEF GetGoes, GetFrame
<1>2. CASE Get(g)
  BY <1>2, GetEffect DEF OwnRead
<1>3. CASE LookupLayer(g)
  BY <1>3, LookupEffect DEF OwnRead
<1>4. CASE ReadLayerRecipe(g)
  <2>1. CASE gpc'[g] = "load"
    <3>1. /\ gloc[g] = NoGetLocal /\ g.layer \in DOMAIN layerRecipe
          /\ gloc'[g] = [gloc[g] EXCEPT !.hosts = layerRecipe[g.layer], !.sawRecipe = TRUE]
      BY <1>4, <2>1, RecipeEffect DEF OwnRead
    <3>2. gloc'[g].hosts = layerRecipe[g.layer] /\ gloc'[g].i = 1 /\ gloc'[g].buf = <<>>
      BY <3>1 DEF NoGetLocal
    <3> QED
      BY <1>1, <2>1, <3>1, <3>2 DEF OwnRead, HasHosts
  <2>2. CASE gpc'[g] = "fallback"
    BY <2>2 DEF OwnRead
  <2> QED
    BY <1>4, <2>1, <2>2, RecipeEffect
<1>5. CASE LoadOrStore(g)
  BY <1>1, <1>5, LoadEffect DEF OwnRead, HasHosts
<1>6. CASE WaitLayer(g)
  BY <1>1, <1>6, WaitEffect DEF OwnRead, HasHosts
<1>7. CASE LockBuffer(g)
  BY <1>1, <1>7, LockEffect DEF OwnRead, HasHosts
<1>8. CASE \/ ReadSliceRecipe(g) \/ PackFile(g) \/ Encode(g) \/ Fallback(g) \/ Transfer(g)
           \/ ReadRLMap(g) \/ WriteRLMap(g)
  <2>1. gpc'[g] \in {"pack", "transfer", "fallback", "done", "statrl", "setrl"}
    BY <1>8, SliceEffect, PackEffect, EncodeEffect, FallbackEffect, TransferEffect, ReadRLMapEffect,
       WriteRLMapEffect
  <2> QED
    BY <2>1 DEF OwnRead
<1> QED
  BY <1>2, <1>3, <1>4, <1>5, <1>6, <1>7, <1>8 DEF GetGoes, GetStep

\* A GET leaves the others alone, and never takes a buffer out of the map.
LEMMA GetGoesOthers ==
    ASSUME TypeInv, RestoreTypeOK, NEW g \in Gets, GetGoes(g)
    PROVE  GetOthers(g) /\ DOMAIN restoring \subseteq DOMAIN restoring'
<1>1. GetOthers(g)
  BY GetEffect, LookupEffect, RecipeEffect, LoadEffect, WaitEffect, LockEffect, SliceEffect, PackEffect,
     EncodeEffect, FallbackEffect, TransferEffect, ReadRLMapEffect, WriteRLMapEffect DEF GetGoes, GetStep
<1>2. CASE LoadOrStore(g)
  BY <1>1, <1>2, LoadEffect
<1>3. CASE ~LoadOrStore(g)
  <2>1. UNCHANGED restoring
    BY <1>3, GetEffect, LookupEffect, RecipeEffect, WaitEffect, LockEffect, SliceEffect, PackEffect,
       EncodeEffect, FallbackEffect, TransferEffect, ReadRLMapEffect, WriteRLMapEffect
       DEF GetGoes, GetStep, sharedVars
  <2> QED
    BY <1>1, <2>1
<1> QED
  BY <1>2, <1>3

LEMMA ReadStep == TypeInv /\ RestoreTypeOK /\ RecipeRead /\ [PPNext]_allVars => RecipeRead'
<1> SUFFICES ASSUME TypeInv, RestoreTypeOK, RecipeRead, [PPNext]_allVars, NEW g \in Gets
             PROVE  OwnRead(g)'
  BY DEF RecipeRead, OwnRead
<1>1. OwnRead(g) /\ MetadataGrows
  BY StepMonotone DEF RecipeRead, OwnRead, Monotone
<1>2. CASE DedupGoes \/ UNCHANGED allVars
  BY <1>1, <1>2, ReadKeeps DEF DedupGoes, getVars, allVars
<1>3. CASE ServerDies
  <2>1. PICK s \in Servers : ProcessDies(s) /\ RestoreDies(s)
    BY <1>3 DEF ServerDies
  <2>2. CASE gpc'[g] = gpc[g] /\ gloc'[g] = gloc[g]
    <3>1. CASE g.srv = s
      <4>1. gpc'[g] \in {"idle", "done", "dead"}
        BY <2>1, <3>1, RestoreDiesEffect
      <4> QED
        BY <1>1, <2>2, <4>1 DEF OwnRead
    <3>2. CASE g.srv # s
      <4>1. Dir(g) \in DOMAIN restoring => Dir(g) \in DOMAIN restoring'
        <5>1. \A d \in DOMAIN restoring : d[1] # s => d \in DOMAIN restoring'
          BY <2>1, RestoreDiesEffect
        <5>2. Dir(g)[1] # s
          BY <3>2 DEF Dir
        <5> QED
          BY <5>1, <5>2
      <4> QED
        BY <1>1, <2>2, <4>1, ReadKeeps
    <3> QED
      BY <3>1, <3>2
  <2>3. CASE gpc'[g] = "dead"
    BY <2>3 DEF OwnRead
  <2> QED
    BY <2>1, <2>2, <2>3, RestoreDiesEffect
<1>4. ASSUME NEW q \in Gets, GetGoes(q) PROVE OwnRead(g)'
  <2>1. CASE g = q
    BY <1>1, <1>4, <2>1, ReadOwnStep
  <2>2. CASE g # q
    BY <1>1, <1>4, <2>2, GetGoesOthers, ReadKeeps DEF GetOthers
  <2> QED
    BY <2>1, <2>2
<1> QED
  BY <1>2, <1>3, <1>4, StepKinds

-----------------------------------------------------------------------------
(* The chunks of a layer, put together in order, are the layer. *)

LEMMA FirstChunksEnds ==
    ASSUME NEW l \in Layers
    PROVE  /\ FirstChunks(l, 0) = <<>>
           /\ FirstChunks(l, ChunkNum(Content[l])) = Content[l]
           /\ ChunkNum(Content[l]) \in Nat /\ ChunkNum(Content[l]) >= 1
<1> DEFINE data == Content[l]
           q == ChunkNum(data)
<1>1. data \in Seq(Blocks) /\ data # <<>> /\ Len(data) \in Nat /\ Len(data) >= 1
  BY ContentAssumption
<1>2. q \in Nat /\ q >= 1
  BY <1>1, ChunkNumPositive DEF Positive
<1>3. FirstChunks(l, 0) = <<>>
  <2>1. 0 * ChunkSize = 0
    BY SizesAssumption
  <2>2. SubSeq(data, 1, 0) = <<>>
    BY SubSeqEmpty
  <2> QED
    BY <1>1, <2>1, <2>2 DEF FirstChunks
<1>4. FirstChunks(l, q) = data
  <2>1. q * ChunkSize \in Nat /\ q * ChunkSize >= Len(data)
    BY <1>1, <1>2, ChunkBounds
  <2>2. SubSeq(data, 1, Len(data)) = data
    BY <1>1, SubSeqFull
  <2> QED
    BY <1>1, <2>1, <2>2 DEF FirstChunks
<1> QED
  BY <1>2, <1>3, <1>4

LEMMA FirstChunksGrow ==
    ASSUME NEW l \in Layers, NEW i \in ChunkIndices(l)
    PROVE  FirstChunks(l, i - 1) \o ChunkOf(l, i) = FirstChunks(l, i)
<1> DEFINE data == Content[l]
           a == (i - 1) * ChunkSize
           b == IF i * ChunkSize < Len(data) THEN i * ChunkSize ELSE Len(data)
<1>1. data \in Seq(Blocks) /\ data # <<>> /\ Len(data) \in Nat
  BY ContentAssumption
<1>2. /\ a \in Nat /\ i * ChunkSize \in Nat /\ a + 1 <= Len(data)
      /\ i * ChunkSize = a + ChunkSize
  BY <1>1, ChunkBounds DEF ChunkIndices
<1>3. ChunkSize \in Nat
  BY SizesAssumption
<1>4. FirstChunks(l, i - 1) = SubSeq(data, 1, a)
  BY <1>1, <1>2 DEF FirstChunks
<1>5. ChunkOf(l, i) = SubSeq(data, a + 1, b) /\ FirstChunks(l, i) = SubSeq(data, 1, b)
  BY DEF FirstChunks, ChunkOf, ChunkAt
<1>6. a \in 0..Len(data) /\ b \in a..Len(data)
  BY <1>1, <1>2, <1>3
<1>7. 1 \in 1..Len(data) + 1 /\ a \in 1 - 1..Len(data)
  BY <1>1, <1>6
<1> HIDE DEF data, a, b
<1>8. SubSeq(data, 1, a) \o SubSeq(data, a + 1, b) = SubSeq(data, 1, b)
  BY <1>1, <1>6, <1>7, ConcatAdjacentSubSeq
<1> QED
  BY <1>4, <1>5, <1>8

\* A layer on one host is on the host whose slice recipe the GET has read, and
\* that slice recipe lists it in order.
LEMMA RecipeInOrder ==
    ASSUME DedupInv, Undisturbed, NEW l \in Layers, NEW s \in Servers,
           l \in DOMAIN layerRecipe, Cardinality(layerRecipe[l]) = 1,
           <<l, s>> \in DOMAIN sliceRecipe, sliceRecipe[<<l, s>>] # <<>>
    PROVE  /\ Len(sliceRecipe[<<l, s>>]) = ChunkNum(Content[l])
           /\ \A i \in ChunkIndices(l) :
                 /\ ChunkOf(l, i) \in DOMAIN fileDesc
                 /\ sliceRecipe[<<l, s>>][i] = fileDesc[ChunkOf(l, i)]
<1> DEFINE x == <<l, s>>
<1>1. faults = 0 /\ Ordered /\ Whole /\ x[1] = l /\ x[2] = s
  BY OrderedIsWhole DEF Undisturbed, Ordered
<1>2. PICK h : layerRecipe[l] = {h}
  <2>1. layerRecipe[l] \subseteq Servers
    BY <1>1 DEF DedupInv, GenuineInv, HostsGenuine
  <2>2. IsFiniteSet(layerRecipe[l])
    BY <2>1, ServersAssumption, FS_Subset
  <2> QED
    BY <2>2, FS_Singleton
<1>3. \A i \in ChunkIndices(l) : ChunkOf(l, i) \in DOMAIN fileDesc /\ fileDesc[ChunkOf(l, i)].host = h
  BY <1>1, <1>2 DEF DedupInv, WholeInv, LayerRecipesWhole
<1>4. h = s
  <2>1. sliceRecipe[x] \in Seq(SliceEntry) /\ 1 \in DOMAIN sliceRecipe[x]
    <3>1. sliceRecipe[x] \in Seq(SliceEntry)
      BY DEF DedupInv, TypeInv, TypeOK, MetadataTypeOK, IsMap
    <3> QED
      BY <3>1
  <2> DEFINE des == sliceRecipe[x][1]
  <2>2. des.digest \in DOMAIN fileDesc /\ fileDesc[des.digest] = des /\ des.host = s
    BY <1>1, <2>1 DEF DedupInv, GenuineInv, RecipesGenuine, Genuine
  <2>3. OfLayer(des.digest, l)
    BY <1>1, <2>1 DEF DedupInv, WholeInv, SliceRecipesWhole
  <2> QED
    BY <1>3, <2>2, <2>3 DEF OfLayer
<1>5. x \in DOMAIN sliceRecipe /\ \A i \in ChunkIndices(x[1]) : fileDesc[ChunkOf(x[1], i)].host = x[2]
  BY <1>1, <1>3, <1>4
<1> HIDE DEF x
<1>6. /\ Len(sliceRecipe[x]) = ChunkNum(Content[x[1]])
      /\ \A i \in ChunkIndices(x[1]) : sliceRecipe[x][i] = fileDesc[ChunkOf(x[1], i)]
  BY <1>1, <1>5 DEF DedupInv, OrderInv, RecipesInOrder
<1> QED
  BY <1>1, <1>3, <1>6 DEF x

-----------------------------------------------------------------------------
(* The chunks a GET has put together. *)

\* The file a GET packs next is registered, and holds its chunk if it is on disk.
NextOnDisk(path, c) ==
    /\ c \in DOMAIN fileDesc /\ fileDesc[c].path = path
    /\ path \in DOMAIN diff => diff[path] = c

LEMMA NextChunkOnDisk ==
    ASSUME DedupInv, RestoreTypeOK, Undisturbed, NEW g \in Gets, PackInOrder(g),
           gloc[g].i <= Len(gloc[g].files)
    PROVE  NextOnDisk(gloc[g].files[gloc[g].i].path, ChunkOf(g.layer, gloc[g].i))
<1> SUFFICES ASSUME NEW path, path = gloc[g].files[gloc[g].i].path,
                    NEW c, c = ChunkOf(g.layer, gloc[g].i)
             PROVE  NextOnDisk(path, c)
  OBVIOUS
<1>1. ChunkNum(Content[g.layer]) \in Nat
  BY GetFacts, FirstChunksEnds
<1>2. gloc[g].i \in ChunkIndices(g.layer)
  BY <1>1 DEF PackInOrder, ChunkIndices
<1>3. c \in DOMAIN fileDesc /\ fileDesc[c].path = path
  BY <1>2 DEF PackInOrder
<1>4. \A d \in DOMAIN fileDesc : diff[fileDesc[d].path] = d
  BY DEF DedupInv, FileInv, LiveInv, DescriptorsLive, Undisturbed
<1> QED  BY <1>3, <1>4 DEF NextOnDisk

\* The file a GET packs next, from the disk or from the cache, is the chunk
\* that is next in the layer.
LEMMA NextChunk ==
    ASSUME DedupInv, RestoreTypeOK, CachedChunks, Undisturbed, NEW g \in Gets, PackInOrder(g),
           gloc[g].i <= Len(gloc[g].files), NEW path, path = gloc[g].files[gloc[g].i].path,
           NEW c, c = ChunkOf(g.layer, gloc[g].i)
    PROVE  /\ gloc[g].i \in ChunkIndices(g.layer)
           /\ c \in DOMAIN fileDesc /\ fileDesc[c].path = path
           /\ path \in DOMAIN diff => diff[path] = c
           /\ <<g.srv, path>> \in DOMAIN chunkCache => chunkCache[<<g.srv, path>>] = c
<1>1. /\ gloc[g].i \in ChunkIndices(g.layer)
      /\ c \in DOMAIN fileDesc /\ fileDesc[c].path = path
  <2>1. ChunkNum(Content[g.layer]) \in Nat
    BY GetFacts, FirstChunksEnds
  <2>2. gloc[g].i \in ChunkIndices(g.layer)
    BY <2>1 DEF PackInOrder, ChunkIndices
  <2> QED
    BY <2>2 DEF PackInOrder
<1>2. \A d \in DOMAIN fileDesc : diff[fileDesc[d].path] = d
  BY DEF DedupInv, FileInv, LiveInv, DescriptorsLive, Undisturbed
<1>3. ASSUME <<g.srv, path>> \in DOMAIN chunkCache PROVE chunkCache[<<g.srv, path>>] = c
  <2> DEFINE key == <<g.srv, path>>
  <2>1. key[2] = path
    OBVIOUS
  <2> HIDE DEF key
  <2>2. key \in DOMAIN chunkCache
    BY <1>3 DEF key
  <2>3. PICK d \in DOMAIN fileDesc : fileDesc[d].path = key[2] /\ chunkCache[key] = d
    BY <2>2 DEF CachedChunks
  <2>4. chunkCache[key] = c
    BY <1>1, <1>2, <2>1, <2>3
  <2> QED
    BY <2>4 DEF key
<1> QED
  BY <1>1, <1>2, <1>3

\* What a GET has put together stays as it is while other processes move.
LEMMA PackKeeps ==
    ASSUME MetadataGrows, NEW g \in Gets, PackInOrder(g), gloc'[g] = gloc[g]
    PROVE  PackInOrder(g)'
BY DEF PackInOrder, MetadataGrows, Extends

LEMMA PackedLocal ==
    ASSUME NEW l \in GetLocal, NEW chunk, NEW m, m = [l EXCEPT !.buf = @ \o chunk, !.i = @ + 1]
    PROVE  m.files = l.files /\ m.i = l.i + 1 /\ m.buf = l.buf \o chunk
BY DEF GetLocal

LEMMA PackOwnStep ==
    ASSUME DedupInv, RestoreTypeOK, ServeInv, NEW g \in Gets, GetGoes(g), Undisturbed, gpc'[g] = "pack"
    PROVE  PackInOrder(g)'
<1>1. TypeInv /\ UNCHANGED fileDesc
  BY DEF DedupInv, GetGoes, GetFrame
<1>2. g.layer \in Layers /\ g.srv \in Servers
  BY GetFacts
<1>3. CASE ReadSliceRecipe(g)
  <2>1. /\ <<g.layer, g.srv>> \in DOMAIN sliceRecipe
        /\ sliceRecipe[<<g.layer, g.srv>>] # <<>>
        /\ gpc[g] = "slice"
        /\ gloc'[g] = [gloc[g] EXCEPT !.files = sliceRecipe[<<g.layer, g.srv>>]]
    BY <1>1, <1>3, SliceEffect
  <2>2. /\ g.layer \in DOMAIN layerRecipe /\ Cardinality(layerRecipe[g.layer]) = 1
        /\ gloc[g].i = 1 /\ gloc[g].buf = <<>>
    BY <2>1 DEF ServeInv, RecipeRead, HasHosts
  <2>3. /\ gloc'[g].files = sliceRecipe[<<g.layer, g.srv>>]
        /\ gloc'[g].i = 1 /\ gloc'[g].buf = <<>>
    BY <2>1, <2>2 DEF RestoreTypeOK, GetLocal
  <2>4. /\ Len(gloc'[g].files) = ChunkNum(Content[g.layer])
        /\ \A i \in ChunkIndices(g.layer) :
              /\ ChunkOf(g.layer, i) \in DOMAIN fileDesc
              /\ gloc'[g].files[i] = fileDesc[ChunkOf(g.layer, i)]
    BY <1>2, <2>1, <2>2, <2>3, RecipeInOrder
  <2>5. /\ gloc'[g].i \in 1..(ChunkNum(Content[g.layer]) + 1)
        /\ gloc'[g].buf = FirstChunks(g.layer, gloc'[g].i - 1)
    BY <1>2, <2>3, FirstChunksEnds
  <2> QED
    BY <1>1, <2>4, <2>5 DEF PackInOrder
<1>4. CASE PackFile(g)
  <2> DEFINE path == gloc[g].files[gloc[g].i].path
             c == ChunkOf(g.layer, gloc[g].i)
             M(chunk) == [gloc[g] EXCEPT !.buf = @ \o chunk, !.i = @ + 1]
  <2>1. /\ gpc[g] = "pack" /\ gloc[g].i <= Len(gloc[g].files)
        /\ \/ /\ <<g.srv, path>> \in DOMAIN chunkCache
              /\ gloc'[g] = M(chunkCache[<<g.srv, path>>])
           \/ path \in DOMAIN diff /\ gloc'[g] = M(diff[path])
    BY <1>1, <1>4, PackEffect
  <2>2. PackInOrder(g)
    BY <2>1 DEF ServeInv, Packing
  <2>3. /\ gloc[g].i \in ChunkIndices(g.layer)
        /\ path \in DOMAIN diff => diff[path] = c
        /\ <<g.srv, path>> \in DOMAIN chunkCache => chunkCache[<<g.srv, path>>] = c
    <3>1. CachedChunks /\ gloc[g].i <= Len(gloc[g].files)
      BY <2>1 DEF ServeInv
    <3> HIDE DEF path, c
    <3>2. path = gloc[g].files[gloc[g].i].path /\ c = ChunkOf(g.layer, gloc[g].i)
      BY DEF path, c
    <3> QED  BY <2>2, <3>1, <3>2, NextChunk
  <2>4. gloc'[g] = M(c)
    BY <2>1, <2>3
  <2>5. gloc'[g].files = gloc[g].files /\ gloc'[g].i = gloc[g].i + 1 /\ gloc'[g].buf = gloc[g].buf \o c
    <3>1. gloc[g] \in GetLocal
      BY DEF RestoreTypeOK
    <3> HIDE DEF c
    <3>2. gloc'[g] = [gloc[g] EXCEPT !.buf = @ \o c, !.i = @ + 1]
      BY <2>4
    <3> QED
      BY <3>1, <3>2, PackedLocal
  <2>6. gloc'[g].buf = FirstChunks(g.layer, gloc[g].i)
    BY <1>2, <2>2, <2>3, <2>5, FirstChunksGrow DEF PackInOrder
  <2>7. gloc[g].i \in Nat /\ gloc[g].i <= ChunkNum(Content[g.layer]) /\ ChunkNum(Content[g.layer]) \in Nat
    BY <1>2, <2>3, FirstChunksEnds DEF ChunkIndices
  <2>8. /\ gloc'[g].i \in 1..(ChunkNum(Content[g.layer]) + 1)
        /\ gloc'[g].i - 1 = gloc[g].i
    BY <2>5, <2>7
  <2>9. gloc'[g].buf = FirstChunks(g.layer, gloc'[g].i - 1)
    BY <2>6, <2>8
  <2> QED
    BY <1>1, <2>2, <2>5, <2>8, <2>9 DEF PackInOrder
<1> QED
  <2>1. ReadSliceRecipe(g) \/ PackFile(g)
    BY <1>1, GetEffect, LookupEffect, RecipeEffect, LoadEffect, WaitEffect, LockEffect, EncodeEffect,
       FallbackEffect, TransferEffect, ReadRLMapEffect, WriteRLMapEffect DEF GetGoes, GetStep
  <2> QED
    BY <1>3, <1>4, <2>1

LEMMA PackStep == PPInv /\ ServeInv /\ [PPNext]_allVars => Packing'
<1> SUFFICES ASSUME PPInv, ServeInv, [PPNext]_allVars, Undisturbed', NEW g \in Gets, gpc'[g] = "pack"
             PROVE  PackInOrder(g)'
  BY DEF Packing
<1>1. DedupInv /\ TypeInv /\ RestoreTypeOK
  BY DEF PPInv, DedupInv
<1>2. MetadataGrows /\ Undisturbed
  BY <1>1, StepMonotone DEF Monotone
<1>3. gpc[g] = "pack" => PackInOrder(g)
  BY <1>2 DEF ServeInv, Packing
<1>4. CASE DedupGoes \/ UNCHANGED allVars
  <2>1. gpc'[g] = gpc[g] /\ gloc'[g] = gloc[g]
    BY <1>4 DEF DedupGoes, getVars, allVars
  <2> QED
    BY <1>2, <1>3, <2>1, PackKeeps
<1>5. CASE ServerDies
  BY <1>1, <1>5, DiesMonotone DEF ServerDies
<1>6. ASSUME NEW q \in Gets, GetGoes(q) PROVE PackInOrder(g)'
  <2>1. CASE g = q
    BY <1>1, <1>2, <1>6, <2>1, PackOwnStep
  <2>2. CASE g # q
    <3>1. gpc'[g] = gpc[g] /\ gloc'[g] = gloc[g]
      BY <1>1, <1>6, <2>2, GetGoesOthers DEF GetOthers
    <3> QED
      BY <1>2, <1>3, <3>1, PackKeeps
  <2> QED
    BY <2>1, <2>2
<1> QED
  BY <1>1, <1>4, <1>5, <1>6, StepKinds

LEMMA CacheStep == PPInv /\ ServeInv /\ [PPNext]_allVars => CachedChunks'
<1> SUFFICES ASSUME PPInv, ServeInv, [PPNext]_allVars, Undisturbed', NEW key \in DOMAIN chunkCache'
             PROVE  \E c \in DOMAIN fileDesc' : fileDesc'[c].path = key[2] /\ chunkCache'[key] = c
  BY DEF CachedChunks
<1>1. DedupInv /\ TypeInv /\ RestoreTypeOK
  BY DEF PPInv, DedupInv
<1>2. MetadataGrows /\ Undisturbed
  BY <1>1, StepMonotone DEF Monotone
<1>3. CASE key \in DOMAIN chunkCache /\ chunkCache'[key] = chunkCache[key]
  <2>1. PICK c \in DOMAIN fileDesc : fileDesc[c].path = key[2] /\ chunkCache[key] = c
    BY <1>2, <1>3 DEF ServeInv, CachedChunks
  <2>2. c \in DOMAIN fileDesc' /\ fileDesc'[c] = fileDesc[c]
    BY <1>2 DEF MetadataGrows, Extends
  <2> QED
    BY <1>3, <2>1, <2>2
<1>4. CASE DedupGoes \/ UNCHANGED allVars
  <2>1. UNCHANGED chunkCache
    BY <1>4 DEF DedupGoes, getVars, allVars
  <2> QED
    BY <1>3, <2>1
<1>5. CASE ServerDies
  BY <1>1, <1>5, DiesMonotone DEF ServerDies
<1>6. ASSUME NEW g \in Gets, GetGoes(g), PackFile(g)
      PROVE  \E c \in DOMAIN fileDesc' : fileDesc'[c].path = key[2] /\ chunkCache'[key] = c
  <2> DEFINE path == gloc[g].files[gloc[g].i].path
             c == ChunkOf(g.layer, gloc[g].i)
             at == <<g.srv, path>>
  <2>1. /\ gpc[g] = "pack" /\ gloc[g].i <= Len(gloc[g].files)
        /\ \/ UNCHANGED chunkCache
           \/ path \in DOMAIN diff /\ chunkCache' = Put(chunkCache, at, diff[path])
    BY <1>1, <1>6, PackEffect
  <2>2. PackInOrder(g)
    BY <1>2, <2>1 DEF ServeInv, Packing
  <2>3. /\ c \in DOMAIN fileDesc /\ fileDesc[c].path = path
        /\ path \in DOMAIN diff => diff[path] = c
    <3>1. CachedChunks /\ gloc[g].i <= Len(gloc[g].files)
      BY <2>1 DEF ServeInv
    <3>2. DedupInv /\ RestoreTypeOK /\ Undisturbed
      BY <1>1, <1>2
    <3>3. NextOnDisk(gloc[g].files[gloc[g].i].path, ChunkOf(g.layer, gloc[g].i))
      BY <2>2, <3>1, <3>2, NextChunkOnDisk
    <3> QED  BY <3>3 DEF NextOnDisk
  <2>4. at[2] = path
    OBVIOUS
  <2> HIDE DEF path, c, at
  <2>5. CASE UNCHANGED chunkCache
    BY <1>3, <2>5
  <2>6. CASE path \in DOMAIN diff /\ chunkCache' = Put(chunkCache, at, diff[path])
    <3>1. /\ DOMAIN chunkCache' = DOMAIN chunkCache \cup {at}
          /\ chunkCache'[at] = diff[path]
          /\ \A k \in DOMAIN chunkCache : k # at => chunkCache'[k] = chunkCache[k]
      BY <2>6 DEF Put
    <3>2. CASE key = at
      <4>1. c \in DOMAIN fileDesc' /\ fileDesc'[c] = fileDesc[c]
        BY <1>2, <2>3 DEF MetadataGrows, Extends
      <4> QED
        BY <2>3, <2>4, <2>6, <3>1, <3>2, <4>1
    <3>3. CASE key # at
      BY <1>3, <3>1, <3>3
    <3> QED
      BY <3>2, <3>3
  <2> QED
    BY <2>1, <2>5, <2>6
<1>7. ASSUME NEW g \in Gets, GetGoes(g), ~PackFile(g)
      PROVE  \E c \in DOMAIN fileDesc' : fileDesc'[c].path = key[2] /\ chunkCache'[key] = c
  <2>1. UNCHANGED chunkCache
    BY <1>1, <1>7, GetEffect, LookupEffect, RecipeEffect, LoadEffect, WaitEffect, LockEffect, SliceEffect,
       EncodeEffect, FallbackEffect, TransferEffect, ReadRLMapEffect, WriteRLMapEffect
       DEF GetGoes, GetStep, sharedVars
  <2> QED
    BY <1>3, <2>1
<1> QED
  BY <1>1, <1>4, <1>5, <1>6, <1>7, StepKinds

-----------------------------------------------------------------------------
(* What a GET sends. *)

\* Where the bytes a GET is about to send come from.
LEMMA NewBytes ==
    ASSUME TypeInv, RestoreTypeOK, NEW g \in Gets, GetGoes(g)
    PROVE  \/ gloc'[g].bss = gloc[g].bss
           \/ Dir(g) \in DOMAIN layerCache /\ gloc'[g].bss = layerCache[Dir(g)]
           \/ gloc'[g].bss = Bytes(Content[g.layer])
           \/ gloc'[g].bss = NoAnswer
           \/ gloc'[g].bss = Gotta /\ (WaitLayer(g) \/ ReadSliceRecipe(g))
           \/ gloc'[g].bss = Garbled /\ Encode(g)
<1>1. gloc[g] \in GetLocal
  BY DEF RestoreTypeOK
<1>2. CASE Get(g)
  BY <1>2, GetEffect
<1>3. CASE LookupLayer(g)
  BY <1>1, <1>3, LookupEffect DEF GetLocal
<1>4. CASE ReadLayerRecipe(g)
  BY <1>1, <1>4, RecipeEffect DEF GetLocal
<1>5. CASE LoadOrStore(g)
  BY <1>5, LoadEffect
<1>6. CASE WaitLayer(g)
  BY <1>1, <1>6, WaitEffect DEF GetLocal
<1>7. CASE LockBuffer(g)
  BY <1>7, LockEffect
<1>8. CASE ReadSliceRecipe(g)
  BY <1>1, <1>8, SliceEffect DEF GetLocal
<1>9. CASE PackFile(g)
  <2>1. \/ gloc'[g] = gloc[g]
        \/ \E chunk : gloc'[g] = [gloc[g] EXCEPT !.buf = @ \o chunk, !.i = @ + 1]
    BY <1>9, PackEffect
  <2> QED
    BY <1>1, <2>1 DEF GetLocal
<1>10. CASE Encode(g)
  <2>1. \/ /\ gloc'[g] = [gloc[g] EXCEPT !.bss = Bytes(gloc[g].buf), !.cok = TRUE]
           /\ gloc[g].buf = Content[g.layer]
        \/ gloc'[g] = [gloc[g] EXCEPT !.bss = Garbled, !.cok = TRUE]
        \/ gloc'[g] = gloc[g]
    BY <1>10, EncodeEffect
  <2>2. CASE /\ gloc'[g] = [gloc[g] EXCEPT !.bss = Bytes(gloc[g].buf), !.cok = TRUE]
             /\ gloc[g].buf = Content[g.layer]
    <3>1. gloc'[g].bss = Bytes(gloc[g].buf)
      BY <1>1, <2>2 DEF GetLocal
    <3> QED
      BY <2>2, <3>1
  <2>3. CASE gloc'[g] = [gloc[g] EXCEPT !.bss = Garbled, !.cok = TRUE]
    BY <1>1, <1>10, <2>3 DEF GetLocal
  <2> QED
    BY <2>1, <2>2, <2>3
<1>11. CASE Fallback(g)
  BY <1>1, <1>11, FallbackEffect DEF GetLocal
<1>12. CASE Transfer(g)
  BY <1>12, TransferEffect
<1>13. CASE ReadRLMap(g)
  BY <1>1, <1>13, ReadRLMapEffect DEF GetLocal
<1>14. CASE WriteRLMap(g)
  BY <1>1, <1>14, WriteRLMapEffect DEF NoGetLocal
<1> QED
  BY <1>2, <1>3, <1>4, <1>5, <1>6, <1>7, <1>8, <1>9, <1>10, <1>11, <1>12, <1>13, <1>14 DEF GetGoes, GetStep

\* What the client receives, and what is put into the cache, is what was about
\* to be sent, or an error.
LEMMA NewAnswer ==
    ASSUME TypeInv, RestoreTypeOK, NEW g \in Gets, GetGoes(g)
    PROVE  /\ \/ answer'[g] = answer[g]
              \/ answer'[g] = gloc[g].bss /\ gpc[g] = "transfer"
              \/ answer'[g] = Failed /\ gpc[g] = "fallback" /\ gpc'[g] = "done" /\ gloc'[g] = gloc[g]
           /\ layerCache' = layerCache \/ layerCache' = Put(layerCache, Dir(g), gloc[g].bss)
<1>1. CASE Transfer(g)
  BY <1>1, TransferEffect
<1>2. CASE Fallback(g)
  BY <1>2, FallbackEffect DEF sharedVars
<1>3. CASE ~Transfer(g) /\ ~Fallback(g)
  BY <1>3, GetEffect, LookupEffect, RecipeEffect, LoadEffect, WaitEffect, LockEffect, SliceEffect, PackEffect,
     EncodeEffect, ReadRLMapEffect, WriteRLMapEffect DEF GetGoes, GetStep, sharedVars
<1> QED
  BY <1>1, <1>2, <1>3

LEMMA HonestAnswers ==
    ASSUME NEW l
    PROVE  Honest(l, Bytes(Content[l])) /\ Honest(l, NoAnswer) /\ Honest(l, Gotta) /\ Honest(l, Failed)
BY DEF Honest, NoAnswer, Gotta, Failed

\* Chunks put together in order are the layer, so ./encode is given that.
LEMMA EncodesLayer ==
    ASSUME RestoreTypeOK, NEW g \in Gets, PackInOrder(g), gloc[g].i > Len(gloc[g].files)
    PROVE  gloc[g].buf = Content[g.layer]
<1> DEFINE q == ChunkNum(Content[g.layer])
<1>1. g.layer \in Layers
  BY GetFacts
<1>2. q \in Nat /\ FirstChunks(g.layer, q) = Content[g.layer]
  BY <1>1, FirstChunksEnds
<1>3. Len(gloc[g].files) = q /\ gloc[g].i \in 1..(q + 1) /\ gloc[g].buf = FirstChunks(g.layer, gloc[g].i - 1)
  BY DEF PackInOrder
<1> HIDE DEF q
<1>4. gloc[g].i - 1 = q
  BY <1>2, <1>3
<1> QED
  BY <1>2, <1>3, <1>4

LEMMA HonestOwnStep ==
    ASSUME DedupInv, RestoreTypeOK, ServeInv, NEW g \in Gets, GetGoes(g), Undisturbed, g.layer \notin NotGzip
    PROVE  Honest(g.layer, gloc'[g].bss) /\ Honest(g.layer, answer'[g])
<1>1. TypeInv
  BY DEF DedupInv
<1>2. Honest(g.layer, gloc[g].bss) /\ Honest(g.layer, answer[g])
  BY DEF ServeInv, AllHonest
<1>3. Dir(g) \in DOMAIN layerCache => Honest(g.layer, layerCache[Dir(g)])
  <2>1. Dir(g)[2] = g.layer
    BY DEF Dir
  <2> QED
    BY <2>1 DEF ServeInv, AllHonest
<1>4. Honest(g.layer, gloc'[g].bss)
  <2>1. CASE Encode(g)
    <3>1. gloc[g].buf = Content[g.layer]
      BY <2>1, EncodeEffect, EncodesLayer DEF ServeInv, Packing
    <3>2. gloc'[g] = [gloc[g] EXCEPT !.bss = Bytes(gloc[g].buf), !.cok = TRUE]
      BY <2>1, <3>1, EncodeEffect
    <3>3. gloc'[g].bss = Bytes(Content[g.layer])
      BY <3>1, <3>2 DEF RestoreTypeOK, GetLocal
    <3> QED
      BY <3>3, HonestAnswers
  <2>2. CASE ~Encode(g)
    BY <1>1, <1>2, <1>3, <2>2, NewBytes, HonestAnswers
  <2> QED
    BY <2>1, <2>2
<1>5. Honest(g.layer, answer'[g])
  BY <1>1, <1>2, NewAnswer, HonestAnswers
<1> QED
  BY <1>4, <1>5

LEMMA HonestStep == PPInv /\ ServeInv /\ [PPNext]_allVars => AllHonest'
<1> SUFFICES ASSUME PPInv, ServeInv, [PPNext]_allVars, Undisturbed' PROVE AllHonest'
  BY DEF AllHonest
<1>1. DedupInv /\ TypeInv /\ RestoreTypeOK
  BY DEF PPInv, DedupInv
<1>2. Undisturbed
  BY <1>1, StepMonotone DEF Monotone
<1>3. /\ \A g \in Gets : g.layer \notin NotGzip =>
            Honest(g.layer, gloc[g].bss) /\ Honest(g.layer, answer[g])
      /\ \A d \in DOMAIN layerCache : d[2] \notin NotGzip => Honest(d[2], layerCache[d])
  BY <1>2 DEF ServeInv, AllHonest
<1>4. CASE DedupGoes \/ UNCHANGED allVars
  <2>1. UNCHANGED <<gloc, answer, layerCache>>
    BY <1>4 DEF DedupGoes, getVars, allVars
  <2> QED
    BY <1>3, <2>1 DEF AllHonest, Honest
<1>5. CASE ServerDies
  BY <1>1, <1>5, DiesMonotone DEF ServerDies
<1>6. ASSUME NEW g \in Gets, GetGoes(g) PROVE AllHonest'
  <2>1. ASSUME NEW q \in Gets, q.layer \notin NotGzip
        PROVE  Honest(q.layer, gloc'[q].bss) /\ Honest(q.layer, answer'[q])
    <3>1. CASE q = g
      BY <1>1, <1>2, <1>6, <2>1, <3>1, HonestOwnStep
    <3>2. CASE q # g
      BY <1>1, <1>3, <1>6, <2>1, <3>2, GetGoesOthers DEF GetOthers
    <3> QED
      BY <3>1, <3>2
  <2>2. ASSUME NEW d \in DOMAIN layerCache', d[2] \notin NotGzip PROVE Honest(d[2], layerCache'[d])
    <3>1. CASE layerCache' = layerCache
      BY <1>3, <2>2, <3>1
    <3>2. CASE layerCache' = Put(layerCache, Dir(g), gloc[g].bss)
      <4>1. /\ d \in DOMAIN layerCache \/ d = Dir(g)
            /\ layerCache'[d] = IF d = Dir(g) THEN gloc[g].bss ELSE layerCache[d]
        BY <2>2, <3>2 DEF Put
      <4>2. Dir(g)[2] = g.layer
        BY DEF Dir
      <4> QED
        BY <1>3, <2>2, <4>1, <4>2
    <3> QED
      BY <1>1, <1>6, <3>1, <3>2, NewAnswer
  <2>3. /\ \A q \in Gets : q.layer \notin NotGzip =>
              Honest(q.layer, gloc'[q].bss) /\ Honest(q.layer, answer'[q])
        /\ \A d \in DOMAIN layerCache' : d[2] \notin NotGzip => Honest(d[2], layerCache'[d])
    BY <2>1, <2>2
  <2> QED
    BY <2>3 DEF AllHonest, Honest
<1> QED
  BY <1>1, <1>4, <1>5, <1>6, StepKinds

LEMMA ServeInit == PPInit => ServeInv
<1> SUFFICES ASSUME PPInit PROVE CachedChunks /\ Packing /\ AllHonest
  BY ReadInit DEF ServeInv
<1>1. DOMAIN chunkCache = {} /\ DOMAIN layerCache = {}
  BY DEF PPInit, RestoreInit, EmptyMap
<1>2. \A g \in Gets : gpc[g] = "idle" /\ gloc[g].bss = NoAnswer /\ answer[g] = NoAnswer
  BY DEF PPInit, RestoreInit, NoGetLocal
<1> QED
  BY <1>1, <1>2, HonestAnswers DEF CachedChunks, Packing, AllHonest

LEMMA ServeStep == PPInv /\ ServeInv /\ [PPNext]_allVars => ServeInv'
<1> SUFFICES ASSUME PPInv, ServeInv, [PPNext]_allVars PROVE RecipeRead'
  BY PackStep, CacheStep, HonestStep DEF ServeInv
<1> QED
  BY ReadStep DEF PPInv, DedupInv, ServeInv

-----------------------------------------------------------------------------
(* The theorems. *)

LEMMA PPInvAlways == PPSpec => []PPInv
BY PPInvInit, PPInvStep, PTL DEF PPSpec

LEMMA ServeAlways == PPSpec => []ServeInv
BY PPInvAlways, ServeInit, ServeStep, PTL DEF PPSpec

\* Every variable of the dedups and of the GETs always holds a value of its
\* type: descriptors, recipes, buffers and caches stay well formed whatever the
\* handlers of blobserver.go and the goroutines of blobwriter.go do.
THEOREM PushPullTypes == PPSpec => []PPTypeOK
<1>1. PPInv => PPTypeOK
  BY DEF PPInv, DedupInv, TypeInv, PPTypeOK
<1> QED
  BY <1>1, PPInvAlways, PTL

\* Unless a Redis command failed, a process died or a rare event happened,
\* ServeBlob never sends another file than the layer that was pushed, whether it
\* comes from the cache, a construction or the original.
THEOREM ServedIsOriginal == PPSpec => []ServedBytesAreOriginal
<1>1. ServeInv => ServedBytesAreOriginal
  BY DEF ServeInv, AllHonest, Honest, ServedBytesAreOriginal, ServedOriginal
<1> QED
  BY <1>1, ServeAlways, PTL

-----------------------------------------------------------------------------
(* A single registry. *)

LEMMA OneServer ==
    ASSUME SingleServer
    PROVE  \A s, t \in Servers : s = t
<1>1. PICK s : Servers = {s}
  BY ServersAssumption, FS_Singleton DEF SingleServer
<1> QED
  BY <1>1

\* A layer recipe read on a single registry names it, so its slice recipe is there.
LEMMA SliceFound ==
    ASSUME DedupInv, RestoreTypeOK, RecipeRead, SingleServer, faults = 0, faults' = 0,
           NEW g \in Gets, ReadSliceRecipe(g)
    PROVE  /\ gpc'[g] = "pack" /\ UNCHANGED <<locked, gotta>>
           /\ gloc'[g] = [gloc[g] EXCEPT !.files = sliceRecipe[<<g.layer, g.srv>>]]
<1>1. TypeInv /\ g.srv \in Servers
  BY GetFacts DEF DedupInv
<1>2. gpc[g] = "slice"
  BY <1>1, SliceEffect
<1>3. g.layer \in DOMAIN layerRecipe /\ Cardinality(layerRecipe[g.layer]) = 1
  BY <1>2 DEF RecipeRead, HasHosts
<1>4. layerRecipe[g.layer] \subseteq Servers
  BY <1>3 DEF DedupInv, GenuineInv, HostsGenuine
<1>5. g.srv \in layerRecipe[g.layer]
  <2>1. IsFiniteSet(layerRecipe[g.layer])
    BY <1>4, ServersAssumption, FS_Subset
  <2>2. PICK h : layerRecipe[g.layer] = {h}
    BY <1>3, <2>1, FS_Singleton
  <2> QED
    BY <1>1, <1>4, <2>2, OneServer
<1>6. <<g.layer, g.srv>> \in DOMAIN sliceRecipe /\ sliceRecipe[<<g.layer, g.srv>>] # <<>>
  BY <1>3, <1>5 DEF DedupInv, RecipeInv, RecipesClosed
<1>7. ~(faults' > 0)
  OBVIOUS
<1> QED
  BY <1>1, <1>6, <1>7, SliceEffect

\* On a single registry a layer is on one host.
LEMMA OneHost ==
    ASSUME DedupInv, SingleServer, Undisturbed, NEW g \in Gets,
           g.layer \in DOMAIN layerRecipe
    PROVE  Cardinality(layerRecipe[g.layer]) = 1
<1>1. g.srv \in Servers /\ g.layer \in Layers
  BY GetFacts
<1>2. faults = 0 /\ Whole
  BY DEF Undisturbed, Whole, Tidy
<1>3. layerRecipe[g.layer] \subseteq Servers
  BY <1>2 DEF DedupInv, GenuineInv, HostsGenuine
<1>4. 1 \in ChunkIndices(g.layer)
  BY <1>1, FirstChunksEnds DEF ChunkIndices
<1>5. layerRecipe[g.layer] # {}
  BY <1>2, <1>4 DEF DedupInv, WholeInv, LayerRecipesWhole
<1>6. layerRecipe[g.layer] = {g.srv}
  BY <1>1, <1>3, <1>5, OneServer
<1> QED
  BY <1>6, FS_Singleton

\* On a single registry the file of the next chunk is on its disk.
LEMMA ChunkThere ==
    ASSUME DedupInv, RestoreTypeOK, ServeInv, SingleServer, Undisturbed, NEW g \in Gets, PackFile(g)
    PROVE  gpc'[g] = "pack" /\ UNCHANGED locked
<1> DEFINE path == gloc[g].files[gloc[g].i].path
           c == ChunkOf(g.layer, gloc[g].i)
<1>1. TypeInv /\ g.srv \in Servers
  BY GetFacts DEF DedupInv
<1>2. gpc[g] = "pack" /\ gloc[g].i <= Len(gloc[g].files)
  BY <1>1, PackEffect
<1>3. PackInOrder(g)
  BY <1>2 DEF ServeInv, Packing
<1>4. c \in DOMAIN fileDesc /\ fileDesc[c].path = path
  <2>1. ChunkNum(Content[g.layer]) \in Nat
    BY GetFacts, FirstChunksEnds
  <2>2. gloc[g].i \in ChunkIndices(g.layer)
    BY <1>2, <1>3, <2>1 DEF PackInOrder, ChunkIndices
  <2> QED
    BY <1>3, <2>2 DEF PackInOrder
<1>5. path \in DOMAIN diff
  BY <1>4 DEF DedupInv, FileInv, LiveInv, DescriptorsLive, Undisturbed
<1>6. path[1].srv = g.srv
  <2>1. path \in Path
    BY <1>5 DEF DedupInv, TypeInv, TypeOK, StoreTypeOK, IsMap
  <2>2. path[1] \in Pushes
    BY <2>1 DEF Path
  <2> HIDE DEF path
  <2>3. path[1].srv \in Servers
    BY <2>2, PushFacts
  <2> QED
    BY <1>1, <2>3, OneServer
<1> HIDE DEF c
<1>7. \/ gpc'[g] = "pack" /\ UNCHANGED locked
      \/ ~(path \in DOMAIN diff /\ path[1].srv = g.srv)
  BY <1>1, PackEffect
<1> QED
  BY <1>5, <1>6, <1>7

-----------------------------------------------------------------------------
(* "gotta!" is not sent. *)

LEMMA AnswerInit == PPInit => AnswerInv
<1> SUFFICES ASSUME PPInit PROVE AnswerInv
  OBVIOUS
<1>1. DOMAIN layerCache = {} /\ gotta = {} /\ locked = {}
  BY DEF PPInit, RestoreInit, EmptyMap
<1>2. \A g \in Gets : gpc[g] = "idle" /\ gloc[g].bss.kind = "none" /\ answer[g].kind = "none"
  BY DEF PPInit, RestoreInit, NoGetLocal, NoAnswer
<1> QED
  BY <1>1, <1>2 DEF AnswerInv, GottaFree, ErrorsEnd, FallbackUnread, ConstructionSucceeds, LockReleased

\* No kind K of answer is kept or cached if GET g neither prepares one nor has
\* found one.
Absent(K) ==
    /\ \A g \in Gets : gloc[g].bss.kind # K
    /\ \A d \in DOMAIN layerCache : layerCache[d].kind # K

LEMMA AbsentOwnStep ==
    ASSUME TypeInv, RestoreTypeOK, NEW K, Absent(K), NEW g \in Gets, GetGoes(g), gloc'[g].bss.kind # K
    PROVE  Absent(K)'
<1>1. ASSUME NEW q \in Gets PROVE gloc'[q].bss.kind # K
  <2>1. CASE q = g
    BY <2>1
  <2>2. CASE q # g
    BY <2>2, GetGoesOthers DEF GetOthers, Absent
  <2> QED
    BY <2>1, <2>2
<1>2. ASSUME NEW d \in DOMAIN layerCache' PROVE layerCache'[d].kind # K
  <2>1. CASE layerCache' = layerCache
    BY <1>2, <2>1 DEF Absent
  <2>2. CASE layerCache' = Put(layerCache, Dir(g), gloc[g].bss)
    <3>1. /\ d \in DOMAIN layerCache \/ d = Dir(g)
          /\ layerCache'[d] = IF d = Dir(g) THEN gloc[g].bss ELSE layerCache[d]
      BY <1>2, <2>2 DEF Put
    <3> QED
      BY <3>1 DEF Absent
  <2> QED
    BY <2>1, <2>2, NewAnswer
<1>3. (\A q \in Gets : gloc'[q].bss.kind # K) /\ (\A d \in DOMAIN layerCache' : layerCache'[d].kind # K)
  BY <1>1, <1>2
<1> QED
  BY <1>3 DEF Absent

\* The other processes do not bring one either.
LEMMA AbsentOtherSteps ==
    ASSUME TypeInv, RestoreTypeOK, NEW K, Absent(K), K # "none",
           DedupGoes \/ ServerDies \/ UNCHANGED allVars
    PROVE  Absent(K)' /\ UNCHANGED answer /\ gotta' \subseteq gotta
<1>1. CASE DedupGoes \/ UNCHANGED allVars
  BY <1>1 DEF DedupGoes, allVars, getVars, Absent
<1>2. CASE ServerDies
  <2>1. PICK s \in Servers : ProcessDies(s) /\ RestoreDies(s)
    BY <1>2 DEF ServerDies
  <2>2. \A g \in Gets : gloc'[g] = gloc[g] \/ gloc'[g] = NoGetLocal
    BY <2>1, RestoreDiesEffect
  <2>3. NoGetLocal.bss.kind = "none"
    BY DEF NoGetLocal, NoAnswer
  <2>4. \A g \in Gets : gloc'[g].bss.kind # K
    BY <2>2, <2>3 DEF Absent
  <2>5. /\ \A d \in DOMAIN layerCache' : d \in DOMAIN layerCache /\ layerCache'[d] = layerCache[d]
        /\ UNCHANGED answer /\ gotta' \subseteq gotta
    BY <2>1, RestoreDiesEffect
  <2>6. \A d \in DOMAIN layerCache' : layerCache'[d].kind # K
    BY <2>5 DEF Absent
  <2> QED
    BY <2>4, <2>5, <2>6 DEF Absent
<1> QED
  BY <1>1, <1>2

LEMMA Kinds ==
    /\ Gotta.kind = "gotta" /\ Garbled.kind = "garbled" /\ Failed.kind = "error" /\ NoAnswer.kind = "none"
    /\ \A data : Bytes(data).kind = "bytes"
BY DEF Gotta, Garbled, Failed, NoAnswer, Bytes

LEMMA GottaStep == PPInv /\ RecipeRead /\ GottaFree /\ [PPNext]_allVars => GottaFree'
<1> SUFFICES ASSUME PPInv, RecipeRead, GottaFree, [PPNext]_allVars, faults' = 0, SingleServer
             PROVE  /\ gotta' = {} /\ Absent("gotta")'
                    /\ \A g \in Gets : answer'[g].kind # "gotta"
  BY DEF GottaFree, Absent, SingleServer
<1>1. DedupInv /\ TypeInv /\ RestoreTypeOK
  BY DEF PPInv, DedupInv
<1>2. faults = 0
  BY <1>1, StepMonotone DEF Monotone
<1>3. gotta = {} /\ Absent("gotta") /\ \A g \in Gets : answer[g].kind # "gotta"
  BY <1>2 DEF GottaFree, Absent
<1>4. CASE DedupGoes \/ ServerDies \/ UNCHANGED allVars
  <2>1. Absent("gotta")' /\ UNCHANGED answer /\ gotta' \subseteq gotta
    BY <1>1, <1>3, <1>4, AbsentOtherSteps
  <2> QED
    BY <1>3, <2>1
<1>5. ASSUME NEW g \in Gets, GetGoes(g)
      PROVE  /\ gotta' = {} /\ Absent("gotta")'
             /\ \A q \in Gets : answer'[q].kind # "gotta"
  <2>1. gloc'[g].bss.kind # "gotta" /\ gotta' = {}
    <3>1. gloc[g].bss.kind # "gotta" /\ gloc[g] \in GetLocal
      BY <1>1, <1>3 DEF Absent, RestoreTypeOK
    <3>2. CASE WaitLayer(g)
      BY <1>1, <1>3, <3>1, <3>2, WaitEffect DEF sharedVars
    <3>3. CASE ReadSliceRecipe(g)
      <4>1. /\ gloc'[g] = [gloc[g] EXCEPT !.files = sliceRecipe[<<g.layer, g.srv>>]]
            /\ UNCHANGED gotta
        BY <1>1, <1>2, <3>3, SliceFound
      <4>2. gloc'[g].bss = gloc[g].bss
        BY <3>1, <4>1 DEF GetLocal
      <4> QED
        BY <1>3, <3>1, <4>1, <4>2
    <3>4. CASE ~WaitLayer(g) /\ ~ReadSliceRecipe(g)
      <4>1. UNCHANGED gotta
        BY <1>1, <1>5, <3>4, GetEffect, LookupEffect, RecipeEffect, LoadEffect, LockEffect, PackEffect,
           EncodeEffect, FallbackEffect, TransferEffect, ReadRLMapEffect, WriteRLMapEffect
           DEF GetGoes, GetStep, sharedVars
      <4>2. gloc'[g].bss.kind # "gotta"
        BY <1>1, <1>3, <1>5, <3>1, <3>4, NewBytes, Kinds DEF Absent
      <4> QED
        BY <1>3, <4>1, <4>2
    <3> QED
      BY <3>2, <3>3, <3>4
  <2>2. Absent("gotta")'
    BY <1>1, <1>3, <1>5, <2>1, AbsentOwnStep
  <2>3. ASSUME NEW q \in Gets PROVE answer'[q].kind # "gotta"
    <3>1. CASE q = g
      BY <1>1, <1>3, <1>5, <3>1, NewAnswer, Kinds DEF Absent
    <3>2. CASE q # g
      BY <1>1, <1>3, <1>5, <3>2, GetGoesOthers DEF GetOthers
    <3> QED
      BY <3>1, <3>2
  <2> QED
    BY <2>1, <2>2, <2>3
<1> QED
  BY <1>1, <1>4, <1>5, StepKinds

-----------------------------------------------------------------------------
(* Errors. *)

\* A GET that has ended does not move.
LEMMA DoneIsFinal ==
    ASSUME TypeInv, RestoreTypeOK, NEW g \in Gets, GetGoes(g)
    PROVE  gpc[g] # "done"
<1>1. CASE Get(g) \/ LookupLayer(g) \/ ReadLayerRecipe(g) \/ LoadOrStore(g)
  BY <1>1, GetEffect, LookupEffect, RecipeEffect, LoadEffect
<1>2. CASE WaitLayer(g) \/ LockBuffer(g) \/ ReadSliceRecipe(g) \/ PackFile(g)
  BY <1>2, WaitEffect, LockEffect, SliceEffect, PackEffect
<1>3. CASE Encode(g) \/ Fallback(g) \/ Transfer(g) \/ ReadRLMap(g) \/ WriteRLMap(g)
  BY <1>3, EncodeEffect, FallbackEffect, TransferEffect, ReadRLMapEffect, WriteRLMapEffect
<1> QED  BY <1>1, <1>2, <1>3 DEF GetGoes, GetStep

LEMMA ErrorsStep == PPInv /\ ErrorsEnd /\ [PPNext]_allVars => ErrorsEnd'
<1> SUFFICES ASSUME PPInv, ErrorsEnd, [PPNext]_allVars
             PROVE  Absent("error")' /\ \A g \in Gets : answer'[g].kind = "error" => gpc'[g] = "done"
  BY DEF ErrorsEnd, Absent
<1>1. DedupInv /\ TypeInv /\ RestoreTypeOK
  BY DEF PPInv, DedupInv
<1>2. Absent("error") /\ \A g \in Gets : answer[g].kind = "error" => gpc[g] = "done"
  BY DEF ErrorsEnd, Absent
<1>3. CASE DedupGoes \/ ServerDies \/ UNCHANGED allVars
  <2>1. Absent("error")' /\ UNCHANGED answer
    BY <1>1, <1>2, <1>3, AbsentOtherSteps
  <2>2. ASSUME NEW g \in Gets, gpc[g] = "done" PROVE gpc'[g] = "done"
    <3>1. CASE DedupGoes \/ UNCHANGED allVars
      BY <2>2, <3>1 DEF DedupGoes, allVars, getVars
    <3>2. CASE ServerDies
      BY <1>1, <2>2, <3>2, RestoreDiesEffect DEF ServerDies, GetActive
    <3> QED
      BY <1>3, <3>1, <3>2
  <2> QED
    BY <1>2, <2>1, <2>2
<1>4. ASSUME NEW g \in Gets, GetGoes(g)
      PROVE  Absent("error")' /\ \A q \in Gets : answer'[q].kind = "error" => gpc'[q] = "done"
  <2>1. gloc'[g].bss.kind # "error"
    BY <1>1, <1>2, <1>4, NewBytes, Kinds DEF Absent
  <2>2. Absent("error")'
    BY <1>1, <1>2, <1>4, <2>1, AbsentOwnStep
  <2>3. ASSUME NEW q \in Gets, answer'[q].kind = "error" PROVE gpc'[q] = "done"
    <3>1. CASE q = g
      BY <1>1, <1>2, <1>4, <2>3, <3>1, NewAnswer, DoneIsFinal DEF Absent
    <3>2. CASE q # g
      BY <1>1, <1>2, <1>4, <2>3, <3>2, GetGoesOthers DEF GetOthers
    <3> QED
      BY <3>1, <3>2
  <2> QED
    BY <2>2, <2>3
<1> QED
  BY <1>1, <1>3, <1>4, StepKinds

\* Only a GET that has found no recipe goes to the original.
LEMMA FallbackOwnStep ==
    ASSUME DedupInv, RestoreTypeOK, ServeInv, SingleServer, Undisturbed, Undisturbed',
           NEW g \in Gets, GetGoes(g), gpc'[g] = "fallback", g.layer \notin NotGzip
    PROVE  ~gloc'[g].sawRecipe
<1>1. TypeInv /\ faults' = 0
  BY DEF DedupInv, Undisturbed
<1>2. CASE ReadLayerRecipe(g)
  <2>1. gpc[g] = "recipe" /\ gloc'[g] = gloc[g]
    BY <1>1, <1>2, RecipeEffect
  <2>2. gloc[g] = NoGetLocal
    BY <2>1 DEF ServeInv, RecipeRead
  <2> QED
    BY <2>1, <2>2 DEF NoGetLocal
<1>3. CASE LockBuffer(g)
  <2>1. gpc[g] = "lock" /\ Cardinality(gloc[g].hosts) # 1
    BY <1>3, LockEffect
  <2>2. HasHosts(g)
    BY <2>1 DEF ServeInv, RecipeRead
  <2> QED
    BY <2>1, <2>2, OneHost DEF HasHosts
<1>4. CASE PackFile(g)
  BY <1>4, ChunkThere
<1>5. CASE Encode(g)
  <2>1. /\ gpc[g] = "pack" /\ gloc[g].i > Len(gloc[g].files)
        /\ gloc[g].buf # Content[g.layer] \/ g.layer \in NotGzip
    BY <1>5, EncodeEffect
  <2>2. PackInOrder(g)
    BY <2>1 DEF ServeInv, Packing
  <2> QED
    BY <2>1, <2>2, EncodesLayer
<1> QED
  <2>1. ReadLayerRecipe(g) \/ LockBuffer(g) \/ PackFile(g) \/ Encode(g)
    BY <1>1, GetEffect, LookupEffect, LoadEffect, WaitEffect, SliceEffect, FallbackEffect, TransferEffect,
       ReadRLMapEffect, WriteRLMapEffect DEF GetGoes, GetStep
  <2> QED
    BY <1>2, <1>3, <1>4, <1>5, <2>1

LEMMA FallbackStep == PPInv /\ ServeInv /\ FallbackUnread /\ [PPNext]_allVars => FallbackUnread'
<1> SUFFICES ASSUME PPInv, ServeInv, FallbackUnread, [PPNext]_allVars, Undisturbed', SingleServer,
                    NEW g \in Gets, gpc'[g] = "fallback", g.layer \notin NotGzip
             PROVE  ~gloc'[g].sawRecipe
  BY DEF FallbackUnread, SingleServer
<1>1. DedupInv /\ TypeInv /\ RestoreTypeOK
  BY DEF PPInv, DedupInv
<1>2. Undisturbed
  BY <1>1, StepMonotone DEF Monotone
<1>3. CASE gpc'[g] = gpc[g] /\ gloc'[g] = gloc[g]
  BY <1>2, <1>3 DEF FallbackUnread
<1>4. CASE DedupGoes \/ UNCHANGED allVars
  BY <1>3, <1>4 DEF DedupGoes, allVars, getVars
<1>5. CASE ServerDies
  BY <1>1, <1>5, DiesMonotone DEF ServerDies
<1>6. ASSUME NEW q \in Gets, GetGoes(q) PROVE ~gloc'[g].sawRecipe
  <2>1. CASE q = g
    BY <1>1, <1>2, <1>6, <2>1, FallbackOwnStep
  <2>2. CASE q # g
    BY <1>1, <1>3, <1>6, <2>2, GetGoesOthers DEF GetOthers
  <2> QED
    BY <2>1, <2>2
<1> QED
  BY <1>1, <1>4, <1>5, <1>6, StepKinds

\* So an error is only sent by a GET that has found no recipe.
LEMMA ConstructionStep ==
    PPInv /\ FallbackUnread /\ ErrorsEnd /\ ConstructionSucceeds /\ [PPNext]_allVars => ConstructionSucceeds'
<1> SUFFICES ASSUME PPInv, FallbackUnread, ErrorsEnd, ConstructionSucceeds, [PPNext]_allVars, Undisturbed',
                    SingleServer, NEW g \in Gets, answer'[g].kind = "error", g.layer \notin NotGzip
             PROVE  ~gloc'[g].sawRecipe
  BY DEF ConstructionSucceeds, SingleServer
<1>1. DedupInv /\ TypeInv /\ RestoreTypeOK
  BY DEF PPInv, DedupInv
<1>2. Undisturbed
  BY <1>1, StepMonotone DEF Monotone
<1>3. CASE answer'[g] = answer[g] /\ gloc'[g] = gloc[g]
  BY <1>2, <1>3 DEF ConstructionSucceeds, SingleServer
<1>4. CASE DedupGoes \/ UNCHANGED allVars
  BY <1>3, <1>4 DEF DedupGoes, allVars, getVars
<1>5. CASE ServerDies
  BY <1>1, <1>5, DiesMonotone DEF ServerDies
<1>6. ASSUME NEW q \in Gets, GetGoes(q) PROVE ~gloc'[g].sawRecipe
  <2>1. CASE q = g
    <3>1. /\ gpc[g] # "done" /\ gloc[g].bss.kind # "error"
          /\ answer[g].kind = "error" => gpc[g] = "done"
      BY <1>1, <1>6, <2>1, DoneIsFinal DEF ErrorsEnd
    <3>2. gpc[g] = "fallback" /\ gloc'[g] = gloc[g]
      BY <1>1, <1>6, <2>1, <3>1, NewAnswer
    <3> QED
      BY <1>2, <3>2 DEF FallbackUnread
  <2>2. CASE q # g
    BY <1>1, <1>3, <1>6, <2>2, GetGoesOthers DEF GetOthers
  <2> QED
    BY <2>1, <2>2
<1> QED
  BY <1>1, <1>4, <1>5, <1>6, StepKinds

-----------------------------------------------------------------------------
(* Locks. *)

\* A lock that is held for a reason.
LockedWell(g) == gpc[g] \in {"slice", "pack"} \/ NotOneHost(g.layer)

LEMMA NotOneHostStays ==
    ASSUME NEW l, NotOneHost(l), MetadataGrows
    PROVE  NotOneHost(l)'
BY DEF NotOneHost, MetadataGrows, Extends

LEMMA LockOwnStep ==
    ASSUME TypeInv, RestoreTypeOK, RecipeRead, MetadataGrows, NEW g \in Gets, GetGoes(g),
           g \in locked => LockedWell(g)
    PROVE  /\ g \in locked' => LockedWell(g)'
           /\ \A q \in Gets : q # g /\ q \in locked' => q \in locked
<1>1. NotOneHost(g.layer) => NotOneHost(g.layer)'
  BY NotOneHostStays
<1>2. CASE LockBuffer(g)
  <2>1. gpc[g] = "lock" /\ locked' = locked \cup {g}
    BY <1>2, LockEffect
  <2>2. HasHosts(g)
    BY <2>1 DEF RecipeRead
  <2>3. gpc'[g] = "slice" \/ NotOneHost(g.layer)
    BY <1>2, <2>2, LockEffect DEF HasHosts, NotOneHost
  <2> QED
    BY <1>1, <2>1, <2>3 DEF LockedWell
<1>3. CASE ReadSliceRecipe(g)
  <2>1. \/ gpc'[g] = "pack" /\ UNCHANGED locked
        \/ locked' = locked \ {g}
    BY <1>3, SliceEffect
  <2> QED
    BY <2>1 DEF LockedWell
<1>4. CASE PackFile(g)
  <2>1. \/ gpc'[g] = "pack" /\ UNCHANGED locked
        \/ locked' = locked \ {g}
    BY <1>4, PackEffect
  <2> QED
    BY <2>1 DEF LockedWell
<1>5. CASE Encode(g)
  <2>1. locked' = locked \ {g}
    BY <1>5, EncodeEffect
  <2> QED
    BY <2>1
<1>6. CASE ~LockBuffer(g) /\ ~ReadSliceRecipe(g) /\ ~PackFile(g) /\ ~Encode(g)
  <2>1. UNCHANGED locked /\ gpc[g] \notin {"slice", "pack"}
    BY <1>6, GetEffect, LookupEffect, RecipeEffect, LoadEffect, WaitEffect, FallbackEffect,
       TransferEffect, ReadRLMapEffect, WriteRLMapEffect DEF GetGoes, GetStep, sharedVars
  <2> QED
    BY <1>1, <2>1 DEF LockedWell
<1> QED
  BY <1>2, <1>3, <1>4, <1>5, <1>6

LEMMA LockStep == PPInv /\ RecipeRead /\ LockReleased /\ [PPNext]_allVars => LockReleased'
<1> SUFFICES ASSUME PPInv, RecipeRead, LockReleased, [PPNext]_allVars, NEW g \in locked'
             PROVE  LockedWell(g)'
  BY DEF LockReleased, LockedWell
<1>1. TypeInv /\ RestoreTypeOK
  BY DEF PPInv, DedupInv
<1>2. MetadataGrows /\ g \in Gets
  BY <1>1, StepMonotone, PPInvStep DEF Monotone, PPInv, RestoreTypeOK
<1>3. \A q \in locked : LockedWell(q)
  BY DEF LockReleased, LockedWell
<1>4. \A q \in Gets : NotOneHost(q.layer) => NotOneHost(q.layer)'
  BY <1>2, NotOneHostStays
<1>5. CASE DedupGoes \/ UNCHANGED allVars
  <2>1. UNCHANGED <<locked, gpc>>
    BY <1>5 DEF DedupGoes, allVars, getVars
  <2> QED
    BY <1>2, <1>3, <1>4, <2>1 DEF LockedWell
<1>6. CASE ServerDies
  <2>1. PICK s \in Servers : RestoreDies(s)
    BY <1>6 DEF ServerDies
  <2>2. g \in locked /\ gpc'[g] = gpc[g]
    BY <1>2, <2>1 DEF RestoreDies
  <2> QED
    BY <1>2, <1>3, <1>4, <2>2 DEF LockedWell
<1>7. ASSUME NEW q \in Gets, GetGoes(q) PROVE LockedWell(g)'
  <2>1. /\ q \in locked' => LockedWell(q)'
        /\ g # q => g \in locked
    BY <1>1, <1>2, <1>3, <1>7, LockOwnStep
  <2>2. CASE q = g
    BY <2>1, <2>2
  <2>3. CASE q # g
    <3>1. gpc'[g] = gpc[g]
      BY <1>1, <1>2, <1>7, <2>3, GetGoesOthers DEF GetOthers
    <3> QED
      BY <1>2, <1>3, <1>4, <2>1, <2>3, <3>1 DEF LockedWell
  <2> QED
    BY <2>2, <2>3
<1> QED
  BY <1>1, <1>5, <1>6, <1>7, StepKinds

LEMMA AnswerStep == PPInv /\ ServeInv /\ AnswerInv /\ [PPNext]_allVars => AnswerInv'
BY GottaStep, ErrorsStep, FallbackStep, ConstructionStep, LockStep DEF AnswerInv, ServeInv

LEMMA AnswerAlways == PPSpec => []AnswerInv
BY PPInvAlways, ServeAlways, AnswerInit, AnswerStep, PTL DEF PPSpec

-----------------------------------------------------------------------------
(* The theorems about a single registry. *)

\* While no Redis command fails, a single registry never sends "gotta!" instead
\* of a layer: constructSliceFromPartial finds the slice recipe of every layer
\* recipe, and neither the buffers nor the cache ever hold that text.
THEOREM GottaIsNeverSent == PPSpec => []NeverGotta
<1>1. AnswerInv => NeverGotta
  BY DEF AnswerInv, GottaFree, NeverGotta, SingleServer
<1> QED
  BY <1>1, AnswerAlways, PTL

\* On an undisturbed single registry a GET that has read a layer recipe gets the
\* layer: packAllFilesToPartial finds every file and ./encode its input.
THEOREM ConstructionNeverFails == PPSpec => []ConstructionSucceeds
<1>1. AnswerInv => ConstructionSucceeds
  BY DEF AnswerInv
<1> QED
  BY <1>1, AnswerAlways, PTL

\* Whatever fails, a Restoringbuffer is locked only while its GET reads the slice
\* recipe and packs the chunks, or when the recipe of its layer does not name one
\* host, for which constructLayerFromPartial returns without the unlock.  On an
\* undisturbed single registry that return is never taken.
THEOREM LocksAreReleased ==
    PPSpec => [](/\ LockReleased
                 /\ Undisturbed /\ Cardinality(Servers) = 1 =>
                       \A g \in Gets : ~NotOneHost(g.layer))
<1>1. AnswerInv => LockReleased
  BY DEF AnswerInv
<1>2. ASSUME DedupInv, Undisturbed, SingleServer, NEW g \in Gets, NotOneHost(g.layer) PROVE FALSE
  BY <1>2, OneHost DEF NotOneHost
<1>3. PPInv => (Undisturbed /\ Cardinality(Servers) = 1 => \A g \in Gets : ~NotOneHost(g.layer))
  BY <1>2 DEF PPInv, SingleServer
<1> QED
  BY <1>1, <1>3, AnswerAlways, PPInvAlways, PTL

-----------------------------------------------------------------------------
(* The dedups of a registry that also serves. *)

\* What is proved of the dedups alone also holds while GETs read and write the
\* same Redis and the same disk (ServeBlob next to Dedup).
THEOREM GetsDoNotDisturb ==
    PPSpec => [](/\ RecipesClosed /\ OriginalKept /\ FileInv /\ DescriptorsLive
                 /\ NoOrphanFiles /\ NoLeftovers /\ RecipesComplete)
<1>1. PPInv => /\ RecipesClosed /\ OriginalKept /\ FileInv /\ DescriptorsLive
               /\ NoOrphanFiles /\ NoLeftovers /\ RecipesComplete
  <2> SUFFICES ASSUME PPInv
               PROVE  /\ RecipesClosed /\ OriginalKept /\ FileInv /\ DescriptorsLive
                      /\ NoOrphanFiles /\ NoLeftovers /\ RecipesComplete
    OBVIOUS
  <2>1. RecipeInv /\ FileInv /\ TidyInv /\ DiffOwned /\ WholeInv
    BY DEF PPInv, DedupInv
  <2>2. RecipesClosed /\ OriginalKept /\ DescriptorsLive
    BY <2>1 DEF RecipeInv, FileInv, LiveInv
  <2>3. NoOrphanFiles
    BY <2>1 DEF DiffOwned, Kept, NoOrphanFiles, Registered, Active
  <2> QED
    BY <2>1, <2>2, <2>3, TidyLeavesNothing, WholeIsComplete
<1> QED
  BY <1>1, PPInvAlways, PTL

\* No GET, dedup or crash rebinds or removes a descriptor or a recipe.
THEOREM MetadataIsStableForGets == PPSpec => MetadataStable
<1>1. PPInv /\ [PPNext]_allVars => [/\ Extends(fileDesc', fileDesc)
                                    /\ Extends(sliceRecipe', sliceRecipe)
                                    /\ Extends(layerRecipe', layerRecipe)]_metadataVars
  BY StepMonotone DEF PPInv, DedupInv, Monotone, MetadataGrows
<1> QED
  BY <1>1, PPInvAlways, PTL DEF PPSpec, MetadataStable

=============================================================================
