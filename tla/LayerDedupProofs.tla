--------------------------- MODULE LayerDedupProofs ---------------------------
(***************************************************************************)
(* Proofs about LayerDedup, for every set of servers, pushes, layers and   *)
(* blocks and every bound on faults and crashes.                           *)
(***************************************************************************)
EXTENDS LayerDedupInv, FiniteSetTheorems, TLAPS

-----------------------------------------------------------------------------
(* Finite maps. *)

LEMMA PutMap ==
    ASSUME NEW m, NEW K, NEW V, IsMap(m, K, V), NEW k \in K, NEW v \in V
    PROVE  IsMap(Put(m, k, v), K, V) /\ IsMap(PutNew(m, k, v), K, V)
BY DEF IsMap, Put, PutNew

LEMMA DropMap ==
    ASSUME NEW m, NEW K, NEW V, NEW S, IsMap(m, K, V)
    PROVE  IsMap(Drop(m, S), K, V)
BY DEF IsMap, Drop

LEMMA PutFacts ==
    ASSUME NEW m, NEW k, NEW v
    PROVE  /\ DOMAIN Put(m, k, v) = DOMAIN m \cup {k}
           /\ Put(m, k, v)[k] = v
           /\ \A x \in DOMAIN m : x # k => Put(m, k, v)[x] = m[x]
BY DEF Put

LEMMA PutNewFacts ==
    ASSUME NEW m, NEW k, NEW v
    PROVE  /\ DOMAIN PutNew(m, k, v) = DOMAIN m \cup {k}
           /\ k \notin DOMAIN m => PutNew(m, k, v)[k] = v
           /\ \A x \in DOMAIN m : PutNew(m, k, v)[x] = m[x]
BY DEF Put, PutNew

LEMMA DropFacts ==
    ASSUME NEW m, NEW S
    PROVE  /\ DOMAIN Drop(m, S) = DOMAIN m \ S
           /\ \A x \in DOMAIN m \ S : Drop(m, S)[x] = m[x]
BY DEF Drop

LEMMA EmptyIsMap ==
    ASSUME NEW K, NEW V
    PROVE  IsMap(EmptyMap, K, V)
BY DEF IsMap, EmptyMap

-----------------------------------------------------------------------------
(* splitFileChunk. *)

LEMMA ChunkNumPositive ==
    ASSUME NEW data \in Seq(Blocks), data # <<>>
    PROVE  ChunkNum(data) \in Positive
<1>1. Len(data) \in Nat /\ Len(data) >= 1
  OBVIOUS
<1>2. ChunkSize \in Nat /\ ChunkSize >= 1
  BY SizesAssumption
<1> DEFINE n == Len(data)
<1>3. \A a, c \in Nat : c >= 1 /\ a >= c => (a \div c) \in Nat /\ a \div c >= 1
  OBVIOUS
<1> QED
  BY <1>1, <1>2, <1>3 DEF ChunkNum, Positive

LEMMA ChunkAtType ==
    ASSUME NEW data \in Seq(Blocks), NEW i \in Positive
    PROVE  ChunkAt(data, i) \in Chunk
BY SizesAssumption DEF ChunkAt, Chunk, Positive

LEMMA OverwriteType ==
    ASSUME NEW old \in Chunk, NEW new \in Chunk
    PROVE  Overwrite(old, new) \in Chunk
BY DEF Overwrite, Chunk

-----------------------------------------------------------------------------
(* Redis commands. *)

LEMMA StatEffect ==
    ASSUME faults \in Nat, NEW db, NEW k, NEW reply, Stat(db, k, reply)
    PROVE  /\ faults' \in Nat
           /\ faults' >= faults
           /\ reply = "ok" => k \in DOMAIN db
           /\ reply = "error" => faults' > 0
           /\ reply \in StatReplies
BY DEF Stat, RedisError, StatReplies

LEMMA SetFileDescriptorEffect ==
    ASSUME faults \in Nat, NEW c, NEW d, NEW reply, SetFileDescriptor(c, d, reply)
    PROVE  /\ faults' \in Nat
           /\ faults' >= faults
           /\ reply = "error" => faults' > 0
           /\ reply = "set" => c \notin DOMAIN fileDesc /\ fileDesc' = PutNew(fileDesc, c, d)
           /\ reply = "exists" => c \in DOMAIN fileDesc /\ UNCHANGED fileDesc
           /\ reply \in SetNXReplies
           /\ UNCHANGED fileDesc \/ fileDesc' = PutNew(fileDesc, c, d)
           /\ UNCHANGED <<sliceRecipe, layerRecipe, rlmap>>
BY DEF SetFileDescriptor, RedisError, SetNXReplies

LEMMA SetLayerRecipeEffect ==
    ASSUME faults \in Nat, NEW l, NEW hosts, NEW reply, SetLayerRecipe(l, hosts, reply)
    PROVE  /\ faults' \in Nat
           /\ faults' >= faults
           /\ reply = "ok" => layerRecipe' = PutNew(layerRecipe, l, hosts)
           /\ reply # "ok" => faults' > 0
           /\ UNCHANGED layerRecipe \/ layerRecipe' = PutNew(layerRecipe, l, hosts)
           /\ UNCHANGED <<fileDesc, sliceRecipe, rlmap>>
BY DEF SetLayerRecipe, RedisError

LEMMA SetSliceRecipeEffect ==
    ASSUME faults \in Nat, NEW l, NEW files, NEW sip, NEW reply,
           SetSliceRecipe(l, files, sip, reply)
    PROVE  /\ faults' \in Nat
           /\ faults' >= faults
           /\ reply = "ok" => sliceRecipe' = PutNew(sliceRecipe, <<l, sip>>, files)
           /\ reply # "ok" => faults' > 0
           /\ UNCHANGED sliceRecipe \/ sliceRecipe' = PutNew(sliceRecipe, <<l, sip>>, files)
           /\ UNCHANGED <<fileDesc, layerRecipe, rlmap>>
BY DEF SetSliceRecipe, RedisError

LEMMA SetRLMapEntryEffect ==
    ASSUME faults \in Nat, NEW r, NEW e, NEW reply, SetRLMapEntry(r, e, reply)
    PROVE  /\ faults' \in Nat
           /\ faults' >= faults
           /\ UNCHANGED rlmap \/ rlmap' = Put(rlmap, r, e)
           /\ UNCHANGED <<fileDesc, sliceRecipe, layerRecipe>>
BY DEF SetRLMapEntry, RedisError

-----------------------------------------------------------------------------
(* Local variables. *)

LEMMA HostsFacts == NoHost \in Hosts /\ Servers \subseteq Hosts
BY DEF Hosts

LEMMA PushFacts ==
    ASSUME NEW w \in Pushes
    PROVE  /\ w.srv \in Servers
           /\ w.repo \in Repos
           /\ w.layer \in Layers
           /\ Dir(w) \in Servers \X Layers
           /\ \A i \in Positive : ChunkFile(w, i) \in Servers \X Layers \X Positive
           /\ \A i \in Positive : <<w, i>> \in Path
BY PushesAssumption DEF PushType, Dir, ChunkFile, Path

LEMMA NoDescriptorType == NoDescriptor \in SliceEntry
BY DEF SliceEntry

LEMMA NoLocalType == NoLocal \in Local
BY NoDescriptorType DEF NoLocal, Local, Chunk, RLEntry, EmptyRLEntry, Positive

LEMMA AddToSliceType ==
    ASSUME NEW l \in Local, NEW host \in Hosts, NEW des \in SliceEntry, NEW size \in Nat
    PROVE  /\ AddToSlice(l, host, des, size) \in Local
           /\ AddToSlice(l, host, des, size).k = l.k
           /\ AddToSlice(l, host, des, size).no = l.no
           /\ AddToSlice(l, host, des, size).nodist = l.nodist
           /\ AddToSlice(l, host, des, size).wrote = l.wrote
           /\ AddToSlice(l, host, des, size).isdedup = l.isdedup
           /\ AddToSlice(l, host, des, size).someWrong = l.someWrong
           /\ AddToSlice(l, host, des, size).fcnt = l.fcnt
           /\ AddToSlice(l, host, des, size).dgst = l.dgst
<1> DEFINE slices == [l.slices EXCEPT ![host] = Append(@, des)]
           sizes == [l.size EXCEPT ![host] = @ + size]
<1>1. slices \in [Hosts -> Seq(SliceEntry)]
  <2>1. l.slices \in [Hosts -> Seq(SliceEntry)]
    BY DEF Local
  <2>2. Append(l.slices[host], des) \in Seq(SliceEntry)
    BY <2>1
  <2> QED
    BY <2>1, <2>2
<1>2. sizes \in [Hosts -> Nat]
  BY DEF Local
<1>3. AddToSlice(l, host, des, size) = [l EXCEPT !.slices = slices, !.size = sizes]
  BY DEF AddToSlice, Local
<1> HIDE DEF slices, sizes
<1> QED
  BY <1>1, <1>2, <1>3 DEF Local

LEMMA SortType ==
    ASSUME NEW files \in Seq(UniqueFile), NEW s \in BySizeDescending(files)
    PROVE  s \in Seq(UniqueFile) /\ Len(s) = Len(files)
BY DEF BySizeDescending

\* Assigning a local variable.
LEMMA LocalFields ==
    ASSUME NEW l \in Local
    PROVE  /\ \A v \in RLEntry : [l EXCEPT !.rl = v] \in Local
           /\ \A v \in Nat : [l EXCEPT !.fcnt = v] \in Local
           /\ \A v \in BOOLEAN : [l EXCEPT !.someWrong = v] \in Local
           /\ \A v \in Positive : [l EXCEPT !.no = v] \in Local
           /\ \A v \in Positive : [l EXCEPT !.k = v] \in Local
           /\ \A v \in SUBSET Hosts : [l EXCEPT !.wrote = v] \in Local
BY DEF Local

\* A step of push w changes the label and the local variables of w only.
LEMMA OwnStep ==
    ASSUME TypeInv, NEW w \in Pushes, NEW label \in PCs, NEW l \in Local,
           Shape(l, label),
           pc' = [pc EXCEPT ![w] = label], loc' = [loc EXCEPT ![w] = l]
    PROVE  /\ pc' \in [Pushes -> PCs]
           /\ loc' \in [Pushes -> Local]
           /\ LocalShape'
           /\ pc'[w] = label
           /\ loc'[w] = l
           /\ \A v \in Pushes : v # w => pc'[v] = pc[v] /\ loc'[v] = loc[v]
<1>1. pc \in [Pushes -> PCs] /\ loc \in [Pushes -> Local] /\ LocalShape
  BY DEF TypeInv, TypeOK
<1>2. /\ pc' \in [Pushes -> PCs]
      /\ loc' \in [Pushes -> Local]
      /\ pc'[w] = label
      /\ loc'[w] = l
      /\ \A v \in Pushes : v # w => pc'[v] = pc[v] /\ loc'[v] = loc[v]
  BY <1>1
<1>3. LocalShape'
  BY <1>1, <1>2 DEF LocalShape, Shape
<1> QED
  BY <1>2, <1>3

\* A step that changes the label only.
LEMMA OwnGoto ==
    ASSUME TypeInv, NEW w \in Pushes, NEW label \in PCs, Goto(w, label), UNCHANGED loc,
           Shape(loc[w], label)
    PROVE  /\ pc' \in [Pushes -> PCs]
           /\ loc' \in [Pushes -> Local]
           /\ LocalShape'
           /\ pc'[w] = label
           /\ \A v \in Pushes : v # w => pc'[v] = pc[v]
<1>1. pc \in [Pushes -> PCs] /\ loc \in [Pushes -> Local] /\ LocalShape
  BY DEF TypeInv, TypeOK
<1>2. /\ pc' \in [Pushes -> PCs]
      /\ pc'[w] = label
      /\ \A v \in Pushes : v # w => pc'[v] = pc[v]
  BY <1>1 DEF Goto
<1>3. LocalShape'
  BY <1>1, <1>2 DEF LocalShape, Shape
<1> QED
  BY <1>1, <1>2, <1>3

-----------------------------------------------------------------------------
(* Type correctness. *)

LEMMA TypeInit == Init => TypeInv
<1> SUFFICES ASSUME Init PROVE TypeInv
  OBVIOUS
<1>1. TypeOK
  BY EmptyIsMap, NoLocalType DEF Init, MetadataInit, TypeOK, MetadataTypeOK, StoreTypeOK,
     PCs, Events
<1>2. IsFiniteSet(DOMAIN unpack)
  BY FS_EmptySet DEF Init, EmptyMap
<1>3. LocalShape
  BY DEF Init, LocalShape, Shape, NoLocal, BeforeScan
<1> QED
  BY <1>1, <1>2, <1>3 DEF TypeInv

\* Redis commands and file operations keep the types of what they write.
LEMMA MetadataKeep ==
    ASSUME TypeInv, UNCHANGED <<fileDesc, sliceRecipe, layerRecipe, rlmap>>, faults' \in Nat
    PROVE  MetadataTypeOK'
BY DEF TypeInv, TypeOK, MetadataTypeOK, IsMap

LEMMA StoreKeep ==
    ASSUME TypeInv, UNCHANGED storeVars
    PROVE  StoreTypeOK' /\ IsFiniteSet(DOMAIN unpack)'
BY DEF TypeInv, TypeOK, StoreTypeOK, storeVars, IsMap

LEMMA UnpackKeep ==
    ASSUME TypeInv, UNCHANGED unpack \/ \E S : unpack' = Drop(unpack, S)
    PROVE  /\ IsMap(unpack, Servers \X Layers \X Positive, Chunk)'
           /\ IsFiniteSet(DOMAIN unpack)'
<1>1. IsMap(unpack, Servers \X Layers \X Positive, Chunk) /\ IsFiniteSet(DOMAIN unpack)
  BY DEF TypeInv, TypeOK, StoreTypeOK
<1>2. CASE UNCHANGED unpack
  BY <1>1, <1>2 DEF IsMap
<1>3. ASSUME NEW S, unpack' = Drop(unpack, S)
      PROVE  /\ IsMap(unpack', Servers \X Layers \X Positive, Chunk)
             /\ IsFiniteSet(DOMAIN unpack')
  <2>1. IsMap(Drop(unpack, S), Servers \X Layers \X Positive, Chunk)
    BY <1>1, DropMap
  <2>2. DOMAIN Drop(unpack, S) \subseteq DOMAIN unpack
    BY DEF Drop
  <2>3. IsFiniteSet(DOMAIN Drop(unpack, S))
    BY <1>1, <2>2, FS_Subset
  <2> QED
    BY <1>3, <2>1, <2>3
<1> QED
  BY <1>2, <1>3

LEMMA TypePush == ASSUME TypeInv, NEW w \in Pushes, Push(w) PROVE TypeInv'
<1> USE DEF Push
<1>1. MetadataTypeOK'
  BY MetadataKeep DEF TypeInv, TypeOK, MetadataTypeOK, metadataVars
<1>2. StoreTypeOK' /\ IsFiniteSet(DOMAIN unpack)'
  BY PushFacts DEF TypeInv, TypeOK, StoreTypeOK, IsMap
<1>3. Shape(loc[w], "open")
  BY DEF TypeInv, LocalShape, Shape, BeforeScan, BeforeRegister, Scanning
<1>4. pc' \in [Pushes -> PCs] /\ loc' \in [Pushes -> Local] /\ LocalShape'
  BY <1>3, OwnGoto DEF PCs
<1>5. counter' \in [Servers -> Nat] /\ crashes' \in Nat /\ events' \subseteq Events
  BY DEF TypeInv, TypeOK, Events
<1> QED
  BY <1>1, <1>2, <1>4, <1>5 DEF TypeInv, TypeOK

LEMMA TypeOpenLayer == ASSUME TypeInv, NEW w \in Pushes, OpenLayer(w) PROVE TypeInv'
<1> USE DEF OpenLayer
<1>1. MetadataTypeOK' /\ StoreTypeOK' /\ IsFiniteSet(DOMAIN unpack)'
  BY MetadataKeep, StoreKeep DEF TypeInv, TypeOK, MetadataTypeOK, metadataVars
<1>2. PICK label \in {"statrl", "done"} : Goto(w, label)
  OBVIOUS
<1>3. Shape(loc[w], label)
  BY DEF TypeInv, LocalShape, Shape, BeforeScan, BeforeRegister, Scanning
<1>4. pc' \in [Pushes -> PCs] /\ loc' \in [Pushes -> Local] /\ LocalShape'
  BY <1>2, <1>3, OwnGoto DEF PCs
<1> QED
  BY <1>1, <1>4 DEF TypeInv, TypeOK, historyVars

LEMMA TypeStatRLMap == ASSUME TypeInv, NEW w \in Pushes, StatRLMap(w) PROVE TypeInv'
<1> USE DEF StatRLMap
<1>1. PICK reply \in StatReplies : StatRLMap(w)!2!(reply)
  OBVIOUS
<1> DEFINE entry == IF reply = "ok" THEN rlmap[w.repo] ELSE EmptyRLEntry
           rl == [entry EXCEPT ![w.layer] = 1]
           l == [loc[w] EXCEPT !.rl = rl]
<1>2. /\ UNCHANGED <<fileDesc, sliceRecipe, layerRecipe, rlmap>>
      /\ faults' \in Nat
      /\ reply = "ok" => w.repo \in DOMAIN rlmap
  BY <1>1, StatEffect DEF StatRLMapEntry, TypeInv, TypeOK, MetadataTypeOK
<1>3. entry \in RLEntry
  BY <1>2 DEF TypeInv, TypeOK, MetadataTypeOK, IsMap, RLEntry, EmptyRLEntry
<1>4. rl \in RLEntry
  BY <1>3, PushFacts DEF RLEntry
<1>5. \/ Goto(w, "done") /\ UNCHANGED loc
      \/ Goto(w, "setrl") /\ loc' = [loc EXCEPT ![w].rl = rl]
  BY <1>1
<1>6. MetadataTypeOK' /\ StoreTypeOK' /\ IsFiniteSet(DOMAIN unpack)'
  BY <1>2, MetadataKeep, StoreKeep
<1>7. loc[w] \in Local /\ loc \in [Pushes -> Local]
  BY DEF TypeInv, TypeOK
<1> HIDE DEF rl
<1>8. pc' \in [Pushes -> PCs] /\ loc' \in [Pushes -> Local] /\ LocalShape'
  <2>1. CASE Goto(w, "done") /\ UNCHANGED loc
    <3>1. Shape(loc[w], "done")
      BY DEF Shape, BeforeScan, BeforeRegister, Scanning
    <3> QED
      BY <2>1, <3>1, OwnGoto DEF PCs
  <2>2. CASE Goto(w, "setrl") /\ loc' = [loc EXCEPT ![w].rl = rl]
    <3>1. l \in Local
      BY <1>4, <1>7, LocalFields
    <3>2. Shape(l, "setrl")
      BY <1>7 DEF TypeInv, LocalShape, Shape, Local, BeforeScan, BeforeRegister, Scanning
    <3>3. loc' = [loc EXCEPT ![w] = l]
      BY <2>2, <1>7
    <3> HIDE DEF l
    <3> QED
      BY <2>2, <3>1, <3>2, <3>3, OwnStep DEF PCs, Goto
  <2> QED
    BY <1>5, <2>1, <2>2
<1> QED
  BY <1>6, <1>8 DEF TypeInv, TypeOK, historyVars

LEMMA TypeSetRLMap == ASSUME TypeInv, NEW w \in Pushes, SetRLMap(w) PROVE TypeInv'
<1> USE DEF SetRLMap
<1>1. PICK reply \in SetReplies : SetRLMap(w)!2!(reply)
  OBVIOUS
<1>2. /\ faults' \in Nat
      /\ UNCHANGED <<fileDesc, sliceRecipe, layerRecipe>>
      /\ UNCHANGED rlmap \/ rlmap' = Put(rlmap, w.repo, loc[w].rl)
  BY <1>1, SetRLMapEntryEffect DEF TypeInv, TypeOK, MetadataTypeOK
<1>3. IsMap(rlmap', Repos, RLEntry)
  <2>1. IsMap(rlmap, Repos, RLEntry) /\ w.repo \in Repos /\ loc[w].rl \in RLEntry
    BY PushFacts DEF TypeInv, TypeOK, MetadataTypeOK, Local
  <2>2. IsMap(Put(rlmap, w.repo, loc[w].rl), Repos, RLEntry)
    BY <2>1, PutMap
  <2> QED
    BY <1>2, <2>1, <2>2
<1>4. MetadataTypeOK'
  BY <1>2, <1>3 DEF TypeInv, TypeOK, MetadataTypeOK, IsMap
<1>5. StoreTypeOK' /\ IsFiniteSet(DOMAIN unpack)'
  BY StoreKeep
<1>6. PICK label \in {"decode", "done"} : Goto(w, label)
  BY <1>1
<1>7. Shape(loc[w], label)
  BY DEF TypeInv, LocalShape, Shape, BeforeScan, BeforeRegister, Scanning
<1>8. pc' \in [Pushes -> PCs] /\ loc' \in [Pushes -> Local] /\ LocalShape'
  BY <1>6, <1>7, OwnGoto DEF PCs
<1> QED
  BY <1>4, <1>5, <1>8 DEF TypeInv, TypeOK, historyVars

LEMMA TypeDecode == ASSUME TypeInv, NEW w \in Pushes, Decode(w) PROVE TypeInv'
<1> USE DEF Decode
<1> DEFINE new == IF Dir(w) \in DOMAIN partial
                  THEN partial[Dir(w)] \o Content[w.layer] ELSE Content[w.layer]
<1>1. Content[w.layer] \in Seq(Blocks) /\ Content[w.layer] # <<>>
  BY ContentAssumption, PushFacts
<1>2. IsMap(partial, Servers \X Layers, Seq(Blocks) \ {<<>>})
  BY DEF TypeInv, TypeOK, StoreTypeOK
<1>3. new \in Seq(Blocks) \ {<<>>}
  <2>1. CASE Dir(w) \in DOMAIN partial
    <3>1. partial[Dir(w)] \in Seq(Blocks)
      BY <1>2, <2>1 DEF IsMap
    <3> QED
      BY <1>1, <2>1, <3>1
  <2> QED
    BY <1>1, <2>1
<1>4. \/ partial' = Put(partial, Dir(w), new) /\ UNCHANGED unpack /\ Goto(w, "split")
      \/ /\ partial' = Drop(partial, {Dir(w)})
         /\ unpack' = Drop(unpack, UnpackDir(w))
         /\ Goto(w, "done")
  OBVIOUS
<1> HIDE DEF new
<1>5. IsMap(partial', Servers \X Layers, Seq(Blocks) \ {<<>>})
  <2>1. IsMap(Put(partial, Dir(w), new), Servers \X Layers, Seq(Blocks) \ {<<>>})
    BY <1>2, <1>3, PutMap, PushFacts
  <2>2. IsMap(Drop(partial, {Dir(w)}), Servers \X Layers, Seq(Blocks) \ {<<>>})
    BY <1>2, DropMap
  <2> QED
    BY <1>4, <2>1, <2>2
<1>6. IsMap(unpack, Servers \X Layers \X Positive, Chunk)' /\ IsFiniteSet(DOMAIN unpack)'
  BY <1>4, UnpackKeep
<1>7. MetadataTypeOK'
  BY MetadataKeep DEF TypeInv, TypeOK, MetadataTypeOK, metadataVars
<1>8. StoreTypeOK'
  BY <1>5, <1>6 DEF TypeInv, TypeOK, StoreTypeOK, IsMap
<1>9. PICK label \in {"split", "done"} : Goto(w, label)
  BY <1>4
<1>10. Shape(loc[w], label)
  BY DEF TypeInv, LocalShape, Shape, BeforeScan, BeforeRegister, Scanning
<1>11. pc' \in [Pushes -> PCs] /\ loc' \in [Pushes -> Local] /\ LocalShape'
  BY <1>9, <1>10, OwnGoto DEF PCs
<1> QED
  BY <1>6, <1>7, <1>8, <1>11 DEF TypeInv, TypeOK, historyVars

LEMMA TypeSplit == ASSUME TypeInv, NEW w \in Pushes, SplitFileChunk(w) PROVE TypeInv'
<1> USE DEF SplitFileChunk
<1>1. MetadataTypeOK'
  BY MetadataKeep DEF TypeInv, TypeOK, MetadataTypeOK, metadataVars
<1>2. IsMap(unpack, Servers \X Layers \X Positive, Chunk) /\ IsFiniteSet(DOMAIN unpack)
  BY DEF TypeInv, TypeOK, StoreTypeOK
<1>3. IsMap(unpack', Servers \X Layers \X Positive, Chunk) /\ IsFiniteSet(DOMAIN unpack')
  <2>1. CASE Dir(w) \in DOMAIN partial
    <3> DEFINE data == partial[Dir(w)]
               new == {ChunkFile(w, i) : i \in 1..ChunkNum(data)}
               all == DOMAIN unpack \cup new
    <3>1. data \in Seq(Blocks) /\ data # <<>>
      BY <2>1 DEF TypeInv, TypeOK, StoreTypeOK, IsMap
    <3>2. ChunkNum(data) \in Positive
      BY <3>1, ChunkNumPositive
    <3>3. unpack' = [f \in all |->
                IF f \notin new THEN unpack[f]
                ELSE IF f \in DOMAIN unpack
                     THEN Overwrite(unpack[f], ChunkAt(data, f[3]))
                     ELSE ChunkAt(data, f[3])]
      BY <2>1
    <3> HIDE DEF data
    <3>4. new \subseteq Servers \X Layers \X Positive
      BY <3>2, PushFacts DEF Positive
    <3>5. IsFiniteSet(new)
      <4>1. IsFiniteSet(1..ChunkNum(data))
        BY <3>2, FS_Interval DEF Positive
      <4> DEFINE g == [i \in 1..ChunkNum(data) |-> ChunkFile(w, i)]
      <4>2. g \in Surjection(1..ChunkNum(data), new)
        BY DEF Surjection
      <4> QED
        BY <4>1, <4>2, FS_Surjection
    <3>6. \A f \in new : ChunkAt(data, f[3]) \in Chunk
      BY <3>1, <3>4, ChunkAtType
    <3> HIDE DEF new
    <3>7. IsFiniteSet(all)
      BY <1>2, <3>5, FS_Union
    <3>8. \A f \in all : unpack'[f] \in Chunk
      <4> SUFFICES ASSUME NEW f \in all PROVE unpack'[f] \in Chunk
        OBVIOUS
      <4>1. CASE f \notin new
        BY <1>2, <3>3, <4>1 DEF IsMap
      <4>2. CASE f \in new /\ f \in DOMAIN unpack
        <5>1. unpack'[f] = Overwrite(unpack[f], ChunkAt(data, f[3]))
          BY <3>3, <4>2
        <5>2. unpack[f] \in Chunk /\ ChunkAt(data, f[3]) \in Chunk
          BY <1>2, <3>6, <4>2 DEF IsMap
        <5> QED
          BY <5>1, <5>2, OverwriteType
      <4>3. CASE f \in new /\ f \notin DOMAIN unpack
        BY <3>3, <3>6, <4>3
      <4> QED
        BY <4>1, <4>2, <4>3
    <3>9. DOMAIN unpack' = all /\ all \subseteq Servers \X Layers \X Positive
      BY <1>2, <3>3, <3>4 DEF IsMap
    <3> QED
      BY <3>7, <3>8, <3>9 DEF IsMap
  <2>2. CASE Dir(w) \notin DOMAIN partial
    BY <2>2, UnpackKeep
  <2> QED
    BY <2>1, <2>2
<1>4. StoreTypeOK' /\ IsFiniteSet(DOMAIN unpack)'
  BY <1>3 DEF TypeInv, TypeOK, StoreTypeOK, IsMap
<1>5. PICK label \in {"list", "done"} : Goto(w, label)
  OBVIOUS
<1>6. Shape(loc[w], label)
  BY DEF TypeInv, LocalShape, Shape, BeforeScan, BeforeRegister, Scanning
<1>7. pc' \in [Pushes -> PCs] /\ loc' \in [Pushes -> Local] /\ LocalShape'
  BY <1>5, <1>6, OwnGoto DEF PCs
<1> QED
  BY <1>1, <1>4, <1>7 DEF TypeInv, TypeOK, historyVars

LEMMA TypeListUnpack == ASSUME TypeInv, NEW w \in Pushes, ListUnpack(w) PROVE TypeInv'
<1> USE DEF ListUnpack
<1> DEFINE l == [loc[w] EXCEPT !.fcnt = Cardinality(UnpackDir(w))]
<1>1. MetadataTypeOK' /\ StoreTypeOK' /\ IsFiniteSet(DOMAIN unpack)'
  BY MetadataKeep, StoreKeep DEF TypeInv, TypeOK, MetadataTypeOK, metadataVars
<1>2. Cardinality(UnpackDir(w)) \in Nat
  <2>1. IsFiniteSet(UnpackDir(w))
    BY FS_Subset DEF UnpackDir, TypeInv
  <2> QED
    BY <2>1, FS_CardinalityType
<1>3. loc \in [Pushes -> Local] /\ loc[w] \in Local
  BY DEF TypeInv, TypeOK
<1>4. l \in Local
  BY <1>2, <1>3, LocalFields
<1>5. Shape(l, "check")
  BY <1>3 DEF TypeInv, LocalShape, Shape, Local, BeforeScan, BeforeRegister, Scanning
<1>6. loc' = [loc EXCEPT ![w] = l]
  BY <1>3
<1> HIDE DEF l
<1>7. pc' \in [Pushes -> PCs] /\ loc' \in [Pushes -> Local] /\ LocalShape'
  BY <1>4, <1>5, <1>6, OwnStep DEF PCs, Goto
<1> QED
  BY <1>1, <1>7 DEF TypeInv, TypeOK, historyVars

LEMMA TypeCheckChunk == ASSUME TypeInv, NEW w \in Pushes, CheckChunk(w) PROVE TypeInv'
<1> USE DEF CheckChunk
<1> DEFINE chunk == unpack[ChunkFile(w, loc[w].no)]
<1>1. PICK reply \in StatReplies : CheckChunk(w)!1!4!(reply)
  OBVIOUS
<1> DEFINE des == IF reply = "ok" THEN fileDesc[chunk] ELSE NoDescriptor
           label == CASE reply = "ok" -> "remove"
                      [] reply = "nil" -> "rename"
                      [] reply = "error" -> "decide"
           wrong == (reply = "error")
           size == loc[w].dirSize + Len(chunk)
           l == [loc[w] EXCEPT !.dgst = chunk, !.dirSize = size,
                               !.des = des, !.someWrong = wrong]
<1>2. loc \in [Pushes -> Local] /\ loc[w] \in Local
  BY DEF TypeInv, TypeOK
<1>3. chunk \in Chunk /\ size \in Nat
  BY <1>2 DEF TypeInv, TypeOK, StoreTypeOK, IsMap, Chunk, Local
<1>4. /\ UNCHANGED <<fileDesc, sliceRecipe, layerRecipe, rlmap>>
      /\ faults' \in Nat
      /\ reply = "ok" => chunk \in DOMAIN fileDesc
  BY <1>1, StatEffect DEF StatFile, TypeInv, TypeOK, MetadataTypeOK
<1>5. MetadataTypeOK' /\ StoreTypeOK' /\ IsFiniteSet(DOMAIN unpack)'
  BY <1>4, MetadataKeep, StoreKeep
<1>6. des \in SliceEntry
  BY <1>4, NoDescriptorType DEF TypeInv, TypeOK, MetadataTypeOK, IsMap, SliceEntry
<1>7. loc' = [loc EXCEPT ![w] = l] /\ Goto(w, label)
  <2>1. loc' = [loc EXCEPT ![w] = l]
    BY <1>1
  <2>2. Goto(w, label)
    BY <1>1
  <2> QED  BY <2>1, <2>2
<1>8. label \in PCs /\ label \in {"remove", "rename", "decide"}
  BY DEF PCs, StatReplies
<1>9. wrong \in BOOLEAN /\ (label # "decide" => ~wrong)
  BY DEF StatReplies
<1> HIDE DEF chunk, des, label, wrong, size
<1>10. l \in Local
  BY <1>2, <1>3, <1>6, <1>9 DEF Local
<1>11. Shape(l, label)
  <2>1. Shape(loc[w], "check")
    BY DEF TypeInv, LocalShape
  <2>2. /\ l.k = loc[w].k
        /\ l.isdedup = loc[w].isdedup
        /\ l.someWrong = wrong
    BY <1>2 DEF Local
  <2> QED
    BY <1>8, <1>9, <2>1, <2>2 DEF Shape, BeforeScan, BeforeRegister, Scanning
<1> HIDE DEF l
<1>12. pc' \in [Pushes -> PCs] /\ loc' \in [Pushes -> Local] /\ LocalShape'
  BY <1>7, <1>8, <1>10, <1>11, OwnStep DEF Goto
<1> QED
  BY <1>5, <1>12 DEF TypeInv, TypeOK, historyVars

\* A step that finds a chunk file gone: someWrong is set and the scan ends.
LEMMA TypeScanFails ==
    ASSUME TypeInv, NEW w \in Pushes, pc[w] \in Scanning,
           loc' = [loc EXCEPT ![w].someWrong = TRUE], Goto(w, "decide")
    PROVE  pc' \in [Pushes -> PCs] /\ loc' \in [Pushes -> Local] /\ LocalShape'
<1> DEFINE l == [loc[w] EXCEPT !.someWrong = TRUE]
<1>1. loc \in [Pushes -> Local] /\ loc[w] \in Local
  BY DEF TypeInv, TypeOK
<1>2. l \in Local
  BY <1>1, LocalFields
<1>3. Shape(l, "decide")
  BY <1>1 DEF TypeInv, LocalShape, Shape, Local, BeforeScan, BeforeRegister, Scanning
<1>4. loc' = [loc EXCEPT ![w] = l]
  BY <1>1
<1> HIDE DEF l
<1> QED
  BY <1>2, <1>3, <1>4, OwnStep DEF PCs, Goto

LEMMA TypeDropDuplicate == ASSUME TypeInv, NEW w \in Pushes, DropDuplicate(w) PROVE TypeInv'
<1> USE DEF DropDuplicate
<1> DEFINE no == loc[w].no
           l0 == AddToSlice(loc[w], loc[w].des.host, loc[w].des, Len(loc[w].dgst))
           l == [l0 EXCEPT !.no = no + 1]
<1>1. MetadataTypeOK'
  BY MetadataKeep DEF TypeInv, TypeOK, MetadataTypeOK, metadataVars
<1>2. loc \in [Pushes -> Local] /\ loc[w] \in Local
  BY DEF TypeInv, TypeOK
<1>3. IsMap(unpack, Servers \X Layers \X Positive, Chunk)' /\ IsFiniteSet(DOMAIN unpack)'
  BY UnpackKeep
<1>4. StoreTypeOK' /\ IsFiniteSet(DOMAIN unpack)'
  BY <1>3 DEF TypeInv, TypeOK, StoreTypeOK, IsMap
<1>5. /\ loc[w].des \in SliceEntry
      /\ loc[w].des.host \in Hosts
      /\ Len(loc[w].dgst) \in Nat
      /\ no + 1 \in Positive
  BY <1>2 DEF Local, SliceEntry, FileDescriptor, NoDescriptor, Hosts, Chunk, Positive
<1>6. l0 \in Local /\ l0.k = loc[w].k /\ l0.isdedup = loc[w].isdedup
      /\ l0.someWrong = loc[w].someWrong
  BY <1>2, <1>5, AddToSliceType
<1>7. \/ loc' = [loc EXCEPT ![w] = l] /\ Goto(w, "check")
      \/ loc' = [loc EXCEPT ![w].someWrong = TRUE] /\ Goto(w, "decide")
  BY <1>2
<1> HIDE DEF l0
<1>8. pc' \in [Pushes -> PCs] /\ loc' \in [Pushes -> Local] /\ LocalShape'
  <2>1. CASE loc' = [loc EXCEPT ![w] = l] /\ Goto(w, "check")
    <3>1. l \in Local
      BY <1>5, <1>6, LocalFields
    <3>2. l.k = l0.k /\ l.isdedup = l0.isdedup /\ l.someWrong = l0.someWrong
      BY <1>6 DEF Local
    <3>3. Shape(l, "check")
      BY <1>6, <3>2 DEF TypeInv, LocalShape, Shape, BeforeScan, BeforeRegister, Scanning
    <3> HIDE DEF l
    <3> QED
      BY <2>1, <3>1, <3>3, OwnStep DEF PCs, Goto
  <2>2. CASE loc' = [loc EXCEPT ![w].someWrong = TRUE] /\ Goto(w, "decide")
    BY <2>2, TypeScanFails DEF Scanning
  <2> QED
    BY <1>7, <2>1, <2>2
<1>9. events' \subseteq Events
  BY DEF TypeInv, TypeOK, Events
<1> QED
  BY <1>1, <1>4, <1>8, <1>9 DEF TypeInv, TypeOK

LEMMA TypeRenameUnique == ASSUME TypeInv, NEW w \in Pushes, RenameUnique(w) PROVE TypeInv'
<1> USE DEF RenameUnique
<1> DEFINE no == loc[w].no
           path == <<w, no>>
           f == [digest |-> loc[w].dgst, path |-> path]
           l == [loc[w] EXCEPT !.nodist = Append(@, f),
                               !.nodistSize = @ + Len(loc[w].dgst),
                               !.no = no + 1]
<1>1. MetadataTypeOK'
  BY MetadataKeep DEF TypeInv, TypeOK, MetadataTypeOK, metadataVars
<1>2. loc \in [Pushes -> Local] /\ loc[w] \in Local
  BY DEF TypeInv, TypeOK
<1>3. IsMap(unpack, Servers \X Layers \X Positive, Chunk)' /\ IsFiniteSet(DOMAIN unpack)'
  BY UnpackKeep
<1>4. path \in Path
  BY <1>2, PushFacts DEF Local
<1>5. IsMap(diff', Path, Chunk)
  <2>1. IsMap(diff, Path, Chunk)
    BY DEF TypeInv, TypeOK, StoreTypeOK
  <2>2. CASE ChunkFile(w, no) \in DOMAIN unpack
    <3>1. unpack[ChunkFile(w, no)] \in Chunk
      BY <2>2 DEF TypeInv, TypeOK, StoreTypeOK, IsMap
    <3>2. IsMap(Put(diff, path, unpack[ChunkFile(w, no)]), Path, Chunk)
      BY <1>4, <2>1, <3>1, PutMap
    <3> QED
      BY <2>2, <3>2
  <2> QED
    BY <2>1, <2>2 DEF IsMap
<1>6. StoreTypeOK' /\ IsFiniteSet(DOMAIN unpack)'
  BY <1>3, <1>5 DEF TypeInv, TypeOK, StoreTypeOK, IsMap
<1>7. \/ loc' = [loc EXCEPT ![w] = l] /\ Goto(w, "check")
      \/ loc' = [loc EXCEPT ![w].someWrong = TRUE] /\ Goto(w, "decide")
  BY <1>2
<1>8. pc' \in [Pushes -> PCs] /\ loc' \in [Pushes -> Local] /\ LocalShape'
  <2>1. CASE loc' = [loc EXCEPT ![w] = l] /\ Goto(w, "check")
    <3>1. /\ f \in UniqueFile
          /\ loc[w].nodist \in Seq(UniqueFile)
          /\ loc[w].nodistSize + Len(loc[w].dgst) \in Nat
          /\ no + 1 \in Positive
      BY <1>2, <1>4 DEF Local, UniqueFile, Chunk, Positive
    <3>2. Append(loc[w].nodist, f) \in Seq(UniqueFile)
      BY <3>1
    <3> HIDE DEF f
    <3>3. l \in Local
      BY <1>2, <3>1, <3>2 DEF Local
    <3>4. l.k = loc[w].k /\ l.isdedup = loc[w].isdedup /\ l.someWrong = loc[w].someWrong
      BY <1>2 DEF Local
    <3>5. Shape(l, "check")
      BY <3>4 DEF TypeInv, LocalShape, Shape, BeforeScan, BeforeRegister, Scanning
    <3> HIDE DEF l
    <3> QED
      BY <2>1, <3>3, <3>5, OwnStep DEF PCs, Goto
  <2>2. CASE loc' = [loc EXCEPT ![w].someWrong = TRUE] /\ Goto(w, "decide")
    BY <2>2, TypeScanFails DEF Scanning
  <2> QED
    BY <1>7, <2>1, <2>2
<1> QED
  BY <1>1, <1>6, <1>8 DEF TypeInv, TypeOK, historyVars

LEMMA TypeDecide == ASSUME TypeInv, NEW w \in Pushes, Decide(w) PROVE TypeInv'
<1> USE DEF Decide
<1>1. MetadataTypeOK' /\ StoreTypeOK' /\ IsFiniteSet(DOMAIN unpack)'
  BY MetadataKeep, StoreKeep DEF TypeInv, TypeOK, MetadataTypeOK, metadataVars
<1>2. loc \in [Pushes -> Local] /\ loc[w] \in Local
  BY DEF TypeInv, TypeOK
<1>3. Shape(loc[w], "decide")
  BY DEF TypeInv, LocalShape, Shape, BeforeScan, BeforeRegister, Scanning
<1>4. pc' \in [Pushes -> PCs] /\ loc' \in [Pushes -> Local] /\ LocalShape'
  <2>1. CASE UNCHANGED loc /\ \E label \in {"empty", "finish"} : Goto(w, label)
    <3>1. PICK label \in {"empty", "finish"} : Goto(w, label)
      BY <2>1
    <3>2. Shape(loc[w], label)
      BY <1>3 DEF Shape, BeforeScan, BeforeRegister, Scanning
    <3> QED
      BY <2>1, <3>1, <3>2, OwnGoto DEF PCs
  <2>2. ASSUME NEW files \in IF KeepLocal(loc[w]) THEN {loc[w].nodist}
                             ELSE BySizeDescending(loc[w].nodist),
               loc' = [loc EXCEPT ![w].isdedup = ~loc[w].someWrong,
                                  ![w].greedy = ~KeepLocal(loc[w]),
                                  ![w].nodist = files],
               Goto(w, "register")
        PROVE  pc' \in [Pushes -> PCs] /\ loc' \in [Pushes -> Local] /\ LocalShape'
    <3> DEFINE isdedup == ~loc[w].someWrong
               greedy == ~KeepLocal(loc[w])
               l == [loc[w] EXCEPT !.isdedup = isdedup, !.greedy = greedy, !.nodist = files]
    <3>1. isdedup \in BOOLEAN /\ greedy \in BOOLEAN
      OBVIOUS
    <3>2. files \in Seq(UniqueFile)
      BY <1>2, SortType DEF Local
    <3>3. loc' = [loc EXCEPT ![w] = l]
      BY <1>2, <2>2
    <3> HIDE DEF isdedup, greedy
    <3>4. l \in Local
      BY <1>2, <3>1, <3>2 DEF Local
    <3>5. Shape(l, "register")
      BY DEF Shape, BeforeScan, BeforeRegister, Scanning
    <3> HIDE DEF l
    <3> QED
      BY <2>2, <3>3, <3>4, <3>5, OwnStep DEF PCs, Goto
  <2> QED
    BY <2>1, <2>2
<1>5. events' \subseteq Events
  BY DEF TypeInv, TypeOK, Events
<1> QED
  BY <1>1, <1>4, <1>5 DEF TypeInv, TypeOK

\* SetLayerRecipe is given hosts of the cluster, and the empty one.
LEMMA LayerRecipeTypes ==
    ASSUME TypeInv, NEW w \in Pushes, NEW hosts \in SUBSET Hosts, NEW reply,
           SetLayerRecipe(w.layer, hosts, reply)
    PROVE  MetadataTypeOK'
<1>1. MetadataTypeOK /\ w.layer \in Layers
  BY PushFacts DEF TypeInv, TypeOK
<1>2. /\ faults' \in Nat
      /\ UNCHANGED layerRecipe \/ layerRecipe' = PutNew(layerRecipe, w.layer, hosts)
      /\ UNCHANGED <<fileDesc, sliceRecipe, rlmap>>
  BY <1>1, SetLayerRecipeEffect DEF MetadataTypeOK
<1>3. IsMap(PutNew(layerRecipe, w.layer, hosts), Layers, SUBSET Hosts)
  BY <1>1, PutMap DEF MetadataTypeOK
<1>4. IsMap(layerRecipe', Layers, SUBSET Hosts)
  BY <1>1, <1>2, <1>3 DEF MetadataTypeOK
<1> QED
  BY <1>1, <1>2, <1>4 DEF MetadataTypeOK, IsMap

LEMMA TypeSetEmptyRecipe == ASSUME TypeInv, NEW w \in Pushes, SetEmptyRecipe(w) PROVE TypeInv'
<1> USE DEF SetEmptyRecipe
<1>1. MetadataTypeOK' /\ StoreTypeOK' /\ IsFiniteSet(DOMAIN unpack)'
  BY LayerRecipeTypes, StoreKeep
<1>2. Shape(loc[w], "finish")
  BY DEF Shape, BeforeScan, BeforeRegister, Scanning
<1>3. pc' \in [Pushes -> PCs] /\ loc' \in [Pushes -> Local] /\ LocalShape'
  BY <1>2, OwnGoto DEF PCs
<1> QED
  BY <1>1, <1>3 DEF TypeInv, TypeOK, historyVars

LEMMA TypeSetLayer == ASSUME TypeInv, NEW w \in Pushes, SetLayer(w) PROVE TypeInv'
<1> USE DEF SetLayer
<1>1. MetadataTypeOK' /\ StoreTypeOK' /\ IsFiniteSet(DOMAIN unpack)'
  BY LayerRecipeTypes, StoreKeep DEF SliceHosts
<1>2. Shape(loc[w], "finish")
  BY DEF Shape, BeforeScan, BeforeRegister, Scanning
<1>3. pc' \in [Pushes -> PCs] /\ loc' \in [Pushes -> Local] /\ LocalShape'
  BY <1>2, OwnGoto DEF PCs
<1> QED
  BY <1>1, <1>3 DEF TypeInv, TypeOK, historyVars

LEMMA TypeSetSlice == ASSUME TypeInv, NEW w \in Pushes, SetSlice(w) PROVE TypeInv'
<1> USE DEF SetSlice
<1>1. PICK sip \in SliceHosts(loc[w]) \ loc[w].wrote, reply \in SetReplies :
           /\ SetSliceRecipe(w.layer, loc[w].slices[sip], sip, reply)
           /\ IF reply = "ok"
              THEN loc' = [loc EXCEPT ![w].wrote = @ \cup {sip}] /\ UNCHANGED pc
              ELSE Goto(w, "finish") /\ UNCHANGED loc
  OBVIOUS
<1>2. loc \in [Pushes -> Local] /\ loc[w] \in Local /\ MetadataTypeOK
  BY DEF TypeInv, TypeOK
<1>3. sip \in Hosts /\ loc[w].slices[sip] \in Seq(SliceEntry)
  BY <1>2 DEF SliceHosts, Local
<1>4. /\ faults' \in Nat
      /\ \/ UNCHANGED sliceRecipe
         \/ sliceRecipe' = PutNew(sliceRecipe, <<w.layer, sip>>, loc[w].slices[sip])
      /\ UNCHANGED <<fileDesc, layerRecipe, rlmap>>
  BY <1>1, <1>2, SetSliceRecipeEffect DEF MetadataTypeOK
<1>5. IsMap(sliceRecipe', Layers \X Hosts, Seq(SliceEntry))
  <2>1. IsMap(sliceRecipe, Layers \X Hosts, Seq(SliceEntry))
    BY <1>2 DEF MetadataTypeOK
  <2>2. <<w.layer, sip>> \in Layers \X Hosts
    BY <1>3, PushFacts
  <2>3. IsMap(PutNew(sliceRecipe, <<w.layer, sip>>, loc[w].slices[sip]),
              Layers \X Hosts, Seq(SliceEntry))
    BY <1>3, <2>1, <2>2, PutMap
  <2> QED
    BY <1>4, <2>1, <2>3
<1>6. MetadataTypeOK'
  BY <1>2, <1>4, <1>5 DEF MetadataTypeOK, IsMap
<1>7. StoreTypeOK' /\ IsFiniteSet(DOMAIN unpack)'
  BY StoreKeep
<1>8. pc' \in [Pushes -> PCs] /\ loc' \in [Pushes -> Local] /\ LocalShape'
  <2>1. CASE reply = "ok"
    <3> DEFINE wrote == loc[w].wrote \cup {sip}
               l == [loc[w] EXCEPT !.wrote = wrote]
    <3>1. wrote \in SUBSET Hosts
      BY <1>2, <1>3 DEF Local
    <3>2. loc' = [loc EXCEPT ![w] = l] /\ pc' = [pc EXCEPT ![w] = "register"]
      BY <1>1, <1>2, <2>1 DEF TypeInv, TypeOK
    <3> HIDE DEF wrote
    <3>3. l \in Local
      BY <1>2, <3>1, LocalFields
    <3>4. Shape(l, "register")
      BY DEF Shape, BeforeScan, BeforeRegister, Scanning
    <3> HIDE DEF l
    <3> QED
      BY <3>2, <3>3, <3>4, OwnStep DEF PCs
  <2>2. CASE reply # "ok"
    <3>1. Shape(loc[w], "finish")
      BY DEF Shape, BeforeScan, BeforeRegister, Scanning
    <3> QED
      BY <1>1, <2>2, <3>1, OwnGoto DEF PCs
  <2> QED
    BY <2>1, <2>2
<1> QED
  BY <1>6, <1>7, <1>8 DEF TypeInv, TypeOK, historyVars

LEMMA TypeRegisterFile == ASSUME TypeInv, NEW w \in Pushes, RegisterFile(w) PROVE TypeInv'
<1> USE DEF RegisterFile
<1> DEFINE f == loc[w].nodist[loc[w].k]
           D(host) == [digest |-> f.digest, path |-> f.path, host |-> host]
<1>1. PICK host \in IF loc[w].greedy THEN SmallestServers(loc[w].size) ELSE {w.srv},
           reply \in SetNXReplies :
           /\ SetFileDescriptor(f.digest, D(host), reply)
           /\ IF reply = "set"
              THEN /\ loc' = [loc EXCEPT ![w] =
                        [AddToSlice(@, host, D(host), Len(f.digest)) EXCEPT !.k = loc[w].k + 1]]
                   /\ UNCHANGED <<diff, events, pc>>
              ELSE /\ diff' = Drop(diff, {f.path})
                   /\ events' = IF reply = "exists" THEN events \cup {"lostRace"} ELSE events
                   /\ Goto(w, "lost")
                   /\ UNCHANGED loc
  OBVIOUS
<1> DEFINE des == D(host)
<1>2. loc \in [Pushes -> Local] /\ loc[w] \in Local /\ MetadataTypeOK
  BY DEF TypeInv, TypeOK
<1>3. host \in Servers
  BY PushFacts DEF SmallestServers
<1>4. f \in UniqueFile
  <2>1. loc[w].k <= Len(loc[w].nodist)
    OBVIOUS
  <2> HIDE DEF RegisterFile
  <2>2. loc[w].nodist \in Seq(UniqueFile) /\ loc[w].k \in Nat \ {0}
    BY <1>2 DEF Local, Positive
  <2> QED  BY <2>1, <2>2
<1>5. f.digest \in Chunk /\ Len(f.digest) \in Nat /\ des \in FileDescriptor
  <2> HIDE DEF f, RegisterFile
  <2>1. f.digest \in Chunk /\ f.path \in Path
    BY <1>4 DEF UniqueFile
  <2>2. Len(f.digest) \in Nat
    BY <2>1 DEF Chunk
  <2>3. des \in FileDescriptor
    BY <1>3, <2>1 DEF FileDescriptor
  <2> QED  BY <2>1, <2>2, <2>3
<1>6. /\ SetFileDescriptor(f.digest, des, reply)
      /\ \/ /\ loc' = [loc EXCEPT ![w] =
                   [AddToSlice(loc[w], host, des, Len(f.digest)) EXCEPT !.k = loc[w].k + 1]]
            /\ UNCHANGED <<diff, events, pc>>
         \/ /\ diff' = Drop(diff, {f.path})
            /\ events' \in {events, events \cup {"lostRace"}}
            /\ Goto(w, "lost")
            /\ UNCHANGED loc
  BY <1>1, <1>2
<1>7. pc[w] = "register" /\ pc \in [Pushes -> PCs] /\ loc[w].k <= Len(loc[w].nodist)
  BY DEF TypeInv, TypeOK
<1>8. UNCHANGED <<layerFile, committed, partial, unpack, counter, crashes>>
  OBVIOUS
<1> HIDE DEF f, des, RegisterFile
<1>9. MetadataTypeOK'
  <2>1. /\ faults' \in Nat
        /\ UNCHANGED fileDesc \/ fileDesc' = PutNew(fileDesc, f.digest, des)
        /\ UNCHANGED <<sliceRecipe, layerRecipe, rlmap>>
    BY <1>2, <1>6, SetFileDescriptorEffect DEF MetadataTypeOK
  <2>2. IsMap(fileDesc, Chunk, FileDescriptor)
    BY <1>2 DEF MetadataTypeOK
  <2>3. IsMap(PutNew(fileDesc, f.digest, des), Chunk, FileDescriptor)
    BY <1>5, <2>2, PutMap
  <2>4. IsMap(fileDesc', Chunk, FileDescriptor)
    BY <2>1, <2>2, <2>3
  <2> QED
    BY <1>2, <2>1, <2>4 DEF MetadataTypeOK, IsMap
<1>10. StoreTypeOK' /\ IsFiniteSet(DOMAIN unpack)'
  <2>1. IsMap(diff, Path, Chunk)
    BY DEF TypeInv, TypeOK, StoreTypeOK
  <2>2. IsMap(Drop(diff, {f.path}), Path, Chunk)
    BY <2>1, DropMap
  <2>3. IsMap(diff', Path, Chunk)
    BY <1>6, <2>1, <2>2
  <2> QED
    BY <1>8, <2>3 DEF TypeInv, TypeOK, StoreTypeOK, IsMap
<1>11. pc' \in [Pushes -> PCs] /\ loc' \in [Pushes -> Local] /\ LocalShape'
  <2>1. CASE /\ loc' = [loc EXCEPT ![w] =
                    [AddToSlice(loc[w], host, des, Len(f.digest)) EXCEPT !.k = loc[w].k + 1]]
             /\ UNCHANGED pc
    <3> DEFINE l0 == AddToSlice(loc[w], host, des, Len(f.digest))
               l == [l0 EXCEPT !.k = loc[w].k + 1]
    <3>1. l0 \in Local
      BY <1>2, <1>3, <1>5, AddToSliceType, HostsFacts DEF SliceEntry
    <3>2. loc[w].k + 1 \in Positive
      BY <1>2 DEF Local, Positive
    <3>3. l \in Local
      BY <3>1, <3>2, LocalFields
    <3>4. loc' = [loc EXCEPT ![w] = l] /\ pc' = [pc EXCEPT ![w] = "register"]
      BY <1>7, <2>1
    <3>5. Shape(l, "register")
      BY DEF Shape, BeforeScan, BeforeRegister, Scanning
    <3> HIDE DEF l
    <3> QED
      BY <3>3, <3>4, <3>5, OwnStep DEF PCs
  <2>2. CASE Goto(w, "lost") /\ UNCHANGED loc
    <3>1. Shape(loc[w], "lost")
      BY <1>7 DEF Shape, BeforeScan, BeforeRegister, Scanning
    <3> QED
      BY <2>2, <3>1, OwnGoto DEF PCs
  <2> QED
    BY <1>6, <2>1, <2>2
<1>12. events' \subseteq Events
  BY <1>6 DEF TypeInv, TypeOK, Events
<1> QED
  BY <1>8, <1>9, <1>10, <1>11, <1>12 DEF TypeInv, TypeOK

LEMMA TypeAddExisting == ASSUME TypeInv, NEW w \in Pushes, AddExisting(w) PROVE TypeInv'
<1> USE DEF AddExisting
<1> DEFINE f == loc[w].nodist[loc[w].k]
           l0 == AddToSlice(loc[w], NoHost, NoDescriptor, Len(f.digest))
<1>1. PICK reply \in StatReplies :
           /\ StatFile(f.digest, reply)
           /\ loc' = [loc EXCEPT ![w] =
                IF reply = "ok" THEN [@ EXCEPT !.k = loc[w].k + 1]
                ELSE [AddToSlice(@, NoHost, NoDescriptor, Len(f.digest)) EXCEPT !.k = loc[w].k + 1]]
  OBVIOUS
<1>2. loc \in [Pushes -> Local] /\ loc[w] \in Local /\ loc[w].k + 1 \in Positive
  BY DEF TypeInv, TypeOK, Local, Positive
<1>3. UNCHANGED <<fileDesc, sliceRecipe, layerRecipe, rlmap>> /\ faults' \in Nat
  BY <1>1, StatEffect DEF StatFile, TypeInv, TypeOK, MetadataTypeOK
<1>4. MetadataTypeOK' /\ StoreTypeOK' /\ IsFiniteSet(DOMAIN unpack)'
  BY <1>3, MetadataKeep, StoreKeep
<1>5. loc[w].k <= Len(loc[w].nodist)
  BY DEF TypeInv, LocalShape, Shape
<1>6. f \in UniqueFile
  BY <1>2, <1>5 DEF Local, Positive
<1>7. Len(f.digest) \in Nat
  BY <1>6 DEF UniqueFile, Chunk
<1>8. PICK l1 \in {loc[w], l0} : loc' = [loc EXCEPT ![w] = [l1 EXCEPT !.k = loc[w].k + 1]]
  BY <1>1, <1>2
<1>9. l1 \in Local
  BY <1>2, <1>7, AddToSliceType, HostsFacts, NoDescriptorType
<1> DEFINE l == [l1 EXCEPT !.k = loc[w].k + 1]
<1>10. l \in Local
  BY <1>2, <1>9, LocalFields
<1>11. Shape(l, "register")
  BY DEF Shape, BeforeScan, BeforeRegister, Scanning
<1>12. loc' = [loc EXCEPT ![w] = l]
  BY <1>8
<1> HIDE DEF l
<1>13. pc' \in [Pushes -> PCs] /\ loc' \in [Pushes -> Local] /\ LocalShape'
  BY <1>10, <1>11, <1>12, OwnStep DEF PCs, Goto
<1> QED
  BY <1>4, <1>13 DEF TypeInv, TypeOK, historyVars

LEMMA TypeFinish == ASSUME TypeInv, NEW w \in Pushes, Finish(w) PROVE TypeInv'
<1> USE DEF Finish
<1>1. MetadataTypeOK'
  BY MetadataKeep DEF TypeInv, TypeOK, MetadataTypeOK, metadataVars
<1>2. IsMap(unpack, Servers \X Layers \X Positive, Chunk)' /\ IsFiniteSet(DOMAIN unpack)'
  BY UnpackKeep
<1>3. IsMap(diff', Path, Chunk) /\ IsMap(partial', Servers \X Layers, Seq(Blocks) \ {<<>>})
  <2>1. IsMap(diff, Path, Chunk) /\ IsMap(partial, Servers \X Layers, Seq(Blocks) \ {<<>>})
    BY DEF TypeInv, TypeOK, StoreTypeOK
  <2>2. /\ IsMap(Drop(diff, DiffDir(w)), Path, Chunk)
        /\ IsMap(Drop(partial, {Dir(w)}), Servers \X Layers, Seq(Blocks) \ {<<>>})
    BY <2>1, DropMap
  <2> QED
    BY <2>1, <2>2
<1>4. StoreTypeOK'
  BY <1>2, <1>3 DEF TypeInv, TypeOK, StoreTypeOK, IsMap
<1>5. Shape(NoLocal, "done")
  BY DEF Shape, BeforeScan, BeforeRegister, Scanning
<1>6. pc' \in [Pushes -> PCs] /\ loc' \in [Pushes -> Local] /\ LocalShape'
  BY <1>5, NoLocalType, OwnStep DEF PCs, Goto
<1>7. counter' \in [Servers -> Nat]
  BY PushFacts DEF TypeInv, TypeOK
<1> QED
  BY <1>1, <1>2, <1>4, <1>6, <1>7 DEF TypeInv, TypeOK, historyVars

LEMMA TypeProcessDies == ASSUME TypeInv, NEW s \in Servers, ProcessDies(s) PROVE TypeInv'
<1> USE DEF ProcessDies
<1>1. MetadataTypeOK' /\ StoreTypeOK' /\ IsFiniteSet(DOMAIN unpack)'
  BY MetadataKeep, StoreKeep DEF TypeInv, TypeOK, MetadataTypeOK, metadataVars
<1>2. pc' \in [Pushes -> PCs]
  BY DEF TypeInv, TypeOK, PCs
<1>3. loc' \in [Pushes -> Local]
  BY NoLocalType DEF TypeInv, TypeOK
<1>4. LocalShape'
  <2> SUFFICES ASSUME NEW v \in Pushes PROVE Shape(loc'[v], pc'[v])
    BY DEF LocalShape, Shape
  <2>1. CASE v.srv = s
    <3>1. loc'[v] = NoLocal /\ pc'[v] # "lost"
      BY <2>1 DEF Active
    <3> QED
      BY <3>1 DEF Shape, NoLocal
  <2>2. CASE v.srv # s
    <3>1. loc'[v] = loc[v] /\ pc'[v] = pc[v]
      BY <2>2
    <3> QED
      BY <3>1 DEF TypeInv, LocalShape
  <2> QED
    BY <2>1, <2>2
<1>5. counter' \in [Servers -> Nat] /\ crashes' \in Nat
  BY DEF TypeInv, TypeOK
<1> QED
  BY <1>1, <1>2, <1>3, <1>4, <1>5 DEF TypeInv, TypeOK

LEMMA TypeStutter == ASSUME TypeInv, UNCHANGED vars PROVE TypeInv'
BY DEF vars, metadataVars, storeVars, workerVars, historyVars, TypeInv, TypeOK,
       MetadataTypeOK, StoreTypeOK, IsMap, LocalShape, Shape

LEMMA TypeStep == TypeInv /\ [Next]_vars => TypeInv'
<1> SUFFICES ASSUME TypeInv, [Next]_vars PROVE TypeInv'
  OBVIOUS
<1>1. ASSUME NEW w \in Pushes, Push(w) \/ DedupStep(w) PROVE TypeInv'
  BY <1>1, TypePush, TypeOpenLayer, TypeStatRLMap, TypeSetRLMap, TypeDecode, TypeSplit,
     TypeListUnpack, TypeCheckChunk, TypeDropDuplicate, TypeRenameUnique, TypeDecide,
     TypeSetEmptyRecipe, TypeRegisterFile, TypeAddExisting, TypeSetSlice, TypeSetLayer,
     TypeFinish
  DEF DedupStep
<1>2. ASSUME NEW w \in Pushes, Panic(w) PROVE TypeInv'
  BY <1>2, TypeProcessDies, PushFacts DEF Panic
<1>3. ASSUME NEW s \in Servers, Crash(s) PROVE TypeInv'
  BY <1>3, TypeProcessDies DEF Crash
<1> QED
  BY <1>1, <1>2, <1>3, TypeStutter DEF Next

LEMMA TypeAlways == Spec => []TypeInv
BY TypeInit, TypeStep, PTL DEF Spec

\* Every variable of the deduplication keeps its type, whatever servers, pushes
\* and layers there are and whatever fails.
THEOREM TypeCorrect == Spec => []TypeOK
<1>1. TypeInv => TypeOK
  BY DEF TypeInv
<1> QED
  BY <1>1, TypeAlways, PTL

-----------------------------------------------------------------------------
(* What each step of a push does, for the proofs of the other invariants. *)

\* Only push w moves.
Others(w) == \A v \in Pushes : v # w => pc'[v] = pc[v] /\ loc'[v] = loc[v]

LEMMA UpdateOne ==
    ASSUME TypeInv, NEW w \in Pushes, NEW label, NEW l,
           pc' = [pc EXCEPT ![w] = label], loc' = [loc EXCEPT ![w] = l]
    PROVE  pc'[w] = label /\ loc'[w] = l /\ Others(w)
BY DEF TypeInv, TypeOK, Others

LEMMA GotoOne ==
    ASSUME TypeInv, NEW w \in Pushes, NEW label, Goto(w, label), UNCHANGED loc
    PROVE  pc'[w] = label /\ loc'[w] = loc[w] /\ Others(w)
BY DEF TypeInv, TypeOK, Others, Goto

\* The steps before the scan: no local variable of interest changes.
LEMMA EarlyEffect ==
    ASSUME TypeInv, NEW w \in Pushes,
           \/ OpenLayer(w) \/ StatRLMap(w) \/ SetRLMap(w) \/ Decode(w) \/ SplitFileChunk(w)
    PROVE  /\ UNCHANGED <<fileDesc, sliceRecipe, layerRecipe, layerFile, committed, diff, events>>
           /\ faults' \in Nat /\ faults' >= faults
           /\ Active(w)
           /\ pc[w] \in BeforeScan
           /\ pc'[w] \in BeforeScan \cup {"done"}
           /\ loc'[w].nodist = loc[w].nodist
           /\ loc'[w].no = loc[w].no
           /\ loc'[w].k = loc[w].k
           /\ loc'[w].wrote = loc[w].wrote
           /\ loc'[w].isdedup = loc[w].isdedup
           /\ loc'[w].someWrong = loc[w].someWrong
           /\ loc'[w].slices = loc[w].slices /\ loc'[w].size = loc[w].size
           /\ Others(w)
<1>1. UNCHANGED <<fileDesc, sliceRecipe, layerRecipe, layerFile, committed, diff, events>>
  BY DEF OpenLayer, StatRLMap, SetRLMap, Decode, SplitFileChunk, StatRLMapEntry,
         SetRLMapEntry, metadataVars, storeVars, historyVars
<1>2. faults' \in Nat /\ faults' >= faults
  BY DEF OpenLayer, StatRLMap, SetRLMap, Decode, SplitFileChunk, StatRLMapEntry,
         SetRLMapEntry, Stat, RedisError, TypeInv, TypeOK, MetadataTypeOK, metadataVars
<1>3. Active(w) /\ pc[w] \in BeforeScan
  BY DEF OpenLayer, StatRLMap, SetRLMap, Decode, SplitFileChunk, Active, BeforeScan
<1>4. pc'[w] \in BeforeScan \cup {"done"} /\ \A v \in Pushes : v # w => pc'[v] = pc[v]
  BY DEF OpenLayer, StatRLMap, SetRLMap, Decode, SplitFileChunk, Goto, TypeInv, TypeOK,
         BeforeScan
<1>5. \A v \in Pushes : v # w => loc'[v] = loc[v]
  BY DEF OpenLayer, StatRLMap, SetRLMap, Decode, SplitFileChunk, TypeInv, TypeOK
<1>6. /\ loc'[w].nodist = loc[w].nodist
      /\ loc'[w].no = loc[w].no
      /\ loc'[w].k = loc[w].k
      /\ loc'[w].wrote = loc[w].wrote
      /\ loc'[w].isdedup = loc[w].isdedup
      /\ loc'[w].someWrong = loc[w].someWrong
      /\ loc'[w].slices = loc[w].slices /\ loc'[w].size = loc[w].size
  <2>1. CASE UNCHANGED loc
    BY <2>1
  <2>2. CASE StatRLMap(w) /\ ~UNCHANGED loc
    <3>1. PICK v : loc' = [loc EXCEPT ![w].rl = v]
      BY <2>2 DEF StatRLMap
    <3> QED
      BY <3>1 DEF TypeInv, TypeOK, Local
  <2> QED
    BY <2>1, <2>2 DEF OpenLayer, SetRLMap, Decode, SplitFileChunk
<1> QED
  BY <1>1, <1>2, <1>3, <1>4, <1>5, <1>6 DEF Others

LEMMA ListUnpackEffect ==
    ASSUME TypeInv, NEW w \in Pushes, ListUnpack(w)
    PROVE  /\ UNCHANGED <<metadataVars, storeVars, events>>
           /\ pc[w] = "list" /\ pc'[w] = "check"
           /\ loc'[w].fcnt = Cardinality(UnpackDir(w))
           /\ loc'[w].nodist = loc[w].nodist
           /\ loc'[w].no = loc[w].no
           /\ loc'[w].k = loc[w].k
           /\ loc'[w].wrote = loc[w].wrote
           /\ loc'[w].isdedup = loc[w].isdedup
           /\ loc'[w].someWrong = loc[w].someWrong
           /\ loc'[w].slices = loc[w].slices /\ loc'[w].size = loc[w].size
           /\ Others(w)
BY DEF ListUnpack, Goto, TypeInv, TypeOK, Local, historyVars, Others

LEMMA CheckChunkEffect ==
    ASSUME TypeInv, NEW w \in Pushes, CheckChunk(w)
    PROVE  /\ UNCHANGED <<fileDesc, sliceRecipe, layerRecipe, storeVars, events>>
           /\ faults' \in Nat /\ faults' >= faults
           /\ pc[w] = "check" /\ pc'[w] \in {"remove", "rename", "decide"}
           /\ pc'[w] = "decide" => faults' > 0
           /\ pc'[w] = "decide" => loc'[w].someWrong
           /\ pc'[w] # "decide" => ~loc'[w].someWrong
           /\ pc'[w] = "remove" =>
                 loc'[w].dgst \in DOMAIN fileDesc /\ loc'[w].des = fileDesc[loc'[w].dgst]
           /\ loc[w].no <= loc[w].fcnt
           /\ ChunkFile(w, loc[w].no) \in DOMAIN unpack
           /\ loc'[w].dgst = unpack[ChunkFile(w, loc[w].no)]
           /\ loc'[w].fcnt = loc[w].fcnt
           /\ loc'[w].nodist = loc[w].nodist
           /\ loc'[w].no = loc[w].no
           /\ loc'[w].k = loc[w].k
           /\ loc'[w].wrote = loc[w].wrote
           /\ loc'[w].isdedup = loc[w].isdedup
           /\ loc'[w].slices = loc[w].slices /\ loc'[w].size = loc[w].size
           /\ Others(w)
<1> DEFINE chunk == unpack[ChunkFile(w, loc[w].no)]
<1>1. PICK reply \in StatReplies :
        /\ StatFile(chunk, reply)
        /\ loc' = [loc EXCEPT ![w].dgst = chunk,
                              ![w].dirSize = @ + Len(chunk),
                              ![w].des = IF reply = "ok" THEN fileDesc[chunk] ELSE NoDescriptor,
                              ![w].someWrong = (reply = "error")]
        /\ Goto(w, CASE reply = "ok" -> "remove"
                     [] reply = "nil" -> "rename"
                     [] reply = "error" -> "decide")
  BY DEF CheckChunk
<1>2. /\ pc[w] = "check"
      /\ loc[w].no <= loc[w].fcnt
      /\ ChunkFile(w, loc[w].no) \in DOMAIN unpack
      /\ UNCHANGED <<storeVars, events>>
  BY DEF CheckChunk, historyVars
<1>3. PICK d : /\ loc' = [loc EXCEPT ![w] = [loc[w] EXCEPT !.dgst = chunk,
                              !.dirSize = @ + Len(chunk),
                              !.des = d, !.someWrong = (reply = "error")]]
               /\ reply = "ok" => d = fileDesc[chunk]
  BY <1>1 DEF TypeInv, TypeOK
<1>4. PICK label : /\ Goto(w, label)
                   /\ label \in {"remove", "rename", "decide"}
                   /\ label = "decide" <=> reply = "error"
                   /\ label = "remove" <=> reply = "ok"
  BY <1>1 DEF StatReplies
<1>5. /\ faults' \in Nat /\ faults' >= faults /\ (reply = "error" => faults' > 0)
      /\ reply = "ok" => chunk \in DOMAIN fileDesc
  BY <1>1, StatEffect DEF StatFile, TypeInv, TypeOK, MetadataTypeOK
<1>6. UNCHANGED <<fileDesc, sliceRecipe, layerRecipe>>
  BY <1>1 DEF StatFile
<1> HIDE DEF chunk
<1> DEFINE l == [loc[w] EXCEPT !.dgst = chunk, !.dirSize = @ + Len(chunk),
                              !.des = d, !.someWrong = (reply = "error")]
<1>7. loc[w] \in Local
  BY DEF TypeInv, TypeOK
<1>8. /\ l.dgst = chunk
      /\ l.des = d /\ l.slices = loc[w].slices /\ l.size = loc[w].size
      /\ reply = "error" => l.someWrong
      /\ reply # "error" => ~l.someWrong
      /\ l.fcnt = loc[w].fcnt
      /\ l.nodist = loc[w].nodist
      /\ l.no = loc[w].no
      /\ l.k = loc[w].k
      /\ l.wrote = loc[w].wrote
      /\ l.isdedup = loc[w].isdedup
  BY <1>7 DEF Local
<1>9. loc' = [loc EXCEPT ![w] = l] /\ pc' = [pc EXCEPT ![w] = label]
  BY <1>3, <1>4 DEF Goto
<1> HIDE DEF l
<1>10. pc'[w] = label /\ loc'[w] = l /\ Others(w)
  BY <1>9, UpdateOne
<1> QED
  BY <1>2, <1>3, <1>4, <1>5, <1>6, <1>8, <1>10 DEF chunk

\* A chunk file that is gone: someWrong is set and nothing else happens.
LEMMA ScanFailsEffect ==
    ASSUME TypeInv, NEW w \in Pushes,
           loc' = [loc EXCEPT ![w].someWrong = TRUE], Goto(w, "decide")
    PROVE  /\ pc'[w] = "decide"
           /\ loc'[w].fcnt = loc[w].fcnt
           /\ loc'[w].nodist = loc[w].nodist
           /\ loc'[w].no = loc[w].no
           /\ loc'[w].k = loc[w].k
           /\ loc'[w].wrote = loc[w].wrote
           /\ loc'[w].isdedup = loc[w].isdedup
           /\ loc'[w].someWrong
           /\ loc'[w].slices = loc[w].slices /\ loc'[w].size = loc[w].size
           /\ Others(w)
BY DEF TypeInv, TypeOK, Local, Goto, Others

LEMMA DropDuplicateEffect ==
    ASSUME TypeInv, NEW w \in Pushes, DropDuplicate(w)
    PROVE  /\ UNCHANGED <<metadataVars, layerFile, committed, partial, diff>>
           /\ events \subseteq events'
           /\ "sameLayer" \in events' => "sameLayer" \in events
           /\ "fmode" \in events' => "fmode" \in events
           /\ "lostRace" \in events' => "lostRace" \in events
           /\ pc[w] = "remove"
           /\ \/ /\ ChunkFile(w, loc[w].no) \in DOMAIN unpack
                 /\ unpack' = Drop(unpack, {ChunkFile(w, loc[w].no)})
                 /\ pc'[w] = "check"
                 /\ loc'[w].no = loc[w].no + 1
                 /\ loc'[w].someWrong = loc[w].someWrong
                 /\ loc[w].nodist # <<>> => "reorder" \in events'
                 /\ loc'[w].slices = [loc[w].slices EXCEPT ![loc[w].des.host] = Append(@, loc[w].des)]
                 /\ loc'[w].size = [loc[w].size EXCEPT ![loc[w].des.host] = @ + Len(loc[w].dgst)]
              \/ /\ ChunkFile(w, loc[w].no) \notin DOMAIN unpack
                 /\ UNCHANGED unpack
                 /\ pc'[w] = "decide"
                 /\ loc'[w].no = loc[w].no
                 /\ loc'[w].someWrong
                 /\ loc'[w].slices = loc[w].slices /\ loc'[w].size = loc[w].size
           /\ loc'[w].fcnt = loc[w].fcnt
           /\ loc'[w].nodist = loc[w].nodist
           /\ loc'[w].k = loc[w].k
           /\ loc'[w].wrote = loc[w].wrote
           /\ loc'[w].isdedup = loc[w].isdedup
           /\ Others(w)
<1> DEFINE a == [AddToSlice(loc[w], loc[w].des.host, loc[w].des, Len(loc[w].dgst))
                    EXCEPT !.no = loc[w].no + 1]
<1>1. /\ UNCHANGED <<metadataVars, layerFile, committed, partial, diff>>
      /\ pc[w] = "remove"
      /\ events' \in {events, events \cup {"reorder"}}
  BY DEF DropDuplicate
<1>2. loc[w] \in Local /\ loc \in [Pushes -> Local]
  BY DEF TypeInv, TypeOK
<1>3. CASE ChunkFile(w, loc[w].no) \in DOMAIN unpack
  <2>1. /\ unpack' = Drop(unpack, {ChunkFile(w, loc[w].no)})
        /\ loc' = [loc EXCEPT ![w] = a]
        /\ pc' = [pc EXCEPT ![w] = "check"]
        /\ loc[w].nodist # <<>> => "reorder" \in events'
    BY <1>2, <1>3 DEF DropDuplicate, Goto
  <2>2. /\ a.no = loc[w].no + 1 /\ a.k = loc[w].k /\ a.nodist = loc[w].nodist
        /\ a.wrote = loc[w].wrote
        /\ a.isdedup = loc[w].isdedup /\ a.someWrong = loc[w].someWrong
        /\ a.fcnt = loc[w].fcnt
        /\ a.slices = [loc[w].slices EXCEPT ![loc[w].des.host] = Append(@, loc[w].des)]
        /\ a.size = [loc[w].size EXCEPT ![loc[w].des.host] = @ + Len(loc[w].dgst)]
    BY <1>2 DEF AddToSlice, Local
  <2> HIDE DEF a
  <2>3. pc'[w] = "check" /\ loc'[w] = a /\ Others(w)
    BY <2>1, UpdateOne
  <2> QED
    BY <1>1, <1>3, <2>1, <2>2, <2>3
<1>4. CASE ChunkFile(w, loc[w].no) \notin DOMAIN unpack
  <2>1. /\ loc' = [loc EXCEPT ![w].someWrong = TRUE]
        /\ Goto(w, "decide")
        /\ UNCHANGED unpack
    BY <1>4 DEF DropDuplicate
  <2> QED
    BY <1>1, <1>4, <2>1, ScanFailsEffect
<1> QED
  BY <1>3, <1>4

LEMMA RenameUniqueEffect ==
    ASSUME TypeInv, NEW w \in Pushes, RenameUnique(w)
    PROVE  /\ UNCHANGED <<metadataVars, layerFile, committed, partial, events>>
           /\ pc[w] = "rename"
           /\ \/ /\ ChunkFile(w, loc[w].no) \in DOMAIN unpack
                 /\ unpack' = Drop(unpack, {ChunkFile(w, loc[w].no)})
                 /\ diff' = Put(diff, <<w, loc[w].no>>, unpack[ChunkFile(w, loc[w].no)])
                 /\ pc'[w] = "check"
                 /\ loc'[w].no = loc[w].no + 1
                 /\ loc'[w].nodist =
                        Append(loc[w].nodist, [digest |-> loc[w].dgst, path |-> <<w, loc[w].no>>])
                 /\ loc'[w].someWrong = loc[w].someWrong
              \/ /\ ChunkFile(w, loc[w].no) \notin DOMAIN unpack
                 /\ UNCHANGED <<unpack, diff>>
                 /\ pc'[w] = "decide"
                 /\ loc'[w].no = loc[w].no
                 /\ loc'[w].nodist = loc[w].nodist
                 /\ loc'[w].someWrong
           /\ loc'[w].fcnt = loc[w].fcnt
           /\ loc'[w].k = loc[w].k
           /\ loc'[w].wrote = loc[w].wrote
           /\ loc'[w].isdedup = loc[w].isdedup
           /\ loc'[w].slices = loc[w].slices /\ loc'[w].size = loc[w].size
           /\ Others(w)
<1> DEFINE file == [digest |-> loc[w].dgst, path |-> <<w, loc[w].no>>]
           a == [loc[w] EXCEPT !.nodist = Append(@, file),
                               !.nodistSize = @ + Len(loc[w].dgst),
                               !.no = loc[w].no + 1]
<1>1. /\ UNCHANGED <<metadataVars, layerFile, committed, partial, events>>
      /\ pc[w] = "rename"
  BY DEF RenameUnique, historyVars
<1>2. loc[w] \in Local /\ loc \in [Pushes -> Local]
  BY DEF TypeInv, TypeOK
<1>3. CASE ChunkFile(w, loc[w].no) \in DOMAIN unpack
  <2>1. /\ unpack' = Drop(unpack, {ChunkFile(w, loc[w].no)})
        /\ diff' = Put(diff, <<w, loc[w].no>>, unpack[ChunkFile(w, loc[w].no)])
        /\ loc' = [loc EXCEPT ![w] = a]
        /\ pc' = [pc EXCEPT ![w] = "check"]
    BY <1>2, <1>3 DEF RenameUnique, Goto
  <2>2. /\ a.no = loc[w].no + 1 /\ a.k = loc[w].k
        /\ a.nodist = Append(loc[w].nodist, file)
        /\ a.wrote = loc[w].wrote
        /\ a.isdedup = loc[w].isdedup /\ a.someWrong = loc[w].someWrong
        /\ a.fcnt = loc[w].fcnt
        /\ a.slices = loc[w].slices /\ a.size = loc[w].size
    BY <1>2 DEF Local
  <2> HIDE DEF a
  <2>3. pc'[w] = "check" /\ loc'[w] = a /\ Others(w)
    BY <2>1, UpdateOne
  <2> QED
    BY <1>1, <1>3, <2>1, <2>2, <2>3
<1>4. CASE ChunkFile(w, loc[w].no) \notin DOMAIN unpack
  <2>1. /\ loc' = [loc EXCEPT ![w].someWrong = TRUE]
        /\ Goto(w, "decide")
        /\ UNCHANGED <<unpack, diff>>
    BY <1>4 DEF RenameUnique
  <2> QED
    BY <1>1, <1>4, <2>1, ScanFailsEffect
<1> QED
  BY <1>3, <1>4

LEMMA DecideEffect ==
    ASSUME TypeInv, NEW w \in Pushes, Decide(w)
    PROVE  /\ UNCHANGED <<metadataVars, storeVars>>
           /\ events \subseteq events'
           /\ "sameLayer" \in events' => "sameLayer" \in events
           /\ "lostRace" \in events' => "lostRace" \in events
           /\ pc[w] = "decide" \/ (pc[w] = "check" /\ loc[w].no > loc[w].fcnt)
           /\ \/ pc'[w] = "empty" /\ loc[w].fcnt = 0 /\ loc'[w] = loc[w] /\ events' = events
              \/ pc'[w] = "finish" /\ "fmode" \in events' /\ loc'[w] = loc[w]
              \/ /\ pc'[w] = "register"
                 /\ "fmode" \in events' => "fmode" \in events
                 /\ loc'[w].isdedup = ~loc[w].someWrong
                 /\ \/ loc'[w].nodist = loc[w].nodist
                    \/ loc'[w].nodist \in BySizeDescending(loc[w].nodist)
                 /\ "reorder" \notin events' => loc'[w].nodist = loc[w].nodist
                 /\ loc'[w].slices = loc[w].slices /\ loc'[w].size = loc[w].size
                 /\ loc'[w].someWrong = loc[w].someWrong
                 /\ loc'[w].no = loc[w].no
                 /\ loc'[w].k = loc[w].k
                 /\ loc'[w].wrote = loc[w].wrote
           /\ Others(w)
<1>1. /\ UNCHANGED <<metadataVars, storeVars>>
      /\ pc[w] = "decide" \/ (pc[w] = "check" /\ loc[w].no > loc[w].fcnt)
  BY DEF Decide
<1>2. /\ events \subseteq events'
      /\ "sameLayer" \in events' => "sameLayer" \in events
      /\ "lostRace" \in events' => "lostRace" \in events
  BY DEF Decide
<1>3. CASE Goto(w, "empty") /\ loc[w].fcnt = 0 /\ UNCHANGED <<loc, events>>
  BY <1>1, <1>2, <1>3, GotoOne
<1>4. CASE Goto(w, "finish") /\ events' = events \cup {"fmode"} /\ UNCHANGED loc
  BY <1>1, <1>2, <1>4, GotoOne
<1>5. ASSUME NEW files \in IF KeepLocal(loc[w]) THEN {loc[w].nodist}
                           ELSE BySizeDescending(loc[w].nodist),
             loc' = [loc EXCEPT ![w].isdedup = ~loc[w].someWrong,
                                ![w].greedy = ~KeepLocal(loc[w]),
                                ![w].nodist = files],
             events' = IF files # loc[w].nodist THEN events \cup {"reorder"} ELSE events,
             Goto(w, "register")
      PROVE  /\ pc'[w] = "register"
             /\ "fmode" \in events' => "fmode" \in events
             /\ loc'[w].isdedup = ~loc[w].someWrong
             /\ \/ loc'[w].nodist = loc[w].nodist
                \/ loc'[w].nodist \in BySizeDescending(loc[w].nodist)
             /\ "reorder" \notin events' => loc'[w].nodist = loc[w].nodist
             /\ loc'[w].slices = loc[w].slices /\ loc'[w].size = loc[w].size
             /\ loc'[w].someWrong = loc[w].someWrong
             /\ loc'[w].no = loc[w].no
             /\ loc'[w].k = loc[w].k
             /\ loc'[w].wrote = loc[w].wrote
             /\ Others(w)
  <2> DEFINE isdedup == ~loc[w].someWrong
             greedy == ~KeepLocal(loc[w])
             a == [loc[w] EXCEPT !.isdedup = isdedup, !.greedy = greedy, !.nodist = files]
  <2>1. loc[w] \in Local /\ loc \in [Pushes -> Local]
    BY DEF TypeInv, TypeOK
  <2>2. loc' = [loc EXCEPT ![w] = a] /\ pc' = [pc EXCEPT ![w] = "register"]
    BY <1>5, <2>1 DEF Goto
  <2> HIDE DEF greedy
  <2>3. /\ a.isdedup = isdedup /\ a.nodist = files /\ a.someWrong = loc[w].someWrong
        /\ a.no = loc[w].no /\ a.k = loc[w].k /\ a.wrote = loc[w].wrote
        /\ a.slices = loc[w].slices /\ a.size = loc[w].size
    BY <2>1 DEF Local
  <2> HIDE DEF a
  <2>4. pc'[w] = "register" /\ loc'[w] = a /\ Others(w)
    BY <2>2, UpdateOne
  <2>5. files = loc[w].nodist \/ files \in BySizeDescending(loc[w].nodist)
    OBVIOUS
  <2>6. /\ "fmode" \in events' => "fmode" \in events
        /\ "reorder" \notin events' => files = loc[w].nodist
    BY <1>5
  <2> QED
    BY <2>3, <2>4, <2>5, <2>6
<1> QED
  BY <1>1, <1>2, <1>3, <1>4, <1>5 DEF Decide

\* Either the digest was free and the slice grows, or the copy is removed.
LEMMA RegisterFileEffect ==
    ASSUME TypeInv, NEW w \in Pushes, RegisterFile(w)
    PROVE  /\ UNCHANGED <<sliceRecipe, layerRecipe, layerFile, committed, partial, unpack>>
           /\ faults' \in Nat /\ faults' >= faults
           /\ pc[w] = "register"
           /\ loc[w].k \in 1..Len(loc[w].nodist)
           /\ events \subseteq events'
           /\ "sameLayer" \in events' => "sameLayer" \in events
           /\ "fmode" \in events' => "fmode" \in events
           /\ \E host \in Servers :
                LET f == loc[w].nodist[loc[w].k]
                    des == [digest |-> f.digest, path |-> f.path, host |-> host]
                IN \/ /\ f.digest \notin DOMAIN fileDesc
                      /\ fileDesc' = PutNew(fileDesc, f.digest, des)
                      /\ UNCHANGED diff
                      /\ pc'[w] = "register"
                      /\ loc'[w].k = loc[w].k + 1
                      /\ UNCHANGED events
                      /\ loc'[w].slices = [loc[w].slices EXCEPT ![host] = Append(@, des)]
                      /\ loc'[w].size = [loc[w].size EXCEPT ![host] = @ + Len(f.digest)]
                   \/ /\ fileDesc' = fileDesc \/ fileDesc' = PutNew(fileDesc, f.digest, des)
                      /\ faults' = 0 =>
                            /\ fileDesc' = fileDesc
                            /\ f.digest \in DOMAIN fileDesc
                            /\ "lostRace" \in events'
                      /\ loc'[w].slices = loc[w].slices /\ loc'[w].size = loc[w].size
                      /\ diff' = Drop(diff, {f.path})
                      /\ pc'[w] = "lost"
                      /\ loc'[w].k = loc[w].k
           /\ loc'[w].no = loc[w].no
           /\ loc'[w].nodist = loc[w].nodist
           /\ loc'[w].wrote = loc[w].wrote
           /\ loc'[w].isdedup = loc[w].isdedup
           /\ loc'[w].someWrong = loc[w].someWrong
           /\ Others(w)
<1> DEFINE f == loc[w].nodist[loc[w].k]
           D(h) == [digest |-> f.digest, path |-> f.path, host |-> h]
           A(h) == [AddToSlice(loc[w], h, D(h), Len(f.digest)) EXCEPT !.k = loc[w].k + 1]
<1>1. PICK host \in IF loc[w].greedy THEN SmallestServers(loc[w].size) ELSE {w.srv},
           reply \in SetNXReplies :
           /\ SetFileDescriptor(f.digest, D(host), reply)
           /\ IF reply = "set"
              THEN /\ loc' = [loc EXCEPT ![w] =
                        [AddToSlice(@, host, D(host), Len(f.digest)) EXCEPT !.k = loc[w].k + 1]]
                   /\ UNCHANGED <<diff, events, pc>>
              ELSE /\ diff' = Drop(diff, {f.path})
                   /\ events' = IF reply = "exists" THEN events \cup {"lostRace"} ELSE events
                   /\ Goto(w, "lost")
                   /\ UNCHANGED loc
  BY DEF RegisterFile
<1>2. /\ UNCHANGED <<layerFile, committed, partial, unpack>>
      /\ pc[w] = "register"
      /\ loc[w].k <= Len(loc[w].nodist)
  BY DEF RegisterFile
<1>3. loc[w] \in Local /\ loc \in [Pushes -> Local] /\ pc \in [Pushes -> PCs] /\ faults \in Nat
  BY DEF TypeInv, TypeOK, MetadataTypeOK
<1>4. host \in Servers
  BY PushFacts DEF SmallestServers
<1>5. loc[w].k \in 1..Len(loc[w].nodist)
  BY <1>2, <1>3 DEF Local, Positive
<1> DEFINE des == D(host)
           a == A(host)
<1>6. SetFileDescriptor(f.digest, des, reply)
  BY <1>1
<1>7. /\ reply = "set" => loc' = [loc EXCEPT ![w] = a] /\ UNCHANGED <<diff, events, pc>>
      /\ reply # "set" => /\ diff' = Drop(diff, {f.path})
                          /\ events' \in {events, events \cup {"lostRace"}}
                          /\ reply = "exists" => "lostRace" \in events'
                          /\ Goto(w, "lost")
                          /\ UNCHANGED loc
  BY <1>1, <1>3
<1>8. /\ a.k = loc[w].k + 1 /\ a.no = loc[w].no /\ a.nodist = loc[w].nodist
      /\ a.wrote = loc[w].wrote
      /\ a.isdedup = loc[w].isdedup /\ a.someWrong = loc[w].someWrong
      /\ a.slices = [loc[w].slices EXCEPT ![host] = Append(@, des)]
      /\ a.size = [loc[w].size EXCEPT ![host] = @ + Len(f.digest)]
  <2> HIDE DEF f, D
  <2> QED
    BY <1>3 DEF AddToSlice, Local
<1> HIDE DEF f, des, a
<1>9. /\ faults' \in Nat
      /\ faults' >= faults
      /\ reply = "error" => faults' > 0
      /\ reply = "set" => f.digest \notin DOMAIN fileDesc /\ fileDesc' = PutNew(fileDesc, f.digest, des)
      /\ reply = "exists" => f.digest \in DOMAIN fileDesc /\ UNCHANGED fileDesc
      /\ reply \in SetNXReplies
      /\ UNCHANGED fileDesc \/ fileDesc' = PutNew(fileDesc, f.digest, des)
      /\ UNCHANGED <<sliceRecipe, layerRecipe>>
  BY <1>3, <1>6, SetFileDescriptorEffect
<1>10. faults' = 0 /\ reply # "set" =>
          UNCHANGED fileDesc /\ f.digest \in DOMAIN fileDesc /\ "lostRace" \in events'
  BY <1>7, <1>9 DEF SetNXReplies
<1>11. CASE reply = "set"
  <2>1. pc' = [pc EXCEPT ![w] = "register"]
    BY <1>2, <1>3, <1>7, <1>11
  <2>2. pc'[w] = "register" /\ loc'[w] = a /\ Others(w)
    BY <1>7, <1>11, <2>1, UpdateOne
  <2> QED
    BY <1>2, <1>4, <1>5, <1>7, <1>8, <1>9, <1>11, <2>2 DEF f, des
<1>12. CASE reply # "set"
  <2>1. pc'[w] = "lost" /\ loc'[w] = loc[w] /\ Others(w)
    BY <1>7, <1>12, GotoOne
  <2> QED
    BY <1>2, <1>4, <1>5, <1>7, <1>9, <1>10, <1>12, <2>1 DEF f, des
<1> QED
  BY <1>11, <1>12

LEMMA AddExistingEffect ==
    ASSUME TypeInv, NEW w \in Pushes, AddExisting(w)
    PROVE  /\ UNCHANGED <<fileDesc, sliceRecipe, layerRecipe, storeVars, events>>
           /\ faults' \in Nat /\ faults' >= faults
           /\ pc[w] = "lost" /\ pc'[w] = "register"
           /\ loc'[w].k = loc[w].k + 1
           /\ loc'[w].no = loc[w].no
           /\ loc'[w].nodist = loc[w].nodist
           /\ loc'[w].wrote = loc[w].wrote
           /\ loc'[w].isdedup = loc[w].isdedup
           /\ loc'[w].someWrong = loc[w].someWrong
           /\ faults' = 0 /\ loc[w].nodist[loc[w].k].digest \in DOMAIN fileDesc =>
                 loc'[w].slices = loc[w].slices /\ loc'[w].size = loc[w].size
           /\ Others(w)
<1> DEFINE f == loc[w].nodist[loc[w].k]
           a == [AddToSlice(loc[w], NoHost, NoDescriptor, Len(f.digest)) EXCEPT !.k = loc[w].k + 1]
           b == [loc[w] EXCEPT !.k = loc[w].k + 1]
<1>1. loc[w] \in Local /\ loc \in [Pushes -> Local] /\ faults \in Nat
  BY DEF TypeInv, TypeOK, MetadataTypeOK
<1>2. PICK reply \in StatReplies :
        /\ StatFile(f.digest, reply)
        /\ loc' = [loc EXCEPT ![w] = IF reply = "ok" THEN b ELSE a]
  BY <1>1 DEF AddExisting
<1>3. /\ UNCHANGED <<fileDesc, sliceRecipe, layerRecipe>>
      /\ faults' \in Nat /\ faults' >= faults
      /\ reply # "ok" => faults' > 0 \/ f.digest \notin DOMAIN fileDesc
  BY <1>1, <1>2 DEF StatFile, Stat, RedisError
<1>4. /\ UNCHANGED <<storeVars, events>>
      /\ pc[w] = "lost"
      /\ pc' = [pc EXCEPT ![w] = "register"]
  BY DEF AddExisting, historyVars, Goto
<1>5. PICK l : l = (IF reply = "ok" THEN b ELSE a) /\ loc' = [loc EXCEPT ![w] = l]
  BY <1>2
<1> HIDE DEF f
<1>6. /\ a.k = loc[w].k + 1 /\ a.no = loc[w].no /\ a.nodist = loc[w].nodist
      /\ a.wrote = loc[w].wrote
      /\ a.isdedup = loc[w].isdedup /\ a.someWrong = loc[w].someWrong
  BY <1>1 DEF AddToSlice, Local
<1>7. /\ b.k = loc[w].k + 1 /\ b.no = loc[w].no /\ b.nodist = loc[w].nodist
      /\ b.wrote = loc[w].wrote
      /\ b.isdedup = loc[w].isdedup /\ b.someWrong = loc[w].someWrong
      /\ b.slices = loc[w].slices /\ b.size = loc[w].size
  BY <1>1 DEF Local
<1> HIDE DEF a, b
<1>8. pc'[w] = "register" /\ loc'[w] = l /\ Others(w)
  BY <1>4, <1>5, UpdateOne
<1> QED
  BY <1>3, <1>4, <1>5, <1>6, <1>7, <1>8 DEF f

\* A slice recipe is counted as written only when the command succeeded.
LEMMA SetSliceEffect ==
    ASSUME TypeInv, NEW w \in Pushes, SetSlice(w)
    PROVE  /\ UNCHANGED <<fileDesc, layerRecipe, storeVars, events>>
           /\ faults' \in Nat /\ faults' >= faults
           /\ pc[w] = "register"
           /\ loc[w].k > Len(loc[w].nodist)
           /\ \E sip \in Hosts :
                /\ loc[w].slices[sip] # <<>>
                /\ \/ /\ sliceRecipe' = PutNew(sliceRecipe, <<w.layer, sip>>, loc[w].slices[sip])
                      /\ pc'[w] = "register"
                      /\ loc'[w].wrote = loc[w].wrote \cup {sip}
                   \/ /\ faults' > 0
                      /\ \/ UNCHANGED sliceRecipe
                         \/ sliceRecipe' =
                                PutNew(sliceRecipe, <<w.layer, sip>>, loc[w].slices[sip])
                      /\ pc'[w] = "finish"
                      /\ loc'[w].wrote = loc[w].wrote
           /\ loc'[w].k = loc[w].k
           /\ loc'[w].no = loc[w].no
           /\ loc'[w].nodist = loc[w].nodist
           /\ loc'[w].isdedup = loc[w].isdedup
           /\ loc'[w].someWrong = loc[w].someWrong
           /\ loc'[w].slices = loc[w].slices /\ loc'[w].size = loc[w].size
           /\ Others(w)
<1>1. PICK sip \in SliceHosts(loc[w]) \ loc[w].wrote, reply \in SetReplies :
           /\ SetSliceRecipe(w.layer, loc[w].slices[sip], sip, reply)
           /\ IF reply = "ok"
              THEN loc' = [loc EXCEPT ![w].wrote = @ \cup {sip}] /\ UNCHANGED pc
              ELSE Goto(w, "finish") /\ UNCHANGED loc
  BY DEF SetSlice
<1>2. /\ UNCHANGED <<storeVars, events>>
      /\ pc[w] = "register"
      /\ loc[w].k > Len(loc[w].nodist)
  BY DEF SetSlice, historyVars
<1>3. loc[w] \in Local /\ loc \in [Pushes -> Local] /\ pc \in [Pushes -> PCs] /\ faults \in Nat
  BY DEF TypeInv, TypeOK, MetadataTypeOK
<1> DEFINE files == loc[w].slices[sip]
           wrote == loc[w].wrote \cup {sip}
           a == [loc[w] EXCEPT !.wrote = wrote]
<1>4. sip \in Hosts /\ files # <<>>
  BY DEF SliceHosts
<1>5. /\ SetSliceRecipe(w.layer, files, sip, reply)
      /\ reply = "ok" => loc' = [loc EXCEPT ![w] = a] /\ pc' = [pc EXCEPT ![w] = "register"]
      /\ reply # "ok" => Goto(w, "finish") /\ UNCHANGED loc
  BY <1>1, <1>2, <1>3
<1> HIDE DEF files, wrote
<1>6. /\ faults' \in Nat
      /\ faults' >= faults
      /\ reply = "ok" => sliceRecipe' = PutNew(sliceRecipe, <<w.layer, sip>>, files)
      /\ reply # "ok" => faults' > 0
      /\ UNCHANGED sliceRecipe \/ sliceRecipe' = PutNew(sliceRecipe, <<w.layer, sip>>, files)
      /\ UNCHANGED fileDesc
      /\ UNCHANGED layerRecipe
  <2>1. SetSliceRecipe(w.layer, files, sip, reply) /\ faults \in Nat
    BY <1>3, <1>5
  <2> HIDE DEF files
  <2> QED
    BY <2>1 DEF SetSliceRecipe, RedisError
<1>7. CASE reply = "ok"
  <2>1. /\ a.wrote = wrote /\ a.k = loc[w].k /\ a.no = loc[w].no
        /\ a.nodist = loc[w].nodist
        /\ a.isdedup = loc[w].isdedup /\ a.someWrong = loc[w].someWrong
        /\ a.slices = loc[w].slices /\ a.size = loc[w].size
    BY <1>3 DEF Local
  <2> HIDE DEF a
  <2>2. pc'[w] = "register" /\ loc'[w] = a /\ Others(w)
    BY <1>5, <1>7, UpdateOne
  <2> QED
    BY <1>2, <1>4, <1>6, <1>7, <2>1, <2>2 DEF files, wrote
<1>8. CASE reply # "ok"
  <2>1. pc'[w] = "finish" /\ loc'[w] = loc[w] /\ Others(w)
    BY <1>5, <1>8, GotoOne
  <2> QED
    BY <1>2, <1>4, <1>6, <1>8, <2>1 DEF files
<1> QED
  BY <1>7, <1>8

\* A layer recipe is stored for hosts whose slice recipes are stored.
LEMMA LayerEffect ==
    ASSUME TypeInv, NEW w \in Pushes, SetEmptyRecipe(w) \/ SetLayer(w)
    PROVE  /\ UNCHANGED <<fileDesc, sliceRecipe, storeVars, events>>
           /\ faults' \in Nat /\ faults' >= faults
           /\ pc[w] = "empty" \/ (pc[w] = "register" /\ loc[w].k > Len(loc[w].nodist))
           /\ \E hosts \in SUBSET loc[w].wrote :
                /\ hosts = {} \/ hosts = SliceHosts(loc[w])
                /\ pc[w] = "register" => hosts = SliceHosts(loc[w])
                /\ \/ layerRecipe' = PutNew(layerRecipe, w.layer, hosts)
                   \/ faults' > 0 /\ UNCHANGED layerRecipe
           /\ pc'[w] = "finish" /\ loc'[w] = loc[w]
           /\ Others(w)
<1>1. faults \in Nat
  BY DEF TypeInv, TypeOK, MetadataTypeOK
<1>2. PICK hosts \in SUBSET loc[w].wrote, reply \in SetReplies :
          /\ SetLayerRecipe(w.layer, hosts, reply)
          /\ hosts = {} \/ hosts = SliceHosts(loc[w])
          /\ pc[w] = "register" => hosts = SliceHosts(loc[w])
  <2>1. CASE SetEmptyRecipe(w)
    <3>1. PICK reply \in SetReplies : SetLayerRecipe(w.layer, {}, reply)
      BY <2>1 DEF SetEmptyRecipe
    <3>2. pc[w] # "register"
      BY <2>1 DEF SetEmptyRecipe
    <3> QED
      BY <3>1, <3>2
  <2>2. CASE SetLayer(w)
    <3>1. PICK reply \in SetReplies : SetLayerRecipe(w.layer, SliceHosts(loc[w]), reply)
      BY <2>2 DEF SetLayer
    <3>2. SliceHosts(loc[w]) \subseteq loc[w].wrote
      BY <2>2 DEF SetLayer
    <3> QED
      BY <3>1, <3>2
  <2> QED
    BY <2>1, <2>2
<1>3. /\ faults' \in Nat
      /\ faults' >= faults
      /\ \/ layerRecipe' = PutNew(layerRecipe, w.layer, hosts)
         \/ faults' > 0 /\ UNCHANGED layerRecipe
      /\ UNCHANGED <<fileDesc, sliceRecipe>>
  BY <1>1, <1>2 DEF SetLayerRecipe, RedisError
<1>4. /\ UNCHANGED <<storeVars, events, loc>>
      /\ pc[w] = "empty" \/ (pc[w] = "register" /\ loc[w].k > Len(loc[w].nodist))
      /\ Goto(w, "finish")
  <2>1. CASE SetEmptyRecipe(w)
    BY <2>1 DEF SetEmptyRecipe, historyVars
  <2>2. CASE SetLayer(w)
    BY <2>2 DEF SetLayer, historyVars
  <2> QED
    BY <2>1, <2>2
<1>5. pc'[w] = "finish" /\ loc'[w] = loc[w] /\ Others(w)
  BY <1>4, GotoOne
<1> QED
  BY <1>2, <1>3, <1>4, <1>5

LEMMA FinishEffect ==
    ASSUME TypeInv, NEW w \in Pushes, Finish(w)
    PROVE  /\ UNCHANGED <<metadataVars, committed, events>>
           /\ pc[w] = "finish" /\ pc'[w] = "done" /\ loc'[w] = NoLocal
           /\ \/ /\ loc[w].isdedup /\ ~loc[w].someWrong
                 /\ layerFile' = layerFile \ {Dir(w)}
                 /\ UNCHANGED <<unpack, diff>>
              \/ /\ ~(loc[w].isdedup /\ ~loc[w].someWrong)
                 /\ unpack' = Drop(unpack, UnpackDir(w))
                 /\ diff' = Drop(diff, DiffDir(w))
                 /\ UNCHANGED layerFile
           /\ partial' = Drop(partial, {Dir(w)})
           /\ Others(w)
BY DEF Finish, Goto, TypeInv, TypeOK, historyVars, Others

LEMMA DiesEffect ==
    ASSUME TypeInv, NEW s \in Servers, ProcessDies(s)
    PROVE  /\ UNCHANGED <<metadataVars, storeVars, events>>
           /\ crashes' > 0
           /\ \A v \in Pushes :
                \/ pc'[v] = pc[v] /\ loc'[v] = loc[v]
                \/ /\ loc'[v] = NoLocal
                   /\ pc'[v] = IF Active(v) THEN "dead" ELSE pc[v]
BY DEF ProcessDies, TypeInv, TypeOK

\* Only the death of a process is counted.
LEMMA NoCrash ==
    ASSUME NEW w \in Pushes, Push(w) \/ DedupStep(w)
    PROVE  UNCHANGED crashes
BY DEF Push, DedupStep, OpenLayer, StatRLMap, SetRLMap, Decode, SplitFileChunk, ListUnpack,
       CheckChunk, DropDuplicate, RenameUnique, Decide, SetEmptyRecipe, RegisterFile,
       AddExisting, SetSlice, SetLayer, Finish, historyVars

-----------------------------------------------------------------------------
(***************************************************************************)
(* Recipes: what is stored in Redis stays, a layer recipe never points at  *)
(* a missing slice recipe, and no original layer file is removed before    *)
(* its layer recipe is stored.                                             *)
(***************************************************************************)
(* Stability of the metadata. *)

LEMMA ExtendsRefl == \A m : Extends(m, m)
BY DEF Extends

LEMMA ExtendsPutNew == ASSUME NEW m, NEW k, NEW v PROVE Extends(PutNew(m, k, v), m)
BY DEF Extends, Put, PutNew

MetadataGrows ==
    /\ Extends(fileDesc', fileDesc)
    /\ Extends(sliceRecipe', sliceRecipe)
    /\ Extends(layerRecipe', layerRecipe)

LEMMA GrowsUnchanged ==
    ASSUME UNCHANGED <<fileDesc, sliceRecipe, layerRecipe>>
    PROVE  MetadataGrows
BY ExtendsRefl DEF MetadataGrows

\* No step of any push rebinds or removes a key of the three SETNX families.
LEMMA StepGrows ==
    ASSUME NEW w \in Pushes, Push(w) \/ DedupStep(w) \/ Panic(w)
    PROVE  MetadataGrows
<1>1. CASE \/ Push(w) \/ OpenLayer(w) \/ Decode(w) \/ SplitFileChunk(w) \/ ListUnpack(w)
           \/ DropDuplicate(w) \/ RenameUnique(w) \/ Decide(w) \/ Finish(w) \/ Panic(w)
  <2>1. UNCHANGED metadataVars
    BY <1>1 DEF Push, OpenLayer, Decode, SplitFileChunk, ListUnpack, DropDuplicate,
                RenameUnique, Decide, Finish, Panic, ProcessDies
  <2> QED
    BY <2>1, GrowsUnchanged DEF metadataVars
<1>2. CASE StatRLMap(w) \/ CheckChunk(w) \/ AddExisting(w) \/ SetRLMap(w)
  <2>1. UNCHANGED <<fileDesc, sliceRecipe, layerRecipe>>
    BY <1>2 DEF StatRLMap, CheckChunk, AddExisting, SetRLMap, StatRLMapEntry, StatFile,
                SetRLMapEntry
  <2> QED
    BY <2>1, GrowsUnchanged
<1>3. CASE RegisterFile(w)
  <2>1. PICK c, d, reply : SetFileDescriptor(c, d, reply)
    BY <1>3 DEF RegisterFile
  <2>2. /\ fileDesc' = fileDesc \/ fileDesc' = PutNew(fileDesc, c, d)
        /\ UNCHANGED <<sliceRecipe, layerRecipe>>
    BY <2>1 DEF SetFileDescriptor
  <2> QED
    BY <2>2, ExtendsRefl, ExtendsPutNew DEF MetadataGrows
<1>4. CASE SetSlice(w)
  <2>1. PICK l, files, sip, reply : SetSliceRecipe(l, files, sip, reply)
    BY <1>4 DEF SetSlice
  <2>2. /\ sliceRecipe' = sliceRecipe \/ sliceRecipe' = PutNew(sliceRecipe, <<l, sip>>, files)
        /\ UNCHANGED <<fileDesc, layerRecipe>>
    BY <2>1 DEF SetSliceRecipe
  <2> QED
    BY <2>2, ExtendsRefl, ExtendsPutNew DEF MetadataGrows
<1>5. CASE SetEmptyRecipe(w) \/ SetLayer(w)
  <2>1. PICK l, hosts, reply : SetLayerRecipe(l, hosts, reply)
    BY <1>5 DEF SetEmptyRecipe, SetLayer
  <2>2. /\ layerRecipe' = layerRecipe \/ layerRecipe' = PutNew(layerRecipe, l, hosts)
        /\ UNCHANGED <<fileDesc, sliceRecipe>>
    BY <2>1 DEF SetLayerRecipe
  <2> QED
    BY <2>2, ExtendsRefl, ExtendsPutNew DEF MetadataGrows
<1> QED
  BY <1>1, <1>2, <1>3, <1>4, <1>5 DEF DedupStep

LEMMA NextGrows == [Next]_vars => MetadataGrows
<1>1. ASSUME NEW s \in Servers, Crash(s) PROVE MetadataGrows
  BY <1>1, GrowsUnchanged DEF Crash, ProcessDies, metadataVars
<1>2. ASSUME UNCHANGED vars PROVE MetadataGrows
  BY <1>2, GrowsUnchanged DEF vars, metadataVars
<1> QED
  BY <1>1, <1>2, StepGrows DEF Next

\* No step of any server rebinds or removes a file descriptor, a slice recipe
\* or a layer recipe.
THEOREM MetadataIsStable == Spec => MetadataStable
<1>1. [Next]_vars => [/\ Extends(fileDesc', fileDesc)
                      /\ Extends(sliceRecipe', sliceRecipe)
                      /\ Extends(layerRecipe', layerRecipe)]_metadataVars
  BY NextGrows DEF MetadataGrows
<1> QED
  BY <1>1, PTL DEF Spec, MetadataStable

-----------------------------------------------------------------------------
(* Recipes. *)

LEMMA RecipeInit == Init => RecipeInv
BY DEF Init, MetadataInit, EmptyMap, RecipeInv, WroteStored, SlicesNonEmpty, RecipesClosed,
       FinishHasRecipe, OriginalKept, NoLocal

\* A step that leaves the recipes and the layer files alone, brings no push to
\* "finish" with isdedup set and counts no slice recipe as written.
LEMMA RecipeFrame ==
    ASSUME TypeInv, RecipeInv,
           UNCHANGED <<sliceRecipe, layerRecipe, layerFile, committed>>,
           faults' \in Nat, faults' >= faults,
           \A v \in Pushes : loc'[v].wrote \subseteq loc[v].wrote,
           \A v \in Pushes :
               pc'[v] = "finish" /\ loc'[v].isdedup => pc[v] = "finish" /\ loc[v].isdedup
    PROVE  RecipeInv'
<1>1. faults' = 0 => faults = 0
  BY DEF TypeInv, TypeOK, MetadataTypeOK
<1>2. WroteStored'
  BY DEF RecipeInv, WroteStored
<1>3. SlicesNonEmpty' /\ RecipesClosed'
  BY DEF RecipeInv, SlicesNonEmpty, RecipesClosed
<1>4. FinishHasRecipe' /\ OriginalKept'
  BY <1>1 DEF RecipeInv, FinishHasRecipe, OriginalKept
<1> QED
  BY <1>2, <1>3, <1>4 DEF RecipeInv

LEMMA RecipePush == ASSUME TypeInv, RecipeInv, NEW w \in Pushes, Push(w) PROVE RecipeInv'
BY DEF TypeInv, TypeOK, Push, Goto, metadataVars, RecipeInv, WroteStored, SlicesNonEmpty,
       RecipesClosed, FinishHasRecipe, OriginalKept

\* The steps that do not touch a recipe or a layer file.
LEMMA RecipeQuietSteps ==
    ASSUME TypeInv, RecipeInv, NEW w \in Pushes,
           \/ OpenLayer(w) \/ StatRLMap(w) \/ SetRLMap(w) \/ Decode(w) \/ SplitFileChunk(w)
           \/ ListUnpack(w) \/ CheckChunk(w) \/ DropDuplicate(w) \/ RenameUnique(w)
           \/ Decide(w) \/ RegisterFile(w) \/ AddExisting(w)
    PROVE  RecipeInv'
<1>1. CASE OpenLayer(w) \/ StatRLMap(w) \/ SetRLMap(w) \/ Decode(w) \/ SplitFileChunk(w)
  BY <1>1, EarlyEffect, RecipeFrame DEF Others, BeforeScan
<1>2. faults \in Nat
  BY DEF TypeInv, TypeOK, MetadataTypeOK
<1>3. CASE ListUnpack(w)
  BY <1>2, <1>3, ListUnpackEffect, RecipeFrame DEF Others, metadataVars, storeVars
<1>4. CASE CheckChunk(w)
  BY <1>4, CheckChunkEffect, RecipeFrame DEF Others, storeVars
<1>5. CASE DropDuplicate(w)
  <2>1. /\ UNCHANGED <<sliceRecipe, layerRecipe, faults, layerFile, committed>>
        /\ pc'[w] # "finish" /\ loc'[w].wrote = loc[w].wrote
        /\ Others(w)
    BY <1>5, DropDuplicateEffect DEF metadataVars
  <2> QED
    BY <1>2, <2>1, RecipeFrame DEF Others
<1>6. CASE RenameUnique(w)
  <2>1. /\ UNCHANGED <<sliceRecipe, layerRecipe, faults, layerFile, committed>>
        /\ pc'[w] # "finish" /\ loc'[w].wrote = loc[w].wrote
        /\ Others(w)
    BY <1>6, RenameUniqueEffect DEF metadataVars
  <2> QED
    BY <1>2, <2>1, RecipeFrame DEF Others
<1>7. CASE Decide(w)
  <2>1. ~loc[w].isdedup
    BY <1>7 DEF Decide, TypeInv, LocalShape, Shape, BeforeRegister, BeforeScan, Scanning
  <2> QED
    BY <1>2, <1>7, <2>1, DecideEffect, RecipeFrame DEF Others, metadataVars, storeVars
<1>8. CASE RegisterFile(w)
  BY <1>8, RegisterFileEffect, RecipeFrame DEF Others
<1>9. CASE AddExisting(w)
  BY <1>9, AddExistingEffect, RecipeFrame DEF Others, storeVars
<1> QED
  BY <1>1, <1>3, <1>4, <1>5, <1>6, <1>7, <1>8, <1>9

\* A slice recipe that doDedup counts as written is stored: by this command or
\* by an earlier one.
LEMMA RecipeSetSlice ==
    ASSUME TypeInv, RecipeInv, NEW w \in Pushes, SetSlice(w)
    PROVE  RecipeInv'
<1>1. /\ UNCHANGED <<layerRecipe, layerFile, committed>>
      /\ faults' \in Nat /\ faults' >= faults
      /\ loc'[w].isdedup = loc[w].isdedup
      /\ Others(w)
  BY SetSliceEffect DEF storeVars
<1>2. PICK sip \in Hosts :
          /\ loc[w].slices[sip] # <<>>
          /\ \/ /\ sliceRecipe' = PutNew(sliceRecipe, <<w.layer, sip>>, loc[w].slices[sip])
                /\ pc'[w] = "register"
                /\ loc'[w].wrote = loc[w].wrote \cup {sip}
             \/ /\ faults' > 0
                /\ \/ UNCHANGED sliceRecipe
                   \/ sliceRecipe' = PutNew(sliceRecipe, <<w.layer, sip>>, loc[w].slices[sip])
                /\ pc'[w] = "finish"
                /\ loc'[w].wrote = loc[w].wrote
  BY SetSliceEffect
<1>3. /\ \A x \in DOMAIN sliceRecipe : x \in DOMAIN sliceRecipe' /\ sliceRecipe'[x] = sliceRecipe[x]
      /\ \A x \in DOMAIN sliceRecipe' : sliceRecipe'[x] # <<>>
  BY <1>2 DEF RecipeInv, SlicesNonEmpty, Put, PutNew
<1>4. \A h \in loc'[w].wrote : h \in loc[w].wrote \/ <<w.layer, h>> \in DOMAIN sliceRecipe'
  BY <1>2 DEF Put, PutNew
<1>5. WroteStored'
  BY <1>1, <1>3, <1>4 DEF RecipeInv, WroteStored, Others
<1>6. SlicesNonEmpty' /\ RecipesClosed'
  BY <1>1, <1>3 DEF RecipeInv, SlicesNonEmpty, RecipesClosed
<1>7. FinishHasRecipe' /\ OriginalKept'
  <2>1. faults' = 0 => pc'[w] = "register" /\ faults = 0
    BY <1>1, <1>2 DEF TypeInv, TypeOK, MetadataTypeOK
  <2> QED
    BY <1>1, <2>1 DEF RecipeInv, FinishHasRecipe, OriginalKept, Others
<1> QED
  BY <1>5, <1>6, <1>7 DEF RecipeInv

\* The hosts of a layer recipe are hosts whose slice recipes are stored.
LEMMA RecipeLayer ==
    ASSUME TypeInv, RecipeInv, NEW w \in Pushes, SetEmptyRecipe(w) \/ SetLayer(w)
    PROVE  RecipeInv'
<1>1. /\ UNCHANGED <<sliceRecipe, layerFile, committed>>
      /\ faults' \in Nat /\ faults' >= faults
      /\ loc'[w] = loc[w]
      /\ Others(w)
  BY LayerEffect DEF storeVars
<1>2. PICK hosts \in SUBSET loc[w].wrote :
          \/ layerRecipe' = PutNew(layerRecipe, w.layer, hosts)
          \/ faults' > 0 /\ UNCHANGED layerRecipe
  BY LayerEffect
<1>3. /\ \A l \in DOMAIN layerRecipe : l \in DOMAIN layerRecipe'
      /\ faults' = 0 => w.layer \in DOMAIN layerRecipe' /\ faults = 0
      /\ \A l \in DOMAIN layerRecipe' :
            \/ l \in DOMAIN layerRecipe /\ layerRecipe'[l] = layerRecipe[l]
            \/ l = w.layer /\ layerRecipe'[l] = hosts
  BY <1>1, <1>2 DEF Put, PutNew, TypeInv, TypeOK, MetadataTypeOK
<1>4. WroteStored' /\ SlicesNonEmpty'
  BY <1>1 DEF RecipeInv, WroteStored, SlicesNonEmpty, Others
<1>5. RecipesClosed'
  <2> SUFFICES ASSUME NEW l \in DOMAIN layerRecipe', NEW h \in layerRecipe'[l]
               PROVE  <<l, h>> \in DOMAIN sliceRecipe /\ sliceRecipe[<<l, h>>] # <<>>
    BY <1>1 DEF RecipesClosed
  <2>1. CASE l \in DOMAIN layerRecipe /\ layerRecipe'[l] = layerRecipe[l]
    BY <2>1 DEF RecipeInv, RecipesClosed
  <2>2. CASE l = w.layer /\ layerRecipe'[l] = hosts
    BY <1>2, <2>2 DEF RecipeInv, WroteStored, SlicesNonEmpty
  <2> QED
    BY <1>3, <2>1, <2>2
<1>6. FinishHasRecipe' /\ OriginalKept'
  BY <1>1, <1>3 DEF RecipeInv, FinishHasRecipe, OriginalKept, Others
<1> QED
  BY <1>4, <1>5, <1>6 DEF RecipeInv

\* The original is removed by a dedup that has stored the layer recipe.
LEMMA RecipeFinish ==
    ASSUME TypeInv, RecipeInv, NEW w \in Pushes, Finish(w)
    PROVE  RecipeInv'
<1>1. /\ UNCHANGED <<sliceRecipe, layerRecipe, faults, committed>>
      /\ pc[w] = "finish" /\ pc'[w] = "done" /\ loc'[w] = NoLocal
      /\ \A d \in layerFile : d \in layerFile' \/ (d = Dir(w) /\ loc[w].isdedup)
      /\ Others(w)
  BY FinishEffect DEF metadataVars
<1>2. NoLocal.wrote = {}
  BY DEF NoLocal
<1>3. WroteStored'
  BY <1>1, <1>2 DEF RecipeInv, WroteStored, Others
<1>4. SlicesNonEmpty' /\ RecipesClosed'
  BY <1>1 DEF RecipeInv, SlicesNonEmpty, RecipesClosed
<1>5. FinishHasRecipe'
  BY <1>1 DEF RecipeInv, FinishHasRecipe, Others
<1>6. OriginalKept'
  <2>1. faults = 0 /\ loc[w].isdedup => Dir(w)[2] \in DOMAIN layerRecipe
    BY <1>1 DEF RecipeInv, FinishHasRecipe, Dir
  <2> QED
    BY <1>1, <2>1 DEF RecipeInv, OriginalKept
<1> QED
  BY <1>3, <1>4, <1>5, <1>6 DEF RecipeInv

LEMMA RecipeDies ==
    ASSUME TypeInv, RecipeInv, NEW s \in Servers, ProcessDies(s)
    PROVE  RecipeInv'
<1>1. NoLocal.wrote = {} /\ ~NoLocal.isdedup
  BY DEF NoLocal
<1> QED
  BY <1>1, DiesEffect, RecipeFrame
  DEF metadataVars, storeVars, TypeInv, TypeOK, MetadataTypeOK

LEMMA RecipeStutter == ASSUME RecipeInv, UNCHANGED vars PROVE RecipeInv'
BY DEF vars, metadataVars, storeVars, workerVars, RecipeInv, WroteStored, SlicesNonEmpty,
       RecipesClosed, FinishHasRecipe, OriginalKept

LEMMA RecipeStep == TypeInv /\ RecipeInv /\ [Next]_vars => RecipeInv'
<1> SUFFICES ASSUME TypeInv, RecipeInv, [Next]_vars PROVE RecipeInv'
  OBVIOUS
<1>1. ASSUME NEW w \in Pushes, Push(w) \/ DedupStep(w) PROVE RecipeInv'
  BY <1>1, RecipePush, RecipeQuietSteps, RecipeSetSlice, RecipeLayer, RecipeFinish
  DEF DedupStep
<1>2. ASSUME NEW w \in Pushes, Panic(w) PROVE RecipeInv'
  BY <1>2, RecipeDies, PushFacts DEF Panic
<1>3. ASSUME NEW s \in Servers, Crash(s) PROVE RecipeInv'
  BY <1>3, RecipeDies DEF Crash
<1> QED
  BY <1>1, <1>2, <1>3, RecipeStutter DEF Next

LEMMA RecipeAlways == Spec => []RecipeInv
BY RecipeInit, RecipeStep, TypeAlways, PTL DEF Spec

\* A layer recipe in Redis only names hosts whose slice recipe is there too,
\* whatever fails, crashes or races.
THEOREM RecipesAreClosed == Spec => []RecipesClosed
<1>1. RecipeInv => RecipesClosed
  BY DEF RecipeInv
<1> QED
  BY <1>1, RecipeAlways, PTL

\* As long as no Redis command has failed, a committed layer keeps its original
\* file until its layer recipe is stored.
THEOREM OriginalIsKept == Spec => []OriginalKept
<1>1. RecipeInv => OriginalKept
  BY DEF RecipeInv
<1> QED
  BY <1>1, RecipeAlways, PTL
=============================================================================
