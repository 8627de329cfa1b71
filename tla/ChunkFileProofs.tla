---------------------------- MODULE ChunkFileProofs ----------------------------
(***************************************************************************)
(* Proof that a registered chunk stays readable (DescriptorsLive).         *)
(*                                                                         *)
(* The argument has three parts.  PathInv: a chunk file belongs to the     *)
(* push that renamed it, and until its digest is offered to SETNX nobody   *)
(* knows its path.  ScanInv: unless two dedups work in one directory, the  *)
(* chunk that was digested is the one that is renamed, and without Redis   *)
(* errors every dedup that gets to its end has deduplicated, so that it    *)
(* does not remove diff/.  LiveInv, the goal, then follows: the only file  *)
(* that is removed is the copy of the loser of a race, which no descriptor *)
(* names.                                                                  *)
(***************************************************************************)
EXTENDS LayerDedupProofs

-----------------------------------------------------------------------------
(* Who owns which path. *)

Early == BeforeScan \cup Scanning

LEMMA PathInit == Init => PathInv
BY DEF Init, MetadataInit, EmptyMap, NoLocal, PathInv, FreshPaths, OwnedPaths,
       DescriptorsWellFormed, PendingUnregistered, Pending, Registered

\* Steps that name no new path.
LEMMA PathFrame ==
    ASSUME TypeInv, PathInv, fileDesc' = fileDesc, DOMAIN diff' \subseteq DOMAIN diff,
           \A v \in Pushes :
              /\ pc'[v] \in Early => pc[v] \in Early /\ loc'[v].no >= loc[v].no
              /\ pc'[v] \in BeforeRegister => pc[v] \in BeforeRegister
              /\ \/ loc'[v].nodist = <<>>
                 \/ /\ loc'[v].nodist = loc[v].nodist
                    /\ loc'[v].no >= loc[v].no
                    /\ Pending(v)' \subseteq Pending(v)
           , loc' \in [Pushes -> Local]
    PROVE  PathInv'
<1>1. FreshPaths'
  <2> SUFFICES ASSUME NEW p \in DOMAIN diff', pc'[p[1]] \in Early
               PROVE  p[2] < loc'[p[1]].no
    BY DEF FreshPaths, Early
  <2>1. p \in DOMAIN diff /\ p \in Path
    BY DEF TypeInv, TypeOK, StoreTypeOK, IsMap
  <2>2. p[1] \in Pushes /\ p[2] \in Nat
    BY <2>1 DEF Path, Positive
  <2>3. loc[p[1]].no \in Nat /\ loc'[p[1]].no \in Nat
    BY <2>2 DEF TypeInv, TypeOK, Local, Positive
  <2>4. p[2] < loc[p[1]].no
    BY <2>1, <2>2 DEF PathInv, FreshPaths, Early
  <2> QED
    BY <2>2, <2>3, <2>4
<1>2. OwnedPaths'
  <2> SUFFICES ASSUME NEW w \in Pushes, NEW i \in 1..Len(loc'[w].nodist)
               PROVE  /\ loc'[w].nodist[i].path[1] = w
                      /\ loc'[w].nodist[i].path[2] < loc'[w].no
                      /\ \A j \in 1..Len(loc'[w].nodist) :
                            i # j => loc'[w].nodist[i].path # loc'[w].nodist[j].path
    BY DEF OwnedPaths
  <2>1. loc'[w].nodist = loc[w].nodist /\ loc'[w].no >= loc[w].no
    OBVIOUS
  <2>2. loc[w].nodist[i] \in UniqueFile /\ loc[w].no \in Nat /\ loc'[w].no \in Nat
    BY <2>1 DEF TypeInv, TypeOK, Local, Positive
  <2>3. loc[w].nodist[i].path[2] \in Nat
    BY <2>2 DEF UniqueFile, Path, Positive
  <2> QED
    BY <2>1, <2>2, <2>3 DEF PathInv, OwnedPaths
<1>3. DescriptorsWellFormed'
  <2> SUFFICES ASSUME NEW c \in DOMAIN fileDesc
               PROVE  /\ fileDesc[c].digest = c
                      /\ pc'[fileDesc[c].path[1]] \notin BeforeRegister
    BY DEF DescriptorsWellFormed
  <2>1. fileDesc[c] \in FileDescriptor
    BY DEF TypeInv, TypeOK, MetadataTypeOK, IsMap
  <2>2. fileDesc[c].path[1] \in Pushes
    BY <2>1 DEF FileDescriptor, Path
  <2> QED
    BY <2>2 DEF PathInv, DescriptorsWellFormed
<1>4. PendingUnregistered'
  <2> SUFFICES ASSUME NEW w \in Pushes, NEW i \in Pending(w)'
               PROVE  ~Registered(loc'[w].nodist[i].path)
    BY DEF PendingUnregistered, Registered
  <2>1. CASE loc'[w].nodist = <<>>
    BY <2>1 DEF Pending, Local, Positive
  <2>2. CASE loc'[w].nodist = loc[w].nodist /\ Pending(w)' \subseteq Pending(w)
    BY <2>2 DEF PathInv, PendingUnregistered
  <2> QED
    BY <2>1, <2>2
<1> QED
  BY <1>1, <1>2, <1>3, <1>4 DEF PathInv

LEMMA LocNumbers ==
    ASSUME TypeInv, NEW v \in Pushes
    PROVE  /\ loc[v].no \in Nat /\ loc[v].k \in Nat /\ loc[v].k >= 1
           /\ Len(loc[v].nodist) \in Nat
<1>1. loc[v] \in Local
  BY DEF TypeInv, TypeOK
<1> QED
  BY <1>1 DEF Local, Positive

\* Every step but the renaming of a chunk, the sorting of the new chunks and
\* the claim of a digest.
LEMMA PathQuietSteps ==
    ASSUME TypeInv, TypeInv', PathInv, NEW w \in Pushes,
           \/ Push(w) \/ OpenLayer(w) \/ StatRLMap(w) \/ SetRLMap(w) \/ Decode(w)
           \/ SplitFileChunk(w) \/ ListUnpack(w) \/ CheckChunk(w) \/ DropDuplicate(w)
           \/ AddExisting(w) \/ SetSlice(w) \/ SetEmptyRecipe(w) \/ SetLayer(w) \/ Finish(w)
    PROVE  PathInv'
<1> USE DEF Early, BeforeScan, Scanning, BeforeRegister
<1>1. loc \in [Pushes -> Local] /\ loc' \in [Pushes -> Local]
  BY DEF TypeInv, TypeOK
<1>2. \A v \in Pushes : loc[v].no \in Nat /\ loc[v].k \in Nat /\ Len(loc[v].nodist) \in Nat
  BY LocNumbers
<1>3. CASE Push(w)
  <2>1. UNCHANGED <<fileDesc, diff, loc>> /\ pc[w] = "idle" /\ Goto(w, "open")
    BY <1>3 DEF Push, metadataVars
  <2>2. pc'[w] = "open" /\ Others(w)
    BY <2>1, GotoOne
  <2> QED
    BY <1>1, <1>2, <2>1, <2>2, PathFrame DEF Others, Pending
<1>4. CASE OpenLayer(w) \/ StatRLMap(w) \/ SetRLMap(w) \/ Decode(w) \/ SplitFileChunk(w)
  <2>1. /\ UNCHANGED <<fileDesc, diff>>
        /\ pc[w] \in BeforeScan /\ pc'[w] \in BeforeScan \cup {"done"}
        /\ loc'[w].nodist = loc[w].nodist /\ loc'[w].no = loc[w].no /\ loc'[w].k = loc[w].k
        /\ Others(w)
    BY <1>4, EarlyEffect
  <2> QED
    BY <1>1, <1>2, <2>1, PathFrame DEF Others, Pending
<1>5. CASE ListUnpack(w)
  <2>1. /\ UNCHANGED <<fileDesc, diff>>
        /\ pc[w] = "list" /\ pc'[w] = "check"
        /\ loc'[w].nodist = loc[w].nodist /\ loc'[w].no = loc[w].no /\ loc'[w].k = loc[w].k
        /\ Others(w)
    BY <1>5, ListUnpackEffect DEF metadataVars, storeVars
  <2> QED
    BY <1>1, <1>2, <2>1, PathFrame DEF Others, Pending
<1>6. CASE CheckChunk(w)
  <2>1. /\ UNCHANGED <<fileDesc, diff>>
        /\ pc[w] = "check" /\ pc'[w] \in {"remove", "rename", "decide"}
        /\ loc'[w].nodist = loc[w].nodist /\ loc'[w].no = loc[w].no /\ loc'[w].k = loc[w].k
        /\ Others(w)
    BY <1>6, CheckChunkEffect DEF storeVars
  <2> QED
    BY <1>1, <1>2, <2>1, PathFrame DEF Others, Pending
<1>7. CASE DropDuplicate(w)
  <2>1. /\ UNCHANGED <<fileDesc, diff>>
        /\ pc[w] = "remove" /\ pc'[w] \in {"check", "decide"}
        /\ loc'[w].nodist = loc[w].nodist /\ loc'[w].k = loc[w].k
        /\ loc'[w].no = loc[w].no \/ loc'[w].no = loc[w].no + 1
        /\ Others(w)
    BY <1>7, DropDuplicateEffect DEF metadataVars
  <2> QED
    BY <1>1, <1>2, <2>1, PathFrame DEF Others, Pending
<1>8. CASE AddExisting(w)
  <2>1. /\ UNCHANGED <<fileDesc, diff>>
        /\ pc[w] = "lost" /\ pc'[w] = "register"
        /\ loc'[w].nodist = loc[w].nodist /\ loc'[w].no = loc[w].no
        /\ loc'[w].k = loc[w].k + 1
        /\ Others(w)
    BY <1>8, AddExistingEffect DEF storeVars
  <2> QED
    BY <1>1, <1>2, <2>1, PathFrame DEF Others, Pending
<1>9. CASE SetSlice(w)
  <2>1. /\ UNCHANGED <<fileDesc, diff>>
        /\ pc[w] = "register" /\ pc'[w] \in {"register", "finish"}
        /\ loc'[w].nodist = loc[w].nodist /\ loc'[w].no = loc[w].no /\ loc'[w].k = loc[w].k
        /\ Others(w)
    BY <1>9, SetSliceEffect DEF storeVars
  <2> QED
    BY <1>1, <1>2, <2>1, PathFrame DEF Others, Pending
<1>10. CASE SetEmptyRecipe(w) \/ SetLayer(w)
  <2>1. /\ UNCHANGED <<fileDesc, diff>>
        /\ pc[w] \in {"empty", "register"} /\ pc'[w] = "finish"
        /\ loc'[w] = loc[w]
        /\ Others(w)
    BY <1>10, LayerEffect DEF storeVars
  <2> QED
    BY <1>1, <1>2, <2>1, PathFrame DEF Others, Pending
<1>11. CASE Finish(w)
  <2>1. /\ fileDesc' = fileDesc
        /\ diff' = diff \/ diff' = Drop(diff, DiffDir(w))
        /\ pc'[w] = "done" /\ loc'[w] = NoLocal
        /\ Others(w)
    BY <1>11, FinishEffect DEF metadataVars
  <2>2. DOMAIN diff' \subseteq DOMAIN diff
    BY <2>1 DEF Drop
  <2>3. loc'[w].nodist = <<>>
    BY <2>1 DEF NoLocal
  <2> QED
    BY <1>1, <1>2, <2>1, <2>2, <2>3, PathFrame DEF Others, Pending
<1> QED
  BY <1>3, <1>4, <1>5, <1>6, <1>7, <1>8, <1>9, <1>10, <1>11

LEMMA PathDies ==
    ASSUME TypeInv, TypeInv', PathInv, NEW s \in Servers, ProcessDies(s)
    PROVE  PathInv'
<1>1. loc \in [Pushes -> Local] /\ loc' \in [Pushes -> Local]
  BY DEF TypeInv, TypeOK
<1>2. \A v \in Pushes : loc[v].no \in Nat
  BY <1>1 DEF Local, Positive
<1>3. UNCHANGED <<fileDesc, diff>>
  BY DiesEffect DEF metadataVars, storeVars
<1>4. ASSUME NEW v \in Pushes
      PROVE  /\ pc'[v] \in Early => pc[v] \in Early /\ loc'[v].no >= loc[v].no
             /\ pc'[v] \in BeforeRegister => pc[v] \in BeforeRegister
             /\ \/ loc'[v].nodist = <<>>
                \/ /\ loc'[v].nodist = loc[v].nodist
                   /\ loc'[v].no >= loc[v].no
                   /\ Pending(v)' \subseteq Pending(v)
  <2>1. CASE pc'[v] = pc[v] /\ loc'[v] = loc[v]
    BY <1>2, <2>1 DEF Pending
  <2>2. CASE loc'[v] = NoLocal /\ pc'[v] = IF Active(v) THEN "dead" ELSE pc[v]
    <3>1. NoLocal.nodist = <<>> /\ NoLocal.no = 1
      BY DEF NoLocal
    <3>2. pc'[v] \in BeforeRegister => pc'[v] = pc[v] /\ pc[v] = "idle"
      BY <2>2 DEF Active, BeforeRegister, BeforeScan, Scanning
    <3>3. pc[v] = "idle" => loc[v].no = 1
      BY DEF TypeInv, LocalShape, Shape, BeforeScan
    <3> QED
      BY <2>2, <3>1, <3>2, <3>3 DEF Early, BeforeRegister
  <2> QED
    BY <2>1, <2>2, DiesEffect
<1> QED
  BY <1>1, <1>3, <1>4, PathFrame

\* The path of the renamed chunk is new, and no descriptor names it.
LEMMA PathRename ==
    ASSUME TypeInv, TypeInv', PathInv, NEW w \in Pushes, RenameUnique(w)
    PROVE  PathInv'
<1> DEFINE no == loc[w].no
           new == [digest |-> loc[w].dgst, path |-> <<w, no>>]
<1>1. /\ loc \in [Pushes -> Local] /\ loc' \in [Pushes -> Local]
      /\ loc[w] \in Local /\ no \in Nat /\ loc[w].nodist \in Seq(UniqueFile)
  BY DEF TypeInv, TypeOK, Local, Positive
<1>2. /\ fileDesc' = fileDesc /\ pc[w] = "rename" /\ Others(w) /\ loc'[w].k = loc[w].k
  BY RenameUniqueEffect DEF metadataVars
<1>3. CASE /\ diff' = diff
           /\ pc'[w] = "decide"
           /\ loc'[w].no = no /\ loc'[w].nodist = loc[w].nodist
  <2>1. \A v \in Pushes : loc[v].no \in Nat /\ loc[v].k \in Nat /\ Len(loc[v].nodist) \in Nat
    BY LocNumbers
  <2> HIDE DEF new
  <2> QED
    BY <1>1, <1>2, <1>3, <2>1, PathFrame
    DEF Others, Pending, Early, BeforeScan, Scanning, BeforeRegister
<1>4. CASE /\ diff' = Put(diff, <<w, no>>, unpack[ChunkFile(w, no)])
           /\ pc'[w] = "check"
           /\ loc'[w].no = no + 1
           /\ loc'[w].nodist = Append(loc[w].nodist, new)
  <2>1. DOMAIN diff' = DOMAIN diff \cup {<<w, no>>}
    BY <1>4 DEF Put
  <2>2. FreshPaths'
    <3> SUFFICES ASSUME NEW p \in DOMAIN diff', pc'[p[1]] \in Early
                 PROVE  p[2] < loc'[p[1]].no
      BY DEF FreshPaths, Early
    <3>1. CASE p = <<w, no>>
      BY <1>1, <1>4, <3>1
    <3>2. CASE p \in DOMAIN diff
      <4>1. p[1] \in Pushes /\ p[2] \in Nat
        BY <3>2 DEF TypeInv, TypeOK, StoreTypeOK, IsMap, Path, Positive
      <4>2. pc[p[1]] \in Early
        BY <1>2, <4>1 DEF Others, Early, Scanning
      <4>3. p[2] < loc[p[1]].no
        BY <3>2, <4>2 DEF PathInv, FreshPaths, Early
      <4> QED
        BY <1>1, <1>2, <1>4, <4>1, <4>3 DEF Others
    <3> QED
      BY <2>1, <3>1, <3>2
  <2>3. /\ Len(loc'[w].nodist) = Len(loc[w].nodist) + 1
        /\ loc'[w].nodist[Len(loc[w].nodist) + 1] = new
        /\ \A i \in 1..Len(loc[w].nodist) : loc'[w].nodist[i] = loc[w].nodist[i]
        /\ Len(loc[w].nodist) \in Nat
    BY <1>1, <1>4
  <2>4. OwnedPaths'
    <3> SUFFICES ASSUME NEW v \in Pushes, NEW i \in 1..Len(loc'[v].nodist)
                 PROVE  /\ loc'[v].nodist[i].path[1] = v
                        /\ loc'[v].nodist[i].path[2] < loc'[v].no
                        /\ \A j \in 1..Len(loc'[v].nodist) :
                              i # j => loc'[v].nodist[i].path # loc'[v].nodist[j].path
      BY DEF OwnedPaths
    <3>1. CASE v # w
      BY <1>2, <3>1 DEF Others, PathInv, OwnedPaths
    <3>2. CASE v = w
      <4>1. \A j \in 1..Len(loc[w].nodist) :
                /\ loc[w].nodist[j].path[1] = w
                /\ loc[w].nodist[j].path[2] < no
                /\ loc[w].nodist[j].path[2] \in Nat
                /\ loc[w].nodist[j].path # <<w, no>>
        <5> SUFFICES ASSUME NEW j \in 1..Len(loc[w].nodist)
                     PROVE  /\ loc[w].nodist[j].path[1] = w
                            /\ loc[w].nodist[j].path[2] < no
                            /\ loc[w].nodist[j].path[2] \in Nat
                            /\ loc[w].nodist[j].path # <<w, no>>
          OBVIOUS
        <5>1. loc[w].nodist[j].path[1] = w /\ loc[w].nodist[j].path[2] < no
          BY DEF PathInv, OwnedPaths
        <5>2. loc[w].nodist[j] \in UniqueFile
          BY <1>1
        <5>3. loc[w].nodist[j].path[2] \in Nat
          BY <5>2 DEF UniqueFile, Path, Positive
        <5> QED
          BY <1>1, <5>1, <5>3
      <4>2. new.path[1] = w /\ new.path[2] = no /\ new.path = <<w, no>>
        OBVIOUS
      <4> HIDE DEF new, no
      <4>5. loc'[w].no = no + 1 /\ no \in Nat
        BY <1>1, <1>4
      <4>6. \A j \in 1..(Len(loc[w].nodist) + 1) :
                j = Len(loc[w].nodist) + 1 \/ j \in 1..Len(loc[w].nodist)
        BY <2>3
      <4>7. i \in 1..(Len(loc[w].nodist) + 1)
        BY <2>3, <3>2
      <4>3. CASE i = Len(loc[w].nodist) + 1
        <5>1. loc'[w].nodist[i] = new
          BY <2>3, <4>3
        <5>2. \A j \in 1..(Len(loc[w].nodist) + 1) : i # j => j \in 1..Len(loc[w].nodist)
          BY <2>3, <4>3
        <5>3. \A j \in 1..(Len(loc[w].nodist) + 1) :
                 i # j => new.path # loc'[w].nodist[j].path
          BY <2>3, <4>1, <4>2, <5>2
        <5>4. \A j \in 1..Len(loc'[w].nodist) :
                 i # j => loc'[w].nodist[i].path # loc'[w].nodist[j].path
          BY <2>3, <5>1, <5>3
        <5>5. loc'[w].nodist[i].path[1] = w /\ loc'[w].nodist[i].path[2] < loc'[w].no
          BY <4>2, <4>5, <5>1
        <5> QED
          BY <3>2, <5>4, <5>5
      <4>4. CASE i \in 1..Len(loc[w].nodist)
        <5>1. \A j \in 1..Len(loc[w].nodist) :
                  i # j => loc[w].nodist[i].path # loc[w].nodist[j].path
          BY <4>4 DEF PathInv, OwnedPaths
        <5>2. loc'[w].nodist[i] = loc[w].nodist[i]
          BY <2>3, <4>4
        <5>3. ASSUME NEW j \in 1..(Len(loc[w].nodist) + 1), i # j
              PROVE  loc[w].nodist[i].path # loc'[w].nodist[j].path
          <6>1. CASE j = Len(loc[w].nodist) + 1
            BY <2>3, <4>1, <4>2, <4>4, <6>1
          <6>2. CASE j \in 1..Len(loc[w].nodist)
            BY <2>3, <5>1, <5>3, <6>2
          <6> QED
            BY <4>6, <6>1, <6>2, Zenon
        <5>4. loc[w].nodist[i].path[1] = w /\ loc[w].nodist[i].path[2] < loc'[w].no
          BY <4>1, <4>4, <4>5
        <5>5. \A j \in 1..Len(loc'[w].nodist) :
                 i # j => loc'[w].nodist[i].path # loc'[w].nodist[j].path
          BY <2>3, <5>2, <5>3
        <5>6. loc'[w].nodist[i].path[1] = w /\ loc'[w].nodist[i].path[2] < loc'[w].no
          BY <5>2, <5>4
        <5> QED
          BY <3>2, <5>5, <5>6
      <4> QED
        BY <4>3, <4>4, <4>6, <4>7, Zenon
    <3> QED
      BY <3>1, <3>2
  <2>5. DescriptorsWellFormed'
    <3>1. \A c \in DOMAIN fileDesc : fileDesc[c].path[1] \in Pushes
      BY DEF TypeInv, TypeOK, MetadataTypeOK, IsMap, FileDescriptor, Path
    <3> QED
      BY <1>2, <3>1 DEF PathInv, DescriptorsWellFormed, Others, BeforeRegister, Scanning
  <2>6. PendingUnregistered'
    <3> SUFFICES ASSUME NEW v \in Pushes, NEW i \in Pending(v)'
                 PROVE  ~Registered(loc'[v].nodist[i].path)
      BY <1>2 DEF PendingUnregistered, Registered
    <3>1. CASE v # w
      <4>1. i \in Pending(v) /\ loc'[v] = loc[v]
        BY <1>2, <3>1 DEF Others, Pending
      <4> QED
        BY <4>1 DEF PathInv, PendingUnregistered
    <3>2. CASE v = w /\ i = Len(loc[w].nodist) + 1
      <4>1. \A c \in DOMAIN fileDesc : fileDesc[c].path[1] # w
        BY <1>2 DEF PathInv, DescriptorsWellFormed, BeforeRegister, Scanning
      <4>2. loc'[v].nodist[i].path[1] = w
        BY <2>3, <3>2
      <4> QED
        BY <4>1, <4>2 DEF Registered
    <3>3. CASE v = w /\ i # Len(loc[w].nodist) + 1
      <4>1. i \in loc[w].k .. (Len(loc[w].nodist) + 1)
        BY <1>2, <1>4, <2>3, <3>3 DEF Pending
      <4>2. i \in loc[w].k .. Len(loc[w].nodist) /\ loc[w].k \in Nat /\ loc[w].k >= 1
        BY <1>1, <2>3, <3>3, <4>1 DEF Local, Positive
      <4>3. i \in Pending(w) /\ loc'[w].nodist[i] = loc[w].nodist[i]
        BY <1>2, <2>3, <4>2 DEF Pending
      <4> QED
        BY <3>3, <4>3 DEF PathInv, PendingUnregistered
    <3> QED
      BY <3>1, <3>2, <3>3
  <2> QED
    BY <2>2, <2>4, <2>5, <2>6 DEF PathInv
<1> QED
  BY <1>3, <1>4, RenameUniqueEffect

\* Sorting the new chunks leaves each of them in the list once.
LEMMA SortKeepsFiles ==
    ASSUME NEW files \in Seq(UniqueFile), NEW s \in BySizeDescending(files)
    PROVE  /\ Len(s) = Len(files)
           /\ \A i \in 1..Len(s) : \E j \in 1..Len(files) : s[i] = files[j]
           /\ \A i, j \in 1..Len(s) : i # j => s[i] # s[j]
<1>1. /\ s \in [1..Len(files) -> {files[i] : i \in 1..Len(files)}]
      /\ \A i, j \in 1..Len(files) : i < j => s[i] # s[j]
  BY DEF BySizeDescending
<1>2. Len(s) = Len(files)
  BY SortType
<1>3. \A i, j \in 1..Len(s) : i # j => i < j \/ j < i
  BY <1>2
<1> QED
  BY <1>1, <1>2, <1>3

LEMMA PathDecide ==
    ASSUME TypeInv, TypeInv', PathInv, NEW w \in Pushes, Decide(w)
    PROVE  PathInv'
<1> USE DEF BeforeScan, Scanning, BeforeRegister
<1>1. /\ loc \in [Pushes -> Local] /\ loc' \in [Pushes -> Local]
      /\ loc[w].nodist \in Seq(UniqueFile)
  BY DEF TypeInv, TypeOK, Local
<1>2. /\ UNCHANGED <<fileDesc, diff>>
      /\ pc[w] \in {"decide", "check"}
      /\ Others(w)
  BY DecideEffect DEF metadataVars, storeVars
<1>3. \A v \in Pushes : loc[v].no \in Nat /\ loc[v].k \in Nat /\ Len(loc[v].nodist) \in Nat
  BY LocNumbers
<1>4. CASE pc'[w] \in {"empty", "finish"} /\ loc'[w] = loc[w]
  BY <1>1, <1>2, <1>3, <1>4, PathFrame DEF Others, Pending, Early
<1>5. CASE /\ pc'[w] = "register"
           /\ loc'[w].nodist = loc[w].nodist
           /\ loc'[w].no = loc[w].no
           /\ loc'[w].k = loc[w].k
  BY <1>1, <1>2, <1>3, <1>5, PathFrame DEF Others, Pending, Early
<1>6. CASE /\ pc'[w] = "register"
           /\ loc'[w].nodist \in BySizeDescending(loc[w].nodist)
           /\ loc'[w].no = loc[w].no
           /\ loc'[w].k = loc[w].k
  <2> DEFINE old == loc[w].nodist
             new == loc'[w].nodist
  <2>1. /\ Len(new) = Len(old)
        /\ \A i \in 1..Len(new) : \E j \in 1..Len(old) : new[i] = old[j]
        /\ \A i, j \in 1..Len(new) : i # j => new[i] # new[j]
    BY <1>1, <1>6, SortKeepsFiles
  <2>2. FreshPaths'
    <3>1. \A p \in DOMAIN diff : p[1] \in Pushes
      BY DEF TypeInv, TypeOK, StoreTypeOK, IsMap, Path
    <3> QED
      BY <1>2, <1>6, <3>1 DEF PathInv, FreshPaths, Others
  <2>3. OwnedPaths'
    <3> SUFFICES ASSUME NEW v \in Pushes, NEW i \in 1..Len(loc'[v].nodist)
                 PROVE  /\ loc'[v].nodist[i].path[1] = v
                        /\ loc'[v].nodist[i].path[2] < loc'[v].no
                        /\ \A j \in 1..Len(loc'[v].nodist) :
                              i # j => loc'[v].nodist[i].path # loc'[v].nodist[j].path
      BY DEF OwnedPaths
    <3>1. CASE v # w
      BY <1>2, <3>1 DEF Others, PathInv, OwnedPaths
    <3>2. CASE v = w
      <4>1. PICK a \in 1..Len(old) : new[i] = old[a]
        BY <2>1, <3>2
      <4>2. old[a].path[1] = w /\ old[a].path[2] < loc[w].no
        BY DEF PathInv, OwnedPaths
      <4>3. ASSUME NEW j \in 1..Len(new), i # j
            PROVE  new[i].path # new[j].path
        <5>1. PICK b \in 1..Len(old) : new[j] = old[b]
          BY <2>1
        <5>2. a # b
          BY <2>1, <3>2, <4>1, <4>3, <5>1
        <5> QED
          BY <4>1, <5>1, <5>2 DEF PathInv, OwnedPaths
      <4> QED
        BY <1>6, <3>2, <4>1, <4>2, <4>3
    <3> QED
      BY <3>1, <3>2
  <2>4. DescriptorsWellFormed'
    <3>1. \A c \in DOMAIN fileDesc : fileDesc[c].path[1] \in Pushes
      BY DEF TypeInv, TypeOK, MetadataTypeOK, IsMap, FileDescriptor, Path
    <3> QED
      BY <1>2, <1>6, <3>1 DEF PathInv, DescriptorsWellFormed, Others
  <2>5. PendingUnregistered'
    <3> SUFFICES ASSUME NEW v \in Pushes, NEW i \in Pending(v)'
                 PROVE  ~Registered(loc'[v].nodist[i].path)
      BY <1>2 DEF PendingUnregistered, Registered
    <3>1. CASE v # w
      <4>1. i \in Pending(v) /\ loc'[v] = loc[v]
        BY <1>2, <3>1 DEF Others, Pending
      <4> QED
        BY <4>1 DEF PathInv, PendingUnregistered
    <3>2. CASE v = w
      <4>1. loc[w].k = 1 /\ Pending(w) = 1..Len(old)
        BY <1>2 DEF TypeInv, LocalShape, Shape, Pending
      <4>2. i \in 1..Len(new)
        BY <1>6, <3>2, <4>1 DEF Pending
      <4>3. PICK a \in 1..Len(old) : new[i] = old[a]
        BY <2>1, <4>2
      <4> QED
        BY <3>2, <4>1, <4>3 DEF PathInv, PendingUnregistered
    <3> QED
      BY <3>1, <3>2
  <2> QED
    BY <2>2, <2>3, <2>4, <2>5 DEF PathInv
<1> QED
  BY <1>4, <1>5, <1>6, DecideEffect

\* A claimed path leaves the pending ones; an applied SETNX names no other path.
LEMMA PathRegister ==
    ASSUME TypeInv, TypeInv', PathInv, NEW w \in Pushes, RegisterFile(w)
    PROVE  PathInv'
<1> USE DEF BeforeScan, Scanning, BeforeRegister
<1> DEFINE k == loc[w].k
           f == loc[w].nodist[k]
<1>1. /\ loc \in [Pushes -> Local] /\ loc' \in [Pushes -> Local]
      /\ \A v \in Pushes : loc[v].k \in Nat /\ Len(loc[v].nodist) \in Nat
  BY LocNumbers DEF TypeInv, TypeOK
<1>2. /\ pc[w] = "register" /\ pc'[w] \in {"register", "lost"}
      /\ k \in 1..Len(loc[w].nodist)
      /\ DOMAIN diff' \subseteq DOMAIN diff
      /\ loc'[w].no = loc[w].no
      /\ loc'[w].nodist = loc[w].nodist
      /\ Others(w)
  <2>1. /\ pc[w] = "register" /\ pc'[w] \in {"register", "lost"}
        /\ diff' = diff \/ \E S : diff' = Drop(diff, S)
    BY RegisterFileEffect
  <2>2. DOMAIN diff' \subseteq DOMAIN diff
    BY <2>1 DEF Drop
  <2>3. /\ k \in 1..Len(loc[w].nodist) /\ loc'[w].no = loc[w].no
        /\ loc'[w].nodist = loc[w].nodist /\ Others(w)
    BY RegisterFileEffect
  <2> QED  BY <2>1, <2>2, <2>3
<1>3. Pending(w)' = (k + 1) .. Len(loc[w].nodist) /\ Pending(w) = k .. Len(loc[w].nodist)
  BY <1>2, RegisterFileEffect DEF Pending
<1>4. PICK host \in Servers :
          LET des == [digest |-> f.digest, path |-> f.path, host |-> host] IN
          fileDesc' = fileDesc \/ fileDesc' = PutNew(fileDesc, f.digest, des)
  BY RegisterFileEffect
<1>5. \A c \in DOMAIN fileDesc' :
          \/ c \in DOMAIN fileDesc /\ fileDesc'[c] = fileDesc[c]
          \/ c = f.digest /\ fileDesc'[c].digest = c /\ fileDesc'[c].path = f.path
  BY <1>4 DEF PutNew, Put
<1>6. f.path[1] = w
  BY <1>2 DEF PathInv, OwnedPaths
<1> HIDE DEF f
<1>7. FreshPaths'
  <2>1. \A p \in DOMAIN diff : p[1] \in Pushes
    BY DEF TypeInv, TypeOK, StoreTypeOK, IsMap, Path
  <2> QED
    BY <1>2, <2>1 DEF PathInv, FreshPaths, Others
<1>8. OwnedPaths'
  <2>1. \A v \in Pushes : loc'[v].nodist = loc[v].nodist /\ loc'[v].no = loc[v].no
    BY <1>2 DEF Others
  <2>2. OwnedPaths
    BY DEF PathInv
  <2> QED  BY <2>1, <2>2 DEF OwnedPaths
<1>9. DescriptorsWellFormed'
  <2>1. \A c \in DOMAIN fileDesc : fileDesc[c].path[1] \in Pushes
    BY DEF TypeInv, TypeOK, MetadataTypeOK, IsMap, FileDescriptor, Path
  <2> SUFFICES ASSUME NEW c \in DOMAIN fileDesc'
               PROVE  /\ fileDesc'[c].digest = c
                      /\ pc'[fileDesc'[c].path[1]] \notin BeforeRegister
    BY DEF DescriptorsWellFormed
  <2>2. CASE c \in DOMAIN fileDesc /\ fileDesc'[c] = fileDesc[c]
    BY <1>2, <2>1, <2>2 DEF PathInv, DescriptorsWellFormed, Others
  <2>3. CASE c = f.digest /\ fileDesc'[c].digest = c /\ fileDesc'[c].path = f.path
    BY <1>2, <1>6, <2>3
  <2> QED
    BY <1>5, <2>2, <2>3
<1>10. PendingUnregistered'
  <2> SUFFICES ASSUME NEW v \in Pushes, NEW i \in Pending(v)', NEW c \in DOMAIN fileDesc'
               PROVE  fileDesc'[c].path # loc'[v].nodist[i].path
    BY DEF PendingUnregistered, Registered
  <2>1. /\ i \in Pending(v)
        /\ loc'[v].nodist = loc[v].nodist
        /\ v = w => i \in (k + 1) .. Len(loc[w].nodist)
    <3>1. CASE v = w
      BY <1>1, <1>2, <1>3, <3>1
    <3>2. CASE v # w
      BY <1>2, <3>2 DEF Others, Pending
    <3> QED
      BY <3>1, <3>2
  <2>2. CASE c \in DOMAIN fileDesc /\ fileDesc'[c] = fileDesc[c]
    BY <2>1, <2>2 DEF PathInv, PendingUnregistered, Registered
  <2>3. CASE fileDesc'[c].path = f.path
    <3>1. CASE v = w
      <4>1. i \in 1..Len(loc[w].nodist) /\ i # k
        BY <1>1, <1>2, <2>1, <3>1
      <4>2. loc[w].nodist[i].path # loc[w].nodist[k].path
        BY <1>2, <4>1 DEF PathInv, OwnedPaths
      <4> QED
        BY <2>1, <2>3, <3>1, <4>2 DEF f
    <3>2. CASE v # w
      <4>1. i \in 1..Len(loc[v].nodist)
        BY <2>1, LocNumbers DEF Pending
      <4>2. loc[v].nodist[i].path[1] = v
        BY <4>1 DEF PathInv, OwnedPaths
      <4> QED
        BY <1>6, <2>1, <2>3, <3>2, <4>2
    <3> QED
      BY <3>1, <3>2
  <2> QED
    BY <1>5, <2>2, <2>3
<1> QED
  BY <1>7, <1>8, <1>9, <1>10 DEF PathInv

LEMMA PathStep == TypeInv /\ TypeInv' /\ PathInv /\ [Next]_vars => PathInv'
<1> SUFFICES ASSUME TypeInv, TypeInv', PathInv, [Next]_vars PROVE PathInv'
  OBVIOUS
<1>1. ASSUME NEW w \in Pushes, Push(w) \/ DedupStep(w) PROVE PathInv'
  BY <1>1, PathQuietSteps, PathRename, PathDecide, PathRegister DEF DedupStep
<1>2. ASSUME NEW w \in Pushes, Panic(w) PROVE PathInv'
  BY <1>2, PathDies, PushFacts DEF Panic
<1>3. ASSUME NEW s \in Servers, Crash(s) PROVE PathInv'
  BY <1>3, PathDies DEF Crash
<1>4. ASSUME UNCHANGED vars PROVE PathInv'
  BY <1>4 DEF vars, metadataVars, storeVars, workerVars, PathInv, FreshPaths, OwnedPaths,
              DescriptorsWellFormed, PendingUnregistered, Pending, Registered
<1> QED
  BY <1>1, <1>2, <1>3, <1>4 DEF Next

-----------------------------------------------------------------------------
(* Who works in which directory. *)

LEMMA ScanInit == Init => ScanInv
BY DEF Init, MetadataInit, NoLocal, ScanInv, Exclusive, ChunkPresent, NothingWrong, Active,
       Scanning

\* A push that is in the middle of a dedup is the only one in its directory.
LEMMA ExclusiveFrame ==
    ASSUME Exclusive, \A v \in Pushes : Active(v)' => Active(v), events \subseteq events'
    PROVE  Exclusive'
BY DEF Exclusive, SameDir

\* The files of unpack/ outside the directory of push w stay as they are.
OtherDirs(w) ==
    \A x \in Servers \X Layers \X Positive :
        x[1] # w.srv \/ x[2] # w.layer =>
            /\ x \in DOMAIN unpack' <=> x \in DOMAIN unpack
            /\ x \in DOMAIN unpack => unpack'[x] = unpack[x]

LEMMA StepOtherDirs ==
    ASSUME NEW w \in Pushes, DedupStep(w)
    PROVE  OtherDirs(w)
<1>1. CASE unpack' = unpack
  BY <1>1 DEF OtherDirs
<1>2. CASE unpack' = Drop(unpack, UnpackDir(w))
  BY <1>2 DEF OtherDirs, Drop, UnpackDir
<1>3. CASE unpack' = Drop(unpack, {ChunkFile(w, loc[w].no)})
  BY <1>3 DEF OtherDirs, Drop, ChunkFile
<1>4. CASE SplitFileChunk(w) /\ Dir(w) \in DOMAIN partial
  <2> DEFINE new == {ChunkFile(w, i) : i \in 1..ChunkNum(partial[Dir(w)])}
  <2>1. \A x \in new : x[1] = w.srv /\ x[2] = w.layer
    BY DEF ChunkFile
  <2>2. DOMAIN unpack' = DOMAIN unpack \cup new /\ \A x \in DOMAIN unpack \ new : unpack'[x] = unpack[x]
    BY <1>4 DEF SplitFileChunk
  <2> HIDE DEF new
  <2> QED
    BY <2>1, <2>2 DEF OtherDirs
<1>5. CASE \/ OpenLayer(w) \/ StatRLMap(w) \/ SetRLMap(w) \/ ListUnpack(w) \/ CheckChunk(w)
           \/ Decide(w) \/ SetEmptyRecipe(w) \/ RegisterFile(w) \/ AddExisting(w)
           \/ SetSlice(w) \/ SetLayer(w)
  <2>1. unpack' = unpack
    BY <1>5 DEF OpenLayer, StatRLMap, SetRLMap, ListUnpack, CheckChunk, Decide, SetEmptyRecipe,
                RegisterFile, AddExisting, SetSlice, SetLayer, storeVars
  <2> QED
    BY <1>1, <2>1
<1>6. CASE \/ Decode(w) \/ (SplitFileChunk(w) /\ Dir(w) \notin DOMAIN partial)
           \/ DropDuplicate(w) \/ RenameUnique(w) \/ Finish(w)
  <2>1. \/ unpack' = unpack
        \/ unpack' = Drop(unpack, UnpackDir(w))
        \/ unpack' = Drop(unpack, {ChunkFile(w, loc[w].no)})
    BY <1>6 DEF Decode, SplitFileChunk, DropDuplicate, RenameUnique, Finish
  <2> QED
    BY <1>1, <1>2, <1>3, <2>1
<1> QED
  BY <1>4, <1>5, <1>6 DEF DedupStep

\* What ChunkPresent says of one push.
Present(v) ==
    /\ pc[v] # "empty"
    /\ pc[v] = "list" => UnpackDir(v) # {}
    /\ pc[v] \in Scanning \cup {"decide"} => loc[v].fcnt # 0
    /\ pc[v] \in {"remove", "rename"} =>
          /\ ChunkFile(v, loc[v].no) \in DOMAIN unpack
          /\ unpack[ChunkFile(v, loc[v].no)] = loc[v].dgst

\* A step of push w does not disturb the chunk another push is looking at.
LEMMA PresentOthers ==
    ASSUME TypeInv, ScanInv, NEW w \in Pushes, DedupStep(w), Others(w), Active(w),
           "sameLayer" \notin events, NEW v \in Pushes, v # w
    PROVE  Present(v)'
<1>1. Present(v)
  BY DEF ScanInv, ChunkPresent, Present
<1>2. pc'[v] = pc[v] /\ loc'[v] = loc[v]
  BY DEF Others
<1>3. OtherDirs(w)
  BY StepOtherDirs
<1>4. pc[v] \in {"list", "remove", "rename"} => v.srv # w.srv \/ v.layer # w.layer
  BY DEF ScanInv, Exclusive, Active, SameDir
<1>5. loc[v].no \in Positive
  BY DEF TypeInv, TypeOK, Local
<1>6. ChunkFile(v, loc[v].no) \in Servers \X Layers \X Positive
  BY <1>5, PushFacts
<1>7. pc[v] \in {"remove", "rename"} =>
          /\ ChunkFile(v, loc[v].no) \in DOMAIN unpack'
          /\ unpack'[ChunkFile(v, loc[v].no)] = loc[v].dgst
  <2>1. ChunkFile(v, loc[v].no)[1] = v.srv /\ ChunkFile(v, loc[v].no)[2] = v.layer
    BY DEF ChunkFile
  <2> QED
    BY <1>1, <1>3, <1>4, <1>6, <2>1 DEF OtherDirs, Present
<1>8. pc[v] = "list" => UnpackDir(v)' # {}
  <2> SUFFICES ASSUME pc[v] = "list" PROVE UnpackDir(v)' # {}
    OBVIOUS
  <2>1. PICK x \in DOMAIN unpack : x[1] = v.srv /\ x[2] = v.layer
    BY <1>1 DEF Present, UnpackDir
  <2>2. x \in Servers \X Layers \X Positive
    BY DEF TypeInv, TypeOK, StoreTypeOK, IsMap
  <2>3. x \in DOMAIN unpack'
    BY <1>3, <1>4, <2>1, <2>2 DEF OtherDirs
  <2> QED
    BY <2>1, <2>3 DEF UnpackDir
<1> QED
  BY <1>1, <1>2, <1>7, <1>8 DEF Present, ChunkFile

\* What NothingWrong says of one push.
Fine(v) ==
    /\ ~loc[v].someWrong
    /\ pc[v] \in {"register", "lost", "finish"} => loc[v].isdedup

LEMMA QuietBefore ==
    ASSUME TypeInv, faults' \in Nat, faults' >= faults, events \subseteq events', Quiet'
    PROVE  Quiet
BY DEF Quiet, TypeInv, TypeOK, MetadataTypeOK

LEMMA ScanAssemble ==
    ASSUME TypeInv, ScanInv, NEW w \in Pushes, DedupStep(w), Others(w), Active(w),
           events \subseteq events', faults' \in Nat, faults' >= faults,
           "sameLayer" \notin events' => Present(w)',
           Quiet' => Fine(w)'
    PROVE  ScanInv'
<1>1. Exclusive'
  <2>1. \A v \in Pushes : Active(v)' => Active(v)
    BY DEF Others, Active
  <2> QED
    BY <2>1, ExclusiveFrame DEF ScanInv
<1>2. ChunkPresent'
  <2> SUFFICES ASSUME "sameLayer" \notin events', NEW v \in Pushes PROVE Present(v)'
    BY DEF ChunkPresent, Present
  <2>1. "sameLayer" \notin events
    OBVIOUS
  <2> QED
    BY <2>1, PresentOthers
<1>3. NothingWrong'
  <2> SUFFICES ASSUME Quiet', NEW v \in Pushes PROVE Fine(v)'
    BY DEF NothingWrong, Fine
  <2>1. Quiet
    BY QuietBefore
  <2>2. CASE v # w
    <3>1. Fine(v)
      BY <2>1 DEF ScanInv, NothingWrong, Fine
    <3>2. pc'[v] = pc[v] /\ loc'[v] = loc[v]
      BY <2>2 DEF Others
    <3> QED
      BY <3>1, <3>2 DEF Fine
  <2> QED
    BY <2>2
<1> QED
  BY <1>1, <1>2, <1>3 DEF ScanInv

\* splitFileChunk leaves at least one chunk file.
LEMMA SplitNonEmpty ==
    ASSUME TypeInv, NEW w \in Pushes, SplitFileChunk(w), pc'[w] = "list"
    PROVE  UnpackDir(w)' # {}
<1>1. Dir(w) \in DOMAIN partial
  BY DEF SplitFileChunk, Goto, TypeInv, TypeOK
<1>2. partial[Dir(w)] \in Seq(Blocks) /\ partial[Dir(w)] # <<>>
  BY <1>1 DEF TypeInv, TypeOK, StoreTypeOK, IsMap
<1>3. 1 \in 1..ChunkNum(partial[Dir(w)])
  BY <1>2, ChunkNumPositive DEF Positive
<1>4. ChunkFile(w, 1) \in DOMAIN unpack'
  BY <1>1, <1>3 DEF SplitFileChunk
<1>5. ChunkFile(w, 1)[1] = w.srv /\ ChunkFile(w, 1)[2] = w.layer
  BY DEF ChunkFile
<1> QED
  BY <1>4, <1>5 DEF UnpackDir

LEMMA ScanEarly ==
    ASSUME TypeInv, ScanInv, NEW w \in Pushes,
           \/ OpenLayer(w) \/ StatRLMap(w) \/ SetRLMap(w) \/ Decode(w) \/ SplitFileChunk(w)
    PROVE  ScanInv'
<1>1. /\ UNCHANGED events
      /\ faults' \in Nat /\ faults' >= faults
      /\ Active(w)
      /\ pc[w] \in BeforeScan
      /\ pc'[w] \in BeforeScan \cup {"done"}
      /\ loc'[w].someWrong = loc[w].someWrong
      /\ Others(w)
  BY EarlyEffect
<1>2. ~loc[w].someWrong
  BY <1>1 DEF TypeInv, LocalShape, Shape
<1>3. pc'[w] = "list" => SplitFileChunk(w)
  BY DEF OpenLayer, StatRLMap, SetRLMap, Decode, Goto, TypeInv, TypeOK
<1>4. Present(w)'
  BY <1>1, <1>3, SplitNonEmpty DEF Present, BeforeScan, Scanning
<1>5. Fine(w)'
  BY <1>1, <1>2 DEF Fine, BeforeScan
<1> QED
  BY <1>1, <1>4, <1>5, ScanAssemble DEF DedupStep

LEMMA ScanListUnpack ==
    ASSUME TypeInv, ScanInv, NEW w \in Pushes, ListUnpack(w)
    PROVE  ScanInv'
<1>1. /\ UNCHANGED <<events, faults>>
      /\ pc[w] = "list" /\ pc'[w] = "check"
      /\ loc'[w].fcnt = Cardinality(UnpackDir(w))
      /\ loc'[w].someWrong = loc[w].someWrong
      /\ Others(w)
  BY ListUnpackEffect DEF metadataVars
<1>2. ~loc[w].someWrong
  BY <1>1 DEF TypeInv, LocalShape, Shape, BeforeScan
<1>3. IsFiniteSet(UnpackDir(w))
  BY FS_Subset DEF UnpackDir, TypeInv
<1>4. "sameLayer" \notin events => Present(w)'
  <2> SUFFICES ASSUME "sameLayer" \notin events PROVE Present(w)'
    OBVIOUS
  <2>1. UnpackDir(w) # {}
    BY <1>1 DEF ScanInv, ChunkPresent
  <2>2. Cardinality(UnpackDir(w)) # 0
    BY <1>3, <2>1, FS_EmptySet
  <2> QED
    BY <1>1, <2>2 DEF Present
<1>5. Fine(w)'
  BY <1>1, <1>2 DEF Fine
<1>6. Active(w) /\ faults \in Nat
  BY <1>1 DEF Active, TypeInv, TypeOK, MetadataTypeOK
<1> QED
  BY <1>1, <1>4, <1>5, <1>6, ScanAssemble DEF DedupStep

LEMMA ScanCheckChunk ==
    ASSUME TypeInv, ScanInv, NEW w \in Pushes, CheckChunk(w)
    PROVE  ScanInv'
<1>1. /\ UNCHANGED <<unpack, events>>
      /\ faults' \in Nat /\ faults' >= faults
      /\ pc[w] = "check" /\ pc'[w] \in {"remove", "rename", "decide"}
      /\ pc'[w] = "decide" => faults' > 0
      /\ pc'[w] # "decide" => ~loc'[w].someWrong
      /\ ChunkFile(w, loc[w].no) \in DOMAIN unpack
      /\ loc'[w].dgst = unpack[ChunkFile(w, loc[w].no)]
      /\ loc'[w].fcnt = loc[w].fcnt
      /\ loc'[w].no = loc[w].no
      /\ Others(w)
  BY CheckChunkEffect DEF storeVars
<1>2. "sameLayer" \notin events => Present(w)'
  BY <1>1 DEF Present, ScanInv, ChunkPresent, Scanning, ChunkFile
<1>3. Quiet' => Fine(w)'
  BY <1>1 DEF Quiet, Fine
<1>4. Active(w)
  BY <1>1 DEF Active
<1> QED
  BY <1>1, <1>2, <1>3, <1>4, ScanAssemble DEF DedupStep

\* A chunk file that was digested is there to be removed or renamed.
LEMMA ScanMove ==
    ASSUME TypeInv, ScanInv, NEW w \in Pushes, DropDuplicate(w) \/ RenameUnique(w)
    PROVE  ScanInv'
<1>1. /\ UNCHANGED faults
      /\ events \subseteq events'
      /\ pc[w] \in {"remove", "rename"}
      /\ \/ /\ ChunkFile(w, loc[w].no) \in DOMAIN unpack
            /\ pc'[w] = "check"
            /\ loc'[w].someWrong = loc[w].someWrong
         \/ /\ ChunkFile(w, loc[w].no) \notin DOMAIN unpack
            /\ pc'[w] = "decide"
      /\ loc'[w].fcnt = loc[w].fcnt
      /\ Others(w)
  <2>1. CASE DropDuplicate(w)
    BY <2>1, DropDuplicateEffect DEF metadataVars
  <2>2. CASE RenameUnique(w)
    BY <2>2, RenameUniqueEffect DEF metadataVars
  <2> QED
    BY <2>1, <2>2
<1>2. ~loc[w].someWrong
  BY <1>1 DEF TypeInv, LocalShape, Shape, Scanning
<1>3. "sameLayer" \notin events' =>
          ChunkFile(w, loc[w].no) \in DOMAIN unpack /\ loc[w].fcnt # 0
  BY <1>1 DEF ScanInv, ChunkPresent, Scanning
<1>4. "sameLayer" \notin events' => Present(w)'
  BY <1>1, <1>3 DEF Present
<1>5. Quiet' => Fine(w)'
  BY <1>1, <1>2, <1>3 DEF Quiet, Fine
<1>6. Active(w) /\ faults \in Nat
  BY <1>1 DEF Active, TypeInv, TypeOK, MetadataTypeOK
<1> QED
  BY <1>1, <1>4, <1>5, <1>6, ScanAssemble DEF DedupStep

LEMMA ScanDecide ==
    ASSUME TypeInv, ScanInv, NEW w \in Pushes, Decide(w)
    PROVE  ScanInv'
<1>1. /\ UNCHANGED faults
      /\ events \subseteq events'
      /\ "sameLayer" \in events' => "sameLayer" \in events
      /\ pc[w] \in {"decide", "check"}
      /\ \/ pc'[w] = "empty" /\ loc[w].fcnt = 0 /\ loc'[w] = loc[w] /\ events' = events
         \/ pc'[w] = "finish" /\ "fmode" \in events' /\ loc'[w] = loc[w]
         \/ /\ pc'[w] = "register"
            /\ loc'[w].isdedup = ~loc[w].someWrong
            /\ loc'[w].someWrong = loc[w].someWrong
      /\ Others(w)
  BY DecideEffect DEF metadataVars
<1>2. Active(w) /\ faults \in Nat
  BY <1>1 DEF Active, TypeInv, TypeOK, MetadataTypeOK
<1>3. "sameLayer" \notin events' => Present(w)'
  BY <1>1 DEF Present, ScanInv, ChunkPresent, Scanning
<1>4. Quiet' => Fine(w)'
  <2> SUFFICES ASSUME Quiet' PROVE Fine(w)'
    OBVIOUS
  <2>1. ~loc[w].someWrong
    BY <1>1, <1>2, QuietBefore DEF ScanInv, NothingWrong
  <2> QED
    BY <1>1, <2>1 DEF Fine, Quiet
<1> QED
  BY <1>1, <1>2, <1>3, <1>4, ScanAssemble DEF DedupStep

\* From the claim of digests to the recipes, isdedup stays.
LEMMA ScanRegister ==
    ASSUME TypeInv, ScanInv, NEW w \in Pushes,
           \/ RegisterFile(w) \/ AddExisting(w) \/ SetSlice(w) \/ SetEmptyRecipe(w) \/ SetLayer(w)
    PROVE  ScanInv'
<1>1. /\ events \subseteq events'
      /\ "sameLayer" \in events' => "sameLayer" \in events
      /\ faults' \in Nat /\ faults' >= faults
      /\ pc[w] \in {"register", "lost", "empty"}
      /\ pc'[w] \in {"register", "lost", "finish"}
      /\ loc'[w].isdedup = loc[w].isdedup
      /\ loc'[w].someWrong = loc[w].someWrong
      /\ Others(w)
  <2>1. CASE RegisterFile(w)
    BY <2>1, RegisterFileEffect
  <2>2. CASE AddExisting(w)
    BY <2>2, AddExistingEffect
  <2>3. CASE SetSlice(w)
    BY <2>3, SetSliceEffect
  <2>4. CASE SetEmptyRecipe(w) \/ SetLayer(w)
    BY <2>4, LayerEffect
  <2> QED
    BY <2>1, <2>2, <2>3, <2>4
<1>2. "sameLayer" \notin events' => Present(w)' /\ pc[w] # "empty"
  BY <1>1 DEF Present, ScanInv, ChunkPresent, Scanning
<1>3. Quiet' => Fine(w)'
  <2> SUFFICES ASSUME Quiet' PROVE Fine(w)'
    OBVIOUS
  <2>1. Quiet /\ pc[w] # "empty"
    BY <1>1, <1>2, QuietBefore DEF Quiet
  <2>2. Fine(w)
    BY <2>1 DEF ScanInv, NothingWrong, Fine
  <2> QED
    BY <1>1, <2>1, <2>2 DEF Fine
<1>4. Active(w)
  BY <1>1 DEF Active
<1> QED
  BY <1>1, <1>2, <1>3, <1>4, ScanAssemble DEF DedupStep

LEMMA ScanFinish ==
    ASSUME TypeInv, ScanInv, NEW w \in Pushes, Finish(w)
    PROVE  ScanInv'
<1>1. /\ UNCHANGED <<faults, events>>
      /\ pc[w] = "finish" /\ pc'[w] = "done" /\ loc'[w] = NoLocal
      /\ Others(w)
  BY FinishEffect DEF metadataVars
<1>2. Active(w) /\ faults \in Nat /\ ~NoLocal.someWrong
  BY <1>1 DEF Active, TypeInv, TypeOK, MetadataTypeOK, NoLocal
<1>3. Present(w)' /\ Fine(w)'
  BY <1>1, <1>2 DEF Present, Fine, Scanning
<1> QED
  BY <1>1, <1>2, <1>3, ScanAssemble DEF DedupStep

LEMMA ScanPush ==
    ASSUME TypeInv, ScanInv, NEW w \in Pushes, Push(w)
    PROVE  ScanInv'
<1>1. /\ UNCHANGED <<faults, unpack, loc>>
      /\ pc[w] = "idle" /\ Goto(w, "open")
      /\ events' = IF \E v \in Pushes \ {w} : Active(v) /\ SameDir(v, w)
                   THEN events \cup {"sameLayer"} ELSE events
  BY DEF Push, metadataVars
<1>2. pc'[w] = "open" /\ Others(w)
  BY <1>1, GotoOne
<1>3. events \subseteq events' /\ faults \in Nat
  BY <1>1 DEF TypeInv, TypeOK, MetadataTypeOK
<1>4. Exclusive'
  <2> SUFFICES ASSUME "sameLayer" \notin events', NEW u \in Pushes, NEW v \in Pushes,
                      Active(u)', Active(v)', SameDir(u, v)
               PROVE  u = v
    BY DEF Exclusive, SameDir
  <2>1. "sameLayer" \notin events /\ \A x \in Pushes \ {w} : Active(x) => ~SameDir(x, w)
    BY <1>1
  <2>2. \A x \in Pushes : x # w /\ Active(x)' => Active(x)
    BY <1>2 DEF Others, Active
  <2> QED
    BY <2>1, <2>2 DEF ScanInv, Exclusive, SameDir
<1>5. ChunkPresent'
  BY <1>1, <1>2, <1>3 DEF ScanInv, ChunkPresent, Others, UnpackDir, Scanning
<1>6. NothingWrong'
  <2> SUFFICES ASSUME Quiet', NEW v \in Pushes PROVE Fine(v)'
    BY DEF NothingWrong, Fine
  <2>1. Quiet
    BY <1>1, <1>3, QuietBefore
  <2> QED
    BY <1>1, <1>2, <2>1 DEF ScanInv, NothingWrong, Fine, Others
<1> QED
  BY <1>4, <1>5, <1>6 DEF ScanInv

LEMMA ScanDies ==
    ASSUME TypeInv, ScanInv, NEW s \in Servers, ProcessDies(s)
    PROVE  ScanInv'
<1>1. UNCHANGED <<faults, unpack, events>>
  BY DiesEffect DEF metadataVars, storeVars
<1>2. ASSUME NEW v \in Pushes
      PROVE  \/ pc'[v] = pc[v] /\ loc'[v] = loc[v]
             \/ loc'[v] = NoLocal /\ pc'[v] \in {"idle", "done", "dead"}
  <2>1. CASE loc'[v] = NoLocal /\ pc'[v] = IF Active(v) THEN "dead" ELSE pc[v]
    BY <2>1 DEF Active
  <2> QED
    BY <2>1, DiesEffect
<1>3. Exclusive'
  <2>1. \A v \in Pushes : Active(v)' => Active(v)
    BY <1>2 DEF Active
  <2> QED
    BY <1>1, <2>1, ExclusiveFrame DEF ScanInv
<1>4. ChunkPresent'
  <2> SUFFICES ASSUME "sameLayer" \notin events, NEW v \in Pushes PROVE Present(v)'
    BY <1>1 DEF ChunkPresent, Present
  <2>1. Present(v)
    BY DEF ScanInv, ChunkPresent, Present
  <2>2. CASE pc'[v] = pc[v] /\ loc'[v] = loc[v]
    BY <1>1, <2>1, <2>2 DEF Present, UnpackDir
  <2>3. CASE pc'[v] \in {"idle", "done", "dead"}
    BY <2>3 DEF Present, Scanning
  <2> QED
    BY <1>2, <2>2, <2>3
<1>5. NothingWrong'
  <2> SUFFICES ASSUME Quiet', NEW v \in Pushes PROVE Fine(v)'
    BY DEF NothingWrong, Fine
  <2>1. Fine(v)
    BY <1>1 DEF Quiet, ScanInv, NothingWrong, Fine
  <2>2. ~NoLocal.someWrong
    BY DEF NoLocal
  <2> QED
    BY <1>2, <2>1, <2>2 DEF Fine
<1> QED
  BY <1>3, <1>4, <1>5 DEF ScanInv

LEMMA ScanStep == TypeInv /\ ScanInv /\ [Next]_vars => ScanInv'
<1> SUFFICES ASSUME TypeInv, ScanInv, [Next]_vars PROVE ScanInv'
  OBVIOUS
<1>1. ASSUME NEW w \in Pushes, Push(w) \/ DedupStep(w) PROVE ScanInv'
  BY <1>1, ScanPush, ScanEarly, ScanListUnpack, ScanCheckChunk, ScanMove, ScanDecide,
     ScanRegister, ScanFinish DEF DedupStep
<1>2. ASSUME NEW w \in Pushes, Panic(w) PROVE ScanInv'
  BY <1>2, ScanDies, PushFacts DEF Panic
<1>3. ASSUME NEW s \in Servers, Crash(s) PROVE ScanInv'
  BY <1>3, ScanDies DEF Crash
<1>4. ASSUME UNCHANGED vars PROVE ScanInv'
  BY <1>4 DEF vars, metadataVars, storeVars, workerVars, historyVars, ScanInv, Exclusive,
              ChunkPresent, NothingWrong, Quiet, Active, UnpackDir
<1> QED
  BY <1>1, <1>2, <1>3, <1>4 DEF Next

-----------------------------------------------------------------------------
(* Which files exist. *)

LEMMA LiveInit == Init => LiveInv
BY DEF Init, MetadataInit, EmptyMap, NoLocal, LiveInv, PendingLive, DescriptorsLive, Pending

\* Steps that touch neither the descriptors nor diff/ and leave no chunk
\* pending that was not pending before.
LEMMA LiveFrame ==
    ASSUME TypeInv, LiveInv, UNCHANGED <<fileDesc, diff>>,
           faults' \in Nat, faults' >= faults, events \subseteq events',
           \A v \in Pushes : \A i \in Pending(v)' :
               \E j \in Pending(v) : loc'[v].nodist[i] = loc[v].nodist[j]
    PROVE  LiveInv'
<1>1. PendingLive'
  <2> SUFFICES ASSUME Quiet', NEW v \in Pushes, NEW i \in Pending(v)'
               PROVE  /\ loc'[v].nodist[i].path \in DOMAIN diff
                      /\ diff[loc'[v].nodist[i].path] = loc'[v].nodist[i].digest
    BY DEF PendingLive
  <2>1. Quiet
    BY QuietBefore
  <2>2. PICK j \in Pending(v) : loc'[v].nodist[i] = loc[v].nodist[j]
    OBVIOUS
  <2> QED
    BY <2>1, <2>2 DEF LiveInv, PendingLive
<1>2. DescriptorsLive'
  <2> SUFFICES ASSUME Quiet' PROVE DescriptorsLive'
    BY DEF DescriptorsLive, Quiet
  <2>1. Quiet
    BY QuietBefore
  <2> QED
    BY <2>1 DEF LiveInv, DescriptorsLive, Quiet
<1> QED
  BY <1>1, <1>2 DEF LiveInv

\* The same for a step of push w that keeps its list of new chunks.
LEMMA LiveOwnFrame ==
    ASSUME TypeInv, LiveInv, NEW w \in Pushes, Others(w), UNCHANGED <<fileDesc, diff>>,
           faults' \in Nat, faults' >= faults, events \subseteq events',
           loc'[w].nodist = loc[w].nodist, Pending(w)' \subseteq Pending(w)
    PROVE  LiveInv'
<1>1. ASSUME NEW v \in Pushes, NEW i \in Pending(v)'
      PROVE  i \in Pending(v) /\ loc'[v].nodist[i] = loc[v].nodist[i]
  <2>1. CASE v = w
    BY <1>1, <2>1
  <2>2. CASE v # w
    BY <1>1, <2>2 DEF Others, Pending
  <2> QED
    BY <2>1, <2>2
<1> QED
  BY <1>1, LiveFrame

LEMMA LiveQuietSteps ==
    ASSUME TypeInv, LiveInv, NEW w \in Pushes,
           \/ Push(w) \/ OpenLayer(w) \/ StatRLMap(w) \/ SetRLMap(w) \/ Decode(w)
           \/ SplitFileChunk(w) \/ ListUnpack(w) \/ CheckChunk(w) \/ DropDuplicate(w)
           \/ AddExisting(w) \/ SetSlice(w) \/ SetEmptyRecipe(w) \/ SetLayer(w)
    PROVE  LiveInv'
<1>1. faults \in Nat /\ loc[w].k \in Nat /\ Len(loc[w].nodist) \in Nat
  BY LocNumbers DEF TypeInv, TypeOK, MetadataTypeOK
<1>2. /\ UNCHANGED <<fileDesc, diff>>
      /\ faults' \in Nat /\ faults' >= faults
      /\ events \subseteq events'
      /\ loc'[w].nodist = loc[w].nodist
      /\ \/ loc'[w].k = loc[w].k /\ pc[w] # "lost" /\ pc'[w] # "lost"
         \/ loc'[w].k = loc[w].k + 1 /\ pc[w] = "lost" /\ pc'[w] = "register"
      /\ Others(w)
  <2>1. CASE Push(w)
    <3>1. /\ UNCHANGED <<fileDesc, faults, diff, loc>>
          /\ pc[w] = "idle" /\ Goto(w, "open")
          /\ events \subseteq events'
      BY <2>1 DEF Push, metadataVars
    <3> QED
      BY <1>1, <3>1, GotoOne
  <2>2. CASE OpenLayer(w) \/ StatRLMap(w) \/ SetRLMap(w) \/ Decode(w) \/ SplitFileChunk(w)
    BY <2>2, EarlyEffect DEF BeforeScan
  <2>3. CASE ListUnpack(w)
    BY <1>1, <2>3, ListUnpackEffect DEF metadataVars, storeVars
  <2>4. CASE CheckChunk(w)
    BY <2>4, CheckChunkEffect DEF storeVars
  <2>5. CASE DropDuplicate(w)
    <3>1. /\ UNCHANGED <<fileDesc, faults, diff>>
          /\ events \subseteq events'
          /\ pc[w] = "remove"
          /\ pc'[w] \in {"check", "decide"}
          /\ loc'[w].nodist = loc[w].nodist
          /\ loc'[w].k = loc[w].k
          /\ Others(w)
      <4>1. /\ UNCHANGED <<metadataVars, diff>>
            /\ events \subseteq events'
            /\ pc[w] = "remove"
            /\ loc'[w].nodist = loc[w].nodist
            /\ loc'[w].k = loc[w].k
            /\ Others(w)
        BY <2>5, DropDuplicateEffect, Zenon
      <4>2. pc'[w] = "check" \/ pc'[w] = "decide"
        BY <2>5, DropDuplicateEffect, Zenon
      <4> QED
        BY <4>1, <4>2 DEF metadataVars
    <3> QED
      BY <1>1, <3>1
  <2>6. CASE AddExisting(w)
    BY <2>6, AddExistingEffect DEF storeVars
  <2>7. CASE SetSlice(w)
    BY <2>7, SetSliceEffect DEF storeVars
  <2>8. CASE SetEmptyRecipe(w) \/ SetLayer(w)
    BY <2>8, LayerEffect DEF storeVars
  <2> QED
    BY <2>1, <2>2, <2>3, <2>4, <2>5, <2>6, <2>7, <2>8
<1>3. Pending(w)' \subseteq Pending(w)
  BY <1>1, <1>2 DEF Pending
<1> QED
  BY <1>2, <1>3, LiveOwnFrame

\* The renamed chunk is the digested one, and it overwrites no other file.
LEMMA LiveRename ==
    ASSUME TypeInv, PathInv, ScanInv, LiveInv, NEW w \in Pushes, RenameUnique(w)
    PROVE  LiveInv'
<1> DEFINE no == loc[w].no
           new == [digest |-> loc[w].dgst, path |-> <<w, no>>]
<1>1. /\ UNCHANGED <<fileDesc, faults, events>>
      /\ pc[w] = "rename"
      /\ loc'[w].k = loc[w].k
      /\ Others(w)
  BY RenameUniqueEffect DEF metadataVars
<1>2. /\ faults \in Nat /\ no \in Nat /\ loc[w].k \in Nat /\ loc[w].k >= 1
      /\ Len(loc[w].nodist) \in Nat /\ loc[w].nodist \in Seq(UniqueFile)
  BY LocNumbers DEF TypeInv, TypeOK, MetadataTypeOK, Local
<1>3. CASE diff' = diff /\ pc'[w] = "decide" /\ loc'[w].nodist = loc[w].nodist
  <2>1. Pending(w)' \subseteq Pending(w)
    BY <1>1, <1>3 DEF Pending
  <2> QED
    BY <1>1, <1>2, <1>3, <2>1, LiveOwnFrame
<1>4. CASE /\ diff' = Put(diff, <<w, no>>, unpack[ChunkFile(w, no)])
           /\ pc'[w] = "check"
           /\ loc'[w].nodist = Append(loc[w].nodist, new)
  <2> SUFFICES ASSUME Quiet PROVE LiveInv'
    BY <1>1 DEF LiveInv, PendingLive, DescriptorsLive, Quiet
  <2>1. unpack[ChunkFile(w, no)] = loc[w].dgst
    BY <1>1 DEF ScanInv, ChunkPresent, Quiet
  <2>2. /\ DOMAIN diff' = DOMAIN diff \cup {<<w, no>>}
        /\ diff'[<<w, no>>] = loc[w].dgst
        /\ \A p \in DOMAIN diff : p # <<w, no>> => diff'[p] = diff[p]
    BY <1>4, <2>1 DEF Put
  <2>3. DescriptorsLive'
    <3>1. \A c \in DOMAIN fileDesc : fileDesc[c].path # <<w, no>>
      <4>1. \A c \in DOMAIN fileDesc : fileDesc[c].path[1] # w
        BY <1>1 DEF PathInv, DescriptorsWellFormed, BeforeRegister, Scanning
      <4> QED
        BY <4>1
    <3>2. \A c \in DOMAIN fileDesc :
              /\ fileDesc[c].digest = c
              /\ fileDesc[c].path \in DOMAIN diff
              /\ diff[fileDesc[c].path] = c
      BY DEF LiveInv, DescriptorsLive, Quiet
    <3> QED
      BY <1>1, <2>2, <3>1, <3>2 DEF DescriptorsLive
  <2>4. PendingLive'
    <3> SUFFICES ASSUME NEW v \in Pushes, NEW i \in Pending(v)'
                 PROVE  /\ loc'[v].nodist[i].path \in DOMAIN diff'
                        /\ diff'[loc'[v].nodist[i].path] = loc'[v].nodist[i].digest
      BY DEF PendingLive
    <3>1. ASSUME NEW u \in Pushes, NEW j \in Pending(u)
          PROVE  /\ loc[u].nodist[j].path \in DOMAIN diff'
                 /\ diff'[loc[u].nodist[j].path] = loc[u].nodist[j].digest
      <4>1. /\ loc[u].nodist[j].path \in DOMAIN diff
            /\ diff[loc[u].nodist[j].path] = loc[u].nodist[j].digest
        BY DEF LiveInv, PendingLive
      <4>2. j \in 1..Len(loc[u].nodist)
        BY LocNumbers DEF Pending
      <4>3. /\ loc[u].nodist[j].path[1] = u
            /\ loc[u].nodist[j].path[2] < loc[u].no
        BY <4>2 DEF PathInv, OwnedPaths
      <4>4. loc[u].nodist[j].path # <<w, no>>
        BY <1>2, <4>3
      <4> QED
        BY <2>2, <4>1, <4>4
    <3>2. CASE v # w
      <4>1. i \in Pending(v) /\ loc'[v] = loc[v]
        BY <1>1, <3>2 DEF Others, Pending
      <4> QED
        BY <3>1, <4>1
    <3>3. CASE v = w
      <4>1. /\ Len(loc'[w].nodist) = Len(loc[w].nodist) + 1
            /\ loc'[w].nodist[Len(loc[w].nodist) + 1] = new
            /\ \A j \in 1..Len(loc[w].nodist) : loc'[w].nodist[j] = loc[w].nodist[j]
        BY <1>2, <1>4
      <4>2. i \in loc[w].k .. (Len(loc[w].nodist) + 1)
        BY <1>1, <1>4, <3>3, <4>1 DEF Pending
      <4>3. CASE i = Len(loc[w].nodist) + 1
        <5>1. loc'[v].nodist[i] = new
          BY <3>3, <4>1, <4>3
        <5>2. new.path = <<w, no>> /\ new.digest = loc[w].dgst
          OBVIOUS
        <5> HIDE DEF new, no
        <5> QED  BY <2>2, <5>1, <5>2
      <4>4. CASE i # Len(loc[w].nodist) + 1
        <5>1. i \in loc[w].k .. Len(loc[w].nodist)
          BY <1>2, <4>2, <4>4
        <5>2. i \in Pending(w) /\ i \in 1..Len(loc[w].nodist)
          BY <1>1, <1>2, <5>1 DEF Pending
        <5> QED
          BY <3>1, <3>3, <4>1, <5>2
      <4> QED
        BY <4>3, <4>4
    <3> QED
      BY <3>2, <3>3
  <2> QED
    BY <2>3, <2>4 DEF LiveInv
<1> QED
  BY <1>3, <1>4, RenameUniqueEffect

LEMMA LiveDecide ==
    ASSUME TypeInv, LiveInv, NEW w \in Pushes, Decide(w)
    PROVE  LiveInv'
<1>1. /\ UNCHANGED <<fileDesc, diff, faults>>
      /\ events \subseteq events'
      /\ pc[w] \in {"decide", "check"}
      /\ pc'[w] # "lost"
      /\ loc'[w].k = loc[w].k
      /\ \/ loc'[w].nodist = loc[w].nodist
         \/ loc'[w].nodist \in BySizeDescending(loc[w].nodist)
      /\ Others(w)
  BY DecideEffect DEF metadataVars, storeVars
<1>2. faults \in Nat /\ loc[w].nodist \in Seq(UniqueFile)
  BY DEF TypeInv, TypeOK, MetadataTypeOK, Local
<1>3. loc[w].k = 1
  BY <1>1 DEF TypeInv, LocalShape, Shape, BeforeRegister, Scanning
<1>4. Pending(w)' = 1..Len(loc'[w].nodist) /\ Pending(w) = 1..Len(loc[w].nodist)
  BY <1>1, <1>3 DEF Pending
<1>5. CASE loc'[w].nodist = loc[w].nodist
  BY <1>1, <1>2, <1>4, <1>5, LiveOwnFrame
<1>6. CASE loc'[w].nodist \in BySizeDescending(loc[w].nodist)
  <2>1. \A i \in 1..Len(loc'[w].nodist) :
            \E j \in 1..Len(loc[w].nodist) : loc'[w].nodist[i] = loc[w].nodist[j]
    BY <1>2, <1>6, SortKeepsFiles
  <2>2. ASSUME NEW v \in Pushes, NEW i \in Pending(v)'
        PROVE  \E j \in Pending(v) : loc'[v].nodist[i] = loc[v].nodist[j]
    <3>1. CASE v = w
      BY <1>4, <2>1, <3>1
    <3>2. CASE v # w
      BY <1>1, <3>2 DEF Others, Pending
    <3> QED
      BY <3>1, <3>2
  <2> QED
    BY <1>1, <1>2, <2>2, LiveFrame
<1> QED
  BY <1>1, <1>5, <1>6

\* The winner of SETNX registers a file that is there; the loser removes a file
\* that no descriptor names.
LEMMA LiveRegister ==
    ASSUME TypeInv, PathInv, LiveInv, NEW w \in Pushes, RegisterFile(w)
    PROVE  LiveInv'
<1> DEFINE k == loc[w].k
           f == loc[w].nodist[k]
<1>1. /\ faults' \in Nat /\ faults' >= faults
      /\ pc[w] = "register" /\ pc'[w] \in {"register", "lost"}
      /\ k \in 1..Len(loc[w].nodist)
      /\ events \subseteq events'
      /\ loc'[w].nodist = loc[w].nodist
      /\ Others(w)
  BY RegisterFileEffect
<1>2. Pending(w)' = (k + 1) .. Len(loc[w].nodist) /\ Pending(w) = k .. Len(loc[w].nodist)
  BY <1>1, RegisterFileEffect DEF Pending
<1> SUFFICES ASSUME Quiet' PROVE LiveInv'
  BY DEF LiveInv, PendingLive, DescriptorsLive, Quiet
<1>3. Quiet /\ faults' = 0
  BY <1>1, QuietBefore DEF Quiet
<1>4. \/ /\ f.digest \notin DOMAIN fileDesc
         /\ \E host \in Servers :
                fileDesc' = PutNew(fileDesc, f.digest,
                                   [digest |-> f.digest, path |-> f.path, host |-> host])
         /\ UNCHANGED diff
      \/ /\ UNCHANGED fileDesc
         /\ diff' = Drop(diff, {f.path})
  BY <1>3, RegisterFileEffect
<1>5. k \in Pending(w) /\ k \in Nat /\ Len(loc[w].nodist) \in Nat
  BY <1>1, <1>2, LocNumbers
<1>6. f.path \in DOMAIN diff /\ diff[f.path] = f.digest
  BY <1>3, <1>5 DEF LiveInv, PendingLive
<1>7. \A c \in DOMAIN fileDesc :
          /\ fileDesc[c].digest = c
          /\ fileDesc[c].path \in DOMAIN diff
          /\ diff[fileDesc[c].path] = c
          /\ fileDesc[c].path # f.path
  BY <1>3, <1>5 DEF LiveInv, DescriptorsLive, Quiet, PathInv, PendingUnregistered, Registered
<1>8. ASSUME NEW v \in Pushes, NEW i \in Pending(v)'
      PROVE  /\ loc'[v].nodist = loc[v].nodist
             /\ loc[v].nodist[i].path \in DOMAIN diff
             /\ diff[loc[v].nodist[i].path] = loc[v].nodist[i].digest
             /\ loc[v].nodist[i].path # f.path
  <2>1. loc'[v].nodist = loc[v].nodist /\ i \in Pending(v)
    <3>1. CASE v = w
      BY <1>1, <1>2, <1>5, <3>1
    <3>2. CASE v # w
      BY <1>1, <3>2 DEF Others, Pending
    <3> QED
      BY <3>1, <3>2
  <2>2. i \in 1..Len(loc[v].nodist)
    BY <2>1, LocNumbers DEF Pending
  <2>3. loc[v].nodist[i].path # f.path
    <3>1. CASE v = w
      <4>1. i # k
        BY <1>2, <1>5, <3>1
      <4> QED
        BY <1>1, <2>2, <3>1, <4>1 DEF PathInv, OwnedPaths
    <3>2. CASE v # w
      <4>1. loc[v].nodist[i].path[1] = v /\ f.path[1] = w
        BY <1>1, <2>2 DEF PathInv, OwnedPaths
      <4> QED
        BY <3>2, <4>1
    <3> QED
      BY <3>1, <3>2
  <2> QED
    BY <1>3, <2>1, <2>3 DEF LiveInv, PendingLive
<1> HIDE DEF f
<1>9. CASE /\ f.digest \notin DOMAIN fileDesc
           /\ \E host \in Servers :
                fileDesc' = PutNew(fileDesc, f.digest,
                                   [digest |-> f.digest, path |-> f.path, host |-> host])
           /\ UNCHANGED diff
  <2>1. \A c \in DOMAIN fileDesc' :
            \/ c \in DOMAIN fileDesc /\ fileDesc'[c] = fileDesc[c]
            \/ c = f.digest /\ fileDesc'[c].digest = c /\ fileDesc'[c].path = f.path
    BY <1>9 DEF PutNew, Put
  <2>2. DescriptorsLive'
    BY <1>6, <1>7, <1>9, <2>1 DEF DescriptorsLive
  <2>3. PendingLive'
    BY <1>8, <1>9 DEF PendingLive
  <2> QED
    BY <2>2, <2>3 DEF LiveInv
<1>10. CASE UNCHANGED fileDesc /\ diff' = Drop(diff, {f.path})
  <2>1. /\ DOMAIN diff' = DOMAIN diff \ {f.path}
        /\ \A p \in DOMAIN diff' : diff'[p] = diff[p]
    BY <1>10 DEF Drop
  <2>2. DescriptorsLive'
    BY <1>7, <1>10, <2>1 DEF DescriptorsLive
  <2>3. PendingLive'
    BY <1>8, <2>1 DEF PendingLive
  <2> QED
    BY <2>2, <2>3 DEF LiveInv
<1> QED
  BY <1>4, <1>9, <1>10

\* Without faults a dedup that ends keeps the files below diff/.
LEMMA LiveFinish ==
    ASSUME TypeInv, ScanInv, LiveInv, NEW w \in Pushes, Finish(w)
    PROVE  LiveInv'
<1>1. /\ UNCHANGED <<fileDesc, faults, events>>
      /\ pc[w] = "finish" /\ loc'[w] = NoLocal /\ pc'[w] = "done"
      /\ Others(w)
  BY FinishEffect DEF metadataVars
<1> SUFFICES ASSUME Quiet PROVE LiveInv'
  BY <1>1 DEF LiveInv, PendingLive, DescriptorsLive, Quiet
<1>2. loc[w].isdedup /\ ~loc[w].someWrong
  BY <1>1 DEF ScanInv, NothingWrong
<1>3. UNCHANGED diff
  BY <1>2, FinishEffect
<1>4. Pending(w)' = {}
  BY <1>1 DEF Pending, NoLocal
<1>5. ASSUME NEW v \in Pushes, NEW i \in Pending(v)'
      PROVE  \E j \in Pending(v) : loc'[v].nodist[i] = loc[v].nodist[j]
  BY <1>1, <1>4, <1>5 DEF Others, Pending
<1> QED
  BY <1>1, <1>3, <1>5, LiveFrame DEF TypeInv, TypeOK, MetadataTypeOK

LEMMA LiveDies ==
    ASSUME TypeInv, LiveInv, NEW s \in Servers, ProcessDies(s)
    PROVE  LiveInv'
<1>1. UNCHANGED <<fileDesc, faults, diff, events>> /\ faults \in Nat
  BY DiesEffect DEF metadataVars, storeVars, TypeInv, TypeOK, MetadataTypeOK
<1>2. ASSUME NEW v \in Pushes, NEW i \in Pending(v)'
      PROVE  \E j \in Pending(v) : loc'[v].nodist[i] = loc[v].nodist[j]
  <2>1. CASE pc'[v] = pc[v] /\ loc'[v] = loc[v]
    BY <1>2, <2>1 DEF Pending
  <2>2. CASE loc'[v] = NoLocal
    BY <1>2, <2>2 DEF Pending, NoLocal
  <2> QED
    BY <2>1, <2>2, DiesEffect
<1> QED
  BY <1>1, <1>2, LiveFrame

LEMMA LiveStep == TypeInv /\ PathInv /\ ScanInv /\ LiveInv /\ [Next]_vars => LiveInv'
<1> SUFFICES ASSUME TypeInv, PathInv, ScanInv, LiveInv, [Next]_vars PROVE LiveInv'
  OBVIOUS
<1>1. ASSUME NEW w \in Pushes, Push(w) \/ DedupStep(w) PROVE LiveInv'
  BY <1>1, LiveQuietSteps, LiveRename, LiveDecide, LiveRegister, LiveFinish DEF DedupStep
<1>2. ASSUME NEW w \in Pushes, Panic(w) PROVE LiveInv'
  BY <1>2, LiveDies, PushFacts DEF Panic
<1>3. ASSUME NEW s \in Servers, Crash(s) PROVE LiveInv'
  BY <1>3, LiveDies DEF Crash
<1>4. ASSUME UNCHANGED vars PROVE LiveInv'
  BY <1>4 DEF vars, metadataVars, storeVars, workerVars, historyVars, LiveInv, PendingLive,
              DescriptorsLive, Pending, Quiet
<1> QED
  BY <1>1, <1>2, <1>3, <1>4 DEF Next

-----------------------------------------------------------------------------

\* The inductive invariant of the chunk files.
THEOREM FilesAreConsistent == Spec => []FileInv
<1>1. Init => PathInv /\ ScanInv /\ LiveInv
  BY PathInit, ScanInit, LiveInit
<1>2. TypeInv /\ TypeInv' /\ PathInv /\ ScanInv /\ LiveInv /\ [Next]_vars
          => PathInv' /\ ScanInv' /\ LiveInv'
  BY PathStep, ScanStep, LiveStep
<1>3. PathInv /\ ScanInv /\ LiveInv <=> FileInv
  BY DEF FileInv
<1> QED
  BY <1>1, <1>2, <1>3, TypeAlways, PTL DEF Spec

\* Every registered chunk can be read back from the path its descriptor names,
\* for any pushes, servers and crashes, as long as no Redis command fails, no
\* two dedups share a directory and F-mode gives up on no layer.
THEOREM DescriptorsAreLive == Spec => []DescriptorsLive
<1>1. FileInv => DescriptorsLive
  BY DEF FileInv, LiveInv
<1> QED
  BY <1>1, FilesAreConsistent, PTL

=============================================================================
