---------------------------- MODULE DedupScanProofs ----------------------------
(***************************************************************************)
(* More proofs about LayerDedup: what a dedup leaves in data_partial,      *)
(* unpack/ and diff/uniquefiles, and what its recipes hold.                *)
(***************************************************************************)
EXTENDS ChunkFileProofs, FunctionTheorems

-----------------------------------------------------------------------------
(* data_partial and unpack/. *)

LEMMA TidyInit == Init => TidyInv
BY DEF Init, EmptyMap, NoLocal, TidyInv, WrongScan, PartialOwned, UnpackOwned, AllListed, Scanning

LEMMA TidyBefore ==
    ASSUME NEW w \in Pushes, Push(w) \/ DedupStep(w), events \subseteq events', Tidy'
    PROVE  Tidy
BY NoCrash DEF Tidy

\* The data_partial of another layer or server stays as it is.
OtherPartials(w) ==
    \A d \in DOMAIN partial' : d # Dir(w) => d \in DOMAIN partial /\ partial'[d] = partial[d]

LEMMA StepOtherPartials ==
    ASSUME NEW w \in Pushes, DedupStep(w)
    PROVE  OtherPartials(w)
<1>1. CASE UNCHANGED partial
  BY <1>1 DEF OtherPartials
<1>2. CASE Decode(w)
  <2>1. PICK new : partial' = Put(partial, Dir(w), new) \/ partial' = Drop(partial, {Dir(w)})
    BY <1>2 DEF Decode
  <2> QED
    BY <2>1 DEF OtherPartials, Put, Drop
<1>3. CASE Finish(w)
  BY <1>3 DEF Finish, OtherPartials, Drop
<1> QED
  BY <1>1, <1>2, <1>3 DEF DedupStep, OpenLayer, StatRLMap, SetRLMap, SplitFileChunk, ListUnpack,
     CheckChunk, DropDuplicate, RenameUnique, Decide, SetEmptyRecipe, RegisterFile,
     AddExisting, SetSlice, SetLayer, storeVars

\* What TidyInv says of the directory of one push that is under way.
OwnPartial(w) ==
    Dir(w) \in DOMAIN partial => partial[Dir(w)] = Content[w.layer] /\ pc[w] \in Decoded
OwnUnpack(w) ==
    \A f \in UnpackDir(w) :
        /\ f[3] <= ChunkNum(Content[w.layer])
        /\ unpack[f] = ChunkAt(Content[w.layer], f[3])
        /\ Owns(w, f)
OwnListed(w) ==
    /\ pc[w] = "list" => Cardinality(UnpackDir(w)) = ChunkNum(Content[w.layer])
    /\ pc[w] \in Scanning => loc[w].fcnt = ChunkNum(Content[w.layer])
OwnWrong(w) ==
    /\ loc[w].isdedup => ~loc[w].someWrong
    /\ pc[w] = "decide" => loc[w].someWrong

LEMMA DecodedActive ==
    ASSUME NEW v \in Pushes, pc[v] \in Decoded \/ pc[v] \in Unpacked
    PROVE  Active(v)
BY DEF Decoded, Unpacked, Scanning, Active

LEMMA TidyOwn ==
    ASSUME ScanInv, TidyInv, Tidy, NEW w \in Pushes, Active(w)
    PROVE  OwnPartial(w) /\ OwnUnpack(w) /\ OwnListed(w)
<1>1. \A v \in Pushes : Active(v) /\ SameDir(v, w) => v = w
  BY DEF ScanInv, Exclusive, Tidy
<1>2. OwnPartial(w)
  <2> SUFFICES ASSUME Dir(w) \in DOMAIN partial
               PROVE  partial[Dir(w)] = Content[w.layer] /\ pc[w] \in Decoded
    BY DEF OwnPartial
  <2>1. PICK v \in Pushes : Dir(v) = Dir(w) /\ pc[v] \in Decoded
    BY DEF TidyInv, PartialOwned
  <2>2. v = w
    BY <1>1, <2>1, DecodedActive DEF Dir, SameDir
  <2>3. Dir(w)[2] = w.layer
    BY DEF Dir
  <2> QED
    BY <2>1, <2>2, <2>3 DEF TidyInv, PartialOwned
<1>3. OwnUnpack(w)
  <2> SUFFICES ASSUME NEW f \in UnpackDir(w)
               PROVE  /\ f[3] <= ChunkNum(Content[w.layer])
                      /\ unpack[f] = ChunkAt(Content[w.layer], f[3])
                      /\ Owns(w, f)
    BY DEF OwnUnpack
  <2>1. f \in DOMAIN unpack /\ f[1] = w.srv /\ f[2] = w.layer
    BY DEF UnpackDir
  <2>2. PICK v \in Pushes : Owns(v, f)
    BY <2>1 DEF TidyInv, UnpackOwned
  <2>3. v = w
    BY <1>1, <2>1, <2>2, DecodedActive DEF Owns, SameDir
  <2> QED
    BY <2>1, <2>2, <2>3 DEF TidyInv, UnpackOwned
<1>4. OwnListed(w)
  BY DEF OwnListed, TidyInv, AllListed
<1> QED
  BY <1>2, <1>3, <1>4

\* It is enough to look at the directory of the push that takes the step.
LEMMA TidyAssemble ==
    ASSUME TypeInv, TypeInv', ScanInv, TidyInv, NEW w \in Pushes, DedupStep(w), Others(w), Active(w),
           events \subseteq events', OwnWrong(w)',
           Tidy => OwnPartial(w)' /\ OwnUnpack(w)' /\ OwnListed(w)'
    PROVE  TidyInv'
<1>1. WrongScan'
  BY DEF TidyInv, WrongScan, OwnWrong, Others
<1> SUFFICES ASSUME Tidy' PROVE PartialOwned' /\ UnpackOwned' /\ AllListed'
  BY <1>1 DEF TidyInv, PartialOwned, UnpackOwned, AllListed
<1>2. Tidy
  BY TidyBefore
<1>3. \A v \in Pushes : Active(v) /\ SameDir(v, w) => v = w
  BY <1>2 DEF ScanInv, Exclusive, Tidy
<1>4. PartialOwned'
  <2> SUFFICES ASSUME NEW d \in DOMAIN partial'
               PROVE  /\ partial'[d] = Content[d[2]]
                      /\ \E v \in Pushes : Dir(v) = d /\ pc'[v] \in Decoded
    BY DEF PartialOwned, Dir
  <2>1. CASE d = Dir(w)
    BY <1>2, <2>1 DEF OwnPartial, Dir
  <2>2. CASE d # Dir(w)
    <3>1. d \in DOMAIN partial /\ partial'[d] = partial[d]
      BY <2>2, StepOtherPartials DEF OtherPartials
    <3>2. PICK v \in Pushes : Dir(v) = d /\ pc[v] \in Decoded
      BY <1>2, <3>1 DEF TidyInv, PartialOwned
    <3>3. pc'[v] = pc[v]
      BY <2>2, <3>2 DEF Others
    <3> QED
      BY <1>2, <3>1, <3>2, <3>3 DEF TidyInv, PartialOwned
  <2> QED
    BY <2>1, <2>2
<1>5. OtherDirs(w)
  BY StepOtherDirs
<1>6. UnpackOwned'
  <2> SUFFICES ASSUME NEW f \in DOMAIN unpack'
               PROVE  /\ f[3] <= ChunkNum(Content[f[2]])
                      /\ unpack'[f] = ChunkAt(Content[f[2]], f[3])
                      /\ \E v \in Pushes : Owns(v, f)'
    BY DEF UnpackOwned
  <2>1. CASE f[1] = w.srv /\ f[2] = w.layer
    BY <1>2, <2>1 DEF OwnUnpack, UnpackDir
  <2>2. CASE f[1] # w.srv \/ f[2] # w.layer
    <3>1. f \in Servers \X Layers \X Positive
      BY DEF TypeInv, TypeOK, StoreTypeOK, IsMap
    <3>2. f \in DOMAIN unpack /\ unpack'[f] = unpack[f]
      BY <1>5, <2>2, <3>1 DEF OtherDirs
    <3>3. PICK v \in Pushes : Owns(v, f)
      BY <1>2, <3>2 DEF TidyInv, UnpackOwned
    <3>4. pc'[v] = pc[v] /\ loc'[v] = loc[v]
      BY <2>2, <3>3 DEF Others, Owns
    <3>5. Owns(v, f)'
      BY <3>3, <3>4 DEF Owns
    <3> QED
      BY <1>2, <3>2, <3>5 DEF TidyInv, UnpackOwned
  <2> QED
    BY <2>1, <2>2
<1>7. AllListed'
  <2> SUFFICES ASSUME NEW v \in Pushes PROVE OwnListed(v)'
    BY DEF AllListed, OwnListed
  <2>1. CASE v = w
    BY <1>2, <2>1
  <2>2. CASE v # w
    <3>1. pc'[v] = pc[v] /\ loc'[v] = loc[v]
      BY <2>2 DEF Others
    <3>2. OwnListed(v)
      BY <1>2 DEF OwnListed, TidyInv, AllListed
    <3>3. pc[v] = "list" => UnpackDir(v)' = UnpackDir(v)
      <4> SUFFICES ASSUME pc[v] = "list" PROVE UnpackDir(v)' = UnpackDir(v)
        OBVIOUS
      <4>1. v.srv # w.srv \/ v.layer # w.layer
        BY <1>3, <2>2 DEF Active, SameDir
      <4>2. DOMAIN unpack \subseteq Servers \X Layers \X Positive
            /\ DOMAIN unpack' \subseteq Servers \X Layers \X Positive
        BY DEF TypeInv, TypeOK, StoreTypeOK, IsMap
      <4> QED
        BY <1>5, <4>1, <4>2 DEF OtherDirs, UnpackDir
    <3> QED
      BY <3>1, <3>2, <3>3 DEF OwnListed
  <2> QED
    BY <2>1, <2>2
<1> QED
  BY <1>4, <1>6, <1>7

\* Before ./decode writes it, there is no data_partial and no unpack/ file.
LEMMA TidyEarly ==
    ASSUME TypeInv, TypeInv', ScanInv, TidyInv, NEW w \in Pushes,
           OpenLayer(w) \/ StatRLMap(w) \/ SetRLMap(w) \/ Decode(w)
    PROVE  TidyInv'
<1>1. /\ UNCHANGED events
      /\ Active(w)
      /\ loc'[w].isdedup = loc[w].isdedup
      /\ loc[w].isdedup = FALSE
      /\ Others(w)
  BY EarlyEffect DEF TypeInv, TypeOK, Local, LocalShape, Shape, BeforeRegister
<1>2. /\ pc[w] \in {"open", "statrl", "setrl", "decode"}
      /\ pc'[w] \in {"statrl", "setrl", "decode", "split", "done"}
      /\ \/ UNCHANGED <<partial, unpack>>
         \/ /\ Dir(w) \notin DOMAIN partial =>
                  partial' = Put(partial, Dir(w), Content[w.layer])
            /\ UNCHANGED unpack
            /\ pc'[w] = "split"
         \/ partial' = Drop(partial, {Dir(w)}) /\ unpack' = Drop(unpack, UnpackDir(w))
  <2>1. CASE OpenLayer(w) \/ StatRLMap(w) \/ SetRLMap(w)
    BY <2>1 DEF OpenLayer, StatRLMap, SetRLMap, Goto, storeVars, TypeInv, TypeOK
  <2>2. CASE Decode(w)
    BY <2>2 DEF Decode, Goto, TypeInv, TypeOK
  <2> QED
    BY <2>1, <2>2
<1>3. OwnWrong(w)'
  BY <1>1, <1>2 DEF OwnWrong
<1>4. ASSUME Tidy PROVE OwnPartial(w)' /\ OwnUnpack(w)' /\ OwnListed(w)'
  <2>1. Dir(w) \notin DOMAIN partial /\ UnpackDir(w) = {}
    BY <1>1, <1>2, <1>4, TidyOwn DEF OwnPartial, OwnUnpack, Owns, Decoded, Unpacked, Scanning
  <2>2. UnpackDir(w)' = {}
    BY <1>2, <2>1 DEF UnpackDir, Drop
  <2>3. OwnPartial(w)'
    BY <1>2, <2>1 DEF OwnPartial, Put, Drop, Decoded
  <2> QED
    BY <1>2, <2>2, <2>3 DEF OwnUnpack, OwnListed, Scanning
<1> QED
  BY <1>1, <1>3, <1>4, TidyAssemble DEF DedupStep

\* The chunk files 1, 2, ... n of a layer are n files.
LEMMA ChunkFilesCardinality ==
    ASSUME NEW w \in Pushes, NEW n \in Nat
    PROVE  Cardinality({ChunkFile(w, i) : i \in 1..n}) = n
<1> DEFINE S == {ChunkFile(w, i) : i \in 1..n}
           f == [i \in 1..n |-> ChunkFile(w, i)]
<1>1. f \in Bijection(1..n, S)
  <2>1. f \in [1..n -> S] /\ \A x \in S : \E i \in 1..n : f[i] = x
    OBVIOUS
  <2>2. \A i, j \in 1..n : f[i] = f[j] => i = j
    BY DEF ChunkFile
  <2> HIDE DEF S, f
  <2> QED
    BY <2>1, <2>2, Fun_IsBij
<1>2. IsFiniteSet(1..n) /\ Cardinality(1..n) = n
  BY FS_Interval
<1> HIDE DEF S, f
<1>3. Cardinality(S) = Cardinality(1..n)
  BY <1>1, <1>2, FS_Bijection DEF ExistsBijection
<1> QED
  BY <1>2, <1>3 DEF S

\* splitFileChunk writes the chunks of the layer into an empty directory.
LEMMA TidySplit ==
    ASSUME TypeInv, TypeInv', ScanInv, TidyInv, NEW w \in Pushes, SplitFileChunk(w)
    PROVE  TidyInv'
<1>1. /\ UNCHANGED <<events, partial>>
      /\ Active(w)
      /\ pc[w] = "split"
      /\ loc'[w].isdedup = loc[w].isdedup
      /\ loc[w].isdedup = FALSE
      /\ Others(w)
  <2>1. pc[w] = "split" /\ UNCHANGED partial
    BY DEF SplitFileChunk
  <2>2. UNCHANGED events /\ Active(w) /\ loc'[w].isdedup = loc[w].isdedup /\ Others(w)
    BY EarlyEffect
  <2>3. loc[w].isdedup \in BOOLEAN
    BY DEF TypeInv, TypeOK, Local
  <2>4. ~loc[w].isdedup
    BY <2>1 DEF TypeInv, LocalShape, Shape, BeforeRegister, BeforeScan
  <2> QED  BY <2>1, <2>2, <2>3, <2>4
<1>2. pc'[w] \in {"list", "done"}
  BY DEF SplitFileChunk, Goto, TypeInv, TypeOK
<1>3. OwnWrong(w)'
  BY <1>1, <1>2 DEF OwnWrong
<1>4. ASSUME Tidy PROVE OwnPartial(w)' /\ OwnUnpack(w)' /\ OwnListed(w)'
  <2>1. /\ Dir(w) \in DOMAIN partial => partial[Dir(w)] = Content[w.layer]
        /\ UnpackDir(w) = {}
    BY <1>1, <1>4, TidyOwn DEF OwnPartial, OwnUnpack, Owns, Decoded, Unpacked, Scanning
  <2>2. CASE Dir(w) \notin DOMAIN partial
    <3>1. UnpackDir(w)' = {} /\ pc'[w] = "done"
      BY <2>1, <2>2 DEF SplitFileChunk, Goto, UnpackDir, Drop, TypeInv, TypeOK
    <3> QED
      BY <1>1, <2>2, <3>1 DEF OwnPartial, OwnUnpack, OwnListed, Scanning
  <2>3. CASE Dir(w) \in DOMAIN partial
    <3> DEFINE data == Content[w.layer]
               new == {ChunkFile(w, i) : i \in 1..ChunkNum(data)}
    <3>1. data \in Seq(Blocks) /\ data # <<>>
      BY PushFacts, ContentAssumption
    <3>2. ChunkNum(data) \in Nat
      BY <3>1, ChunkNumPositive DEF Positive
    <3>3. /\ DOMAIN unpack' = DOMAIN unpack \cup new
          /\ \A f \in new : f \notin DOMAIN unpack => unpack'[f] = ChunkAt(data, f[3])
          /\ pc'[w] = "list"
      BY <2>1, <2>3 DEF SplitFileChunk, Goto, TypeInv, TypeOK
    <3>4. \A f \in new : f[1] = w.srv /\ f[2] = w.layer /\ f[3] \in 1..ChunkNum(data)
      BY DEF ChunkFile
    <3>5. Cardinality(new) = ChunkNum(data)
      BY <3>2, ChunkFilesCardinality
    <3> HIDE DEF data, new
    <3>6. UnpackDir(w)' = new /\ \A f \in new : f \notin DOMAIN unpack
      BY <2>1, <3>3, <3>4 DEF UnpackDir
    <3>7. OwnUnpack(w)'
      <4> SUFFICES ASSUME NEW f \in new
                   PROVE  /\ f[3] <= ChunkNum(data)
                          /\ unpack'[f] = ChunkAt(data, f[3])
                          /\ Owns(w, f)'
        BY <3>6 DEF OwnUnpack, data
      <4> QED
        BY <3>2, <3>3, <3>4, <3>6 DEF Owns, Unpacked, Scanning
    <3> QED
      BY <1>1, <2>1, <3>3, <3>5, <3>6, <3>7 DEF OwnPartial, OwnListed, Scanning, Decoded, Unpacked, data
  <2> QED
    BY <2>2, <2>3
<1> QED
  BY <1>1, <1>3, <1>4, TidyAssemble DEF DedupStep

\* From ReadDir on, a chunk file that was looked at is gone.
LEMMA TidyList ==
    ASSUME TypeInv, TypeInv', ScanInv, TidyInv, NEW w \in Pushes, ListUnpack(w)
    PROVE  TidyInv'
<1>1. /\ UNCHANGED <<events, partial, unpack>>
      /\ Active(w)
      /\ pc[w] = "list" /\ pc'[w] = "check"
      /\ loc'[w].fcnt = Cardinality(UnpackDir(w))
      /\ loc'[w].no = 1
      /\ loc'[w].isdedup = FALSE
      /\ Others(w)
  <2>1. /\ UNCHANGED <<events, partial, unpack>>
        /\ pc[w] = "list" /\ pc'[w] = "check"
        /\ loc'[w].fcnt = Cardinality(UnpackDir(w))
        /\ loc'[w].no = loc[w].no
        /\ loc'[w].isdedup = loc[w].isdedup
        /\ Others(w)
    BY ListUnpackEffect DEF storeVars
  <2>2. loc[w].isdedup \in BOOLEAN
    BY DEF TypeInv, TypeOK, Local
  <2>3. loc[w].no = 1 /\ ~loc[w].isdedup
    BY <2>1 DEF TypeInv, LocalShape, Shape, BeforeScan, BeforeRegister
  <2> QED  BY <2>1, <2>2, <2>3 DEF Active
<1>2. OwnWrong(w)'
  BY <1>1 DEF OwnWrong
<1>3. UnpackDir(w)' = UnpackDir(w) /\ \A f \in UnpackDir(w) : f[3] \in Nat /\ f[3] >= 1
  BY <1>1 DEF UnpackDir, TypeInv, TypeOK, StoreTypeOK, IsMap, Positive
<1>4. ASSUME Tidy PROVE OwnPartial(w)' /\ OwnUnpack(w)' /\ OwnListed(w)'
  <2>1. OwnPartial(w) /\ OwnUnpack(w) /\ OwnListed(w)
    BY <1>1, <1>4, TidyOwn
  <2>2. OwnUnpack(w)'
    <3> SUFFICES ASSUME NEW f \in UnpackDir(w) PROVE Owns(w, f)'
      BY <1>1, <1>3, <2>1 DEF OwnUnpack
    <3> QED
      BY <1>1, <1>3, <2>1 DEF OwnUnpack, Owns, Unpacked, Scanning
  <2> QED
    BY <1>1, <2>1, <2>2 DEF OwnPartial, OwnListed, Decoded, Unpacked, Scanning
<1> QED
  BY <1>1, <1>2, <1>4, TidyAssemble DEF DedupStep

LEMMA TidyCheck ==
    ASSUME TypeInv, TypeInv', ScanInv, TidyInv, NEW w \in Pushes, CheckChunk(w)
    PROVE  TidyInv'
<1>1. /\ UNCHANGED <<events, partial, unpack>>
      /\ Active(w)
      /\ pc[w] = "check" /\ pc'[w] \in {"remove", "rename", "decide"}
      /\ pc'[w] = "decide" => loc'[w].someWrong
      /\ loc'[w].fcnt = loc[w].fcnt
      /\ loc'[w].no = loc[w].no
      /\ loc'[w].isdedup = FALSE
      /\ Others(w)
  <2>1. /\ UNCHANGED <<events, partial, unpack>>
        /\ pc[w] = "check" /\ pc'[w] \in {"remove", "rename", "decide"}
        /\ pc'[w] = "decide" => loc'[w].someWrong
        /\ loc'[w].fcnt = loc[w].fcnt
        /\ loc'[w].no = loc[w].no
        /\ loc'[w].isdedup = loc[w].isdedup
        /\ Others(w)
    BY CheckChunkEffect DEF storeVars
  <2>2. loc[w].isdedup \in BOOLEAN
    BY DEF TypeInv, TypeOK, Local
  <2>3. ~loc[w].isdedup
    BY <2>1 DEF TypeInv, LocalShape, Shape, Scanning, BeforeRegister
  <2> QED  BY <2>1, <2>2, <2>3 DEF Active
<1>2. OwnWrong(w)'
  BY <1>1 DEF OwnWrong
<1>3. UnpackDir(w)' = UnpackDir(w)
  BY <1>1 DEF UnpackDir
<1>4. ASSUME Tidy PROVE OwnPartial(w)' /\ OwnUnpack(w)' /\ OwnListed(w)'
  <2>1. OwnPartial(w) /\ OwnUnpack(w) /\ OwnListed(w)
    BY <1>1, <1>4, TidyOwn
  <2>2. OwnUnpack(w)'
    BY <1>1, <1>3, <2>1 DEF OwnUnpack, Owns, Unpacked, Scanning
  <2> QED
    BY <1>1, <2>1, <2>2 DEF OwnPartial, OwnListed, Decoded, Unpacked, Scanning
<1> QED
  BY <1>1, <1>2, <1>4, TidyAssemble DEF DedupStep

LEMMA TidyMove ==
    ASSUME TypeInv, TypeInv', ScanInv, TidyInv, NEW w \in Pushes, DropDuplicate(w) \/ RenameUnique(w)
    PROVE  TidyInv'
<1>1. /\ UNCHANGED partial
      /\ events \subseteq events'
      /\ pc[w] \in {"remove", "rename"}
      /\ \/ /\ unpack' = Drop(unpack, {ChunkFile(w, loc[w].no)})
            /\ pc'[w] = "check"
            /\ loc'[w].no = loc[w].no + 1
         \/ /\ UNCHANGED unpack
            /\ pc'[w] = "decide"
            /\ loc'[w].someWrong
      /\ loc'[w].fcnt = loc[w].fcnt
      /\ loc'[w].isdedup = loc[w].isdedup
      /\ Others(w)
  <2>1. CASE DropDuplicate(w)
    BY <2>1, DropDuplicateEffect
  <2>2. CASE RenameUnique(w)
    BY <2>2, RenameUniqueEffect
  <2> QED
    BY <2>1, <2>2
<1>2. Active(w) /\ loc[w].isdedup = FALSE /\ loc[w].no \in Positive
  BY <1>1 DEF Active, TypeInv, TypeOK, Local, LocalShape, Shape, Scanning, BeforeRegister
<1>3. OwnWrong(w)'
  BY <1>1, <1>2 DEF OwnWrong
<1>4. ASSUME Tidy PROVE OwnPartial(w)' /\ OwnUnpack(w)' /\ OwnListed(w)'
  <2>1. OwnPartial(w) /\ OwnUnpack(w) /\ OwnListed(w)
    BY <1>2, <1>4, TidyOwn
  <2>2. OwnPartial(w)' /\ OwnListed(w)'
    BY <1>1, <2>1 DEF OwnPartial, OwnListed, Decoded, Unpacked, Scanning
  <2>3. CASE UNCHANGED unpack /\ pc'[w] = "decide"
    <3>1. UnpackDir(w)' = UnpackDir(w)
      BY <2>3 DEF UnpackDir
    <3> QED
      BY <2>1, <2>2, <2>3, <3>1 DEF OwnUnpack, Owns, Unpacked, Scanning
  <2>4. CASE /\ unpack' = Drop(unpack, {ChunkFile(w, loc[w].no)})
             /\ pc'[w] = "check" /\ loc'[w].no = loc[w].no + 1
    <3> SUFFICES ASSUME NEW f \in UnpackDir(w)'
                 PROVE  /\ f[3] <= ChunkNum(Content[w.layer])
                        /\ unpack'[f] = ChunkAt(Content[w.layer], f[3])
                        /\ Owns(w, f)'
      BY <2>2 DEF OwnUnpack
    <3>1. /\ f \in DOMAIN unpack' /\ f[1] = w.srv /\ f[2] = w.layer
          /\ f \in DOMAIN unpack /\ f # ChunkFile(w, loc[w].no) /\ unpack'[f] = unpack[f]
      BY <2>4 DEF UnpackDir, Drop
    <3>2. f \in Servers \X Layers \X Positive
      BY <3>1 DEF TypeInv, TypeOK, StoreTypeOK, IsMap
    <3>3. f[3] # loc[w].no /\ f[3] \in Positive
      BY <3>1, <3>2 DEF ChunkFile
    <3>4. /\ f[3] <= ChunkNum(Content[w.layer])
          /\ unpack[f] = ChunkAt(Content[w.layer], f[3])
          /\ Owns(w, f)
      BY <2>1, <3>1 DEF OwnUnpack, UnpackDir
    <3>5. f[3] >= loc[w].no
      BY <1>1, <3>4 DEF Owns, Scanning
    <3>6. f[3] >= loc[w].no + 1
      BY <1>2, <3>3, <3>5 DEF Positive
    <3> QED
      BY <2>4, <3>1, <3>4, <3>6 DEF Owns, Unpacked, Scanning
  <2> QED
    BY <1>1, <2>2, <2>3, <2>4
<1> QED
  BY <1>1, <1>2, <1>3, <1>4, TidyAssemble DEF DedupStep

\* A scan that reached its end has emptied the directory.
LEMMA TidyDecide ==
    ASSUME TypeInv, TypeInv', ScanInv, TidyInv, NEW w \in Pushes, Decide(w)
    PROVE  TidyInv'
<1>1. /\ UNCHANGED <<partial, unpack>>
      /\ events \subseteq events'
      /\ pc[w] = "decide" \/ (pc[w] = "check" /\ loc[w].no > loc[w].fcnt)
      /\ \/ pc'[w] = "empty" /\ loc'[w] = loc[w]
         \/ pc'[w] = "finish" /\ loc'[w] = loc[w]
         \/ /\ pc'[w] = "register"
            /\ loc'[w].isdedup = ~loc[w].someWrong
            /\ loc'[w].someWrong = loc[w].someWrong
      /\ Others(w)
  BY DecideEffect DEF storeVars
<1>2. /\ Active(w) /\ loc[w].isdedup = FALSE /\ loc[w].someWrong \in BOOLEAN
      /\ loc[w].no \in Positive /\ loc[w].fcnt \in Nat
  BY <1>1 DEF Active, TypeInv, TypeOK, Local, LocalShape, Shape, Scanning, BeforeRegister
<1>3. OwnWrong(w)'
  BY <1>1, <1>2 DEF OwnWrong
<1>4. UnpackDir(w)' = UnpackDir(w)
  BY <1>1 DEF UnpackDir
<1>5. ASSUME Tidy PROVE OwnPartial(w)' /\ OwnUnpack(w)' /\ OwnListed(w)'
  <2>1. OwnPartial(w) /\ OwnUnpack(w) /\ OwnListed(w)
    BY <1>2, <1>5, TidyOwn
  <2>2. OwnPartial(w)' /\ OwnListed(w)'
    BY <1>1, <2>1 DEF OwnPartial, OwnListed, Decoded, Unpacked, Scanning
  <2>3. CASE pc[w] = "check" /\ loc[w].no > loc[w].fcnt
    <3>1. UnpackDir(w) = {}
      <4> SUFFICES ASSUME NEW f \in UnpackDir(w) PROVE FALSE
        OBVIOUS
      <4>1. f[3] \in Positive
        BY DEF UnpackDir, TypeInv, TypeOK, StoreTypeOK, IsMap
      <4>2. f[3] <= loc[w].fcnt /\ f[3] >= loc[w].no
        BY <2>1, <2>3 DEF OwnUnpack, OwnListed, Owns, Scanning
      <4> QED
        BY <1>2, <2>3, <4>1, <4>2 DEF Positive
    <3> QED
      BY <1>4, <2>2, <3>1 DEF OwnUnpack
  <2>4. CASE pc[w] = "decide"
    <3>1. loc[w].someWrong
      BY <2>4 DEF TidyInv, WrongScan
    <3>2. loc'[w].isdedup = FALSE
      BY <1>1, <1>2, <3>1
    <3> QED
      BY <1>1, <1>4, <2>1, <2>2, <3>2 DEF OwnUnpack, Owns, Unpacked, Scanning
  <2> QED
    BY <1>1, <2>3, <2>4
<1> QED
  BY <1>1, <1>2, <1>3, <1>5, TidyAssemble DEF DedupStep

LEMMA TidyRegister ==
    ASSUME TypeInv, TypeInv', ScanInv, TidyInv, NEW w \in Pushes,
           \/ RegisterFile(w) \/ AddExisting(w) \/ SetSlice(w) \/ SetEmptyRecipe(w) \/ SetLayer(w)
    PROVE  TidyInv'
<1>1. /\ UNCHANGED <<partial, unpack>>
      /\ events \subseteq events'
      /\ pc[w] \in {"register", "lost", "empty"}
      /\ pc'[w] \in {"register", "lost", "finish"}
      /\ loc'[w].isdedup = loc[w].isdedup
      /\ loc'[w].someWrong = loc[w].someWrong
      /\ Others(w)
  <2>1. CASE RegisterFile(w)
    BY <2>1, RegisterFileEffect
  <2>2. CASE AddExisting(w)
    BY <2>2, AddExistingEffect DEF storeVars
  <2>3. CASE SetSlice(w)
    BY <2>3, SetSliceEffect DEF storeVars
  <2>4. CASE SetEmptyRecipe(w) \/ SetLayer(w)
    BY <2>4, LayerEffect DEF storeVars
  <2> QED
    BY <2>1, <2>2, <2>3, <2>4
<1>2. Active(w) /\ (pc[w] = "empty" => ~loc[w].isdedup)
  BY <1>1 DEF Active, TypeInv, LocalShape, Shape, BeforeRegister
<1>3. OwnWrong(w)'
  BY <1>1 DEF OwnWrong, TidyInv, WrongScan
<1>4. UnpackDir(w)' = UnpackDir(w)
  BY <1>1 DEF UnpackDir
<1>5. ASSUME Tidy PROVE OwnPartial(w)' /\ OwnUnpack(w)' /\ OwnListed(w)'
  <2>1. OwnPartial(w) /\ OwnUnpack(w)
    BY <1>2, <1>5, TidyOwn
  <2>2. OwnPartial(w)' /\ OwnListed(w)'
    BY <1>1, <2>1 DEF OwnPartial, OwnListed, Decoded, Unpacked, Scanning
  <2>3. \A f \in UnpackDir(w) : Owns(w, f)'
    BY <1>1, <1>2, <2>1 DEF OwnUnpack, Owns, Unpacked, Scanning
  <2> QED
    BY <1>1, <1>4, <2>1, <2>2, <2>3 DEF OwnUnpack
<1> QED
  BY <1>1, <1>2, <1>3, <1>5, TidyAssemble DEF DedupStep

\* A deduplicated layer has no chunk files left; any other loses them now.
LEMMA TidyFinish ==
    ASSUME TypeInv, TypeInv', ScanInv, TidyInv, NEW w \in Pushes, Finish(w)
    PROVE  TidyInv'
<1>1. /\ UNCHANGED events
      /\ pc[w] = "finish" /\ pc'[w] = "done" /\ loc'[w] = NoLocal
      /\ \/ loc[w].isdedup /\ UNCHANGED unpack
         \/ unpack' = Drop(unpack, UnpackDir(w))
      /\ partial' = Drop(partial, {Dir(w)})
      /\ Others(w)
  BY FinishEffect
<1>2. Active(w)
  BY <1>1 DEF Active
<1>3. OwnWrong(w)'
  BY <1>1 DEF OwnWrong, NoLocal
<1>4. ASSUME Tidy PROVE OwnPartial(w)' /\ OwnUnpack(w)' /\ OwnListed(w)'
  <2>1. loc[w].isdedup => UnpackDir(w) = {}
    BY <1>1, <1>2, <1>4, TidyOwn DEF OwnUnpack, Owns
  <2>2. UnpackDir(w)' = {}
    BY <1>1, <2>1 DEF UnpackDir, Drop
  <2> QED
    BY <1>1, <2>2 DEF OwnPartial, OwnUnpack, OwnListed, Drop, Scanning
<1> QED
  BY <1>1, <1>2, <1>3, <1>4, TidyAssemble DEF DedupStep

LEMMA TidyPush ==
    ASSUME TypeInv, TidyInv, NEW w \in Pushes, Push(w)
    PROVE  TidyInv'
<1>1. /\ UNCHANGED <<partial, unpack, loc>>
      /\ pc[w] = "idle" /\ Goto(w, "open")
      /\ events \subseteq events'
  BY DEF Push
<1>2. pc'[w] = "open" /\ Others(w)
  BY <1>1, GotoOne
<1>3. Tidy' => Tidy
  BY <1>1, TidyBefore
<1>4. \A v \in Pushes : pc[v] \in Decoded => pc'[v] = pc[v]
  BY <1>1, <1>2 DEF Others, Decoded, Unpacked, Scanning
<1>5. WrongScan' /\ AllListed'
  BY <1>1, <1>2, <1>3 DEF TidyInv, WrongScan, AllListed, Others, UnpackDir, Scanning
<1>6. PartialOwned'
  BY <1>1, <1>3, <1>4 DEF TidyInv, PartialOwned, Dir
<1>7. UnpackOwned'
  BY <1>1, <1>3, <1>4 DEF TidyInv, UnpackOwned, Owns, Decoded
<1> QED
  BY <1>5, <1>6, <1>7 DEF TidyInv

LEMMA TidyDies ==
    ASSUME TypeInv, TidyInv, NEW s \in Servers, ProcessDies(s)
    PROVE  TidyInv'
<1>1. ~Tidy'
  BY DiesEffect DEF Tidy
<1>2. WrongScan'
  <2> SUFFICES ASSUME NEW v \in Pushes PROVE OwnWrong(v)'
    BY DEF WrongScan, OwnWrong
  <2>1. OwnWrong(v)
    BY DEF TidyInv, WrongScan, OwnWrong
  <2>2. CASE loc'[v] = NoLocal /\ pc'[v] = IF Active(v) THEN "dead" ELSE pc[v]
    BY <2>2 DEF OwnWrong, NoLocal, Active
  <2> QED
    BY <2>1, <2>2, DiesEffect DEF OwnWrong
<1> QED
  BY <1>1, <1>2 DEF TidyInv, PartialOwned, UnpackOwned, AllListed

LEMMA TidyStep == TypeInv /\ TypeInv' /\ ScanInv /\ TidyInv /\ [Next]_vars => TidyInv'
<1> SUFFICES ASSUME TypeInv, TypeInv', ScanInv, TidyInv, [Next]_vars PROVE TidyInv'
  OBVIOUS
<1>1. ASSUME NEW w \in Pushes, Push(w) \/ DedupStep(w) PROVE TidyInv'
  BY <1>1, TidyPush, TidyEarly, TidySplit, TidyList, TidyCheck, TidyMove, TidyDecide,
     TidyRegister, TidyFinish DEF DedupStep
<1>2. ASSUME NEW w \in Pushes, Panic(w) PROVE TidyInv'
  BY <1>2, TidyDies, PushFacts DEF Panic
<1>3. ASSUME NEW s \in Servers, Crash(s) PROVE TidyInv'
  BY <1>3, TidyDies DEF Crash
<1>4. ASSUME UNCHANGED vars PROVE TidyInv'
  BY <1>4 DEF vars, storeVars, workerVars, historyVars, TidyInv, WrongScan, PartialOwned,
              UnpackOwned, AllListed, Tidy, Owns, UnpackDir
<1> QED
  BY <1>1, <1>2, <1>3, <1>4 DEF Next

LEMMA TidyAlways == Spec => []TidyInv
<1>1. Init => TidyInv
  BY TidyInit
<1>2. TypeInv /\ TypeInv' /\ FileInv /\ TidyInv /\ [Next]_vars => TidyInv'
  BY TidyStep DEF FileInv
<1> QED
  BY <1>1, <1>2, TypeAlways, FilesAreConsistent, PTL DEF Spec

LEMMA TidyLeavesNothing == TidyInv => NoLeftovers
<1> SUFFICES ASSUME TidyInv, Tidy, NEW w \in Pushes,
                    \A v \in Pushes : SameDir(v, w) => ~Active(v)
             PROVE  Dir(w) \notin DOMAIN partial /\ UnpackDir(w) = {}
  BY DEF NoLeftovers, Tidy
<1>1. Dir(w) \notin DOMAIN partial
  BY DecodedActive DEF TidyInv, PartialOwned, Dir, SameDir
<1>2. ASSUME NEW f \in UnpackDir(w) PROVE FALSE
  <2>1. PICK v \in Pushes : Owns(v, f)
    BY <1>2 DEF TidyInv, UnpackOwned, UnpackDir
  <2> QED
    BY <1>2, <2>1, DecodedActive DEF Owns, UnpackDir, SameDir
<1> QED
  BY <1>1, <1>2

\* No dedup, however it interleaves with others, leaves data_partial or a file
\* of unpack/ behind in a directory nobody works in: the append of ./decode and
\* the ReadDir of the next dedup start from nothing (Dedup, doDedup).
THEOREM NothingIsLeftOver == Spec => []NoLeftovers
BY TidyLeavesNothing, TidyAlways, PTL

-----------------------------------------------------------------------------
(* diff/uniquefiles. *)

LEMMA DiffInit == Init => DiffOwned
BY DEF Init, EmptyMap, DiffOwned

\* Sorting the new chunks loses none of them.
LEMMA SortLosesNothing ==
    ASSUME NEW files \in Seq(UniqueFile), NEW s \in BySizeDescending(files),
           \A i, j \in 1..Len(files) : i # j => files[i] # files[j]
    PROVE  \A i \in 1..Len(files) : \E j \in 1..Len(s) : s[j] = files[i]
<1> DEFINE n == Len(files)
           T == {files[i] : i \in 1..n}
           f == [i \in 1..n |-> files[i]]
<1>1. n \in Nat
  OBVIOUS
<1>2. f \in Bijection(1..n, T)
  <2>1. f \in [1..n -> T] /\ \A x \in T : \E i \in 1..n : f[i] = x
    OBVIOUS
  <2>2. \A i, j \in 1..n : f[i] = f[j] => i = j
    OBVIOUS
  <2> HIDE DEF n, T, f
  <2> QED
    BY <2>1, <2>2, Fun_IsBij
<1>3. s \in [1..n -> T] /\ Len(s) = n /\ \A i, j \in 1..n : s[i] = s[j] => i = j
  BY SortKeepsFiles DEF BySizeDescending
<1>4. \A i \in 1..n : files[i] \in T
  OBVIOUS
<1> HIDE DEF n, T, f
<1>5. IsFiniteSet(1..n) /\ IsFiniteSet(T) /\ Cardinality(T) = Cardinality(1..n)
  BY <1>1, <1>2, FS_Interval, FS_Bijection DEF ExistsBijection
<1>6. s \in Injection(1..n, T)
  BY <1>3, Fun_IsInj
<1>7. s \in Surjection(1..n, T)
  BY <1>5, <1>6, FS_Injection
<1>8. \A x \in T : \E j \in 1..n : s[j] = x
  BY <1>7 DEF Surjection
<1> QED
  BY <1>3, <1>4, <1>8 DEF n

\* It is enough to look at the files of the push that takes the step.
LEMMA DiffAssemble ==
    ASSUME TypeInv', DiffOwned, NEW w \in Pushes, Push(w) \/ DedupStep(w), Others(w),
           \A p \in DOMAIN diff' : p[1] # w => p \in DOMAIN diff,
           crashes = 0 => \A p \in DOMAIN diff' : p[1] = w => Kept(p)'
    PROVE  DiffOwned'
<1> SUFFICES ASSUME crashes' = 0, NEW p \in DOMAIN diff', p[1] # w PROVE Kept(p)'
  BY NoCrash DEF DiffOwned
<1>1. Kept(p)
  BY NoCrash DEF DiffOwned
<1>2. p[1] \in Pushes
  BY DEF TypeInv, TypeOK, StoreTypeOK, IsMap, Path
<1>3. pc'[p[1]] = pc[p[1]] /\ loc'[p[1]] = loc[p[1]]
  BY <1>2 DEF Others
<1>4. Registered(p) => Registered(p)'
  BY StepGrows DEF Registered, MetadataGrows, Extends
<1> QED
  BY <1>1, <1>3, <1>4 DEF Kept, Active, Pending

\* What DiffOwned says of the files of one push.
LEMMA DiffOwn ==
    ASSUME DiffOwned, crashes = 0, NEW p \in DOMAIN diff, NEW w, p[1] = w
    PROVE  \/ Registered(p)
           \/ /\ Active(w) /\ pc[w] # "finish"
              /\ \E i \in Pending(w) : loc[w].nodist[i].path = p
           \/ pc[w] = "finish" /\ ~loc[w].isdedup
BY DEF DiffOwned, Kept

\* Steps that change neither a file nor the chunks still to be registered.
LEMMA DiffQuietSteps ==
    ASSUME TypeInv, TypeInv', DiffOwned, NEW w \in Pushes,
           \/ Push(w) \/ ListUnpack(w) \/ CheckChunk(w) \/ DropDuplicate(w) \/ AddExisting(w)
           \/ OpenLayer(w) \/ StatRLMap(w) \/ SetRLMap(w) \/ Decode(w) \/ SplitFileChunk(w)
    PROVE  DiffOwned'
<1> USE DEF BeforeScan, Scanning
<1>1. UNCHANGED <<diff, fileDesc>> /\ Others(w)
  <2>1. CASE Push(w)
    BY <2>1, GotoOne DEF Push, metadataVars
  <2>2. CASE ListUnpack(w)
    BY <2>2, ListUnpackEffect DEF storeVars, metadataVars
  <2>3. CASE CheckChunk(w)
    BY <2>3, CheckChunkEffect DEF storeVars
  <2>4. CASE DropDuplicate(w)
    BY <2>4, DropDuplicateEffect DEF metadataVars
  <2>5. CASE AddExisting(w)
    BY <2>5, AddExistingEffect DEF storeVars
  <2>6. CASE OpenLayer(w) \/ StatRLMap(w) \/ SetRLMap(w) \/ Decode(w) \/ SplitFileChunk(w)
    BY <2>6, EarlyEffect
  <2> QED
    BY <2>1, <2>2, <2>3, <2>4, <2>5, <2>6
<1>2. \/ pc[w] \in {"idle"} \cup BeforeScan /\ Pending(w) = {}
      \/ /\ pc[w] \in Scanning \cup {"lost"}
         /\ pc'[w] \in Scanning \cup {"decide", "register"}
         /\ loc'[w].nodist = loc[w].nodist
         /\ Pending(w)' = Pending(w)
  <2>1. pc[w] \in {"idle"} \cup BeforeScan => Pending(w) = {}
    <3>1. pc[w] \in BeforeScan => loc[w].nodist = <<>> /\ loc[w].k = 1
      BY DEF TypeInv, LocalShape, Shape, BeforeRegister
    <3> QED
      BY <3>1 DEF Pending
  <2>2. CASE Push(w)
    BY <2>1, <2>2 DEF Push
  <2>3. CASE ListUnpack(w)
    BY <2>1, <2>3 DEF ListUnpack
  <2>4. CASE CheckChunk(w)
    BY <2>4, CheckChunkEffect DEF Pending
  <2>5. CASE DropDuplicate(w)
    BY <2>5, DropDuplicateEffect DEF Pending
  <2>6. CASE AddExisting(w)
    BY <2>6, AddExistingEffect DEF Pending
  <2>7. CASE OpenLayer(w) \/ StatRLMap(w) \/ SetRLMap(w) \/ Decode(w) \/ SplitFileChunk(w)
    BY <2>1, <2>7, EarlyEffect
  <2> QED
    BY <2>2, <2>3, <2>4, <2>5, <2>6, <2>7
<1>3. ASSUME crashes = 0, NEW p \in DOMAIN diff', p[1] = w PROVE Kept(p)'
  <2>1. Registered(p) => Registered(p)'
    BY <1>1 DEF Registered
  <2> QED
    BY <1>1, <1>2, <1>3, <2>1, DiffOwn DEF Kept, Active
<1> QED
  BY <1>1, <1>3, DiffAssemble DEF DedupStep

\* The renamed chunk is the last one to be registered.
LEMMA DiffRename ==
    ASSUME TypeInv, TypeInv', DiffOwned, NEW w \in Pushes, RenameUnique(w)
    PROVE  DiffOwned'
<1> DEFINE n == Len(loc[w].nodist)
           path == <<w, loc[w].no>>
<1>1. /\ loc[w].k = 1 /\ pc[w] = "rename" /\ Pending(w) = 1..n /\ n \in Nat
      /\ loc[w].nodist \in Seq(UniqueFile)
  <2>1. pc[w] = "rename" /\ loc[w] \in Local
    BY RenameUniqueEffect DEF TypeInv, TypeOK
  <2>2. loc[w].k = 1
    BY <2>1 DEF TypeInv, LocalShape, Shape, Scanning, BeforeRegister
  <2> QED
    BY <2>1, <2>2 DEF Local, Pending
<1>2. UNCHANGED fileDesc /\ Others(w) /\ loc'[w].k = 1
  BY <1>1, RenameUniqueEffect DEF metadataVars
<1>3. CASE /\ diff' = Put(diff, path, unpack[ChunkFile(w, loc[w].no)])
           /\ pc'[w] = "check"
           /\ loc'[w].nodist = Append(loc[w].nodist, [digest |-> loc[w].dgst, path |-> path])
  <2>1. /\ Pending(w)' = 1..(n + 1)
        /\ loc'[w].nodist[n + 1].path = path
        /\ \A i \in 1..n : loc'[w].nodist[i] = loc[w].nodist[i]
    BY <1>1, <1>2, <1>3 DEF Pending
  <2>2. DOMAIN diff' = DOMAIN diff \cup {path}
    BY <1>3, PutFacts
  <2>3. ASSUME crashes = 0, NEW p \in DOMAIN diff', p[1] = w PROVE Kept(p)'
    <3>1. CASE p = path
      <4>1. n + 1 \in Pending(w)'
        BY <1>1, <2>1
      <4> QED
        BY <1>3, <2>1, <2>3, <3>1, <4>1 DEF Kept, Active
    <3>2. CASE p # path
      <4>1. p \in DOMAIN diff
        BY <2>2, <3>2
      <4>2. Registered(p) => Registered(p)'
        BY <1>2 DEF Registered
      <4>3. (\E i \in 1..n : loc[w].nodist[i].path = p) =>
                \E i \in Pending(w)' : loc'[w].nodist[i].path = p
        BY <1>1, <2>1
      <4> QED
        BY <1>1, <1>3, <2>3, <4>1, <4>2, <4>3, DiffOwn DEF Kept, Active
    <3> QED
      BY <3>1, <3>2
  <2>4. \A p \in DOMAIN diff' : p[1] # w => p \in DOMAIN diff
    BY <2>2
  <2> QED
    BY <1>2, <2>3, <2>4, DiffAssemble DEF DedupStep
<1>4. CASE UNCHANGED diff /\ pc'[w] = "decide" /\ loc'[w].nodist = loc[w].nodist
  <2>1. Pending(w)' = Pending(w)
    BY <1>1, <1>2, <1>4 DEF Pending
  <2>2. ASSUME crashes = 0, NEW p \in DOMAIN diff', p[1] = w PROVE Kept(p)'
    <3>1. Registered(p) => Registered(p)'
      BY <1>2 DEF Registered
    <3> QED
      BY <1>1, <1>4, <2>1, <2>2, <3>1, DiffOwn DEF Kept, Active
  <2> QED
    BY <1>2, <1>4, <2>2, DiffAssemble DEF DedupStep
<1> QED
  BY <1>3, <1>4, RenameUniqueEffect

LEMMA DiffDecide ==
    ASSUME TypeInv, TypeInv', PathInv, DiffOwned, NEW w \in Pushes, Decide(w)
    PROVE  DiffOwned'
<1> DEFINE old == loc[w].nodist
           new == loc'[w].nodist
<1>1. UNCHANGED <<diff, fileDesc>> /\ Others(w)
  BY DecideEffect DEF storeVars, metadataVars
<1>2. /\ pc[w] \in {"check", "decide"} /\ loc[w].k = 1 /\ Pending(w) = 1..Len(old)
      /\ old \in Seq(UniqueFile) /\ loc[w].isdedup = FALSE
  <2>1. pc[w] \in {"check", "decide"}
    BY DecideEffect
  <2>2. loc[w].k = 1 /\ ~loc[w].isdedup
    BY <2>1 DEF TypeInv, LocalShape, Shape, Scanning, BeforeRegister
  <2>3. old \in Seq(UniqueFile) /\ loc[w].isdedup \in BOOLEAN
    BY DEF TypeInv, TypeOK, Local
  <2>4. Pending(w) = 1..Len(old)
    BY <2>1, <2>2 DEF Pending
  <2> QED  BY <2>1, <2>2, <2>3, <2>4
<1>3. \/ pc'[w] \in {"empty", "finish"} /\ loc'[w] = loc[w]
      \/ /\ pc'[w] = "register" /\ Pending(w)' = 1..Len(new)
         /\ \A i \in 1..Len(old) : \E j \in 1..Len(new) : new[j] = old[i]
  <2>1. \A i, j \in 1..Len(old) : i # j => old[i] # old[j]
    BY DEF PathInv, OwnedPaths
  <2>2. CASE new \in BySizeDescending(old)
    BY <1>2, <2>1, <2>2, SortLosesNothing, DecideEffect DEF Pending
  <2>3. CASE new = old
    BY <1>2, <2>3, DecideEffect DEF Pending
  <2> QED
    BY <2>2, <2>3, DecideEffect
<1>4. ASSUME crashes = 0, NEW p \in DOMAIN diff', p[1] = w PROVE Kept(p)'
  <2>1. Registered(p) \/ \E i \in 1..Len(old) : old[i].path = p
    BY <1>1, <1>2, <1>4, DiffOwn
  <2>2. Registered(p) => Registered(p)'
    BY <1>1 DEF Registered
  <2>3. CASE pc'[w] \in {"empty", "finish"} /\ loc'[w] = loc[w]
    <3>1. pc'[w] = "empty" => Pending(w)' = 1..Len(old)
      BY <1>2, <2>3 DEF Pending
    <3> QED
      BY <1>2, <1>4, <2>1, <2>2, <2>3, <3>1 DEF Kept, Active
  <2>4. CASE /\ pc'[w] = "register" /\ Pending(w)' = 1..Len(new)
             /\ \A i \in 1..Len(old) : \E j \in 1..Len(new) : new[j] = old[i]
    <3>1. (\E i \in 1..Len(old) : old[i].path = p) => \E i \in Pending(w)' : new[i].path = p
      BY <2>4
    <3> QED
      BY <1>4, <2>1, <2>2, <2>4, <3>1 DEF Kept, Active
  <2> QED
    BY <1>3, <2>3, <2>4
<1> QED
  BY <1>1, <1>4, DiffAssemble DEF DedupStep

\* A registered file stays; the loser of the race removes its copy.
LEMMA DiffRegister ==
    ASSUME TypeInv, TypeInv', DiffOwned, NEW w \in Pushes, RegisterFile(w)
    PROVE  DiffOwned'
<1> DEFINE k == loc[w].k
           n == Len(loc[w].nodist)
           f == loc[w].nodist[k]
<1>1. /\ pc[w] = "register" /\ k \in 1..n /\ n \in Nat /\ k \in Nat
      /\ Pending(w) = k..n
      /\ Pending(w)' = (k + 1)..n
      /\ pc'[w] \in {"register", "lost"}
      /\ loc'[w].nodist = loc[w].nodist
      /\ Others(w)
      /\ \A p \in DOMAIN diff' : p \in DOMAIN diff
  <2>1. n \in Nat /\ k \in Nat
    BY LocNumbers
  <2> QED
    BY <2>1, RegisterFileEffect DEF Pending, Drop
<1>2. ASSUME NEW p, p = f.path
      PROVE  Registered(p)' \/ p \notin DOMAIN diff'
  <2>1. PICK host \in Servers :
           LET des == [digest |-> f.digest, path |-> f.path, host |-> host] IN
           \/ f.digest \notin DOMAIN fileDesc /\ fileDesc' = PutNew(fileDesc, f.digest, des)
           \/ diff' = Drop(diff, {f.path})
    BY RegisterFileEffect
  <2> DEFINE des == [digest |-> f.digest, path |-> f.path, host |-> host]
  <2>2. CASE f.digest \notin DOMAIN fileDesc /\ fileDesc' = PutNew(fileDesc, f.digest, des)
    <3>1. des.path = p
      BY <1>2
    <3> HIDE DEF des, f
    <3>2. f.digest \in DOMAIN fileDesc' /\ fileDesc'[f.digest] = des
      BY <2>2 DEF PutNew, Put
    <3> QED
      BY <3>1, <3>2 DEF Registered
  <2>3. CASE diff' = Drop(diff, {f.path})
    BY <1>2, <2>3 DEF Drop
  <2> QED
    BY <2>1, <2>2, <2>3
<1>3. ASSUME crashes = 0, NEW p \in DOMAIN diff', p[1] = w PROVE Kept(p)'
  <2>1. Registered(p) \/ \E i \in Pending(w) : loc[w].nodist[i].path = p
    BY <1>1, <1>3, DiffOwn
  <2>2. CASE Registered(p)
    <3>1. Registered(p)'
      BY <2>2, StepGrows DEF Registered, MetadataGrows, Extends, DedupStep
    <3> QED
      BY <3>1 DEF Kept
  <2>3. ASSUME NEW i \in Pending(w), loc[w].nodist[i].path = p PROVE Kept(p)'
    <3>1. CASE i = k
      BY <1>2, <1>3, <2>3, <3>1 DEF Kept
    <3>2. CASE i # k
      <4>1. i \in Pending(w)'
        BY <1>1, <3>2
      <4> QED
        BY <1>1, <1>3, <2>3, <4>1 DEF Kept, Active
    <3> QED
      BY <3>1, <3>2
  <2> QED
    BY <2>1, <2>2, <2>3
<1> QED
  BY <1>1, <1>3, DiffAssemble DEF DedupStep

\* When the recipes are written nothing is left to be registered.
LEMMA DiffRecipes ==
    ASSUME TypeInv, TypeInv', DiffOwned, NEW w \in Pushes,
           SetSlice(w) \/ SetEmptyRecipe(w) \/ SetLayer(w)
    PROVE  DiffOwned'
<1>1. /\ UNCHANGED <<diff, fileDesc>>
      /\ \/ pc[w] = "register" /\ loc[w].k > Len(loc[w].nodist)
         \/ pc[w] = "empty" /\ pc'[w] = "finish" /\ loc'[w] = loc[w]
      /\ Others(w)
  <2>1. CASE SetSlice(w)
    BY <2>1, SetSliceEffect DEF storeVars
  <2>2. CASE SetEmptyRecipe(w) \/ SetLayer(w)
    BY <2>2, LayerEffect DEF storeVars
  <2> QED
    BY <2>1, <2>2
<1>2. pc[w] = "register" => Pending(w) = {}
  BY <1>1, LocNumbers DEF Pending
<1>3. pc[w] = "empty" => ~loc[w].isdedup
  BY DEF TypeInv, LocalShape, Shape, BeforeRegister
<1>4. ASSUME crashes = 0, NEW p \in DOMAIN diff', p[1] = w PROVE Kept(p)'
  <2>1. Registered(p) => Registered(p)'
    BY <1>1 DEF Registered
  <2> QED
    BY <1>1, <1>2, <1>3, <1>4, <2>1, DiffOwn DEF Kept
<1> QED
  BY <1>1, <1>4, DiffAssemble DEF DedupStep

LEMMA DiffFinish ==
    ASSUME TypeInv, TypeInv', DiffOwned, NEW w \in Pushes, Finish(w)
    PROVE  DiffOwned'
<1>1. /\ UNCHANGED fileDesc
      /\ pc[w] = "finish"
      /\ \/ loc[w].isdedup /\ UNCHANGED diff
         \/ diff' = Drop(diff, DiffDir(w))
      /\ Others(w)
  BY FinishEffect DEF metadataVars
<1>2. \A p \in DOMAIN diff' : p \in DOMAIN diff
  BY <1>1 DEF Drop
<1>3. ASSUME crashes = 0, NEW p \in DOMAIN diff', p[1] = w PROVE Kept(p)'
  <2>1. Registered(p) => Registered(p)'
    BY <1>1 DEF Registered
  <2>2. CASE loc[w].isdedup
    BY <1>1, <1>2, <1>3, <2>1, <2>2, DiffOwn DEF Kept
  <2>3. CASE ~loc[w].isdedup
    BY <1>1, <1>3, <2>3 DEF Drop, DiffDir, SameDir
  <2> QED
    BY <2>2, <2>3
<1> QED
  BY <1>1, <1>2, <1>3, DiffAssemble DEF DedupStep

LEMMA DiffStep ==
    TypeInv /\ TypeInv' /\ PathInv /\ DiffOwned /\ [Next]_vars => DiffOwned'
<1> SUFFICES ASSUME TypeInv, TypeInv', PathInv, DiffOwned, [Next]_vars PROVE DiffOwned'
  OBVIOUS
<1>1. ASSUME NEW w \in Pushes, Push(w) \/ DedupStep(w) PROVE DiffOwned'
  BY <1>1, DiffQuietSteps, DiffRename, DiffDecide, DiffRegister, DiffRecipes, DiffFinish
     DEF DedupStep
<1>2. ASSUME NEW s \in Servers, ProcessDies(s) PROVE DiffOwned'
  BY <1>2, DiesEffect DEF DiffOwned
<1>3. ASSUME UNCHANGED vars PROVE DiffOwned'
  BY <1>3 DEF vars, metadataVars, storeVars, workerVars, historyVars, DiffOwned, Kept, Registered,
              Active, Pending
<1> QED
  BY <1>1, <1>2, <1>3, PushFacts DEF Next, Panic, Crash

LEMMA DiffAlways == Spec => []DiffOwned
<1>1. Init => DiffOwned
  BY DiffInit
<1>2. TypeInv /\ TypeInv' /\ FileInv /\ DiffOwned /\ [Next]_vars => DiffOwned'
  BY DiffStep DEF FileInv
<1> QED
  BY <1>1, <1>2, TypeAlways, FilesAreConsistent, PTL DEF Spec

\* Unless a process dies, every file below diff/uniquefiles is registered or
\* belongs to a running dedup, whatever races for digests are lost and whatever
\* Redis commands fail (RenameUnique, Uniqdistribution and the end of Dedup).
THEOREM NoFileIsOrphaned == Spec => []NoOrphanFiles
<1>1. DiffOwned => NoOrphanFiles
  BY DEF DiffOwned, Kept, NoOrphanFiles, Registered, Active
<1> QED
  BY <1>1, DiffAlways, PTL

-----------------------------------------------------------------------------
(* What a slice lists is registered, on the host of the slice. *)

LEMMA GenuineInit == Init => GenuineInv
BY DEF Init, MetadataInit, EmptyMap, NoLocal, GenuineInv, SlicesGenuine, RecipesGenuine, HostsGenuine

LEMMA GenuineGrows ==
    ASSUME NEW des, NEW h, Genuine(des, h), Extends(fileDesc', fileDesc)
    PROVE  Genuine(des, h)'
BY DEF Genuine, Extends

LEMMA SliceType ==
    ASSUME TypeInv, NEW w \in Pushes
    PROVE  /\ loc[w].slices \in [Hosts -> Seq(SliceEntry)]
           /\ \A h \in Hosts : loc[w].slices[h] \in Seq(SliceEntry)
           /\ loc[w].size \in [Hosts -> Nat]
BY DEF TypeInv, TypeOK, Local

\* One slice grows by one descriptor.
LEMMA GrownSlices ==
    ASSUME NEW slices \in [Hosts -> Seq(SliceEntry)], NEW host \in Hosts, NEW des,
           NEW new, new = [slices EXCEPT ![host] = Append(@, des)]
    PROVE  /\ \A h \in Hosts : h # host => new[h] = slices[h]
           /\ new[host] = Append(slices[host], des)
           /\ Len(slices[host]) \in Nat
           /\ DOMAIN slices[host] = 1..Len(slices[host])
           /\ DOMAIN new[host] = 1..(Len(slices[host]) + 1)
           /\ \A j \in 1..Len(slices[host]) : new[host][j] = slices[host][j]
           /\ new[host][Len(slices[host]) + 1] = des
           /\ Len(new[host]) = Len(slices[host]) + 1
           /\ new[host] # <<>>
<1>1. slices[host] \in Seq(SliceEntry) /\ Len(slices[host]) \in Nat
  OBVIOUS
<1>2. new[host] = Append(slices[host], des) /\ \A h \in Hosts : h # host => new[h] = slices[h]
  OBVIOUS
<1> DEFINE s == slices[host]
<1>3. s \in Seq(SliceEntry \cup {des}) /\ des \in SliceEntry \cup {des}
  BY <1>1
<1> HIDE DEF s
<1>4. /\ DOMAIN s = 1..Len(s)
      /\ Len(Append(s, des)) = Len(s) + 1
      /\ DOMAIN Append(s, des) = 1..(Len(s) + 1)
      /\ \A j \in 1..Len(s) : Append(s, des)[j] = s[j]
      /\ Append(s, des)[Len(s) + 1] = des
      /\ Append(s, des) # <<>>
  BY <1>3
<1> QED
  BY <1>1, <1>2, <1>4 DEF s

\* What SlicesGenuine says of one push.
OwnGenuine(w) ==
    /\ pc[w] = "remove" => Genuine(loc[w].des, loc[w].des.host) /\ loc[w].des.digest = loc[w].dgst
    /\ pc[w] = "lost" => loc[w].nodist[loc[w].k].digest \in DOMAIN fileDesc
    /\ \A h \in Hosts : \A j \in DOMAIN loc[w].slices[h] : Genuine(loc[w].slices[h][j], h)

LEMMA GenuineOthers ==
    ASSUME TypeInv, GenuineInv, Extends(fileDesc', fileDesc), faults' >= faults, faults' = 0,
           NEW v \in Pushes, pc'[v] = pc[v], loc'[v] = loc[v]
    PROVE  OwnGenuine(v)'
<1>1. OwnGenuine(v)
  BY DEF GenuineInv, SlicesGenuine, OwnGenuine, TypeInv, TypeOK, MetadataTypeOK
<1>2. pc[v] = "lost" => loc[v].nodist[loc[v].k].digest \in DOMAIN fileDesc'
  BY <1>1 DEF OwnGenuine, Extends
<1>3. \A h \in Hosts : \A j \in DOMAIN loc[v].slices[h] : Genuine(loc[v].slices[h][j], h)
  BY <1>1 DEF OwnGenuine
<1>4. \A d, h : Genuine(d, h) => Genuine(d, h)'
  BY GenuineGrows
<1>5. pc[v] = "remove" => Genuine(loc[v].des, loc[v].des.host) /\ loc[v].des.digest = loc[v].dgst
  BY <1>1 DEF OwnGenuine
<1> QED
  BY <1>2, <1>3, <1>4, <1>5 DEF OwnGenuine

LEMMA SlicesAssemble ==
    ASSUME TypeInv, GenuineInv, NEW w \in Pushes, Push(w) \/ DedupStep(w), Others(w),
           faults' >= faults, faults' = 0 => OwnGenuine(w)'
    PROVE  SlicesGenuine'
<1> SUFFICES ASSUME faults' = 0, NEW v \in Pushes PROVE OwnGenuine(v)'
  BY DEF SlicesGenuine, OwnGenuine
<1>1. CASE v # w
  BY <1>1, StepGrows, GenuineOthers DEF MetadataGrows, Others
<1> QED
  BY <1>1

LEMMA RecipesKeep ==
    ASSUME TypeInv, GenuineInv, Extends(fileDesc', fileDesc), faults' >= faults
    PROVE  /\ UNCHANGED sliceRecipe => RecipesGenuine'
           /\ UNCHANGED layerRecipe => HostsGenuine'
<1>1. faults' = 0 => faults = 0
  BY DEF TypeInv, TypeOK, MetadataTypeOK
<1>2. UNCHANGED sliceRecipe => RecipesGenuine'
  BY <1>1, GenuineGrows DEF GenuineInv, RecipesGenuine
<1> QED
  BY <1>1, <1>2 DEF GenuineInv, HostsGenuine

\* Steps that add nothing to a slice.
LEMMA GenuineQuietSteps ==
    ASSUME TypeInv, PathInv, GenuineInv, NEW w \in Pushes,
           \/ Push(w) \/ ListUnpack(w) \/ CheckChunk(w) \/ RenameUnique(w) \/ Decide(w)
           \/ AddExisting(w) \/ Finish(w)
           \/ OpenLayer(w) \/ StatRLMap(w) \/ SetRLMap(w) \/ Decode(w) \/ SplitFileChunk(w)
    PROVE  GenuineInv'
<1>1. /\ UNCHANGED <<fileDesc, sliceRecipe, layerRecipe>>
      /\ faults' >= faults
      /\ Others(w)
      /\ pc'[w] # "lost"
      /\ pc'[w] = "remove" => CheckChunk(w)
      /\ faults' = 0 => loc'[w].slices = loc[w].slices \/ loc'[w].slices = NoLocal.slices
  <2> USE DEF metadataVars
  <2>0. faults \in Nat
    BY DEF TypeInv, TypeOK, MetadataTypeOK
  <2>1. CASE Push(w)
    BY <2>0, <2>1, GotoOne DEF Push
  <2>2. CASE ListUnpack(w)
    BY <2>0, <2>2, ListUnpackEffect
  <2>3. CASE CheckChunk(w)
    BY <2>0, <2>3, CheckChunkEffect
  <2>4. CASE RenameUnique(w)
    <3>1. UNCHANGED metadataVars /\ Others(w)
      BY <2>4, RenameUniqueEffect
    <3>2. pc'[w] \in {"check", "decide"} /\ loc'[w].slices = loc[w].slices
      BY <2>4, RenameUniqueEffect
    <3> QED
      BY <2>0, <3>1, <3>2
  <2>5. CASE Decide(w)
    BY <2>0, <2>5, DecideEffect
  <2>6. CASE AddExisting(w)
    <3>1. faults' = 0 => loc[w].nodist[loc[w].k].digest \in DOMAIN fileDesc
      BY <2>0, <2>6, AddExistingEffect DEF GenuineInv, SlicesGenuine
    <3> QED
      BY <2>0, <2>6, <3>1, AddExistingEffect
  <2>7. CASE Finish(w)
    <3>1. UNCHANGED metadataVars /\ Others(w) /\ pc'[w] = "done" /\ loc'[w] = NoLocal
      BY <2>7, FinishEffect
    <3> QED
      BY <2>0, <3>1
  <2>8. CASE OpenLayer(w) \/ StatRLMap(w) \/ SetRLMap(w) \/ Decode(w) \/ SplitFileChunk(w)
    <3>1. pc'[w] \in BeforeScan \cup {"done"}
      BY <2>8, EarlyEffect
    <3> QED
      BY <2>0, <2>8, <3>1, EarlyEffect DEF BeforeScan
  <2> QED
    BY <2>1, <2>2, <2>3, <2>4, <2>5, <2>6, <2>7, <2>8
<1>2. Extends(fileDesc', fileDesc)
  BY <1>1, ExtendsRefl
<1>3. ASSUME faults' = 0 PROVE OwnGenuine(w)'
  <2>1. faults = 0
    BY <1>1, <1>3 DEF TypeInv, TypeOK, MetadataTypeOK
  <2>2. \A h \in Hosts : \A j \in DOMAIN loc'[w].slices[h] : Genuine(loc'[w].slices[h][j], h)
    BY <1>1, <1>3, <2>1 DEF GenuineInv, SlicesGenuine, NoLocal
  <2>3. ASSUME pc'[w] = "remove"
        PROVE  Genuine(loc'[w].des, loc'[w].des.host) /\ loc'[w].des.digest = loc'[w].dgst
    <3>1. loc'[w].dgst \in DOMAIN fileDesc /\ loc'[w].des = fileDesc[loc'[w].dgst]
      BY <1>1, <2>3, CheckChunkEffect
    <3> QED
      BY <3>1 DEF Genuine, PathInv, DescriptorsWellFormed
  <2> QED
    BY <1>1, <2>2, <2>3 DEF OwnGenuine, Genuine
<1> QED
  BY <1>1, <1>2, <1>3, SlicesAssemble, RecipesKeep DEF GenuineInv, DedupStep

LEMMA GenuineDuplicate ==
    ASSUME TypeInv, GenuineInv, NEW w \in Pushes, DropDuplicate(w)
    PROVE  GenuineInv'
<1> DEFINE des == loc[w].des
           old == loc[w].slices
           new == loc'[w].slices
<1>1. /\ UNCHANGED <<fileDesc, sliceRecipe, layerRecipe, faults>>
      /\ Others(w)
      /\ pc[w] = "remove" /\ pc'[w] \in {"check", "decide"}
      /\ new = old \/ new = [old EXCEPT ![des.host] = Append(@, des)]
  BY DropDuplicateEffect DEF metadataVars
<1>2. Extends(fileDesc', fileDesc) /\ faults' >= faults
  BY <1>1, ExtendsRefl DEF TypeInv, TypeOK, MetadataTypeOK
<1>3. old \in [Hosts -> Seq(SliceEntry)]
  BY SliceType
<1>4. des.host \in Hosts
  BY DEF TypeInv, TypeOK, Local, SliceEntry, FileDescriptor, NoDescriptor, Hosts
<1>5. ASSUME faults' = 0 PROVE OwnGenuine(w)'
  <2>1. OwnGenuine(w)
    BY <1>1, <1>5 DEF GenuineInv, SlicesGenuine, OwnGenuine
  <2>2. Genuine(des, des.host) /\ \A h \in Hosts : \A j \in DOMAIN old[h] : Genuine(old[h][j], h)
    BY <1>1, <2>1 DEF OwnGenuine
  <2> HIDE DEF old, new, des
  <2>3. ASSUME NEW h \in Hosts, NEW j \in DOMAIN new[h] PROVE Genuine(new[h][j], h)
    <3>1. CASE new = old
      BY <2>2, <2>3, <3>1
    <3>2. CASE new = [old EXCEPT ![des.host] = Append(@, des)]
      <4>1. \/ j \in DOMAIN old[h] /\ new[h][j] = old[h][j]
            \/ h = des.host /\ new[h][j] = des
        <5>1. /\ \A g \in Hosts : g # des.host => new[g] = old[g]
              /\ Len(old[des.host]) \in Nat
              /\ DOMAIN old[des.host] = 1..Len(old[des.host])
              /\ DOMAIN new[des.host] = 1..(Len(old[des.host]) + 1)
              /\ \A i \in 1..Len(old[des.host]) : new[des.host][i] = old[des.host][i]
              /\ new[des.host][Len(old[des.host]) + 1] = des
          BY <1>3, <1>4, <3>2, GrownSlices
        <5> QED
          BY <2>3, <5>1
      <4> QED
        BY <2>2, <4>1
    <3> QED
      BY <1>1, <3>1, <3>2
  <2> QED
    BY <1>1, <2>3 DEF OwnGenuine, Genuine, new
<1> QED
  BY <1>1, <1>2, <1>5, SlicesAssemble, RecipesKeep DEF GenuineInv, DedupStep

GenuineIn(db, des, h) == des.digest \in DOMAIN db /\ db[des.digest] = des /\ des.host = h

LEMMA GenuineRegister ==
    ASSUME TypeInv, PathInv, GenuineInv, NEW w \in Pushes, RegisterFile(w)
    PROVE  GenuineInv'
<1> DEFINE f == loc[w].nodist[loc[w].k]
           D(h) == [digest |-> f.digest, path |-> f.path, host |-> h]
           old == loc[w].slices
           new == loc'[w].slices
<1>1. /\ UNCHANGED <<sliceRecipe, layerRecipe>>
      /\ faults' >= faults
      /\ Others(w)
      /\ loc'[w].nodist = loc[w].nodist
  BY RegisterFileEffect
<1>2. Extends(fileDesc', fileDesc)
  BY StepGrows DEF MetadataGrows, DedupStep
<1>3. old \in [Hosts -> Seq(SliceEntry)]
  BY SliceType
<1>4. PICK host \in Servers :
         \/ /\ f.digest \notin DOMAIN fileDesc
            /\ fileDesc' = PutNew(fileDesc, f.digest, D(host))
            /\ pc'[w] = "register"
            /\ new = [old EXCEPT ![host] = Append(@, D(host))]
         \/ /\ faults' = 0 => f.digest \in DOMAIN fileDesc
            /\ new = old
            /\ pc'[w] = "lost"
            /\ loc'[w].k = loc[w].k
  BY RegisterFileEffect
<1>5. ASSUME faults' = 0 PROVE OwnGenuine(w)'
  <2>1. faults = 0
    BY <1>1, <1>5 DEF TypeInv, TypeOK, MetadataTypeOK
  <2>2. \A h \in Hosts : \A j \in DOMAIN old[h] : GenuineIn(fileDesc, old[h][j], h)
    BY <2>1 DEF GenuineInv, SlicesGenuine, Genuine, GenuineIn
  <2>3. \A h \in Hosts : \A j \in DOMAIN old[h] : GenuineIn(fileDesc', old[h][j], h)
    BY <1>2, <2>2 DEF GenuineIn, Extends
  <2>4. \A h \in Hosts : \A j \in DOMAIN new[h] : GenuineIn(fileDesc', new[h][j], h)
    <3>1. CASE new = old
      BY <2>3, <3>1
    <3>2. CASE /\ f.digest \notin DOMAIN fileDesc
               /\ fileDesc' = PutNew(fileDesc, f.digest, D(host))
               /\ new = [old EXCEPT ![host] = Append(@, D(host))]
      <4> DEFINE des == D(host)
      <4>1. des.digest = f.digest /\ des.host = host
        OBVIOUS
      <4>2. /\ f.digest \notin DOMAIN fileDesc
            /\ fileDesc' = PutNew(fileDesc, f.digest, des)
            /\ new = [old EXCEPT ![host] = Append(@, des)]
        BY <3>2
      <4> HIDE DEF des, f, old, new
      <4>3. GenuineIn(fileDesc', des, host)
        BY <4>1, <4>2 DEF PutNew, Put, GenuineIn
      <4>4. host \in Hosts
        BY HostsFacts
      <4>5. /\ \A g \in Hosts : g # host => new[g] = old[g]
            /\ Len(old[host]) \in Nat
            /\ DOMAIN old[host] = 1..Len(old[host])
            /\ DOMAIN new[host] = 1..(Len(old[host]) + 1)
            /\ \A i \in 1..Len(old[host]) : new[host][i] = old[host][i]
            /\ new[host][Len(old[host]) + 1] = des
        BY <1>3, <4>2, <4>4, GrownSlices
      <4>6. ASSUME NEW h \in Hosts, NEW j \in DOMAIN new[h]
            PROVE  \/ j \in DOMAIN old[h] /\ new[h][j] = old[h][j]
                   \/ h = host /\ new[h][j] = des
        BY <4>5, <4>6
      <4> QED
        BY <2>3, <4>3, <4>6
    <3> QED
      BY <1>4, <3>1, <3>2
  <2>5. pc'[w] = "lost" => loc'[w].nodist[loc'[w].k].digest \in DOMAIN fileDesc'
    BY <1>1, <1>2, <1>4, <1>5 DEF Extends
  <2> QED
    BY <1>4, <2>4, <2>5 DEF OwnGenuine, Genuine, GenuineIn
<1> QED
  BY <1>1, <1>2, <1>5, SlicesAssemble, RecipesKeep DEF GenuineInv, DedupStep

\* Writing a recipe copies a slice.
LEMMA GenuineSetSlice ==
    ASSUME TypeInv, GenuineInv, NEW w \in Pushes, SetSlice(w)
    PROVE  GenuineInv'
<1>1. /\ UNCHANGED <<fileDesc, layerRecipe>>
      /\ faults' >= faults
      /\ Others(w)
      /\ pc'[w] \in {"register", "finish"}
      /\ loc'[w].slices = loc[w].slices
  BY SetSliceEffect
<1>2. Extends(fileDesc', fileDesc)
  BY <1>1, ExtendsRefl
<1>3. PICK sip \in Hosts : \/ UNCHANGED sliceRecipe
                           \/ sliceRecipe' = PutNew(sliceRecipe, <<w.layer, sip>>, loc[w].slices[sip])
  BY SetSliceEffect
<1>4. faults' = 0 => faults = 0
  BY <1>1 DEF TypeInv, TypeOK, MetadataTypeOK
<1>5. ASSUME faults' = 0 PROVE OwnGenuine(w)'
  BY <1>1, <1>4, <1>5 DEF GenuineInv, SlicesGenuine, OwnGenuine, Genuine
<1>6. RecipesGenuine'
  <2> SUFFICES ASSUME faults' = 0, NEW x \in DOMAIN sliceRecipe', NEW j \in DOMAIN sliceRecipe'[x]
               PROVE  GenuineIn(fileDesc, sliceRecipe'[x][j], x[2])
    BY <1>1 DEF RecipesGenuine, Genuine, GenuineIn
  <2>1. CASE x \in DOMAIN sliceRecipe /\ sliceRecipe'[x] = sliceRecipe[x]
    BY <1>4, <2>1 DEF GenuineInv, RecipesGenuine, Genuine, GenuineIn
  <2>2. CASE x = <<w.layer, sip>> /\ sliceRecipe'[x] = loc[w].slices[sip]
    BY <1>4, <2>2 DEF GenuineInv, SlicesGenuine, Genuine, GenuineIn
  <2> QED
    BY <1>3, <2>1, <2>2 DEF PutNew, Put
<1> QED
  BY <1>1, <1>2, <1>5, <1>6, SlicesAssemble, RecipesKeep DEF GenuineInv, DedupStep

\* A host with a slice is a server, for a registered chunk is on a server.
LEMMA GenuineLayer ==
    ASSUME TypeInv, GenuineInv, NEW w \in Pushes, SetEmptyRecipe(w) \/ SetLayer(w)
    PROVE  GenuineInv'
<1>1. /\ UNCHANGED <<fileDesc, sliceRecipe>>
      /\ faults' >= faults
      /\ Others(w)
      /\ pc'[w] = "finish" /\ loc'[w] = loc[w]
  BY LayerEffect
<1>2. Extends(fileDesc', fileDesc)
  BY <1>1, ExtendsRefl
<1>3. PICK hosts : /\ hosts = {} \/ hosts = SliceHosts(loc[w])
                   /\ \/ UNCHANGED layerRecipe
                      \/ layerRecipe' = PutNew(layerRecipe, w.layer, hosts)
  BY LayerEffect
<1>4. faults' = 0 => faults = 0
  BY <1>1 DEF TypeInv, TypeOK, MetadataTypeOK
<1>5. ASSUME faults' = 0 PROVE OwnGenuine(w)'
  BY <1>1, <1>4, <1>5 DEF GenuineInv, SlicesGenuine, OwnGenuine, Genuine
<1>6. ASSUME faults' = 0, NEW h \in hosts PROVE h \in Servers
  <2>1. h \in Hosts /\ loc[w].slices[h] # <<>>
    BY <1>3, <1>6 DEF SliceHosts
  <2>2. 1 \in DOMAIN loc[w].slices[h]
    BY <2>1, SliceType
  <2>3. Genuine(loc[w].slices[h][1], h)
    BY <1>4, <1>6, <2>1, <2>2 DEF GenuineInv, SlicesGenuine
  <2>4. \A c \in DOMAIN fileDesc : fileDesc[c].host \in Servers
    BY DEF TypeInv, TypeOK, MetadataTypeOK, IsMap, FileDescriptor
  <2> QED
    BY <2>3, <2>4 DEF Genuine
<1>7. HostsGenuine'
  <2> SUFFICES ASSUME faults' = 0, NEW l \in DOMAIN layerRecipe'
               PROVE  layerRecipe'[l] \subseteq Servers
    BY DEF HostsGenuine
  <2>1. CASE l \in DOMAIN layerRecipe /\ layerRecipe'[l] = layerRecipe[l]
    BY <1>4, <2>1 DEF GenuineInv, HostsGenuine
  <2>2. CASE layerRecipe'[l] = hosts
    BY <1>6, <2>2
  <2> QED
    BY <1>3, <2>1, <2>2 DEF PutNew, Put
<1> QED
  BY <1>1, <1>2, <1>5, <1>7, SlicesAssemble, RecipesKeep DEF GenuineInv, DedupStep

LEMMA GenuineDies ==
    ASSUME TypeInv, GenuineInv, NEW s \in Servers, ProcessDies(s)
    PROVE  GenuineInv'
<1>1. UNCHANGED <<fileDesc, sliceRecipe, layerRecipe, faults>>
  BY DiesEffect DEF metadataVars
<1>2. Extends(fileDesc', fileDesc) /\ faults' >= faults
  BY <1>1, ExtendsRefl DEF TypeInv, TypeOK, MetadataTypeOK
<1>3. SlicesGenuine'
  <2> SUFFICES ASSUME faults' = 0, NEW v \in Pushes PROVE OwnGenuine(v)'
    BY DEF SlicesGenuine, OwnGenuine
  <2>1. CASE pc'[v] = pc[v] /\ loc'[v] = loc[v]
    BY <1>2, <2>1, GenuineOthers
  <2>2. CASE loc'[v] = NoLocal /\ pc'[v] = IF Active(v) THEN "dead" ELSE pc[v]
    <3>1. pc'[v] \notin {"remove", "lost"}
      BY <2>2 DEF Active
    <3> QED
      BY <2>2, <3>1 DEF OwnGenuine, NoLocal
  <2> QED
    BY <2>1, <2>2, DiesEffect
<1> QED
  BY <1>1, <1>2, <1>3, RecipesKeep DEF GenuineInv

LEMMA GenuineStep == TypeInv /\ PathInv /\ GenuineInv /\ [Next]_vars => GenuineInv'
<1> SUFFICES ASSUME TypeInv, PathInv, GenuineInv, [Next]_vars PROVE GenuineInv'
  OBVIOUS
<1>1. ASSUME NEW w \in Pushes, Push(w) \/ DedupStep(w) PROVE GenuineInv'
  BY <1>1, GenuineQuietSteps, GenuineDuplicate, GenuineRegister, GenuineSetSlice, GenuineLayer
     DEF DedupStep
<1>2. ASSUME NEW s \in Servers, ProcessDies(s) PROVE GenuineInv'
  BY <1>2, GenuineDies
<1>3. ASSUME UNCHANGED vars PROVE GenuineInv'
  BY <1>3 DEF vars, metadataVars, workerVars, GenuineInv, SlicesGenuine, RecipesGenuine,
              HostsGenuine, Genuine
<1> QED
  BY <1>1, <1>2, <1>3, PushFacts DEF Next, Panic, Crash

\* Unless a Redis command failed, slices and slice recipes hold registered
\* descriptors that name their host, whoever wins the race for a digest.
LEMMA RecipesAreGenuine == Spec => []GenuineInv
<1>1. Init => GenuineInv
  BY GenuineInit
<1>2. TypeInv /\ FileInv /\ GenuineInv /\ [Next]_vars => GenuineInv'
  BY GenuineStep DEF FileInv
<1> QED
  BY <1>1, <1>2, TypeAlways, FilesAreConsistent, PTL DEF Spec

LEMMA EntriesServable == TypeInv /\ FileInv /\ GenuineInv => RecipesServable
<1> SUFFICES ASSUME TypeInv, FileInv, GenuineInv, Quiet, NEW x \in DOMAIN sliceRecipe,
                    NEW j \in DOMAIN sliceRecipe[x]
             PROVE  /\ sliceRecipe[x][j].path \in DOMAIN diff
                    /\ diff[sliceRecipe[x][j].path] = sliceRecipe[x][j].digest
                    /\ Cardinality(Servers) = 1 => sliceRecipe[x][j].path[1].srv = x[2]
  BY DEF RecipesServable
<1> DEFINE des == sliceRecipe[x][j]
<1>1. des.digest \in DOMAIN fileDesc /\ fileDesc[des.digest] = des /\ des.host = x[2]
  BY DEF Quiet, GenuineInv, RecipesGenuine, Genuine
<1>2. des.path \in DOMAIN diff /\ diff[des.path] = des.digest
  BY <1>1 DEF Quiet, FileInv, LiveInv, DescriptorsLive
<1>3. des.host \in Servers /\ des.path \in Path
  BY <1>1 DEF TypeInv, TypeOK, MetadataTypeOK, IsMap, FileDescriptor
<1> HIDE DEF des
<1>4. des.path[1].srv \in Servers
  BY <1>3, PushFacts DEF Path
<1>5. ASSUME Cardinality(Servers) = 1 PROVE des.path[1].srv = x[2]
  <2>1. PICK s : Servers = {s}
    BY <1>5, ServersAssumption, FS_Singleton
  <2> QED
    BY <1>1, <1>3, <1>4, <2>1
<1> QED
  BY <1>2, <1>5 DEF des

\* While no Redis command failed, no two dedups shared a directory and F-mode gave
\* up on no layer, every entry of every slice recipe can be packed: its file is
\* below diff/uniquefiles with the digest of the entry, whoever won the race for
\* it and whoever crashed, and on a single registry it is on the server that
\* constructs the slice.
THEOREM RecipesAreServable == Spec => []RecipesServable
BY EntriesServable, TypeAlways, FilesAreConsistent, RecipesAreGenuine, PTL

-----------------------------------------------------------------------------
(* The recipes hold the whole layer. *)

LEMMA WholeInit == Init => WholeInv
BY DEF Init, MetadataInit, EmptyMap, NoLocal, WholeInv, ScanCollects, SlicesOfLayer,
       SliceRecipesWhole, LayerRecipesWhole, Scanning

LEMMA ProductMonotone == \A a, b, c \in Nat : a <= b => a * c <= b * c
OBVIOUS

\* No chunk of a layer is empty, and the last one ends where the layer ends.
LEMMA ChunkBounds ==
    ASSUME NEW data \in Seq(Blocks), data # <<>>, NEW i \in 1..ChunkNum(data)
    PROVE  /\ (i - 1) * ChunkSize \in Nat
           /\ i * ChunkSize \in Nat
           /\ (i - 1) * ChunkSize + 1 <= Len(data)
           /\ i * ChunkSize = (i - 1) * ChunkSize + ChunkSize
           /\ i = ChunkNum(data) => i * ChunkSize >= Len(data)
<1> DEFINE n == Len(data)
           c == ChunkSize
           q == ChunkNum(data)
<1>1. n \in Nat /\ n >= 1
  OBVIOUS
<1>2. c \in Nat /\ c >= 1
  BY SizesAssumption
<1>3. q \in Nat /\ q >= 1
  BY ChunkNumPositive DEF Positive
<1>4. q = (n + c - 1) \div c
  BY DEF ChunkNum
<1> HIDE DEF n, c, q
<1>5. q * c <= n + c - 1 /\ n + c - 1 < q * c + c
  BY <1>1, <1>2, <1>3, <1>4
<1>6. i \in Nat /\ i - 1 \in Nat /\ i - 1 <= q - 1 /\ q - 1 \in Nat
  BY <1>3 DEF q
<1>7. (i - 1) * c <= (q - 1) * c
  BY <1>2, <1>6, ProductMonotone
<1>8. (q - 1) * c = q * c - c /\ i * c = (i - 1) * c + c
  BY <1>2, <1>3, <1>6
<1>9. (i - 1) * c \in Nat /\ i * c \in Nat /\ (q - 1) * c \in Nat /\ q * c \in Nat
  BY <1>2, <1>3, <1>6
<1>10. (i - 1) * c + 1 <= n
  BY <1>1, <1>2, <1>5, <1>7, <1>8, <1>9
<1>11. i = q => i * c >= n
  BY <1>1, <1>2, <1>5, <1>9
<1> QED
  BY <1>8, <1>9, <1>10, <1>11 DEF n, c, q

LEMMA ChunkNotEmpty ==
    ASSUME NEW data \in Seq(Blocks), data # <<>>, NEW i \in 1..ChunkNum(data)
    PROVE  Len(ChunkAt(data, i)) \in Nat /\ Len(ChunkAt(data, i)) > 0
<1> DEFINE a == (i - 1) * ChunkSize
           b == IF i * ChunkSize < Len(data) THEN i * ChunkSize ELSE Len(data)
<1>1. a \in Nat /\ b \in Nat /\ a + 1 <= b /\ b <= Len(data)
  BY ChunkBounds, SizesAssumption
<1> HIDE DEF a, b
<1>2. Len(SubSeq(data, a + 1, b)) = b - a
  BY <1>1
<1> QED
  BY <1>1, <1>2 DEF ChunkAt, a, b

LEMMA OfLayerNotEmpty ==
    ASSUME NEW l \in Layers, NEW c, OfLayer(c, l)
    PROVE  Len(c) \in Nat /\ Len(c) > 0
BY ContentAssumption, ChunkNotEmpty DEF OfLayer, ChunkIndices, ChunkOf

LEMMA WholeBefore ==
    ASSUME TypeInv, NEW w \in Pushes, Push(w) \/ DedupStep(w),
           faults' >= faults, events \subseteq events', Whole'
    PROVE  Whole
BY TidyBefore DEF Whole, TypeInv, TypeOK, MetadataTypeOK

\* What ScanCollects and SlicesOfLayer say of one push.
OwnCollects(w) ==
    /\ pc[w] \notin {"decide", "lost"}
    /\ pc[w] \in Scanning =>
          loc[w].no <= ChunkNum(Content[w.layer]) + 1 /\ Collected(w, loc[w].no - 1)
    /\ pc[w] = "register" => Collected(w, ChunkNum(Content[w.layer]))
OwnOfLayer(w) ==
    /\ \A j \in 1..Len(loc[w].nodist) : OfLayer(loc[w].nodist[j].digest, w.layer)
    /\ \A h \in Hosts :
          /\ \A j \in DOMAIN loc[w].slices[h] : OfLayer(loc[w].slices[h][j].digest, w.layer)
          /\ loc[w].slices[h] # <<>> => loc[w].size[h] > 0

LEMMA WholeOwn ==
    ASSUME WholeInv, Whole, NEW w \in Pushes
    PROVE  OwnCollects(w) /\ OwnOfLayer(w)
BY DEF WholeInv, ScanCollects, SlicesOfLayer, OwnCollects, OwnOfLayer

\* A push that does not move keeps what it has collected.
LEMMA CollectedKeeps ==
    ASSUME NEW v \in Pushes, Extends(fileDesc', fileDesc), NEW n, Collected(v, n),
           loc'[v].slices = loc[v].slices, loc'[v].nodist = loc[v].nodist,
           Pending(v)' = Pending(v)
    PROVE  Collected(v, n)'
<1> SUFFICES ASSUME NEW i \in 1..n, NEW c, c = ChunkOf(v.layer, i)
             PROVE  InSlices(loc[v].slices, c)' \/ ToRegister(v, c)'
  BY DEF Collected
<1>1. InSlices(loc[v].slices, c) \/ ToRegister(v, c)
  BY DEF Collected
<1>2. InSlices(loc[v].slices, c) => InSlices(loc[v].slices, c)'
  BY DEF InSlices, Extends
<1>3. ToRegister(v, c) => ToRegister(v, c)'
  BY DEF ToRegister
<1> QED
  BY <1>1, <1>2, <1>3

LEMMA WholeOthers ==
    ASSUME NEW v \in Pushes, Extends(fileDesc', fileDesc), pc'[v] = pc[v], loc'[v] = loc[v],
           OwnCollects(v) /\ OwnOfLayer(v)
    PROVE  OwnCollects(v)' /\ OwnOfLayer(v)'
<1>1. Pending(v)' = Pending(v)
  BY DEF Pending
<1>2. \A n : Collected(v, n) => Collected(v, n)'
  BY <1>1, CollectedKeeps
<1>3. OwnCollects(v)'
  <2>1. pc[v] \in Scanning => Collected(v, loc[v].no - 1)'
    BY <1>2 DEF OwnCollects
  <2>2. pc[v] = "register" => Collected(v, ChunkNum(Content[v.layer]))'
    BY <1>2 DEF OwnCollects
  <2> QED
    BY <2>1, <2>2 DEF OwnCollects, Collected
<1> QED
  BY <1>3 DEF OwnOfLayer

LEMMA WholeAssemble ==
    ASSUME TypeInv, WholeInv, NEW w \in Pushes, Push(w) \/ DedupStep(w), Others(w),
           faults' >= faults, events \subseteq events',
           Whole /\ Whole' => OwnCollects(w)' /\ OwnOfLayer(w)'
    PROVE  /\ ScanCollects' /\ SlicesOfLayer'
           /\ UNCHANGED sliceRecipe => SliceRecipesWhole'
           /\ UNCHANGED layerRecipe => LayerRecipesWhole'
<1>1. Extends(fileDesc', fileDesc)
  BY StepGrows DEF MetadataGrows
<1>2. Whole' => Whole
  BY WholeBefore
<1>3. ScanCollects' /\ SlicesOfLayer'
  <2> SUFFICES ASSUME Whole', NEW v \in Pushes PROVE OwnCollects(v)' /\ OwnOfLayer(v)'
    BY DEF ScanCollects, SlicesOfLayer, OwnCollects, OwnOfLayer
  <2>1. CASE v # w
    BY <1>1, <1>2, <2>1, WholeOwn, WholeOthers DEF Others
  <2> QED
    BY <1>2, <2>1
<1>4. UNCHANGED sliceRecipe => SliceRecipesWhole'
  BY <1>1, <1>2 DEF WholeInv, SliceRecipesWhole, Extends
<1>5. UNCHANGED layerRecipe => LayerRecipesWhole'
  BY <1>1, <1>2 DEF WholeInv, LayerRecipesWhole, Extends
<1> QED
  BY <1>3, <1>4, <1>5

\* Steps that collect nothing.
LEMMA WholeQuietSteps ==
    ASSUME TypeInv, WholeInv, NEW w \in Pushes,
           \/ Push(w) \/ ListUnpack(w) \/ CheckChunk(w) \/ AddExisting(w) \/ Finish(w)
           \/ OpenLayer(w) \/ StatRLMap(w) \/ SetRLMap(w) \/ Decode(w) \/ SplitFileChunk(w)
    PROVE  WholeInv'
<1> USE DEF BeforeScan, Scanning
<1> DEFINE Same == /\ loc'[w].slices = loc[w].slices /\ loc'[w].size = loc[w].size
                   /\ loc'[w].nodist = loc[w].nodist
<1>0. faults \in Nat
  BY DEF TypeInv, TypeOK, MetadataTypeOK
<1>1. /\ UNCHANGED <<fileDesc, sliceRecipe, layerRecipe>>
      /\ faults' >= faults
      /\ events \subseteq events'
      /\ Others(w)
      /\ \/ pc'[w] \in BeforeScan \cup {"done"} /\ Same
         \/ pc'[w] = "check" /\ loc'[w].no = 1 /\ Same
         \/ /\ pc[w] = "check" /\ (pc'[w] \in {"remove", "rename"} \/ faults' > 0)
            /\ loc'[w].no = loc[w].no /\ loc'[w].k = loc[w].k /\ Same
         \/ pc[w] = "lost"
         \/ pc'[w] = "done" /\ loc'[w] = NoLocal
  <2>1. CASE Push(w)
    BY <1>0, <2>1, GotoOne DEF Push, metadataVars
  <2>2. CASE ListUnpack(w)
    <3>1. loc[w].no = 1
      BY <2>2, ListUnpackEffect DEF TypeInv, LocalShape, Shape
    <3> QED
      BY <1>0, <2>2, <3>1, ListUnpackEffect DEF metadataVars
  <2>3. CASE CheckChunk(w)
    BY <2>3, CheckChunkEffect
  <2>4. CASE AddExisting(w)
    BY <2>4, AddExistingEffect
  <2>5. CASE Finish(w)
    <3>1. /\ UNCHANGED <<metadataVars, events>> /\ Others(w)
          /\ pc'[w] = "done" /\ loc'[w] = NoLocal
      BY <2>5, FinishEffect
    <3> QED
      BY <1>0, <3>1 DEF metadataVars
  <2>6. CASE OpenLayer(w) \/ StatRLMap(w) \/ SetRLMap(w) \/ Decode(w) \/ SplitFileChunk(w)
    BY <2>6, EarlyEffect
  <2> QED
    BY <2>1, <2>2, <2>3, <2>4, <2>5, <2>6
<1>2. ASSUME Whole, Whole' PROVE OwnCollects(w)' /\ OwnOfLayer(w)'
  <2>1. OwnCollects(w) /\ OwnOfLayer(w) /\ faults' = 0
    BY <1>2, WholeOwn DEF Whole
  <2>2. Same => OwnOfLayer(w)'
    BY <2>1 DEF OwnOfLayer
  <2>3. CASE pc'[w] \in BeforeScan \cup {"done"} /\ Same
    BY <2>2, <2>3 DEF OwnCollects
  <2>4. CASE pc'[w] = "check" /\ loc'[w].no = 1 /\ Same
    <3>1. ChunkNum(Content[w.layer]) \in Nat
      BY PushFacts, ContentAssumption, ChunkNumPositive DEF Positive
    <3> QED
      BY <2>2, <2>4, <3>1 DEF OwnCollects, Collected
  <2>5. CASE /\ pc[w] = "check" /\ (pc'[w] \in {"remove", "rename"} \/ faults' > 0)
             /\ loc'[w].no = loc[w].no /\ loc'[w].k = loc[w].k /\ Same
    <3>1. pc'[w] \in {"remove", "rename"} /\ Pending(w)' = Pending(w)
      BY <2>1, <2>5 DEF Pending
    <3>2. Collected(w, loc[w].no - 1)
      BY <2>1, <2>5 DEF OwnCollects
    <3>3. \A n : Collected(w, n) => Collected(w, n)'
      BY <1>1, <2>5, <3>1, CollectedKeeps, ExtendsRefl
    <3>4. Collected(w, loc[w].no - 1)'
      BY <2>5, <3>2, <3>3
    <3> QED
      BY <2>1, <2>2, <2>5, <3>1, <3>4 DEF OwnCollects
  <2>6. CASE pc'[w] = "done" /\ loc'[w] = NoLocal
    BY <2>6 DEF OwnCollects, OwnOfLayer, NoLocal
  <2> QED
    BY <1>1, <2>1, <2>3, <2>4, <2>5, <2>6 DEF OwnCollects
<1> QED
  BY <1>1, <1>2, WholeAssemble DEF WholeInv, DedupStep

\* The chunk that was digested is chunk number no of the layer.
LEMMA ScannedChunk ==
    ASSUME TypeInv, ScanInv, TidyInv, Whole, NEW w \in Pushes, pc[w] \in {"remove", "rename"}
    PROVE  /\ ChunkFile(w, loc[w].no) \in DOMAIN unpack
           /\ loc[w].no \in ChunkIndices(w.layer)
           /\ loc[w].dgst = ChunkOf(w.layer, loc[w].no)
           /\ OfLayer(loc[w].dgst, w.layer)
<1>1. /\ ChunkFile(w, loc[w].no) \in DOMAIN unpack
      /\ unpack[ChunkFile(w, loc[w].no)] = loc[w].dgst
  BY DEF ScanInv, ChunkPresent, Whole, Tidy
<1>2. ChunkFile(w, loc[w].no)[2] = w.layer /\ ChunkFile(w, loc[w].no)[3] = loc[w].no
  BY DEF ChunkFile
<1>3. loc[w].no <= ChunkNum(Content[w.layer]) /\ loc[w].dgst = ChunkAt(Content[w.layer], loc[w].no)
  BY <1>1, <1>2 DEF TidyInv, UnpackOwned, Whole
<1>4. ChunkNum(Content[w.layer]) \in Nat
  BY PushFacts, ContentAssumption, ChunkNumPositive DEF Positive
<1>5. loc[w].no \in Nat /\ loc[w].no >= 1
  BY DEF Positive, TypeInv, TypeOK, Local
<1>6. loc[w].no \in 1..ChunkNum(Content[w.layer])
  BY <1>3, <1>4, <1>5
<1> QED
  BY <1>1, <1>3, <1>6 DEF ChunkIndices, ChunkOf, OfLayer

HasEntry(slices, des) == \E j \in DOMAIN slices[des.host] : slices[des.host][j] = des
SliceOfLayer(slices, size, l) ==
    \A h \in Hosts :
        /\ \A j \in DOMAIN slices[h] : OfLayer(slices[h][j].digest, l)
        /\ slices[h] # <<>> => size[h] > 0

Grown(old, size, des, new, sizes) ==
    /\ new = [old EXCEPT ![des.host] = Append(@, des)]
    /\ sizes = [size EXCEPT ![des.host] = @ + Len(des.digest)]

\* One slice grows by a chunk of the layer.
LEMMA GrownContents ==
    ASSUME NEW old \in [Hosts -> Seq(SliceEntry)], NEW size \in [Hosts -> Nat],
           NEW l \in Layers, SliceOfLayer(old, size, l),
           NEW des, des.host \in Hosts, OfLayer(des.digest, l),
           NEW new, NEW sizes, Grown(old, size, des, new, sizes)
    PROVE  /\ HasEntry(new, des)
           /\ \A d : d.host \in Hosts /\ HasEntry(old, d) => HasEntry(new, d)
           /\ SliceOfLayer(new, sizes, l)
<1> DEFINE host == des.host
           c == des.digest
<1>0. /\ host \in Hosts /\ des.host = host /\ OfLayer(c, l) /\ des.digest = c
      /\ new = [old EXCEPT ![host] = Append(@, des)]
      /\ sizes = [size EXCEPT ![host] = @ + Len(c)]
  BY DEF Grown
<1> HIDE DEF host, c
<1>1. /\ \A g \in Hosts : g # host => new[g] = old[g]
      /\ Len(old[host]) \in Nat
      /\ DOMAIN old[host] = 1..Len(old[host])
      /\ DOMAIN new[host] = 1..(Len(old[host]) + 1)
      /\ \A i \in 1..Len(old[host]) : new[host][i] = old[host][i]
      /\ new[host][Len(old[host]) + 1] = des
  BY <1>0, GrownSlices
<1>2. Len(c) \in Nat /\ Len(c) > 0
  BY <1>0, OfLayerNotEmpty
<1>3. sizes[host] = size[host] + Len(c) /\ \A g \in Hosts : g # host => sizes[g] = size[g]
  BY <1>0
<1>4. sizes[host] > 0 /\ size[host] \in Nat
  BY <1>0, <1>2, <1>3
<1>5. HasEntry(new, des)
  <2>1. Len(old[host]) + 1 \in DOMAIN new[host]
    BY <1>1
  <2>2. \E j \in DOMAIN new[host] : new[host][j] = des
    BY <1>1, <2>1
  <2> QED
    BY <1>0, <2>2 DEF HasEntry
<1>6. ASSUME NEW d, d.host \in Hosts, HasEntry(old, d) PROVE HasEntry(new, d)
  <2>1. PICK j \in DOMAIN old[d.host] : old[d.host][j] = d
    BY <1>6 DEF HasEntry
  <2>2. j \in DOMAIN new[d.host] /\ new[d.host][j] = d
    <3>1. CASE d.host # host
      BY <1>1, <1>6, <2>1, <3>1
    <3>2. CASE d.host = host
      <4>1. j \in 1..Len(old[host]) /\ old[host][j] = d
        BY <1>1, <2>1, <3>2
      <4>2. j \in DOMAIN new[host] /\ new[host][j] = d
        BY <1>1, <4>1
      <4> QED
        BY <3>2, <4>2
    <3> QED
      BY <3>1, <3>2
  <2> QED
    BY <2>2 DEF HasEntry
<1>7. ASSUME NEW h \in Hosts
      PROVE  /\ \A j \in DOMAIN new[h] : OfLayer(new[h][j].digest, l)
             /\ new[h] # <<>> => sizes[h] > 0
  <2>1. CASE h # host
    BY <1>1, <1>3, <2>1 DEF SliceOfLayer
  <2>2. CASE h = host
    <3>1. ASSUME NEW j \in DOMAIN new[host] PROVE OfLayer(new[host][j].digest, l)
      <4>1. CASE j \in DOMAIN old[host]
        BY <1>0, <1>1, <4>1 DEF SliceOfLayer
      <4>2. CASE j = Len(old[host]) + 1
        BY <1>0, <1>1, <4>2
      <4> QED
        BY <1>1, <4>1, <4>2
    <3> QED
      BY <1>4, <2>2, <3>1
  <2> QED
    BY <2>1, <2>2
<1> QED
  BY <1>5, <1>6, <1>7 DEF SliceOfLayer

\* What a push has collected when its slices grow and n more chunks are in them.
LEMMA CollectsMore ==
    ASSUME NEW w \in Pushes, NEW n \in Nat, NEW m \in Nat,
           \A i \in 1..n : i <= m \/ InSlices(loc[w].slices, ChunkOf(w.layer, i))',
           Collected(w, m),
           \A x : InSlices(loc[w].slices, x) => InSlices(loc[w].slices, x)',
           \A x : ToRegister(w, x) => ToRegister(w, x)' \/ InSlices(loc[w].slices, x)'
    PROVE  Collected(w, n)'
<1> SUFFICES ASSUME NEW i \in 1..n, NEW x, x = ChunkOf(w.layer, i)
             PROVE  InSlices(loc[w].slices, x)' \/ ToRegister(w, x)'
  BY DEF Collected
<1>1. CASE i <= m
  BY <1>1 DEF Collected
<1> QED
  BY <1>1

\* A known chunk is collected in a slice.
LEMMA WholeDuplicate ==
    ASSUME TypeInv, ScanInv, TidyInv, GenuineInv, WholeInv, NEW w \in Pushes, DropDuplicate(w)
    PROVE  WholeInv'
<1> DEFINE no == loc[w].no
           des == loc[w].des
           old == loc[w].slices
           new == loc'[w].slices
           c == ChunkOf(w.layer, no)
<1>1. /\ UNCHANGED <<fileDesc, sliceRecipe, layerRecipe, faults>>
      /\ events \subseteq events'
      /\ Others(w)
      /\ pc[w] = "remove"
      /\ loc'[w].nodist = loc[w].nodist /\ loc'[w].k = loc[w].k
      /\ faults \in Nat
  BY DropDuplicateEffect DEF metadataVars, TypeInv, TypeOK, MetadataTypeOK
<1>2. ASSUME Whole, Whole' PROVE OwnCollects(w)' /\ OwnOfLayer(w)'
  <2>1. /\ ChunkFile(w, no) \in DOMAIN unpack
        /\ no \in ChunkIndices(w.layer)
        /\ loc[w].dgst = c
        /\ OfLayer(c, w.layer)
    BY <1>1, <1>2, ScannedChunk
  <2>2. /\ pc'[w] = "check"
        /\ loc'[w].no = no + 1
        /\ new = [old EXCEPT ![des.host] = Append(@, des)]
        /\ loc'[w].size = [loc[w].size EXCEPT ![des.host] = @ + Len(c)]
    BY <2>1, DropDuplicateEffect
  <2>3. c \in DOMAIN fileDesc /\ des = fileDesc[c] /\ des.digest = c
    BY <1>1, <1>2, <2>1 DEF GenuineInv, SlicesGenuine, Genuine, Whole
  <2>4. \A x \in DOMAIN fileDesc : fileDesc[x].host \in Hosts
    BY HostsFacts DEF TypeInv, TypeOK, MetadataTypeOK, IsMap, FileDescriptor
  <2>5. OwnCollects(w) /\ OwnOfLayer(w)
    BY <1>2, WholeOwn
  <2>6. old \in [Hosts -> Seq(SliceEntry)] /\ loc[w].size \in [Hosts -> Nat] /\ w.layer \in Layers
    BY SliceType, PushFacts
  <2>7. no \in Nat /\ no >= 1 /\ no <= ChunkNum(Content[w.layer])
    BY <2>1 DEF ChunkIndices, TypeInv, TypeOK, Local, Positive
  <2>8. SliceOfLayer(old, loc[w].size, w.layer)
    BY <2>5 DEF OwnOfLayer, SliceOfLayer
  <2>9. Pending(w)' = Pending(w)
    BY <1>1, <2>2 DEF Pending
  <2>10. /\ HasEntry(new, des)
         /\ \A d : d.host \in Hosts /\ HasEntry(old, d) => HasEntry(new, d)
         /\ SliceOfLayer(new, loc'[w].size, w.layer)
    <3> DEFINE size == loc[w].size
               sizes == loc'[w].size
    <3>1. des.host \in Hosts /\ OfLayer(des.digest, w.layer) /\ w.layer \in Layers
      BY <2>1, <2>3, <2>4, <2>6
    <3>2. Grown(old, size, des, new, sizes)
      BY <2>2, <2>3 DEF Grown
    <3>3. /\ old \in [Hosts -> Seq(SliceEntry)] /\ size \in [Hosts -> Nat]
          /\ SliceOfLayer(old, size, w.layer)
      BY <2>6, <2>8
    <3> HIDE DEF old, new, des, size, sizes
    <3>4. /\ HasEntry(new, des)
          /\ \A d : d.host \in Hosts /\ HasEntry(old, d) => HasEntry(new, d)
          /\ SliceOfLayer(new, sizes, w.layer)
      BY <3>1, <3>2, <3>3, GrownContents
    <3> QED
      BY <3>4 DEF sizes
  <2>11. \A x : InSlices(old, x) => InSlices(loc[w].slices, x)'
    <3> HIDE DEF des, c
    <3> QED
      BY <1>1, <2>4, <2>10 DEF InSlices, HasEntry
  <2>12. ASSUME NEW x, x = c PROVE InSlices(loc[w].slices, x)'
    <3> HIDE DEF des, c
    <3> QED
      BY <1>1, <2>3, <2>10, <2>12 DEF InSlices, HasEntry
  <2>13. \A x : ToRegister(w, x) => ToRegister(w, x)'
    BY <1>1, <2>9 DEF ToRegister
  <2>14. Collected(w, no - 1) /\ no - 1 \in Nat
    BY <1>1, <2>5, <2>7 DEF OwnCollects, Scanning
  <2>15. \A i \in 1..no : i <= no - 1 \/ InSlices(loc[w].slices, ChunkOf(w.layer, i))'
    <3> SUFFICES ASSUME NEW i \in 1..no, ~(i <= no - 1)
                 PROVE  InSlices(loc[w].slices, ChunkOf(w.layer, i))'
      OBVIOUS
    <3>1. i = no
      BY <2>7
    <3> QED
      BY <2>12, <3>1
  <2>16. \A n : n = no => Collected(w, n)'
    <3> HIDE DEF no
    <3> QED
      BY <2>7, <2>11, <2>13, <2>14, <2>15, CollectsMore DEF old
  <2>17. Collected(w, loc[w].no - 1)'
    <3>1. loc'[w].no - 1 = no
      BY <2>2, <2>7
    <3> QED
      BY <2>16, <3>1 DEF Collected
  <2>18. OwnOfLayer(w)'
    BY <1>1, <2>5, <2>10 DEF OwnOfLayer, SliceOfLayer
  <2>19. loc'[w].no <= ChunkNum(Content[w.layer]) + 1
    <3>1. ChunkNum(Content[w.layer]) \in Nat
      BY PushFacts, ContentAssumption, ChunkNumPositive DEF Positive
    <3> QED
      BY <2>2, <2>7, <3>1
  <2> QED
    BY <2>2, <2>17, <2>18, <2>19 DEF OwnCollects
<1> QED
  BY <1>1, <1>2, WholeAssemble DEF WholeInv, DedupStep

\* A new chunk will be offered to SETNX.
LEMMA WholeRename ==
    ASSUME TypeInv, ScanInv, TidyInv, WholeInv, NEW w \in Pushes, RenameUnique(w)
    PROVE  WholeInv'
<1> DEFINE no == loc[w].no
           old == loc[w].nodist
           file == [digest |-> loc[w].dgst, path |-> <<w, no>>]
           new == loc'[w].nodist
<1>1. /\ UNCHANGED <<fileDesc, sliceRecipe, layerRecipe, faults>>
      /\ events \subseteq events'
      /\ Others(w)
      /\ pc[w] = "rename"
      /\ loc'[w].slices = loc[w].slices /\ loc'[w].size = loc[w].size /\ loc'[w].k = loc[w].k
      /\ faults \in Nat
  BY RenameUniqueEffect DEF metadataVars, TypeInv, TypeOK, MetadataTypeOK
<1>2. ASSUME Whole, Whole' PROVE OwnCollects(w)' /\ OwnOfLayer(w)'
  <2>1. /\ ChunkFile(w, no) \in DOMAIN unpack
        /\ no \in ChunkIndices(w.layer)
        /\ loc[w].dgst = ChunkOf(w.layer, no)
        /\ OfLayer(loc[w].dgst, w.layer)
    BY <1>1, <1>2, ScannedChunk
  <2>2. pc'[w] = "check" /\ loc'[w].no = no + 1 /\ new = Append(old, file)
    BY <2>1, RenameUniqueEffect
  <2>3. OwnCollects(w) /\ OwnOfLayer(w)
    BY <1>2, WholeOwn
  <2>4. no \in Nat /\ no >= 1 /\ no <= ChunkNum(Content[w.layer])
    BY <2>1 DEF ChunkIndices, TypeInv, TypeOK, Local, Positive
  <2>5. old \in Seq(UniqueFile) /\ loc[w].k = 1
    BY <1>1 DEF TypeInv, TypeOK, Local, LocalShape, Shape, BeforeRegister, Scanning
  <2>6. file.digest = ChunkOf(w.layer, no) /\ OfLayer(file.digest, w.layer)
    BY <2>1
  <2>7. /\ Len(old) \in Nat
        /\ Len(new) = Len(old) + 1
        /\ \A j \in 1..Len(old) : new[j] = old[j]
        /\ new[Len(old) + 1] = file
    <3> HIDE DEF file, old, new
    <3>1. old \in Seq(UniqueFile \cup {file}) /\ file \in UniqueFile \cup {file}
      BY <2>5
    <3> QED
      BY <2>2, <3>1
  <2>8. Pending(w) = 1..Len(old) /\ Pending(w)' = 1..Len(new)
    BY <1>1, <2>2, <2>5 DEF Pending
  <2> HIDE DEF file
  <2>9. \A x : ToRegister(w, x) => ToRegister(w, x)'
    <3> SUFFICES ASSUME NEW x, ToRegister(w, x) PROVE ToRegister(w, x)'
      OBVIOUS
    <3>1. PICK j \in 1..Len(old) : old[j].digest = x
      BY <2>8 DEF ToRegister
    <3>2. new[j].digest = x
      BY <2>7, <3>1
    <3>3. j \in Pending(w)'
      BY <2>7, <2>8
    <3> QED  BY <3>2, <3>3 DEF ToRegister
  <2>10. ASSUME NEW x, x = ChunkOf(w.layer, no) PROVE ToRegister(w, x)'
    <3>1. Len(old) + 1 \in 1..Len(new) /\ new[Len(old) + 1].digest = x
      BY <2>6, <2>7, <2>10
    <3> QED
      BY <2>8, <3>1 DEF ToRegister
  <2>11. \A x : InSlices(loc[w].slices, x) => InSlices(loc[w].slices, x)'
    BY <1>1 DEF InSlices
  <2>12. Collected(w, no - 1)
    BY <1>1, <2>3 DEF OwnCollects, Scanning
  <2>13. \A n : n = no => Collected(w, n)'
    <3> SUFFICES ASSUME NEW n, n = no, NEW i \in 1..n, NEW x, x = ChunkOf(w.layer, i)
                 PROVE  InSlices(loc[w].slices, x)' \/ ToRegister(w, x)'
      BY DEF Collected
    <3>1. CASE i = no
      BY <2>10, <3>1
    <3>2. CASE i # no
      <4>1. i \in 1..(no - 1)
        BY <2>4, <3>2
      <4>2. InSlices(loc[w].slices, x) \/ ToRegister(w, x)
        BY <2>12, <4>1 DEF Collected
      <4> QED
        BY <2>9, <2>11, <4>2
    <3> QED
      BY <3>1, <3>2
  <2>14. Collected(w, loc[w].no - 1)'
    <3>1. loc'[w].no - 1 = no
      BY <2>2, <2>4
    <3> QED
      BY <2>13, <3>1 DEF Collected
  <2>15. \A j \in 1..Len(new) : OfLayer(new[j].digest, w.layer)
    <3> SUFFICES ASSUME NEW j \in 1..Len(new) PROVE OfLayer(new[j].digest, w.layer)
      OBVIOUS
    <3>1. CASE j \in 1..Len(old)
      BY <2>3, <2>7, <3>1 DEF OwnOfLayer
    <3>2. CASE j = Len(old) + 1
      BY <2>6, <2>7, <3>2
    <3>3. j \in 1..Len(old) \/ j = Len(old) + 1
      <4> HIDE DEF old, new
      <4> QED  BY <2>7
    <3> QED
      BY <3>1, <3>2, <3>3
  <2>16. OwnOfLayer(w)'
    BY <1>1, <2>3, <2>15 DEF OwnOfLayer
  <2>17. loc'[w].no <= ChunkNum(Content[w.layer]) + 1
    <3>1. ChunkNum(Content[w.layer]) \in Nat
      BY PushFacts, ContentAssumption, ChunkNumPositive DEF Positive
    <3> QED
      BY <2>2, <2>4, <3>1
  <2> QED
    BY <2>2, <2>14, <2>16, <2>17 DEF OwnCollects
<1> QED
  BY <1>1, <1>2, WholeAssemble DEF WholeInv, DedupStep

\* After the last chunk all of them are collected; sorting loses none.
LEMMA WholeDecide ==
    ASSUME TypeInv, OwnedPaths, TidyInv, WholeInv, NEW w \in Pushes, Decide(w)
    PROVE  WholeInv'
<1> DEFINE old == loc[w].nodist
           new == loc'[w].nodist
<1>1. /\ UNCHANGED <<fileDesc, sliceRecipe, layerRecipe, faults>>
      /\ events \subseteq events'
      /\ Others(w)
      /\ faults \in Nat
      /\ pc[w] = "decide" \/ (pc[w] = "check" /\ loc[w].no > loc[w].fcnt)
  BY DecideEffect DEF metadataVars, TypeInv, TypeOK, MetadataTypeOK
<1>2. ASSUME Whole, Whole' PROVE OwnCollects(w)' /\ OwnOfLayer(w)'
  <2>1. OwnCollects(w) /\ OwnOfLayer(w)
    BY <1>2, WholeOwn
  <2>2. pc[w] = "check" /\ loc[w].no > loc[w].fcnt
    BY <1>1, <2>1 DEF OwnCollects
  <2>3. loc[w].fcnt = ChunkNum(Content[w.layer])
    BY <1>2, <2>2 DEF TidyInv, AllListed, Whole, Scanning
  <2>4. /\ loc[w].no \in Nat /\ loc[w].k = 1
        /\ old \in Seq(UniqueFile)
    BY <2>2 DEF TypeInv, TypeOK, Local, Positive, LocalShape, Shape, BeforeRegister, Scanning
  <2>5. ChunkNum(Content[w.layer]) \in Nat
    BY PushFacts, ContentAssumption, ChunkNumPositive DEF Positive
  <2>6. loc[w].no <= ChunkNum(Content[w.layer]) + 1 /\ Collected(w, loc[w].no - 1)
    BY <2>1, <2>2 DEF OwnCollects, Scanning
  <2>7. loc[w].no - 1 = ChunkNum(Content[w.layer])
    BY <2>2, <2>3, <2>4, <2>5, <2>6
  <2>8. Collected(w, ChunkNum(Content[w.layer]))
    BY <2>6, <2>7
  <2>9. CASE pc'[w] \in {"empty", "finish"} /\ loc'[w] = loc[w]
    BY <2>1, <2>9 DEF OwnCollects, OwnOfLayer, Scanning
  <2>10. CASE /\ pc'[w] = "register"
              /\ new = old \/ new \in BySizeDescending(old)
              /\ loc'[w].slices = loc[w].slices /\ loc'[w].size = loc[w].size
              /\ loc'[w].k = loc[w].k
    <3>1. \A i, j \in 1..Len(old) : i # j => old[i] # old[j]
      BY DEF OwnedPaths
    <3>2. /\ Len(new) = Len(old)
          /\ \A i \in 1..Len(new) : \E j \in 1..Len(old) : new[i] = old[j]
          /\ \A i \in 1..Len(old) : \E j \in 1..Len(new) : new[j] = old[i]
      <4> HIDE DEF old, new
      <4>1. CASE new = old
        BY <4>1
      <4>2. CASE new \in BySizeDescending(old)
        BY <2>4, <3>1, <4>2, SortKeepsFiles, SortLosesNothing
      <4> QED
        BY <2>10, <4>1, <4>2
    <3>3. Pending(w) = 1..Len(old) /\ Pending(w)' = 1..Len(new)
      BY <2>2, <2>4, <2>10 DEF Pending
    <3>4. \A x : ToRegister(w, x) => ToRegister(w, x)'
      <4> SUFFICES ASSUME NEW x, NEW i \in 1..Len(old), old[i].digest = x
                   PROVE  \E j \in 1..Len(new) : new[j].digest = x
        BY <3>3 DEF ToRegister
      <4> HIDE DEF old, new
      <4> QED
        BY <3>2
    <3>5. \A x : InSlices(loc[w].slices, x) => InSlices(loc[w].slices, x)'
      BY <1>1, <2>10 DEF InSlices
    <3>6. Collected(w, ChunkNum(Content[w.layer]))'
      BY <2>8, <3>4, <3>5 DEF Collected
    <3>7. \A j \in 1..Len(new) : OfLayer(new[j].digest, w.layer)
      <4>1. \A j \in 1..Len(old) : OfLayer(old[j].digest, w.layer)
        BY <2>1 DEF OwnOfLayer
      <4> HIDE DEF old, new
      <4> QED
        BY <3>2, <4>1
    <3>8. OwnOfLayer(w)'
      BY <2>1, <2>10, <3>7 DEF OwnOfLayer
    <3> QED
      BY <2>10, <3>6, <3>8 DEF OwnCollects, Scanning
  <2> QED
    BY <2>9, <2>10, DecideEffect
<1> QED
  BY <1>1, <1>2, WholeAssemble DEF WholeInv, DedupStep

\* A chunk that is registered goes from the new chunks into a slice.
LEMMA WholeRegister ==
    ASSUME TypeInv, WholeInv, NEW w \in Pushes, RegisterFile(w)
    PROVE  WholeInv'
<1> DEFINE k == loc[w].k
           f == loc[w].nodist[k]
           D(h) == [digest |-> f.digest, path |-> f.path, host |-> h]
           old == loc[w].slices
           new == loc'[w].slices
           size == loc[w].size
           sizes == loc'[w].size
           n == ChunkNum(Content[w.layer])
<1>1. /\ UNCHANGED <<sliceRecipe, layerRecipe>>
      /\ faults' >= faults
      /\ events \subseteq events'
      /\ Others(w)
      /\ pc[w] = "register"
      /\ k \in 1..Len(loc[w].nodist)
      /\ loc'[w].nodist = loc[w].nodist
  BY RegisterFileEffect
<1>2. Extends(fileDesc', fileDesc)
  BY StepGrows DEF MetadataGrows, DedupStep
<1>3. ASSUME Whole, Whole' PROVE OwnCollects(w)' /\ OwnOfLayer(w)'
  <2>1. faults' = 0 /\ "lostRace" \notin events'
    BY <1>3 DEF Whole
  <2>2. PICK host \in Servers :
           /\ fileDesc' = PutNew(fileDesc, f.digest, D(host))
           /\ f.digest \notin DOMAIN fileDesc
           /\ pc'[w] = "register"
           /\ loc'[w].k = k + 1
           /\ new = [old EXCEPT ![host] = Append(@, D(host))]
           /\ sizes = [size EXCEPT ![host] = @ + Len(f.digest)]
    BY <2>1, RegisterFileEffect
  <2> DEFINE des == D(host)
  <2>3. /\ des.host = host /\ des.digest = f.digest
        /\ fileDesc' = PutNew(fileDesc, f.digest, des)
        /\ Grown(old, size, des, new, sizes)
    BY <2>2 DEF Grown
  <2>4. OwnCollects(w) /\ OwnOfLayer(w)
    BY <1>3, WholeOwn
  <2>5. OfLayer(f.digest, w.layer) /\ SliceOfLayer(old, size, w.layer)
    BY <1>1, <2>4 DEF OwnOfLayer, SliceOfLayer
  <2>6. old \in [Hosts -> Seq(SliceEntry)] /\ size \in [Hosts -> Nat] /\ w.layer \in Layers
    BY SliceType, PushFacts
  <2>7. host \in Hosts
    BY HostsFacts
  <2> HIDE DEF des, D
  <2>8. /\ HasEntry(new, des)
        /\ \A d : d.host \in Hosts /\ HasEntry(old, d) => HasEntry(new, d)
        /\ SliceOfLayer(new, sizes, w.layer)
    <3> HIDE DEF old, new, size, sizes, f
    <3>1. des.host \in Hosts /\ OfLayer(des.digest, w.layer)
      BY <2>3, <2>5, <2>7
    <3>2. Grown(old, size, des, new, sizes) /\ SliceOfLayer(old, size, w.layer)
      BY <2>3, <2>5
    <3> QED
      BY <2>6, <3>1, <3>2, GrownContents
  <2>9. f.digest \in DOMAIN fileDesc' /\ fileDesc'[f.digest] = des
    <3>1. f.digest \notin DOMAIN fileDesc /\ fileDesc' = PutNew(fileDesc, f.digest, des)
      BY <2>2, <2>3
    <3> HIDE DEF f
    <3>2. fileDesc' = Put(fileDesc, f.digest, des)
      BY <3>1 DEF PutNew
    <3> QED  BY <3>2 DEF Put
  <2>10. \A x : InSlices(old, x) => InSlices(loc[w].slices, x)'
    <3>1. \A x \in DOMAIN fileDesc : fileDesc[x].host \in Hosts
      BY HostsFacts DEF TypeInv, TypeOK, MetadataTypeOK, IsMap, FileDescriptor
    <3>2. \A x \in DOMAIN fileDesc : x \in DOMAIN fileDesc' /\ fileDesc'[x] = fileDesc[x]
      BY <1>2 DEF Extends
    <3> QED
      BY <2>8, <3>1, <3>2 DEF InSlices, HasEntry
  <2>11. ASSUME NEW x, x = f.digest PROVE InSlices(loc[w].slices, x)'
    <3> HIDE DEF f
    <3> QED
      BY <2>8, <2>9, <2>11 DEF InSlices, HasEntry
  <2>12. k \in Nat /\ Len(loc[w].nodist) \in Nat
    BY LocNumbers
  <2>13. Pending(w) = k..Len(loc[w].nodist) /\ Pending(w)' = (k + 1)..Len(loc[w].nodist)
    BY <1>1, <2>2 DEF Pending
  <2>14. ASSUME NEW x, ToRegister(w, x) PROVE ToRegister(w, x)' \/ InSlices(loc[w].slices, x)'
    <3>1. PICK j \in Pending(w) : loc[w].nodist[j].digest = x
      BY <2>14 DEF ToRegister
    <3>2. CASE j = k
      BY <2>11, <3>1, <3>2
    <3>3. CASE j # k
      <4>1. j \in (k + 1)..Len(loc[w].nodist)
        BY <2>12, <2>13, <3>1, <3>3
      <4> QED
        BY <1>1, <2>13, <3>1, <4>1 DEF ToRegister
    <3> QED
      BY <3>2, <3>3
  <2>15. Collected(w, n)'
    <3>1. Collected(w, n)
      BY <1>1, <2>4 DEF OwnCollects
    <3> QED
      BY <2>10, <2>14, <3>1 DEF Collected
  <2>16. OwnOfLayer(w)'
    BY <1>1, <2>4, <2>8 DEF OwnOfLayer, SliceOfLayer
  <2> QED
    BY <2>2, <2>15, <2>16 DEF OwnCollects, Scanning
<1> QED
  BY <1>1, <1>3, WholeAssemble DEF WholeInv, DedupStep

\* When every new chunk was offered, each chunk of the layer is in a slice.
LEMMA AllInSlices ==
    ASSUME WholeInv, Whole, NEW w \in Pushes, pc[w] = "register",
           loc[w].k \in Nat, Len(loc[w].nodist) \in Nat, loc[w].k > Len(loc[w].nodist),
           NEW i \in ChunkIndices(w.layer)
    PROVE  InSlices(loc[w].slices, ChunkOf(w.layer, i))
<1>1. Pending(w) = {}
  BY DEF Pending
<1>2. Collected(w, ChunkNum(Content[w.layer]))
  BY WholeOwn DEF OwnCollects
<1> QED
  BY <1>1, <1>2 DEF Collected, ToRegister, ChunkIndices

LEMMA WholeSetSlice ==
    ASSUME TypeInv, WholeInv, NEW w \in Pushes, SetSlice(w)
    PROVE  WholeInv'
<1>1. /\ UNCHANGED <<fileDesc, layerRecipe, events>>
      /\ faults' >= faults
      /\ Others(w)
      /\ pc[w] = "register" /\ loc[w].k > Len(loc[w].nodist)
      /\ loc'[w].k = loc[w].k /\ loc'[w].nodist = loc[w].nodist
      /\ loc'[w].slices = loc[w].slices /\ loc'[w].size = loc[w].size
  BY SetSliceEffect
<1>2. PICK sip \in Hosts :
         \/ /\ sliceRecipe' = PutNew(sliceRecipe, <<w.layer, sip>>, loc[w].slices[sip])
            /\ pc'[w] = "register"
         \/ faults' > 0
  BY SetSliceEffect
<1>3. loc[w].k \in Nat /\ Len(loc[w].nodist) \in Nat
  BY LocNumbers
<1>4. ASSUME Whole, Whole'
      PROVE  /\ sliceRecipe' = PutNew(sliceRecipe, <<w.layer, sip>>, loc[w].slices[sip])
             /\ pc'[w] = "register"
  BY <1>2, <1>4 DEF Whole
<1>5. ASSUME Whole, Whole' PROVE OwnCollects(w)' /\ OwnOfLayer(w)'
  <2>1. OwnCollects(w) /\ OwnOfLayer(w)
    BY <1>5, WholeOwn
  <2>2. Pending(w)' = Pending(w) /\ pc'[w] = "register"
    BY <1>1, <1>4, <1>5 DEF Pending
  <2>3. Collected(w, ChunkNum(Content[w.layer]))
    BY <1>1, <2>1 DEF OwnCollects
  <2>4. \A n : Collected(w, n) => Collected(w, n)'
    BY <1>1, <2>2, CollectedKeeps, ExtendsRefl
  <2>5. Collected(w, ChunkNum(Content[w.layer]))'
    BY <2>3, <2>4
  <2>6. OwnOfLayer(w)'
    BY <1>1, <2>1 DEF OwnOfLayer
  <2> QED
    BY <2>2, <2>5, <2>6 DEF OwnCollects, Scanning
<1>6. SliceRecipesWhole'
  <2> SUFFICES ASSUME Whole', NEW x \in DOMAIN sliceRecipe'
               PROVE  /\ \A j \in DOMAIN sliceRecipe'[x] : OfLayer(sliceRecipe'[x][j].digest, x[1])
                      /\ \A i \in ChunkIndices(x[1]) :
                            /\ ChunkOf(x[1], i) \in DOMAIN fileDesc
                            /\ fileDesc[ChunkOf(x[1], i)].host = x[2] =>
                                  \E j \in DOMAIN sliceRecipe'[x] :
                                      sliceRecipe'[x][j] = fileDesc[ChunkOf(x[1], i)]
    BY <1>1 DEF SliceRecipesWhole
  <2>1. Whole
    BY <1>1, WholeBefore DEF DedupStep
  <2>2. CASE x \in DOMAIN sliceRecipe /\ sliceRecipe'[x] = sliceRecipe[x]
    BY <2>1, <2>2 DEF WholeInv, SliceRecipesWhole
  <2>3. CASE x = <<w.layer, sip>> /\ sliceRecipe'[x] = loc[w].slices[sip]
    <3>1. x[1] = w.layer /\ x[2] = sip
      BY <2>3
    <3>2. \A j \in DOMAIN loc[w].slices[sip] : OfLayer(loc[w].slices[sip][j].digest, w.layer)
      BY <2>1, WholeOwn DEF OwnOfLayer
    <3>3. \A i \in ChunkIndices(w.layer) : InSlices(loc[w].slices, ChunkOf(w.layer, i))
      BY <1>1, <1>3, <2>1, AllInSlices
    <3> QED
      BY <2>3, <3>1, <3>2, <3>3 DEF InSlices
  <2> QED
    BY <1>4, <2>1, <2>2, <2>3 DEF PutNew, Put
<1> QED
  BY <1>1, <1>5, <1>6, WholeAssemble DEF WholeInv, DedupStep

LEMMA WholeLayer ==
    ASSUME TypeInv, ScanInv, WholeInv, NEW w \in Pushes, SetEmptyRecipe(w) \/ SetLayer(w)
    PROVE  WholeInv'
<1>1. /\ UNCHANGED <<fileDesc, sliceRecipe, events>>
      /\ faults' >= faults
      /\ Others(w)
      /\ pc[w] = "empty" \/ (pc[w] = "register" /\ loc[w].k > Len(loc[w].nodist))
      /\ pc'[w] = "finish" /\ loc'[w] = loc[w]
  BY LayerEffect
<1>2. PICK hosts :
         /\ pc[w] = "register" => hosts = SliceHosts(loc[w])
         /\ \/ UNCHANGED layerRecipe
            \/ layerRecipe' = PutNew(layerRecipe, w.layer, hosts)
  BY LayerEffect
<1>3. ASSUME Whole, Whole' PROVE OwnCollects(w)' /\ OwnOfLayer(w)'
  BY <1>1, <1>3, WholeOwn DEF OwnCollects, OwnOfLayer, Scanning
<1>4. LayerRecipesWhole'
  <2> SUFFICES ASSUME Whole', NEW l \in DOMAIN layerRecipe', NEW i \in ChunkIndices(l)
               PROVE  /\ ChunkOf(l, i) \in DOMAIN fileDesc
                      /\ fileDesc[ChunkOf(l, i)].host \in layerRecipe'[l]
    BY <1>1 DEF LayerRecipesWhole
  <2>1. Whole
    BY <1>1, WholeBefore DEF DedupStep
  <2>2. CASE l \in DOMAIN layerRecipe /\ layerRecipe'[l] = layerRecipe[l]
    BY <2>1, <2>2 DEF WholeInv, LayerRecipesWhole
  <2>3. CASE l = w.layer /\ layerRecipe'[l] = hosts
    <3>1. pc[w] = "register" /\ loc[w].k > Len(loc[w].nodist)
      BY <1>1, <2>1 DEF ScanInv, ChunkPresent, Whole, Tidy
    <3>2. loc[w].k \in Nat /\ Len(loc[w].nodist) \in Nat
      BY LocNumbers
    <3> DEFINE c == ChunkOf(w.layer, i)
    <3>3. InSlices(loc[w].slices, c)
      BY <2>1, <2>3, <3>1, <3>2, AllInSlices
    <3> HIDE DEF c
    <3>4. c \in DOMAIN fileDesc /\ fileDesc[c].host \in Hosts
      BY <3>3, HostsFacts DEF InSlices, TypeInv, TypeOK, MetadataTypeOK, IsMap, FileDescriptor
    <3>5. loc[w].slices[fileDesc[c].host] # <<>>
      BY <3>3 DEF InSlices
    <3>6. loc[w].size[fileDesc[c].host] > 0
      BY <2>1, <3>4, <3>5, WholeOwn DEF OwnOfLayer
    <3>7. fileDesc[c].host \in SliceHosts(loc[w])
      BY <3>4, <3>5, <3>6 DEF SliceHosts
    <3> QED
      BY <1>2, <2>3, <3>1, <3>4, <3>7 DEF c
  <2> QED
    BY <1>2, <2>2, <2>3 DEF PutNew, Put
<1> QED
  BY <1>1, <1>3, <1>4, WholeAssemble DEF WholeInv, DedupStep

LEMMA WholeStep ==
    TypeInv /\ FileInv /\ TidyInv /\ GenuineInv /\ WholeInv /\ [Next]_vars => WholeInv'
<1> SUFFICES ASSUME TypeInv, FileInv, TidyInv, GenuineInv, WholeInv, [Next]_vars
             PROVE  WholeInv'
  OBVIOUS
<1>1. OwnedPaths /\ ScanInv
  BY DEF FileInv, PathInv
<1>2. ASSUME NEW w \in Pushes, Push(w) \/ DedupStep(w) PROVE WholeInv'
  BY <1>1, <1>2, WholeQuietSteps, WholeDuplicate, WholeRename, WholeDecide, WholeRegister,
     WholeSetSlice, WholeLayer DEF DedupStep
<1>3. ASSUME NEW s \in Servers, ProcessDies(s) PROVE WholeInv'
  <2>1. crashes' > 0
    BY <1>3, DiesEffect
  <2>2. ~Whole'
    BY <2>1 DEF Whole, Tidy
  <2> QED
    BY <2>2 DEF WholeInv, ScanCollects, SlicesOfLayer, SliceRecipesWhole, LayerRecipesWhole
<1>4. ASSUME UNCHANGED vars PROVE WholeInv'
  <2>1. UNCHANGED <<fileDesc, sliceRecipe, layerRecipe, pc, loc, faults, crashes, events>>
    BY <1>4 DEF vars, metadataVars, workerVars, historyVars
  <2>2. Whole' => Whole
    BY <2>1 DEF Whole, Tidy
  <2>3. ScanCollects' /\ SlicesOfLayer'
    <3> SUFFICES ASSUME Whole', NEW v \in Pushes PROVE OwnCollects(v)' /\ OwnOfLayer(v)'
      BY DEF ScanCollects, SlicesOfLayer, OwnCollects, OwnOfLayer
    <3> QED
      BY <2>1, <2>2, WholeOwn, WholeOthers, ExtendsRefl
  <2>4. SliceRecipesWhole' /\ LayerRecipesWhole'
    BY <2>1, <2>2 DEF WholeInv, SliceRecipesWhole, LayerRecipesWhole
  <2> QED
    BY <2>3, <2>4 DEF WholeInv
<1> QED
  BY <1>2, <1>3, <1>4, PushFacts DEF Next, Panic, Crash

LEMMA WholeAlways == Spec => []WholeInv
<1> QED
  BY WholeInit, WholeStep, TypeAlways, FilesAreConsistent, TidyAlways, RecipesAreGenuine, PTL DEF Spec

LEMMA WholeIsComplete == RecipeInv /\ FileInv /\ WholeInv => RecipesComplete
<1> SUFFICES ASSUME RecipeInv, FileInv, WholeInv, Whole,
                    NEW l \in DOMAIN layerRecipe, NEW i \in ChunkIndices(l)
             PROVE  InRecipe(l, ChunkOf(l, i))
  BY DEF RecipesComplete, Whole, Tidy, ChunkIndices, ChunkOf
<1> DEFINE c == ChunkOf(l, i)
           h == fileDesc[c].host
           x == <<l, h>>
<1>1. c \in DOMAIN fileDesc /\ h \in layerRecipe[l]
  BY DEF WholeInv, LayerRecipesWhole
<1>2. x \in DOMAIN sliceRecipe /\ x[1] = l /\ x[2] = h
  BY <1>1 DEF RecipeInv, RecipesClosed
<1>3. fileDesc[c].digest = c
  BY <1>1 DEF FileInv, PathInv, DescriptorsWellFormed
<1>4. PICK j \in DOMAIN sliceRecipe[x] : sliceRecipe[x][j] = fileDesc[c]
  BY <1>2 DEF WholeInv, SliceRecipesWhole
<1> HIDE DEF c, x, h
<1>5. InRecipe(l, c)
  BY <1>1, <1>3, <1>4 DEF InRecipe, x
<1> QED
  BY <1>5 DEF c

\* A recipe loses no chunk: unless a command failed, a process died, two dedups
\* worked in one directory or one lost the race for a digest, the slices that
\* the layer recipe names hold every chunk of the layer (doDedup).
THEOREM RecipesAreComplete == Spec => []RecipesComplete
BY WholeIsComplete, RecipeAlways, FilesAreConsistent, WholeAlways, PTL

-----------------------------------------------------------------------------
(***************************************************************************)
(* A recipe whose chunks are all on one host lists them in the order of    *)
(* the layer, unless something went wrong.                                 *)
(***************************************************************************)
\* What SlicesInOrder says of one push.
OwnOrder(w) ==
    /\ pc[w] \in BeforeScan => \A h \in Hosts : loc[w].slices[h] = <<>>
    /\ pc[w] \in Scanning \cup {"register"} =>
          /\ NewAreLast(loc[w].nodist, loc[w].no, loc[w].k, w.layer)
          /\ PrefixOf(loc[w].slices, w.layer, Sliced(loc[w].nodist, loc[w].no, loc[w].k))
    /\ pc[w] = "register" => loc[w].no = ChunkNum(Content[w.layer]) + 1

LEMMA OrderInit == Init => OrderInv
BY DEF Init, MetadataInit, EmptyMap, NoLocal, OrderInv, SlicesInOrder, RecipesInOrder, Scanning

LEMMA OrderedIsWhole == Ordered => Whole
BY DEF Ordered, Whole, Tidy

LEMMA OrderedBefore ==
    ASSUME TypeInv, NEW w \in Pushes, Push(w) \/ DedupStep(w),
           faults' >= faults, events \subseteq events', Ordered'
    PROVE  Ordered
<1>1. UNCHANGED crashes
  BY NoCrash
<1> QED
  BY <1>1 DEF Ordered, TypeInv, TypeOK, MetadataTypeOK

LEMMA OrderAssemble ==
    ASSUME TypeInv, WholeInv, OrderInv, NEW w \in Pushes, Push(w) \/ DedupStep(w), Others(w),
           faults' >= faults, events \subseteq events',
           Ordered /\ Ordered' /\ OwnOrder(w) => OwnOrder(w)'
    PROVE  SlicesInOrder' /\ (UNCHANGED sliceRecipe => RecipesInOrder')
<1>1. Extends(fileDesc', fileDesc)
  BY StepGrows DEF MetadataGrows
<1>2. Ordered' => Ordered /\ Whole
  BY OrderedBefore, OrderedIsWhole
<1>3. Ordered => \A v \in Pushes : OwnOrder(v)
  BY DEF OrderInv, SlicesInOrder, OwnOrder
<1>4. SlicesInOrder'
  <2> SUFFICES ASSUME Ordered', NEW v \in Pushes PROVE OwnOrder(v)'
    BY DEF SlicesInOrder, OwnOrder
  <2>1. CASE v # w
    BY <1>2, <1>3, <2>1 DEF OwnOrder, Others
  <2> QED
    BY <1>2, <1>3, <2>1
<1>5. ASSUME UNCHANGED sliceRecipe PROVE RecipesInOrder'
  <2> SUFFICES ASSUME Ordered', NEW x \in DOMAIN sliceRecipe,
                      \A i \in ChunkIndices(x[1]) : fileDesc'[ChunkOf(x[1], i)].host = x[2]
               PROVE  /\ Len(sliceRecipe[x]) = ChunkNum(Content[x[1]])
                      /\ \A i \in ChunkIndices(x[1]) : sliceRecipe[x][i] = fileDesc'[ChunkOf(x[1], i)]
    BY <1>5 DEF RecipesInOrder
  <2>1. \A i \in ChunkIndices(x[1]) : ChunkOf(x[1], i) \in DOMAIN fileDesc
    BY <1>2 DEF WholeInv, SliceRecipesWhole
  <2>2. \A i \in ChunkIndices(x[1]) : fileDesc'[ChunkOf(x[1], i)] = fileDesc[ChunkOf(x[1], i)]
    BY <1>1, <2>1 DEF Extends
  <2> QED
    BY <1>2, <2>2 DEF OrderInv, RecipesInOrder
<1> QED
  BY <1>4, <1>5

LEMMA SlicedNumber ==
    \A nodist : \A m, no, k \in Int :
        Len(nodist) = m => Sliced(nodist, no, k) = no + k - m - 2
BY DEF Sliced

LEMMA ChunkCount ==
    ASSUME NEW w \in Pushes
    PROVE  ChunkNum(Content[w.layer]) \in Nat /\ ChunkNum(Content[w.layer]) >= 1
<1>1. ChunkNum(Content[w.layer]) \in Positive
  BY PushFacts, ContentAssumption, ChunkNumPositive
<1> QED
  BY <1>1 DEF Positive

\* Steps that put nothing into a slice.
LEMMA OrderQuietSteps ==
    ASSUME TypeInv, WholeInv, OrderInv, NEW w \in Pushes,
           \/ Push(w) \/ ListUnpack(w) \/ CheckChunk(w) \/ AddExisting(w) \/ Finish(w)
           \/ OpenLayer(w) \/ StatRLMap(w) \/ SetRLMap(w) \/ Decode(w) \/ SplitFileChunk(w)
           \/ SetEmptyRecipe(w) \/ SetLayer(w)
    PROVE  OrderInv'
<1> USE DEF BeforeScan, Scanning
<1> DEFINE Same == /\ loc'[w].slices = loc[w].slices /\ loc'[w].nodist = loc[w].nodist
                   /\ loc'[w].no = loc[w].no /\ loc'[w].k = loc[w].k
<1>0. faults \in Nat
  BY DEF TypeInv, TypeOK, MetadataTypeOK
<1>1. /\ UNCHANGED sliceRecipe
      /\ faults' >= faults
      /\ events \subseteq events'
      /\ Others(w)
      /\ \/ pc[w] \in BeforeScan /\ pc'[w] \in BeforeScan /\ Same
         \/ pc[w] = "list" /\ pc'[w] = "check" /\ Same
         \/ pc[w] = "check" /\ pc'[w] \in {"remove", "rename", "decide"} /\ Same
         \/ pc[w] = "lost"
         \/ pc'[w] \in {"finish", "done"}
  <2>1. CASE Push(w)
    BY <1>0, <2>1, GotoOne DEF Push, metadataVars
  <2>2. CASE ListUnpack(w)
    BY <1>0, <2>2, ListUnpackEffect DEF metadataVars
  <2>3. CASE CheckChunk(w)
    BY <2>3, CheckChunkEffect
  <2>4. CASE AddExisting(w)
    BY <2>4, AddExistingEffect
  <2>5. CASE Finish(w)
    <3>1. UNCHANGED <<metadataVars, events>> /\ Others(w) /\ pc'[w] = "done"
      BY <2>5, FinishEffect
    <3> QED
      BY <1>0, <3>1 DEF metadataVars
  <2>6. CASE OpenLayer(w) \/ StatRLMap(w) \/ SetRLMap(w) \/ Decode(w) \/ SplitFileChunk(w)
    BY <2>6, EarlyEffect
  <2>7. CASE SetEmptyRecipe(w) \/ SetLayer(w)
    BY <2>7, LayerEffect
  <2> QED
    BY <2>1, <2>2, <2>3, <2>4, <2>5, <2>6, <2>7
<1>2. ASSUME Ordered, Ordered', OwnOrder(w) PROVE OwnOrder(w)'
  <2>1. pc[w] # "lost"
    BY <1>2, OrderedIsWhole, WholeOwn DEF OwnCollects
  <2>2. CASE pc[w] = "list" /\ pc'[w] = "check" /\ Same
    <3>1. /\ \A h \in Hosts : loc[w].slices[h] = <<>>
          /\ loc[w].nodist = <<>> /\ loc[w].no = 1 /\ loc[w].k = 1
      BY <1>2, <2>2 DEF OwnOrder, TypeInv, LocalShape, Shape, BeforeRegister
    <3>2. Sliced(loc[w].nodist, loc[w].no, loc[w].k) = 0
      <4>1. Len(<<>>) = 0
        OBVIOUS
      <4>2. Sliced(<<>>, 1, 1) = 1 + 1 - 0 - 2
        BY <4>1, SlicedNumber
      <4> QED
        BY <3>1, <4>2
    <3>3. NewAreLast(loc[w].nodist, loc[w].no, loc[w].k, w.layer)
      BY <3>1 DEF NewAreLast
    <3>4. PrefixOf(loc[w].slices, w.layer, 0)
      BY <3>1 DEF PrefixOf
    <3>5. PrefixOf(loc[w].slices, w.layer, Sliced(loc[w].nodist, loc[w].no, loc[w].k))
      BY <3>2, <3>4
    <3> QED
      BY <2>2, <3>3, <3>5 DEF OwnOrder
  <2>3. CASE pc[w] \in BeforeScan /\ pc'[w] \in BeforeScan /\ Same
    BY <1>2, <2>3 DEF OwnOrder
  <2>4. CASE pc[w] = "check" /\ pc'[w] \in {"remove", "rename", "decide"} /\ Same
    BY <1>2, <2>4 DEF OwnOrder
  <2>5. CASE pc'[w] \in {"finish", "done"}
    BY <2>5 DEF OwnOrder
  <2> QED
    BY <1>1, <2>1, <2>2, <2>3, <2>4, <2>5
<1> QED
  BY <1>1, <1>2, OrderAssemble DEF OrderInv, DedupStep

\* The next chunk of the layer is added to a slice.
LEMMA PrefixGrows ==
    ASSUME NEW old \in [Hosts -> Seq(SliceEntry)], NEW l, NEW n \in Nat, PrefixOf(old, l, n),
           NEW size, NEW des, des.host \in Hosts, des.digest = ChunkOf(l, n + 1),
           NEW new, NEW sizes, Grown(old, size, des, new, sizes)
    PROVE  PrefixOf(new, l, n + 1)
<1> DEFINE host == des.host
<1>0. host \in Hosts /\ new = [old EXCEPT ![host] = Append(@, des)]
  BY DEF Grown
<1> HIDE DEF host
<1>1. /\ \A g \in Hosts : g # host => new[g] = old[g]
      /\ Len(old[host]) \in Nat
      /\ \A i \in 1..Len(old[host]) : new[host][i] = old[host][i]
      /\ new[host][Len(old[host]) + 1] = des
      /\ Len(new[host]) = Len(old[host]) + 1
      /\ new[host] # <<>>
  BY <1>0, GrownSlices
<1> SUFFICES ASSUME NEW h \in Hosts, \A g \in Hosts \ {h} : new[g] = <<>>
             PROVE  Len(new[h]) = n + 1 /\ \A j \in 1..(n + 1) : new[h][j].digest = ChunkOf(l, j)
  BY DEF PrefixOf
<1>2. h = host
  BY <1>0, <1>1
<1>3. \A g \in Hosts \ {host} : old[g] = <<>>
  BY <1>1, <1>2
<1>4. Len(old[host]) = n /\ \A j \in 1..n : old[host][j].digest = ChunkOf(l, j)
  BY <1>0, <1>3 DEF PrefixOf
<1>5. ASSUME NEW j \in 1..(n + 1) PROVE new[host][j].digest = ChunkOf(l, j)
  <2>1. CASE j = n + 1
    BY <1>1, <1>4, <2>1
  <2>2. CASE j \in 1..n
    BY <1>1, <1>4, <2>2
  <2> QED
    BY <2>1, <2>2
<1> QED
  BY <1>1, <1>2, <1>4, <1>5

LEMMA OrderDuplicate ==
    ASSUME TypeInv, ScanInv, TidyInv, GenuineInv, WholeInv, OrderInv, NEW w \in Pushes,
           DropDuplicate(w)
    PROVE  OrderInv'
<1> DEFINE no == loc[w].no
           des == loc[w].des
           old == loc[w].slices
           new == loc'[w].slices
           size == loc[w].size
           sizes == loc'[w].size
           l == w.layer
<1>1. /\ UNCHANGED <<fileDesc, sliceRecipe, layerRecipe, faults>>
      /\ events \subseteq events'
      /\ Others(w)
      /\ pc[w] = "remove"
      /\ loc'[w].nodist = loc[w].nodist /\ loc'[w].k = loc[w].k
      /\ faults \in Nat
  BY DropDuplicateEffect DEF metadataVars, TypeInv, TypeOK, MetadataTypeOK
<1>2. ASSUME Ordered, Ordered', OwnOrder(w) PROVE OwnOrder(w)'
  <2>1. Whole
    BY <1>2, OrderedIsWhole
  <2>2. ChunkFile(w, no) \in DOMAIN unpack /\ loc[w].dgst = ChunkOf(l, no)
    BY <1>1, <2>1, ScannedChunk
  <2>3. /\ pc'[w] = "check"
        /\ loc'[w].no = no + 1
        /\ new = [old EXCEPT ![des.host] = Append(@, des)]
        /\ sizes = [size EXCEPT ![des.host] = @ + Len(loc[w].dgst)]
        /\ loc[w].nodist # <<>> => "reorder" \in events'
    BY <2>2, DropDuplicateEffect
  <2>4. des.digest = ChunkOf(l, no) /\ des.host \in Hosts
    <3>1. des.digest \in DOMAIN fileDesc /\ fileDesc[des.digest] = des /\ des.digest = loc[w].dgst
      BY <1>1, <2>1 DEF GenuineInv, SlicesGenuine, Genuine, Whole
    <3>2. \A x \in DOMAIN fileDesc : fileDesc[x].host \in Hosts
      BY HostsFacts DEF TypeInv, TypeOK, MetadataTypeOK, IsMap, FileDescriptor
    <3> QED
      BY <2>2, <3>1, <3>2
  <2>5. /\ loc[w].nodist = <<>> /\ loc'[w].nodist = <<>>
        /\ loc[w].k = 1 /\ loc'[w].k = 1
    <3>1. loc[w].k = 1
      BY <1>1 DEF TypeInv, LocalShape, Shape, BeforeRegister, Scanning
    <3>2. events' = {}
      BY <1>2 DEF Ordered
    <3> QED
      BY <1>1, <2>3, <3>1, <3>2
  <2>6. no \in Nat /\ no >= 1
    BY DEF TypeInv, TypeOK, Local, Positive
  <2>7. PrefixOf(old, l, no - 1)
    <3>1. Sliced(loc[w].nodist, loc[w].no, loc[w].k) = no - 1
      BY <2>5, <2>6 DEF Sliced
    <3> QED
      BY <1>1, <1>2, <3>1 DEF OwnOrder, Scanning
  <2>8. Grown(old, size, des, new, sizes)
    BY <2>2, <2>3, <2>4 DEF Grown
  <2>9. PrefixOf(new, l, no)
    <3>1. old \in [Hosts -> Seq(SliceEntry)]
      BY SliceType
    <3> DEFINE n == no - 1
    <3>2. n \in Nat /\ n + 1 = no
      BY <2>6
    <3>3. PrefixOf(old, l, n) /\ des.digest = ChunkOf(l, n + 1)
      BY <2>4, <2>7, <3>2
    <3> HIDE DEF n, old, new, size, sizes, des, l, no
    <3>4. PrefixOf(new, l, n + 1)
      BY <2>4, <2>8, <3>1, <3>2, <3>3, PrefixGrows
    <3> QED
      BY <3>2, <3>4
  <2>10. Sliced(loc'[w].nodist, loc'[w].no, loc'[w].k) = no
    BY <2>3, <2>5, <2>6 DEF Sliced
  <2>11. NewAreLast(loc'[w].nodist, loc'[w].no, loc'[w].k, w.layer)
    BY <2>3, <2>5, <2>6 DEF NewAreLast
  <2> QED
    BY <2>3, <2>9, <2>10, <2>11 DEF OwnOrder, BeforeScan
<1> QED
  BY <1>1, <1>2, OrderAssemble DEF OrderInv, DedupStep

\* A new chunk is the last one scanned, and nothing is put into a slice.
LEMMA OrderRename ==
    ASSUME TypeInv, ScanInv, TidyInv, WholeInv, OrderInv, NEW w \in Pushes, RenameUnique(w)
    PROVE  OrderInv'
<1> DEFINE no == loc[w].no
           k == loc[w].k
           old == loc[w].nodist
           file == [digest |-> loc[w].dgst, path |-> <<w, no>>]
           new == loc'[w].nodist
           l == w.layer
<1>1. /\ UNCHANGED <<fileDesc, sliceRecipe, layerRecipe, faults>>
      /\ events \subseteq events'
      /\ Others(w)
      /\ pc[w] = "rename"
      /\ loc'[w].slices = loc[w].slices /\ loc'[w].k = k
      /\ faults \in Nat
  BY RenameUniqueEffect DEF metadataVars, TypeInv, TypeOK, MetadataTypeOK
<1>2. ASSUME Ordered, Ordered', OwnOrder(w) PROVE OwnOrder(w)'
  <2>1. ChunkFile(w, no) \in DOMAIN unpack /\ loc[w].dgst = ChunkOf(l, no)
    BY <1>1, <1>2, OrderedIsWhole, ScannedChunk
  <2>2. pc'[w] = "check" /\ loc'[w].no = no + 1 /\ new = Append(old, file)
    BY <2>1, RenameUniqueEffect
  <2>3. NewAreLast(old, no, k, l) /\ PrefixOf(loc[w].slices, l, Sliced(old, no, k))
    BY <1>1, <1>2 DEF OwnOrder, Scanning
  <2>4. no \in Nat /\ k \in Nat /\ old \in Seq(UniqueFile) /\ Len(old) \in Nat
    BY LocNumbers DEF TypeInv, TypeOK, Local
  <2>5. file.digest = ChunkOf(l, no)
    BY <2>1
  <2> HIDE DEF file, old, new, no, k, l
  <2>6. /\ Len(new) = Len(old) + 1
        /\ \A j \in 1..Len(old) : new[j] = old[j]
        /\ new[Len(old) + 1] = file
    <3>1. old \in Seq(UniqueFile \cup {file}) /\ file \in UniqueFile \cup {file}
      BY <2>4
    <3> QED
      BY <2>2, <3>1
  <2>7. Sliced(new, no + 1, k) = Sliced(old, no, k)
    BY <2>4, <2>6, SlicedNumber
  <2>8. NewAreLast(new, no + 1, k, l)
    <3>1. Len(new) < no + 1 /\ k <= Len(new) + 1
      BY <2>3, <2>4, <2>6 DEF NewAreLast
    <3>2. ASSUME NEW j \in 1..Len(new)
          PROVE  new[j].digest = ChunkOf(l, (no + 1) - 1 - Len(new) + j)
      <4>1. CASE j = Len(old) + 1
        <5>1. (no + 1) - 1 - Len(new) + j = no
          BY <2>4, <2>6, <4>1
        <5> QED
          BY <2>5, <2>6, <4>1, <5>1
      <4>2. CASE j \in 1..Len(old)
        <5>1. (no + 1) - 1 - Len(new) + j = no - 1 - Len(old) + j
          BY <2>4, <2>6, <4>2
        <5>2. old[j].digest = ChunkOf(l, no - 1 - Len(old) + j)
          BY <2>3, <4>2 DEF NewAreLast
        <5> QED
          BY <2>6, <4>2, <5>1, <5>2
      <4> QED
        BY <2>4, <2>6, <4>1, <4>2
    <3> QED
      BY <3>1, <3>2 DEF NewAreLast
  <2>9. PrefixOf(loc[w].slices, l, Sliced(new, no + 1, k))
    BY <2>3, <2>7
  <2> QED
    BY <1>1, <2>2, <2>8, <2>9 DEF OwnOrder, BeforeScan, new, k, l
<1> QED
  BY <1>1, <1>2, OrderAssemble DEF OrderInv, DedupStep

\* When nothing is reordered the new chunks keep their order.
LEMMA OrderDecide ==
    ASSUME TypeInv, TidyInv, WholeInv, OrderInv, NEW w \in Pushes, Decide(w)
    PROVE  OrderInv'
<1>1. /\ UNCHANGED <<fileDesc, sliceRecipe, layerRecipe, faults>>
      /\ events \subseteq events'
      /\ Others(w)
      /\ faults \in Nat
      /\ pc[w] = "decide" \/ (pc[w] = "check" /\ loc[w].no > loc[w].fcnt)
  BY DecideEffect DEF metadataVars, TypeInv, TypeOK, MetadataTypeOK
<1>2. ASSUME Ordered, Ordered', OwnOrder(w) PROVE OwnOrder(w)'
  <2>1. Whole /\ OwnCollects(w)
    BY <1>2, OrderedIsWhole, WholeOwn
  <2>2. pc[w] = "check" /\ loc[w].no > loc[w].fcnt
    BY <1>1, <2>1 DEF OwnCollects
  <2>3. loc[w].fcnt = ChunkNum(Content[w.layer]) /\ loc[w].no <= ChunkNum(Content[w.layer]) + 1
    BY <2>1, <2>2 DEF TidyInv, AllListed, Whole, OwnCollects, Scanning
  <2>4. loc[w].no = ChunkNum(Content[w.layer]) + 1
    BY <2>2, <2>3, ChunkCount, LocNumbers
  <2>5. CASE pc'[w] \in {"empty", "finish"}
    BY <2>5 DEF OwnOrder, BeforeScan, Scanning
  <2>6. CASE /\ pc'[w] = "register"
             /\ "reorder" \notin events' => loc'[w].nodist = loc[w].nodist
             /\ loc'[w].slices = loc[w].slices
             /\ loc'[w].no = loc[w].no /\ loc'[w].k = loc[w].k
    <3>1. loc'[w].nodist = loc[w].nodist
      BY <1>2, <2>6 DEF Ordered
    <3>2. /\ NewAreLast(loc[w].nodist, loc[w].no, loc[w].k, w.layer)
          /\ PrefixOf(loc[w].slices, w.layer, Sliced(loc[w].nodist, loc[w].no, loc[w].k))
      BY <1>2, <2>2 DEF OwnOrder, Scanning
    <3> QED
      BY <2>4, <2>6, <3>1, <3>2 DEF OwnOrder, BeforeScan
  <2> QED
    BY <2>5, <2>6, DecideEffect
<1> QED
  BY <1>1, <1>2, OrderAssemble DEF OrderInv, DedupStep

\* The next new chunk is the next chunk of the layer.
LEMMA OrderRegister ==
    ASSUME TypeInv, WholeInv, OrderInv, NEW w \in Pushes, RegisterFile(w)
    PROVE  OrderInv'
<1> DEFINE k == loc[w].k
           no == loc[w].no
           nodist == loc[w].nodist
           f == nodist[k]
           D(h) == [digest |-> f.digest, path |-> f.path, host |-> h]
           old == loc[w].slices
           new == loc'[w].slices
           size == loc[w].size
           sizes == loc'[w].size
           l == w.layer
<1>1. /\ UNCHANGED sliceRecipe
      /\ faults' >= faults
      /\ events \subseteq events'
      /\ Others(w)
      /\ pc[w] = "register"
      /\ k \in 1..Len(nodist)
      /\ loc'[w].nodist = nodist /\ loc'[w].no = no
  BY RegisterFileEffect
<1>2. ASSUME Ordered, Ordered', OwnOrder(w) PROVE OwnOrder(w)'
  <2>1. faults' = 0 /\ "lostRace" \notin events'
    BY <1>2 DEF Ordered
  <2>2. PICK host \in Servers :
           /\ pc'[w] = "register"
           /\ loc'[w].k = k + 1
           /\ new = [old EXCEPT ![host] = Append(@, D(host))]
           /\ sizes = [size EXCEPT ![host] = @ + Len(f.digest)]
    BY <2>1, RegisterFileEffect
  <2> DEFINE des == D(host)
  <2>3. des.host = host /\ des.digest = f.digest /\ Grown(old, size, des, new, sizes)
    BY <2>2 DEF Grown
  <2>4. /\ NewAreLast(nodist, no, k, l) /\ PrefixOf(old, l, Sliced(nodist, no, k))
        /\ no = ChunkNum(Content[w.layer]) + 1
    BY <1>1, <1>2 DEF OwnOrder
  <2>5. no \in Nat /\ k \in Nat /\ k >= 1 /\ Len(nodist) \in Nat
    BY LocNumbers
  <2>6. old \in [Hosts -> Seq(SliceEntry)] /\ host \in Hosts
    BY SliceType, HostsFacts
  <2> DEFINE n == Sliced(nodist, no, k)
  <2>7. f.digest = ChunkOf(l, no - 1 - Len(nodist) + k)
    BY <1>1, <2>4 DEF NewAreLast
  <2> HIDE DEF k, no, nodist, f, D, old, new, size, sizes, l, des
  <2>8. /\ n \in Nat /\ n + 1 = no - 1 - Len(nodist) + k
        /\ Sliced(nodist, no, k + 1) = n + 1
    <3>1. Len(nodist) < no
      BY <2>4 DEF NewAreLast
    <3>2. n = no + k - Len(nodist) - 2 /\ Sliced(nodist, no, k + 1) = no + (k + 1) - Len(nodist) - 2
      BY <2>5, SlicedNumber
    <3> HIDE DEF n
    <3> QED
      BY <2>5, <3>1, <3>2
  <2>9. PrefixOf(old, l, n) /\ des.digest = ChunkOf(l, n + 1) /\ des.host \in Hosts
    BY <2>3, <2>4, <2>6, <2>7, <2>8
  <2> HIDE DEF n
  <2>10. PrefixOf(new, l, n + 1)
    BY <2>3, <2>6, <2>8, <2>9, PrefixGrows
  <2>11. PrefixOf(new, l, Sliced(nodist, no, k + 1))
    BY <2>8, <2>10
  <2>12. NewAreLast(nodist, no, k + 1, l)
    BY <1>1, <2>4, <2>5 DEF NewAreLast
  <2> QED
    BY <1>1, <2>2, <2>4, <2>11, <2>12 DEF OwnOrder, BeforeScan, k, no, nodist, new, l
<1> QED
  BY <1>1, <1>2, OrderAssemble DEF OrderInv, DedupStep

\* A slice that holds all chunks is the only one, so it holds them in order.
LEMMA OrderSetSlice ==
    ASSUME TypeInv, GenuineInv, WholeInv, OrderInv, NEW w \in Pushes, SetSlice(w)
    PROVE  OrderInv'
<1> DEFINE l == w.layer
           slices == loc[w].slices
<1>1. /\ UNCHANGED <<fileDesc, layerRecipe, events>>
      /\ faults' >= faults
      /\ Others(w)
      /\ pc[w] = "register" /\ loc[w].k > Len(loc[w].nodist)
      /\ loc'[w].k = loc[w].k /\ loc'[w].nodist = loc[w].nodist /\ loc'[w].no = loc[w].no
      /\ loc'[w].slices = slices
      /\ pc'[w] \in {"register", "finish"}
  BY SetSliceEffect
<1>2. PICK sip \in Hosts :
         \/ sliceRecipe' = PutNew(sliceRecipe, <<l, sip>>, slices[sip])
         \/ faults' > 0
  BY SetSliceEffect
<1>3. ASSUME Ordered, Ordered', OwnOrder(w) PROVE OwnOrder(w)'
  BY <1>1, <1>3 DEF OwnOrder, BeforeScan, Scanning
<1>4. ASSUME Ordered, \A i \in ChunkIndices(l) : fileDesc[ChunkOf(l, i)].host = sip
      PROVE  /\ Len(slices[sip]) = ChunkNum(Content[l])
             /\ \A i \in ChunkIndices(l) : slices[sip][i] = fileDesc[ChunkOf(l, i)]
  <2>1. Whole /\ OwnOfLayer(w)
    BY <1>4, OrderedIsWhole, WholeOwn
  <2>2. \A h \in Hosts : \A j \in DOMAIN slices[h] : Genuine(slices[h][j], h)
    BY <2>1 DEF GenuineInv, SlicesGenuine, Whole
  <2>3. ASSUME NEW h \in Hosts \ {sip} PROVE slices[h] = <<>>
    <3> SUFFICES ASSUME slices[h] # <<>> PROVE FALSE
      OBVIOUS
    <3>1. slices[h] \in Seq(SliceEntry)
      BY SliceType
    <3>2. 1 \in DOMAIN slices[h]
      BY <3>1
    <3>3. Genuine(slices[h][1], h) /\ OfLayer(slices[h][1].digest, l)
      BY <2>1, <2>2, <3>2 DEF OwnOfLayer
    <3> QED
      BY <1>4, <3>3 DEF Genuine, OfLayer
  <2> DEFINE n == ChunkNum(Content[l])
  <2>4. n \in Nat
    BY ChunkCount
  <2>5. /\ NewAreLast(loc[w].nodist, loc[w].no, loc[w].k, l)
        /\ PrefixOf(slices, l, Sliced(loc[w].nodist, loc[w].no, loc[w].k))
        /\ loc[w].no = n + 1
    BY <1>1, <1>4 DEF OrderInv, SlicesInOrder
  <2>6. loc[w].k \in Nat /\ Len(loc[w].nodist) \in Nat /\ loc[w].k = Len(loc[w].nodist) + 1
    BY <1>1, <2>5, LocNumbers DEF NewAreLast
  <2> HIDE DEF n
  <2>7. Sliced(loc[w].nodist, loc[w].no, loc[w].k) = n
    <3> DEFINE nodist == loc[w].nodist
               no == loc[w].no
               k == loc[w].k
    <3>1. no \in Int /\ k \in Int /\ Len(nodist) \in Int /\ k = Len(nodist) + 1 /\ no = n + 1
      BY <2>4, <2>5, <2>6
    <3> HIDE DEF nodist, no, k
    <3>2. Sliced(nodist, no, k) = no + k - Len(nodist) - 2
      BY <3>1, SlicedNumber
    <3>3. Sliced(nodist, no, k) = n
      BY <2>4, <3>1, <3>2
    <3> QED
      BY <3>3 DEF nodist, no, k
  <2>8. Len(slices[sip]) = n /\ \A j \in 1..n : slices[sip][j].digest = ChunkOf(l, j)
    BY <2>3, <2>5, <2>7 DEF PrefixOf
  <2>9. DOMAIN slices[sip] = 1..n
    BY <2>8, SliceType
  <2>10. \A i \in 1..n : slices[sip][i] = fileDesc[ChunkOf(l, i)]
    BY <2>2, <2>8, <2>9 DEF Genuine
  <2> QED
    BY <2>8, <2>10 DEF n, ChunkIndices
<1>5. RecipesInOrder'
  <2> SUFFICES ASSUME Ordered', NEW x \in DOMAIN sliceRecipe',
                      \A i \in ChunkIndices(x[1]) : fileDesc[ChunkOf(x[1], i)].host = x[2]
               PROVE  /\ Len(sliceRecipe'[x]) = ChunkNum(Content[x[1]])
                      /\ \A i \in ChunkIndices(x[1]) : sliceRecipe'[x][i] = fileDesc[ChunkOf(x[1], i)]
    BY <1>1 DEF RecipesInOrder
  <2>1. Ordered /\ faults' = 0
    BY <1>1, OrderedBefore DEF DedupStep, Ordered
  <2>2. CASE x \in DOMAIN sliceRecipe /\ sliceRecipe'[x] = sliceRecipe[x]
    BY <2>1, <2>2 DEF OrderInv, RecipesInOrder
  <2>3. CASE x = <<l, sip>> /\ sliceRecipe'[x] = slices[sip]
    <3>1. x[1] = l /\ x[2] = sip
      BY <2>3
    <3> QED
      BY <1>4, <2>1, <2>3, <3>1
  <2> QED
    BY <1>2, <2>1, <2>2, <2>3 DEF PutNew, Put
<1> QED
  BY <1>1, <1>3, <1>5, OrderAssemble DEF OrderInv, DedupStep

LEMMA OrderStep ==
    /\ TypeInv /\ FileInv /\ TidyInv /\ GenuineInv /\ WholeInv /\ OrderInv
    /\ [Next]_vars
    => OrderInv'
<1> SUFFICES ASSUME TypeInv, FileInv, TidyInv, GenuineInv, WholeInv, OrderInv, [Next]_vars
             PROVE  OrderInv'
  OBVIOUS
<1>1. ScanInv
  BY DEF FileInv
<1>2. ASSUME NEW w \in Pushes, Push(w) \/ DedupStep(w) PROVE OrderInv'
  BY <1>1, <1>2, OrderQuietSteps, OrderDuplicate, OrderRename, OrderDecide, OrderRegister,
     OrderSetSlice DEF DedupStep
<1>3. ASSUME NEW s \in Servers, ProcessDies(s) PROVE OrderInv'
  <2>1. crashes' > 0
    BY <1>3, DiesEffect
  <2>2. ~Ordered'
    BY <2>1 DEF Ordered
  <2> QED
    BY <2>2 DEF OrderInv, SlicesInOrder, RecipesInOrder
<1>4. ASSUME UNCHANGED vars PROVE OrderInv'
  BY <1>4 DEF vars, metadataVars, workerVars, historyVars, OrderInv, SlicesInOrder,
              RecipesInOrder, Ordered
<1> QED
  BY <1>2, <1>3, <1>4, PushFacts DEF Next, Panic, Crash

LEMMA OrderAlways == Spec => []OrderInv
<1> QED
  BY OrderInit, OrderStep, TypeAlways, FilesAreConsistent, TidyAlways, RecipesAreGenuine,
     WholeAlways, PTL DEF Spec

\* When nothing went wrong, a slice recipe that holds all chunks of its layer
\* lists them in the order of the layer (CheckPartialDedup, Uniqdistribution):
\* concatenating the files it names gives the decoded layer back.
THEOREM RecipesAreInOrder == Spec => []RecipesInOrder
<1>1. OrderInv => RecipesInOrder
  BY DEF OrderInv
<1> QED
  BY <1>1, OrderAlways, PTL
=============================================================================
