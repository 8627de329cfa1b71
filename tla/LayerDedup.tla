------------------------------ MODULE LayerDedup ------------------------------
(***************************************************************************)
(* Deduplication of a pushed layer: the Dedup goroutine that               *)
(* PutBlobUploadComplete (registry/handlers/blobupload.go) starts once the *)
(* upload is committed, and the functions of registry/storage/blobwriter.go*)
(* it runs: Dedup, doDedup, CheckPartialDedup, Uniqdistribution, with      *)
(* splitFileChunk of j_dedup.go and the external ./decode tool.            *)
(*                                                                         *)
(* A push is its own identity: [srv, repo, layer, n].  Steps are cut where *)
(* another goroutine, another registry or Redis can come between: at every *)
(* Redis command and at every access to a directory that pushes share.     *)
(*                                                                         *)
(* Data.  The bytes ./decode produces for a layer are a sequence of blocks,*)
(* and a chunk is at most ChunkSize of them.  The digest of a chunk is the *)
(* chunk itself (SHA-256 is taken to be collision free).  A chunk renamed  *)
(* to diff/uniquefiles/<random id>/<no> is the path <<push, no>>: the six  *)
(* random digits are taken to be fresh.                                    *)
(***************************************************************************)
EXTENDS DedupMetadata, Sequences, FiniteSets

CONSTANTS
    Servers,            \* the registries of the cluster (config: registries)
    Repos,
    Layers,             \* layer digests
    Blocks,
    NoHost,             \* the empty HostServerIp of a zero-valued descriptor
    Pushes,             \* the pushes that may happen
    Content,            \* layer -> blocks that ./decode writes for it
    CompSize,           \* layer -> size of the compressed layer file
    NotGzip,            \* blobs ./decode and ./encode do not bring back: without a gzip
                        \* header, such as image configurations, or refused or damaged
    ChunkSize,          \* 512 KiB in splitFileChunk
    WarmCount,          \* 200: dedups before F-mode starts skipping layers
    SizeThres,          \* layerslicingdirsizethres
    CntThres,           \* layerslicingfcntthres
    MaxCrashes          \* bound on registry processes killed from outside

Hosts == Servers \cup {NoHost}
PushType == [srv : Servers, repo : Repos, layer : Layers, n : Nat]

ASSUME ServersAssumption == Servers # {} /\ IsFiniteSet(Servers) /\ NoHost \notin Servers
ASSUME PushesAssumption == Pushes \subseteq PushType
\* ./decode starts its output with the offset of the deflate data, so it is never empty.
ASSUME ContentAssumption == Content \in [Layers -> Seq(Blocks) \ {<<>>}]
ASSUME SizesAssumption ==
    /\ CompSize \in [Layers -> Nat]
    /\ ChunkSize \in Nat \ {0}
    /\ WarmCount \in Nat
    /\ SizeThres \in Nat
    /\ CntThres \in Nat
    /\ MaxCrashes \in Nat

VARIABLES
    layerFile,          \* {<<server, layer>>} whose blob data file exists
    committed,          \* {<<server, layer>>} an upload was committed to
    partial,            \* <<server, layer>> -> blocks in data_partial
    unpack,             \* <<server, layer, no>> -> chunk in unpack/<no>
    diff,               \* path -> chunk in diff/uniquefiles
    counter,            \* server -> finished dedups since the process started
    pc,                 \* push -> where its Dedup goroutine is
    loc,                \* push -> local variables of Dedup and doDedup
    crashes,            \* processes that died so far
    events              \* history: which of the rare events have happened

storeVars == <<layerFile, committed, partial, unpack, diff>>
workerVars == <<pc, loc>>
historyVars == <<crashes, events>>
vars == <<metadataVars, storeVars, counter, workerVars, historyVars>>

-----------------------------------------------------------------------------
(* Types. *)

Chunk == Seq(Blocks)
Positive == Nat \ {0}
Path == Pushes \X Positive
FileDescriptor == [digest : Chunk, path : Path, host : Servers]
\* The zero value StatFile returns together with an error.
NoDescriptor == [digest |-> <<>>, path |-> <<>>, host |-> NoHost]
SliceEntry == FileDescriptor \cup {NoDescriptor}
UniqueFile == [digest : Chunk, path : Path]
\* One repository's Dgstmap: how often each layer was asked for, 0 if not listed.
RLEntry == [Layers -> Nat]
EmptyRLEntry == [l \in Layers |-> 0]

\* sameLayer: a push starts while another push of the same layer is being
\*   deduplicated on the same server
\* lostRace:  SetFileDescriptor found the digest registered already
\* fmode:     F-mode gave up on a layer after its chunks were moved
\* reorder:   the recipe does not list the chunks in the order of the layer
Events == {"sameLayer", "lostRace", "fmode", "reorder"}

PCs == {"idle", "open", "statrl", "setrl", "decode", "split", "list", "check",
        "remove", "rename", "decide", "empty", "register", "lost", "finish",
        "done", "dead"}

Local == [no : Positive, fcnt : Nat, dgst : Chunk, des : SliceEntry,
          nodist : Seq(UniqueFile), k : Positive, greedy : BOOLEAN,
          slices : [Hosts -> Seq(SliceEntry)], size : [Hosts -> Nat],
          dirSize : Nat, nodistSize : Nat,
          isdedup : BOOLEAN, someWrong : BOOLEAN, wrote : SUBSET Hosts,
          rl : RLEntry]

NoLocal == [no |-> 1, fcnt |-> 0, dgst |-> <<>>, des |-> NoDescriptor,
            nodist |-> <<>>, k |-> 1, greedy |-> FALSE,
            slices |-> [h \in Hosts |-> <<>>], size |-> [h \in Hosts |-> 0],
            dirSize |-> 0, nodistSize |-> 0,
            isdedup |-> FALSE, someWrong |-> FALSE, wrote |-> {},
            rl |-> EmptyRLEntry]

-----------------------------------------------------------------------------
(* Paths, chunks and the state of a push. *)

Dir(w) == <<w.srv, w.layer>>
ChunkFile(w, no) == <<w.srv, w.layer, no>>
SameDir(v, w) == v.srv = w.srv /\ v.layer = w.layer
UnpackDir(w) == {f \in DOMAIN unpack : f[1] = w.srv /\ f[2] = w.layer}
DiffDir(w) == {p \in DOMAIN diff : SameDir(p[1], w)}

Active(w) == pc[w] \notin {"idle", "done", "dead"}

\* How many chunks splitFileChunk cuts data into, and the i-th of them.
ChunkNum(data) == (Len(data) + ChunkSize - 1) \div ChunkSize
ChunkAt(data, i) ==
    SubSeq(data, (i - 1) * ChunkSize + 1,
           IF i * ChunkSize < Len(data) THEN i * ChunkSize ELSE Len(data))

\* Writing new at the start of a file opened without O_TRUNC.
Overwrite(old, new) ==
    IF Len(old) > Len(new) THEN new \o SubSeq(old, Len(new) + 1, Len(old)) ELSE new

\* sort.Slice by size, biggest first; it is not stable, so any such order.
BySizeDescending(files) ==
    {s \in [1..Len(files) -> {files[i] : i \in 1..Len(files)}] :
        \A i, j \in 1..Len(files) :
            i < j => s[i] # s[j] /\ Len(s[i].digest) >= Len(s[j].digest)}

\* The buckets sort.Slice may put first: those of the smallest size.
SmallestServers(size) == {h \in Servers : \A g \in Servers : size[h] <= size[g]}

\* The hosts doDedup writes slice recipes for and puts into the layer recipe.
SliceHosts(l) == {h \in Hosts : l.slices[h] # <<>> /\ l.size[h] > 0}

\* Mutant: the size of the slice goes down.
AddToSliceShrinks(l, host, des, size) ==
    [l EXCEPT !.slices[host] = Append(@, des), !.size[host] = @ - size]

\* Mutant: the slice grows at its front.
AddToSliceFront(l, host, des, size) ==
    [l EXCEPT !.slices[host] = <<des>> \o @, !.size[host] = @ + size]

AddToSlice(l, host, des, size) ==
    [l EXCEPT !.slices[host] = Append(@, des), !.size[host] = @ + size]

Goto(w, label) == pc' = [pc EXCEPT ![w] = label]

-----------------------------------------------------------------------------
(* The upload and the first half of Dedup. *)

Init ==
    /\ MetadataInit
    /\ layerFile = {}
    /\ committed = {}
    /\ partial = EmptyMap
    /\ unpack = EmptyMap
    /\ diff = EmptyMap
    /\ counter = [s \in Servers |-> 0]
    /\ pc = [w \in Pushes |-> "idle"]
    /\ loc = [w \in Pushes |-> NoLocal]
    /\ crashes = 0
    /\ events = {}

\* Commit moves the upload to the blob path unless a file is there already,
\* stores the blob descriptor, and the handler starts the goroutine.
Push(w) ==
    /\ pc[w] = "idle"
    /\ layerFile' = layerFile \cup {Dir(w)}
    /\ committed' = committed \cup {Dir(w)}
    /\ Goto(w, "open")
    /\ events' = IF \E v \in Pushes \ {w} : Active(v) /\ SameDir(v, w)
                 THEN events \cup {"sameLayer"} ELSE events
    /\ UNCHANGED <<metadataVars, partial, unpack, diff, counter, loc, crashes>>

\* Open and read the layer file; a missing or an empty one ends the dedup.
OpenLayer(w) ==
    /\ pc[w] = "open"
    /\ Goto(w, IF Dir(w) \in layerFile /\ CompSize[w.layer] > 0 THEN "statrl" ELSE "done")
    /\ UNCHANGED <<metadataVars, storeVars, counter, loc, historyVars>>

\* Read the RLMap entry of the repository.  A layer listed there has been
\* deduplicated before; any error of the read counts as "no entry yet".
StatRLMap(w) ==
    /\ pc[w] = "statrl"
    /\ \E reply \in StatReplies :
        /\ StatRLMapEntry(w.repo, reply)
        /\ LET entry == IF reply = "ok" THEN rlmap[w.repo] ELSE EmptyRLEntry IN
           IF entry[w.layer] > 0
           THEN Goto(w, "done") /\ UNCHANGED loc
           ELSE /\ Goto(w, "setrl")
                /\ loc' = [loc EXCEPT ![w].rl = [entry EXCEPT ![w.layer] = 1]]
    /\ UNCHANGED <<storeVars, counter, historyVars>>

SetRLMap(w) ==
    /\ pc[w] = "setrl"
    /\ \E reply \in SetReplies :
        /\ SetRLMapEntry(w.repo, loc[w].rl, reply)
        /\ Goto(w, IF reply = "ok" THEN "decode" ELSE "done")
    /\ UNCHANGED <<storeVars, counter, loc, historyVars>>

\* ./decode appends its output to data_partial ("ab").  When it fails, unpack
\* is removed; the deferred os.Remove takes data_partial away.  It fails (a null
\* FILE) when the layer file is gone.  Of a blob it does not bring back it may
\* report an error, crash (offset and length of a blob that is no gzip file are
\* uninitialised), or write some data and exit 0.
Decode(w) ==
    /\ pc[w] = "decode"
    /\ \/ /\ Dir(w) \in layerFile
          /\ partial' = Put(partial, Dir(w),
                    IF Dir(w) \in DOMAIN partial
                    THEN partial[Dir(w)] \o Content[w.layer] ELSE Content[w.layer])
          /\ UNCHANGED unpack
          /\ Goto(w, "split")
       \/ /\ Dir(w) \notin layerFile \/ w.layer \in NotGzip
          /\ partial' = Drop(partial, {Dir(w)})
          /\ unpack' = Drop(unpack, UnpackDir(w))
          /\ Goto(w, "done")
    /\ UNCHANGED <<metadataVars, layerFile, committed, diff, counter, loc, historyVars>>

\* splitFileChunk: unpack/1, unpack/2, ... overwritten in place.
SplitFileChunk(w) ==
    /\ pc[w] = "split"
    /\ IF Dir(w) \in DOMAIN partial
       THEN LET data == partial[Dir(w)]
                new == {ChunkFile(w, i) : i \in 1..ChunkNum(data)}
            IN /\ unpack' = [f \in DOMAIN unpack \cup new |->
                    IF f \notin new THEN unpack[f]
                    ELSE IF f \in DOMAIN unpack
                         THEN Overwrite(unpack[f], ChunkAt(data, f[3]))
                         ELSE ChunkAt(data, f[3])]
               /\ Goto(w, "list")
       ELSE /\ unpack' = Drop(unpack, UnpackDir(w))
            /\ Goto(w, "done")
    /\ UNCHANGED <<metadataVars, layerFile, committed, partial, diff, counter, loc,
                   historyVars>>

-----------------------------------------------------------------------------
(* CheckPartialDedup: look every chunk up, in order. *)

\* os.ReadDir: the number of entries is the number of chunks to look at.
ListUnpack(w) ==
    /\ pc[w] = "list"
    /\ loc' = [loc EXCEPT ![w].fcnt = Cardinality(UnpackDir(w))]
    /\ Goto(w, "check")
    /\ UNCHANGED <<metadataVars, storeVars, counter, historyVars>>

\* Digest chunk number no and ask Redis for it.  A hit removes the chunk file,
\* a miss renames it; any other error ends the scan with someWrong set.
CheckChunk(w) ==
    LET no == loc[w].no
        chunk == unpack[ChunkFile(w, no)]
    IN
    /\ pc[w] = "check"
    /\ no <= loc[w].fcnt
    /\ ChunkFile(w, no) \in DOMAIN unpack
    /\ \E reply \in StatReplies :
        /\ StatFile(chunk, reply)
        /\ loc' = [loc EXCEPT ![w].dgst = chunk,
                              ![w].dirSize = @ + Len(chunk),
                              ![w].des = IF reply = "ok" THEN fileDesc[chunk] ELSE NoDescriptor,
                              ![w].someWrong = (reply = "error")]
        /\ Goto(w, CASE reply = "ok" -> "remove"
                     [] reply = "nil" -> "rename"
                     [] reply = "error" -> "decide")
    /\ UNCHANGED <<storeVars, counter, historyVars>>

\* Mutant: the duplicate is removed and left out of the slice.
DropDuplicateForgets(w) ==
    /\ pc[w] = "remove"
    /\ unpack' = Drop(unpack, {ChunkFile(w, loc[w].no)})
    /\ loc' = [loc EXCEPT ![w].no = @ + 1]
    /\ Goto(w, "check")
    /\ UNCHANGED <<metadataVars, layerFile, committed, partial, diff, counter, historyVars>>

\* The chunk is stored already: os.Remove(unpack/no), reuse its descriptor.
DropDuplicate(w) ==
    LET no == loc[w].no IN
    /\ pc[w] = "remove"
    /\ IF ChunkFile(w, no) \in DOMAIN unpack
       THEN /\ unpack' = Drop(unpack, {ChunkFile(w, no)})
            /\ loc' = [loc EXCEPT ![w] =
                    [AddToSlice(@, @.des.host, @.des, Len(@.dgst)) EXCEPT !.no = no + 1]]
            /\ events' = IF loc[w].nodist # <<>> THEN events \cup {"reorder"} ELSE events
            /\ Goto(w, "check")
       ELSE /\ loc' = [loc EXCEPT ![w].someWrong = TRUE]
            /\ Goto(w, "decide")
            /\ UNCHANGED <<unpack, events>>
    /\ UNCHANGED <<metadataVars, layerFile, committed, partial, diff, counter, crashes>>

\* The chunk is new: rename unpack/no to diff/uniquefiles/<id>/no.
RenameUnique(w) ==
    LET no == loc[w].no
        path == <<w, no>>
    IN
    /\ pc[w] = "rename"
    /\ IF ChunkFile(w, no) \in DOMAIN unpack
       THEN /\ unpack' = Drop(unpack, {ChunkFile(w, no)})
            /\ diff' = Put(diff, path, unpack[ChunkFile(w, no)])
            /\ loc' = [loc EXCEPT
                    ![w].nodist = Append(@, [digest |-> loc[w].dgst, path |-> path]),
                    ![w].nodistSize = @ + Len(loc[w].dgst),
                    ![w].no = no + 1]
            /\ Goto(w, "check")
       ELSE /\ loc' = [loc EXCEPT ![w].someWrong = TRUE]
            /\ Goto(w, "decide")
            /\ UNCHANGED <<unpack, diff>>
    /\ UNCHANGED <<metadataVars, layerFile, committed, partial, counter, historyVars>>

-----------------------------------------------------------------------------
(* The rest of doDedup. *)

\* dirSize > 1.1 * comressSize after the warm-up: not worth deduplicating.
FMode(w) ==
    /\ ~loc[w].someWrong
    /\ counter[w.srv] > WarmCount
    /\ 10 * loc[w].dirSize > 11 * CompSize[w.layer]

\* Uniqdistribution keeps a small layer, or few new chunks, on this server.
KeepLocal(l) ==
    \/ l.dirSize <= SizeThres
    \/ l.nodistSize <= SizeThres
    \/ Len(l.nodist) <= CntThres
    \/ l.fcnt <= CntThres

\* No chunk at all, F-mode, or go on to Uniqdistribution, which starts by
\* sorting the new chunks when it spreads them over the servers.
Decide(w) ==
    LET l == loc[w] IN
    /\ \/ pc[w] = "decide"
       \/ pc[w] = "check" /\ l.no > l.fcnt
    /\ \/ /\ l.fcnt = 0
          /\ Goto(w, "empty")
          /\ UNCHANGED <<loc, events>>
       \/ /\ l.fcnt # 0
          /\ FMode(w)
          /\ Goto(w, "finish")
          /\ events' = events \cup {"fmode"}
          /\ UNCHANGED loc
       \/ /\ l.fcnt # 0
          /\ ~FMode(w)
          /\ \E files \in IF KeepLocal(l) THEN {l.nodist} ELSE BySizeDescending(l.nodist) :
                /\ loc' = [loc EXCEPT ![w].isdedup = ~l.someWrong,
                                      ![w].greedy = ~KeepLocal(l),
                                      ![w].nodist = files]
                /\ events' = IF files # l.nodist THEN events \cup {"reorder"} ELSE events
          /\ Goto(w, "register")
    /\ UNCHANGED <<metadataVars, storeVars, counter, crashes>>

\* A layer without chunks gets a layer recipe without hosts.
SetEmptyRecipe(w) ==
    /\ pc[w] = "empty"
    /\ \E reply \in SetReplies : SetLayerRecipe(w.layer, {}, reply)
    /\ Goto(w, "finish")
    /\ UNCHANGED <<storeVars, counter, loc, historyVars>>

\* Mutant: the loser of the race keeps its copy of the chunk.
RegisterFileKeepsLoser(w) ==
    LET l == loc[w]
        f == l.nodist[l.k]
        des == [digest |-> f.digest, path |-> f.path, host |-> w.srv]
    IN
    /\ pc[w] = "register"
    /\ l.k <= Len(l.nodist)
    /\ \E reply \in SetNXReplies :
        /\ SetFileDescriptor(f.digest, des, reply)
        /\ IF reply = "set"
           THEN /\ loc' = [loc EXCEPT ![w] =
                        [AddToSlice(@, w.srv, des, Len(f.digest)) EXCEPT !.k = l.k + 1]]
                /\ UNCHANGED pc
           ELSE Goto(w, "lost") /\ UNCHANGED loc
    /\ UNCHANGED <<storeVars, counter, historyVars>>

\* Mutant: the winner of the race removes the file, not the loser.
RegisterFileDropsWinner(w) ==
    LET l == loc[w]
        f == l.nodist[l.k]
        des == [digest |-> f.digest, path |-> f.path, host |-> w.srv]
    IN
    /\ pc[w] = "register"
    /\ l.k <= Len(l.nodist)
    /\ SetFileDescriptor(f.digest, des, "set")
    /\ diff' = Drop(diff, {f.path})
    /\ loc' = [loc EXCEPT ![w] =
                    [AddToSlice(@, w.srv, des, Len(f.digest)) EXCEPT !.k = l.k + 1]]
    /\ UNCHANGED <<layerFile, committed, partial, unpack, counter, pc, historyVars>>

\* Uniqdistribution, one new chunk: claim its digest with SETNX.  The loser of
\* the race, like a caller that got an error, removes its copy of the chunk.
RegisterFile(w) ==
    LET l == loc[w]
        f == l.nodist[l.k]
    IN
    /\ pc[w] = "register"
    /\ l.k <= Len(l.nodist)
    /\ \E host \in IF l.greedy THEN SmallestServers(l.size) ELSE {w.srv},
          reply \in SetNXReplies :
        LET des == [digest |-> f.digest, path |-> f.path, host |-> host] IN
        /\ SetFileDescriptor(f.digest, des, reply)
        /\ IF reply = "set"
           THEN /\ loc' = [loc EXCEPT ![w] =
                        [AddToSlice(@, host, des, Len(f.digest)) EXCEPT !.k = l.k + 1]]
                /\ UNCHANGED <<diff, events, pc>>
           ELSE /\ diff' = Drop(diff, {f.path})
                /\ events' = IF reply = "exists" THEN events \cup {"lostRace"} ELSE events
                /\ Goto(w, "lost")
                /\ UNCHANGED loc
    /\ UNCHANGED <<layerFile, committed, partial, unpack, counter, crashes>>

\* Mutant: the loser of the race lists its own copy of the chunk, which is gone.
AddExistingOwn(w) ==
    LET f == loc[w].nodist[loc[w].k]
        des == [digest |-> f.digest, path |-> f.path, host |-> w.srv]
    IN
    /\ pc[w] = "lost"
    /\ loc' = [loc EXCEPT ![w] =
                    [AddToSlice(@, w.srv, des, Len(f.digest)) EXCEPT !.k = @ + 1]]
    /\ Goto(w, "register")
    /\ UNCHANGED <<metadataVars, storeVars, counter, historyVars>>

\* "add existing file to des slice": the stored descriptor is asked for, and
\* what is added is the zero value, when the question failed (err != nil).
AddExisting(w) ==
    LET l == loc[w]
        f == l.nodist[l.k]
    IN
    /\ pc[w] = "lost"
    /\ \E reply \in StatReplies :
        /\ StatFile(f.digest, reply)
        /\ loc' = [loc EXCEPT ![w] =
                IF reply = "ok" THEN [@ EXCEPT !.k = l.k + 1]
                ELSE [AddToSlice(@, NoHost, NoDescriptor, Len(f.digest)) EXCEPT !.k = l.k + 1]]
    /\ Goto(w, "register")
    /\ UNCHANGED <<storeVars, counter, historyVars>>

\* Mutant: the original layer is removed before the layer recipe is written.
SetSliceRemovesLayer(w) ==
    LET l == loc[w] IN
    /\ pc[w] = "register"
    /\ l.k > Len(l.nodist)
    /\ \E sip \in SliceHosts(l) \ l.wrote :
        /\ SetSliceRecipe(w.layer, l.slices[sip], sip, "ok")
        /\ loc' = [loc EXCEPT ![w].wrote = @ \cup {sip}]
    /\ layerFile' = layerFile \ {Dir(w)}
    /\ UNCHANGED <<committed, partial, unpack, diff, counter, pc, historyVars>>

\* Mutant: the host whose slice recipe is written is not ticked off.
SetSliceAgain(w) ==
    /\ pc[w] = "register"
    /\ loc[w].k > Len(loc[w].nodist)
    /\ \E sip \in SliceHosts(loc[w]) \ loc[w].wrote, reply \in SetReplies :
        SetSliceRecipe(w.layer, loc[w].slices[sip], sip, reply)
    /\ UNCHANGED <<storeVars, counter, pc, loc, historyVars>>

\* One slice recipe per host, in the order the Go map is walked; an error
\* skips the rest, the layer recipe included.
SetSlice(w) ==
    LET l == loc[w] IN
    /\ pc[w] = "register"
    /\ l.k > Len(l.nodist)
    /\ \E sip \in SliceHosts(l) \ l.wrote, reply \in SetReplies :
        /\ SetSliceRecipe(w.layer, l.slices[sip], sip, reply)
        /\ IF reply = "ok"
           THEN loc' = [loc EXCEPT ![w].wrote = @ \cup {sip}] /\ UNCHANGED pc
           ELSE Goto(w, "finish") /\ UNCHANGED loc
    /\ UNCHANGED <<storeVars, counter, historyVars>>

\* Mutant: the layer recipe may be written before the slice recipes.
SetLayerFirst(w) ==
    /\ pc[w] = "register"
    /\ loc[w].k > Len(loc[w].nodist)
    /\ \E reply \in SetReplies : SetLayerRecipe(w.layer, SliceHosts(loc[w]), reply)
    /\ Goto(w, "finish")
    /\ UNCHANGED <<storeVars, counter, loc, historyVars>>

\* The layer recipe comes last; isdedup stays as it is when this fails.
SetLayer(w) ==
    /\ pc[w] = "register"
    /\ loc[w].k > Len(loc[w].nodist)
    /\ SliceHosts(loc[w]) \subseteq loc[w].wrote
    /\ \E reply \in SetReplies : SetLayerRecipe(w.layer, SliceHosts(loc[w]), reply)
    /\ Goto(w, "finish")
    /\ UNCHANGED <<storeVars, counter, loc, historyVars>>

\* What every end of Dedup does.
EndDedup(w) ==
    /\ pc[w] = "finish"
    /\ counter' = [counter EXCEPT ![w.srv] = @ + 1]
    /\ Goto(w, "done")
    /\ loc' = [loc EXCEPT ![w] = NoLocal]
    /\ UNCHANGED <<metadataVars, committed, historyVars>>

\* Mutant: diff is removed with the original layer.
FinishRemovesDiff(w) ==
    /\ EndDedup(w)
    /\ layerFile' = IF loc[w].isdedup THEN layerFile \ {Dir(w)} ELSE layerFile
    /\ diff' = Drop(diff, DiffDir(w))
    /\ unpack' = Drop(unpack, UnpackDir(w))
    /\ partial' = Drop(partial, {Dir(w)})

\* Mutant: data_partial is left behind.
FinishKeepsPartial(w) ==
    /\ EndDedup(w)
    /\ IF loc[w].isdedup /\ ~loc[w].someWrong
       THEN layerFile' = layerFile \ {Dir(w)} /\ UNCHANGED <<unpack, diff>>
       ELSE /\ unpack' = Drop(unpack, UnpackDir(w))
            /\ diff' = Drop(diff, DiffDir(w))
            /\ UNCHANGED layerFile
    /\ UNCHANGED partial

\* The end of Dedup: a deduplicated layer loses its original file, any other
\* one its unpack and diff directories; data_partial goes in both cases.
Finish(w) ==
    /\ pc[w] = "finish"
    /\ counter' = [counter EXCEPT ![w.srv] = @ + 1]
    /\ IF loc[w].isdedup /\ ~loc[w].someWrong
       THEN /\ layerFile' = layerFile \ {Dir(w)}
            /\ UNCHANGED <<unpack, diff>>
       ELSE /\ unpack' = Drop(unpack, UnpackDir(w))
            /\ diff' = Drop(diff, DiffDir(w))
            /\ UNCHANGED layerFile
    /\ partial' = Drop(partial, {Dir(w)})
    /\ Goto(w, "done")
    /\ loc' = [loc EXCEPT ![w] = NoLocal]
    /\ UNCHANGED <<metadataVars, committed, historyVars>>

-----------------------------------------------------------------------------
(* The end of a registry process. *)

\* Every goroutine of the process is gone; its files and Redis stay.
ProcessDies(s) ==
    /\ pc' = [v \in Pushes |-> IF v.srv = s /\ Active(v) THEN "dead" ELSE pc[v]]
    /\ loc' = [v \in Pushes |-> IF v.srv = s THEN NoLocal ELSE loc[v]]
    /\ counter' = [counter EXCEPT ![s] = 0]
    /\ crashes' = crashes + 1
    /\ UNCHANGED <<metadataVars, storeVars, events>>

\* CheckPartialDedup goes on after a failed os.Open and calls Size() on the nil
\* FileInfo of the nil file: the panic is in a goroutine nobody recovers.
Panic(w) ==
    /\ pc[w] = "check"
    /\ loc[w].no <= loc[w].fcnt
    /\ ChunkFile(w, loc[w].no) \notin DOMAIN unpack
    /\ ProcessDies(w.srv)

\* The process is killed from outside and started again.
Crash(s) ==
    /\ crashes < MaxCrashes
    /\ \E w \in Pushes : w.srv = s /\ Active(w)
    /\ ProcessDies(s)

-----------------------------------------------------------------------------
(* The specification. *)

\* One step of the goroutine of push w.
DedupStep(w) ==
    \/ OpenLayer(w) \/ StatRLMap(w) \/ SetRLMap(w)
    \/ Decode(w) \/ SplitFileChunk(w)
    \/ ListUnpack(w) \/ CheckChunk(w) \/ DropDuplicate(w) \/ RenameUnique(w)
    \/ Decide(w) \/ SetEmptyRecipe(w)
    \/ RegisterFile(w) \/ AddExisting(w)
    \/ SetSlice(w) \/ SetLayer(w) \/ Finish(w)

Next ==
    \/ \E w \in Pushes : Push(w) \/ DedupStep(w) \/ Panic(w)
    \/ \E s \in Servers : Crash(s)

Spec == Init /\ [][Next]_vars

\* The Go scheduler runs every goroutine; nobody has to push anything.
Fairness == \A w \in Pushes : WF_vars(DedupStep(w) \/ Panic(w))

FairSpec == Spec /\ Fairness

-----------------------------------------------------------------------------
(* Properties. *)

MetadataTypeOK ==
    /\ IsMap(fileDesc, Chunk, FileDescriptor)
    /\ IsMap(sliceRecipe, Layers \X Hosts, Seq(SliceEntry))
    /\ IsMap(layerRecipe, Layers, SUBSET Hosts)
    /\ IsMap(rlmap, Repos, RLEntry)
    /\ faults \in Nat

StoreTypeOK ==
    /\ layerFile \subseteq Servers \X Layers
    /\ committed \subseteq Servers \X Layers
    /\ IsMap(partial, Servers \X Layers, Seq(Blocks) \ {<<>>})
    /\ IsMap(unpack, Servers \X Layers \X Positive, Chunk)
    /\ IsMap(diff, Path, Chunk)

\* Every variable holds a value of its type.
TypeOK ==
    /\ MetadataTypeOK
    /\ StoreTypeOK
    /\ counter \in [Servers -> Nat]
    /\ pc \in [Pushes -> PCs]
    /\ loc \in [Pushes -> Local]
    /\ crashes \in Nat
    /\ events \subseteq Events

\* A registered chunk can be read: the file its descriptor names exists and
\* has the digest.  A failed Redis command, two dedups in one directory, or an
\* F-mode layer that was deduplicated before can remove the file; nothing else
\* can, whatever pushes, servers and crashes interleave.
DescriptorsLive ==
    faults = 0 /\ events \cap {"sameLayer", "fmode"} = {} =>
        \A c \in DOMAIN fileDesc :
            /\ fileDesc[c].digest = c
            /\ fileDesc[c].path \in DOMAIN diff
            /\ diff[fileDesc[c].path] = c

\* Reading a layer recipe is enough to know its slice recipes are there: they
\* are written before it, and an error on the way leaves no layer recipe.
\* This needs no assumption on faults, crashes or races.
RecipesClosed ==
    \A l \in DOMAIN layerRecipe : \A h \in layerRecipe[l] :
        /\ <<l, h>> \in DOMAIN sliceRecipe
        /\ sliceRecipe[<<l, h>>] # <<>>

\* The original layer file is removed only when the layer has a recipe,
\* provided no Redis command failed.
OriginalKept ==
    faults = 0 => \A d \in committed : d \in layerFile \/ d[2] \in DOMAIN layerRecipe

\* The slices of a layer that has a recipe contain every chunk of the layer,
\* unless a command failed, a process died, two dedups shared a directory or
\* lost the race for a digest.
InRecipe(l, c) ==
    \E h \in layerRecipe[l] : \E i \in DOMAIN sliceRecipe[<<l, h>>] :
        sliceRecipe[<<l, h>>][i].digest = c

RecipesComplete ==
    faults = 0 /\ crashes = 0 /\ events \cap {"sameLayer", "lostRace"} = {} =>
        \A l \in DOMAIN layerRecipe : \A i \in 1..ChunkNum(Content[l]) :
            InRecipe(l, ChunkAt(Content[l], i))

\* When no dedup of a layer is under way, its data_partial and unpack/ are
\* gone.  The next dedup depends on it: ./decode appends, and ReadDir counts
\* whatever is there.
NoLeftovers ==
    crashes = 0 /\ "sameLayer" \notin events =>
        \A w \in Pushes :
            (\A v \in Pushes : SameDir(v, w) => ~Active(v)) =>
                Dir(w) \notin DOMAIN partial /\ UnpackDir(w) = {}

\* Disk space is not leaked: a file below diff/uniquefiles is registered, or
\* the push that put it there is still running.
NoOrphanFiles ==
    crashes = 0 =>
        \A p \in DOMAIN diff :
            \/ Active(p[1])
            \/ \E c \in DOMAIN fileDesc : fileDesc[c].path = p

\* SETNX is the only lock there is: once a digest or a recipe is bound, no step
\* of any server rebinds or removes it.
Extends(new, old) == \A k \in DOMAIN old : k \in DOMAIN new /\ new[k] = old[k]

MetadataStable ==
    [][/\ Extends(fileDesc', fileDesc)
       /\ Extends(sliceRecipe', sliceRecipe)
       /\ Extends(layerRecipe', layerRecipe)]_metadataVars

\* Every dedup ends, one way or another.
DedupEnds == \A w \in Pushes : Active(w) ~> ~Active(w)

-----------------------------------------------------------------------------
(* What comments of the code say without the conditions above.  TLC finds a *)
(* counterexample for each.                                                *)

\* "add existing file to des slice": a dedup that loses the race for a digest
\* still lists the chunk in its recipe (Uniqdistribution).
LostChunksListed ==
    faults = 0 /\ crashes = 0 /\ "sameLayer" \notin events =>
        \A l \in DOMAIN layerRecipe : \A i \in 1..ChunkNum(Content[l]) :
            InRecipe(l, ChunkAt(Content[l], i))

\* "everything is OK": a layer whose original Dedup removes was deduplicated,
\* so it has a recipe, whatever Redis replied.
RemovedWasDeduplicated ==
    \A d \in committed : d \in layerFile \/ d[2] \in DOMAIN layerRecipe

=============================================================================
