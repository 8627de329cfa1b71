----------------------------- MODULE LayerRestore -----------------------------
(***************************************************************************)
(* Serving a layer: ServeBlob of registry/storage/blobserver.go and what   *)
(* it runs in this build (constructFromUnpackFiles,                        *)
(* constructLayerFromPartial, constructSliceFromPartial,                   *)
(* packAllFilesToPartial, the external ./encode tool).                     *)
(*                                                                         *)
(* A GET is its own identity: [srv, repo, layer, n].  It reads the Redis   *)
(* metadata and the files LayerDedup writes.  Bytes are blocks, as there:  *)
(* the bytes <<x, y>> are the file whose decoded form is x y.              *)
(***************************************************************************)
EXTENDS LayerDedup

CONSTANT Gets           \* the GET requests that may happen

ASSUME GetsAssumption == Gets \subseteq PushType

VARIABLES
    gpc,                \* GET -> where its handler is
    gloc,               \* GET -> local variables of the handler
    answer,             \* GET -> what the client has received
    restoring,          \* restoringlayermap: <<server, layer>> -> GET that owns the buffer
    locked,             \* GETs whose Restoringbuffer is locked
    gotta,              \* GETs whose Restoringbuffer holds "gotta!"
    layerCache,         \* blobcache, keyed by digest: <<server, layer>> -> answer
    chunkCache          \* blobcache, keyed by path: <<server, path>> -> chunk

getVars == <<gpc, gloc, answer, restoring, locked, gotta, layerCache, chunkCache>>

-----------------------------------------------------------------------------
(* Types. *)

Bytes(data) == [kind |-> "bytes", data |-> data]
Gotta == [kind |-> "gotta", data |-> <<>>]      \* the literal "gotta!"
Garbled == [kind |-> "garbled", data |-> <<>>]  \* some other file
Failed == [kind |-> "error", data |-> <<>>]
NoAnswer == [kind |-> "none", data |-> <<>>]
Answer == [kind : {"bytes", "garbled", "gotta", "error", "none"}, data : Seq(Blocks)]

GetPCs == {"idle", "cache", "recipe", "load", "wait", "lock", "slice", "pack",
           "fallback", "transfer", "statrl", "setrl", "done", "dead"}

\* sawRecipe: StatLayerRecipe found a recipe (history, for the properties)
\* cok:       the bytes come from a construction, so they may be cached
GetLocal == [hosts : SUBSET Hosts, sawRecipe : BOOLEAN, files : Seq(SliceEntry),
             i : Nat, buf : Seq(Blocks), bss : Answer, cok : BOOLEAN, rl : RLEntry]

NoGetLocal == [hosts |-> {}, sawRecipe |-> FALSE, files |-> <<>>, i |-> 1,
               buf |-> <<>>, bss |-> NoAnswer, cok |-> FALSE, rl |-> EmptyRLEntry]

RestoreTypeOK ==
    /\ gpc \in [Gets -> GetPCs]
    /\ gloc \in [Gets -> GetLocal]
    /\ answer \in [Gets -> Answer]
    /\ IsMap(restoring, Servers \X Layers, Gets)
    /\ locked \subseteq Gets
    /\ gotta \subseteq Gets
    /\ IsMap(layerCache, Servers \X Layers, Answer)
    /\ IsMap(chunkCache, Servers \X Path, Chunk)

RestoreInit ==
    /\ gpc = [g \in Gets |-> "idle"]
    /\ gloc = [g \in Gets |-> NoGetLocal]
    /\ answer = [g \in Gets |-> NoAnswer]
    /\ restoring = EmptyMap
    /\ locked = {}
    /\ gotta = {}
    /\ layerCache = EmptyMap
    /\ chunkCache = EmptyMap

GetGoto(g, label) == gpc' = [gpc EXCEPT ![g] = label]
GetActive(g) == gpc[g] \notin {"idle", "done", "dead"}

-----------------------------------------------------------------------------
(* ServeBlob up to the construction. *)

\* Stat: Redis lists the layer as a member of the repository once a push of it
\* was committed, on whichever server that was.
Get(g) ==
    /\ gpc[g] = "idle"
    /\ \E w \in Pushes : w.repo = g.repo /\ w.layer = g.layer /\ pc[w] # "idle"
    /\ GetGoto(g, "cache")
    /\ UNCHANGED <<metadataVars, gloc, answer, restoring, locked, gotta, layerCache, chunkCache>>

\* blobcache.GetFile(digest).  An entry may have been evicted, so a lookup may
\* miss whatever was stored.
LookupLayer(g) ==
    /\ gpc[g] = "cache"
    /\ \/ /\ Dir(g) \in DOMAIN layerCache
          /\ gloc' = [gloc EXCEPT ![g].bss = layerCache[Dir(g)]]
          /\ GetGoto(g, "transfer")
       \/ /\ UNCHANGED gloc
          /\ GetGoto(g, "recipe")
    /\ UNCHANGED <<metadataVars, answer, restoring, locked, gotta, layerCache, chunkCache>>

\* constructFromUnpackFiles: without a layer recipe the original file is served.
ReadLayerRecipe(g) ==
    /\ gpc[g] = "recipe"
    /\ \E reply \in StatReplies :
        /\ StatLayerRecipe(g.layer, reply)
        /\ IF reply = "ok"
           THEN /\ gloc' = [gloc EXCEPT ![g].hosts = layerRecipe[g.layer],
                                        ![g].sawRecipe = TRUE]
                /\ GetGoto(g, "load")
           ELSE GetGoto(g, "fallback") /\ UNCHANGED gloc
    /\ UNCHANGED <<answer, restoring, locked, gotta, layerCache, chunkCache>>

-----------------------------------------------------------------------------
(* constructLayerFromPartial. *)

\* restoringlayermap.LoadOrStore: the first GET of a layer stores its buffer
\* for good, a later one waits for that buffer.
LoadOrStore(g) ==
    /\ gpc[g] = "load"
    /\ IF Dir(g) \in DOMAIN restoring
       THEN GetGoto(g, "wait") /\ UNCHANGED restoring
       ELSE GetGoto(g, "lock") /\ restoring' = Put(restoring, Dir(g), g)
    /\ UNCHANGED <<metadataVars, gloc, answer, locked, gotta, layerCache, chunkCache>>

\* Lock the stored buffer, read it, unlock it; an empty one means to construct.
WaitLayer(g) ==
    /\ gpc[g] = "wait"
    /\ restoring[Dir(g)] \notin locked
    /\ IF restoring[Dir(g)] \in gotta
       THEN /\ gloc' = [gloc EXCEPT ![g].bss = Gotta, ![g].cok = TRUE]
            /\ GetGoto(g, "transfer")
       ELSE GetGoto(g, "lock") /\ UNCHANGED gloc
    /\ UNCHANGED <<metadataVars, answer, restoring, locked, gotta, layerCache, chunkCache>>

\* Lock the GET's own buffer.  A layer on other than one host returns nil from
\* here, and nothing unlocks the buffer again.
LockBuffer(g) ==
    /\ gpc[g] = "lock"
    /\ locked' = locked \cup {g}
    /\ GetGoto(g, IF Cardinality(gloc[g].hosts) = 1 THEN "slice" ELSE "fallback")
    /\ UNCHANGED <<metadataVars, gloc, answer, restoring, gotta, layerCache, chunkCache>>

\* The slice recipe of this server; when it is missing or empty the client is
\* sent, and later GETs find in the buffer, the text "gotta!".
ReadSliceRecipe(g) ==
    /\ gpc[g] = "slice"
    /\ \E reply \in StatReplies :
        /\ StatSliceRecipe(g.layer, g.srv, reply)
        /\ IF reply = "ok" /\ sliceRecipe[<<g.layer, g.srv>>] # <<>>
           THEN /\ gloc' = [gloc EXCEPT ![g].files = sliceRecipe[<<g.layer, g.srv>>]]
                /\ GetGoto(g, "pack")
                /\ UNCHANGED <<locked, gotta>>
           ELSE /\ gloc' = [gloc EXCEPT ![g].bss = Gotta, ![g].cok = TRUE]
                /\ gotta' = gotta \cup {g}
                /\ locked' = locked \ {g}
                /\ GetGoto(g, "transfer")
    /\ UNCHANGED <<answer, restoring, layerCache, chunkCache>>

\* Mutant: a chunk found in the cache is not written to the buffer.
PackFileSkipsCached(g) ==
    LET path == gloc[g].files[gloc[g].i].path IN
    /\ gpc[g] = "pack"
    /\ gloc[g].i <= Len(gloc[g].files)
    /\ \/ /\ <<g.srv, path>> \in DOMAIN chunkCache
          /\ gloc' = [gloc EXCEPT ![g].i = @ + 1]
          /\ UNCHANGED chunkCache
       \/ /\ path \in DOMAIN diff
          /\ gloc' = [gloc EXCEPT ![g].buf = @ \o diff[path], ![g].i = @ + 1]
          /\ chunkCache' = Put(chunkCache, <<g.srv, path>>, diff[path])
    /\ UNCHANGED <<metadataVars, gpc, locked, answer, restoring, gotta, layerCache>>

\* packAllFilesToPartial, one chunk: from the cache, else from this server's
\* disk into the cache; a missing file ends the construction.
PackFile(g) ==
    LET path == gloc[g].files[gloc[g].i].path
        key == <<g.srv, path>>
        Append2(chunk) == gloc' = [gloc EXCEPT ![g].buf = @ \o chunk, ![g].i = @ + 1]
    IN
    /\ gpc[g] = "pack"
    /\ gloc[g].i <= Len(gloc[g].files)
    /\ \/ /\ key \in DOMAIN chunkCache
          /\ Append2(chunkCache[key])
          /\ UNCHANGED <<gpc, locked, chunkCache>>
       \/ /\ path \in DOMAIN diff
          /\ path[1].srv = g.srv
          /\ Append2(diff[path])
          /\ chunkCache' = Put(chunkCache, key, diff[path])
          /\ UNCHANGED <<gpc, locked>>
       \/ /\ ~(path \in DOMAIN diff /\ path[1].srv = g.srv)
          /\ locked' = locked \ {g}
          /\ GetGoto(g, "fallback")
          /\ UNCHANGED <<gloc, chunkCache>>
    /\ UNCHANGED <<metadataVars, answer, restoring, gotta, layerCache>>

\* Mutant: the buffer is not unlocked after a construction.
EncodeKeepsLock(g) ==
    /\ gpc[g] = "pack"
    /\ gloc[g].i > Len(gloc[g].files)
    /\ gloc' = [gloc EXCEPT ![g].bss = Bytes(gloc[g].buf), ![g].cok = TRUE]
    /\ GetGoto(g, "transfer")
    /\ UNCHANGED <<metadataVars, answer, restoring, locked, gotta, layerCache, chunkCache>>

\* ./encode turns the concatenated chunks back into the gzip file they were
\* decoded from.  Chunks in the wrong order, or of a blob that was no gzip file,
\* give some other file or none at all.
Encode(g) ==
    /\ gpc[g] = "pack"
    /\ gloc[g].i > Len(gloc[g].files)
    /\ locked' = locked \ {g}
    /\ \/ /\ gloc[g].buf = Content[g.layer] /\ g.layer \notin NotGzip
          /\ gloc' = [gloc EXCEPT ![g].bss = Bytes(gloc[g].buf), ![g].cok = TRUE]
          /\ GetGoto(g, "transfer")
       \/ /\ gloc[g].buf # Content[g.layer] \/ g.layer \in NotGzip
          /\ \/ /\ gloc' = [gloc EXCEPT ![g].bss = Garbled, ![g].cok = TRUE]
                /\ GetGoto(g, "transfer")
             \/ GetGoto(g, "fallback") /\ UNCHANGED gloc
    /\ UNCHANGED <<metadataVars, answer, restoring, gotta, layerCache, chunkCache>>

-----------------------------------------------------------------------------
(* The end of ServeBlob. *)

\* The construction failed: read the original layer file.
Fallback(g) ==
    /\ gpc[g] = "fallback"
    /\ IF Dir(g) \in layerFile
       THEN /\ gloc' = [gloc EXCEPT ![g].bss = Bytes(Content[g.layer])]
            /\ GetGoto(g, "transfer")
            /\ UNCHANGED answer
       ELSE /\ answer' = [answer EXCEPT ![g] = Failed]
            /\ GetGoto(g, "done")
            /\ UNCHANGED gloc
    /\ UNCHANGED <<metadataVars, restoring, locked, gotta, layerCache, chunkCache>>

\* TransferBlob; a constructed layer is put into the cache.  The code does that
\* in a goroutine of its own: a lookup before it ran is one that misses.
Transfer(g) ==
    /\ gpc[g] = "transfer"
    /\ answer' = [answer EXCEPT ![g] = gloc[g].bss]
    /\ layerCache' = IF gloc[g].cok THEN Put(layerCache, Dir(g), gloc[g].bss) ELSE layerCache
    /\ GetGoto(g, "statrl")
    /\ UNCHANGED <<metadataVars, gloc, restoring, locked, gotta, chunkCache>>

\* The goroutine that counts the pull in the RLMap: read, add one, write back.
ReadRLMap(g) ==
    /\ gpc[g] = "statrl"
    /\ \E reply \in StatReplies :
        /\ StatRLMapEntry(g.repo, reply)
        /\ LET entry == IF reply = "ok" THEN rlmap[g.repo] ELSE EmptyRLEntry IN
           gloc' = [gloc EXCEPT ![g].rl = [entry EXCEPT ![g.layer] = @ + 1]]
    /\ GetGoto(g, "setrl")
    /\ UNCHANGED <<answer, restoring, locked, gotta, layerCache, chunkCache>>

WriteRLMap(g) ==
    /\ gpc[g] = "setrl"
    /\ \E reply \in SetReplies : SetRLMapEntry(g.repo, gloc[g].rl, reply)
    /\ GetGoto(g, "done")
    /\ gloc' = [gloc EXCEPT ![g] = [NoGetLocal EXCEPT !.sawRecipe = gloc[g].sawRecipe]]
    /\ UNCHANGED <<answer, restoring, locked, gotta, layerCache, chunkCache>>

\* The handlers, the restoring map and the caches die with the process.
RestoreDies(s) ==
    /\ gpc' = [g \in Gets |-> IF g.srv = s /\ GetActive(g) THEN "dead" ELSE gpc[g]]
    /\ gloc' = [g \in Gets |-> IF g.srv = s /\ GetActive(g) THEN NoGetLocal ELSE gloc[g]]
    /\ restoring' = Drop(restoring, {s} \X Layers)
    /\ locked' = {g \in locked : g.srv # s}
    /\ gotta' = {g \in gotta : g.srv # s}
    /\ layerCache' = Drop(layerCache, {s} \X Layers)
    /\ chunkCache' = Drop(chunkCache, {key \in DOMAIN chunkCache : key[1] = s})
    /\ UNCHANGED answer

\* One step of the handler of GET g.
GetStep(g) ==
    \/ LookupLayer(g) \/ ReadLayerRecipe(g)
    \/ LoadOrStore(g) \/ WaitLayer(g) \/ LockBuffer(g)
    \/ ReadSliceRecipe(g) \/ PackFile(g) \/ Encode(g)
    \/ Fallback(g) \/ Transfer(g) \/ ReadRLMap(g) \/ WriteRLMap(g)

=============================================================================
