# SimEnc registry: TLA+ models and proofs

SimEnc is a Docker registry (a fork of DupHunter, itself a fork of
`docker/distribution`) that deduplicates the layers pushed to it, together with the C
programs it runs on layers and the offline programs that study how well blocks of layers
compress against each other.  This directory models the logic that is SimEnc's own:

* what happens to a layer after an upload is committed, and when it is asked for again (Go);
* the partial codec, which takes the Huffman coding off a gzip layer and puts it back (C);
* the clustering and trace programs, which group similar blocks and store a trace as deltas (C++);
* the file cache the registry restores layers from (Go).

## 1. Inventory

| Part | Code | State | Operations | Interacts with |
|---|---|---|---|---|
| Dedup metadata | `registry/storage/cache/redis/redis.go` | four Redis key families: `File::`, `Slice:Recipe::`, `Layer:Recipe::`, `RLMap::` | GET; SETNX for files and recipes; SET for the RLMap | every server of the cluster shares it |
| Layer dedup | `registry/storage/blobwriter.go`, `j_dedup.go` | layer file `data`, `data_partial`, `unpack/`, `diff/uniquefiles/`, a process-wide counter | `Dedup`, `CheckPartialDedup`, `doDedup`, `Uniqdistribution`, `splitFileChunk` | one goroutine per completed upload; Redis; `./decode` |
| Restoring | `registry/storage/blobserver.go` | `restoringlayermap`, the blob cache | `ServeBlob`, `constructFromUnpackFiles`, `constructLayerFromPartial`, `packAllFilesToPartial` | reads what dedup writes; `./encode` |
| Upload handler | `registry/handlers/blobupload.go` | the upload | `PutBlobUploadComplete`: commit, then `go Dedup` | starts dedup |
| Partial codec | `partial/decode_docker.cpp`, `encode_docker.cpp`, `partial/libz_j` | inflate and deflate states, bit and byte buffers, `sym_buf` over `pending_buf` | layer file to Huffman-decoded form and back | run as child processes by dedup and restoring |
| Blob cache | `registry/storage/driver/gcache` | ARC lists with sizes, `MemCache` | `SetFile`, `GetFile` | used by restoring |
| Clustering | `training/clustering` | a todo list, clusters, two queues, worker threads; a log between the programs | `bruteForceCluster`, choice of representatives, printing | reads a trace; its labels train the model |
| Trace programs | `training/finesse`, `deepsketch`, `bruteforce`, `compress.h` | hash table, sketch lists, recipes, result file | store a trace by deduplication, delta and LZ4; search for the best reference | read a trace |
| Multi-candidate programs, notebooks, trace replay | `training/multi_cand`, `inference/`, `warmup_and_run/`, `workload/` | | offline | not called by the registry |
| Descriptor cache, linked blob store, upload writer, manifests, tags, garbage collection, notifications, proxy, drivers, health | `registry/`, `notifications/`, `health/` | | as upstream | |
| xdelta3, LZ4, xxHash, NGT | `training/` | | third-party | sizes, hashes and neighbours are data |

What makes the core hard:

* one Dedup goroutine per upload and no lock between them, so two dedups race for a
  chunk (only SETNX decides) and, for the same layer pushed to two repositories, work
  in the *same* directories;
* GET handlers run while a dedup replaces the file they are about to read;
* a dedup writes several Redis keys and then removes the original, so an error or a crash in
  between leaves part of the work done;
* a write that returns an error may have been applied;
* a cluster shares Redis, but not the files.

What makes the programs hard:

* the codec can run out of input or output at any bit, in any of some twenty modes, and must
  resume there; its instruction stream has escapes; its symbol and output buffers overlap;
* the clustering threads compare blocks with a set of representatives that grows meanwhile, yet
  the result should not depend on them; one token in the queue ends them all;
* DeepSketch works in batches, so a duplicate's recipe waits for a later block;
* the brute-force search appends results to a file and resumes from it after being killed;
* the cache lists a file and stores its bytes in two steps and counts bytes, not files.

What correctness means: a registered chunk is readable; a layer has its original or a
complete recipe; the parts a recipe names exist; nothing is leaked; every goroutine ends;
a client gets the bytes that were pushed.  A layer comes back from the codec byte for byte or
the codec says that it failed.  Parallel clustering places blocks as one thread would.  A recipe
leads back to its block.  A resumed search is the whole search.  A full cache does not grow.

## 2. Modules

| Module | Models | Notes |
|---|---|---|
| `PartialMaps` | keyspaces and directories as functions | `Put` = SET, `PutNew` = SETNX, `Drop` = removal |
| `DedupMetadata` | `redisDedupMetadataService` | one operator per method; `reply` is what the Go caller sees |
| `LayerDedup` | the Dedup goroutine | one action per step between two Redis commands or two accesses to shared files |
| `LayerDedupInv`, `PushPullInv`, `ClusterInv` | the inductive invariants | used by the proofs; section 5 says which of them runs check too |
| `LayerDedupProofs` | type correctness; what each action changes; recipes and the original layer | `TypeCorrect`, `MetadataIsStable`, `RecipesAreClosed`, `OriginalIsKept` |
| `ChunkFileProofs` | chunk files | `FilesAreConsistent`, `DescriptorsAreLive` |
| `DedupScanProofs` | directories, what the slices hold and in which order | `NothingIsLeftOver`, `NoFileIsOrphaned`, `RecipesAreServable`, `RecipesAreComplete`, `RecipesAreInOrder` |
| `LayerRestore` | the GET handler | extends `LayerDedup` by the handler's own state |
| `PushPull` | both together | a crash takes the goroutines, handlers and caches of one server |
| `ServeProofs` | dedups and GETs together | `ServedIsOriginal`, `ConstructionNeverFails`, `LocksAreReleased`, `GottaIsNeverSent`, `GetsDoNotDisturb` and others |
| `DeflateFormat` | the deflate format as the tools write and read it | a stream is a sequence of codes `[k, v, n]`: what a code says and how many bits it has |
| `HuffmanTables` | `inflate_table`, `inflate_table_my` | tables with both levels, entry by entry |
| `PartialFile` | the gzip file, the partial file, the code lengths both tools read | |
| `PartialInflate` | `decode_docker`, `j_inflate`, `inflate_fast` | one action per mode; leaving in the middle is an alternative of the action |
| `PartialDeflate` | `encode_docker`, `j_deflate`, `deflate_my`, `trees.c` | likewise |
| `PartialCodec` | decode, then encode | states the codec's properties |
| `ClusterOps` | comparing and placing a block | used by the next two |
| `GreedyCluster` | abstract: blocks are placed one after the other | no threads, no queues |
| `BruteForceCluster` | `bruteForceCluster` and `BF` with threads | implements `GreedyCluster` |
| `Clustering` | the coarse and the fine program | calls `BruteForceCluster`; states the refinement |
| `ClusterProofs` | the refinement, the threads, and what the two programs pass and print | `CallsAreSequential`, `ThreadsAreConsistent`, `ProgramsAreSequential`, `BlocksAreOnce`, `LabelsAreComplete` and others |
| `BlockTrace` | a trace of blocks and how they compress | |
| `DeltaStore` | the Finesse and DeepSketch stores | |
| `DeltaStoreProofs` | recipes and the file of recipes | `RecipesBringBack`, `FileBringsBack`, `StoreTypes` |
| `BruteForce` | the search for the best reference | with kills and resumption |
| `BruteForceProofs` | the search, its threads and its temporary file | `NoneForgotten`, `ResumptionExact`, `ToolTypes` |
| `TraceTools` | one of the programs on one trace | |
| `BlobCache` | `FileLST` and `MemCache` | |
| `BlobCacheProofs` | the cache | `CacheIsConsistent`, `SizesAreExact`, `FullCacheDoesNotGrow`, `EvictedFilesAreUnlisted` |
| `MCLayerDedup`, `MCPushPull`, `MCPartial`, `MCClustering`, `MCTraceTools`, `MCBlobCache` | instances for TLC | |

What composes what: `PushPull` = `LayerDedup` + `LayerRestore` over `DedupMetadata`;
`PartialCodec` = `PartialInflate` + `PartialDeflate` over `PartialFile`; `Clustering` calls
`BruteForceCluster`, and `SequentialClustering` is its refinement
(`G == INSTANCE GreedyCluster WITH ...`): the blocks still to place and the clusters of the
abstract algorithm are the rest of `todo` and `cluster` of the threaded one.  In coarse a block is
compared with a prefix of the representatives (those there when a worker took it), in fine with all
of them; `exact` says which, and the abstract step allows a prefix only in coarse.

How the state corresponds to the code:

* A push is the record `[srv, repo, layer, n]`, `pc[w]` is the place of its goroutine and
  `loc[w]` its local variables (`no`, `fcnt`, `dirSize`, `nodistributedfiles` as `nodist`,
  `slices`, `sliceSizeMap` as `size`, `isdedup`, `someWrong`).  `wrote` is how far the loop over
  the map `slices` has come; a Go map is walked in any order.
* `layerFile`, `partial`, `unpack`, `diff` are the files of the servers.  The data `./decode`
  writes is a sequence of blocks and a chunk a piece of at most `ChunkSize` blocks.  A chunk is
  its own digest.
* `events` and `crashes` are history.  They name the situations in which the code gives up a
  guarantee, so that a property can say exactly when it holds:
  `sameLayer` (two dedups in one directory), `lostRace` (a lost SETNX), `fmode` (F-mode
  skipped a layer), `reorder` (the recipe lists chunks in another order than the layer).
* A GET is also a record; `locked` and `gotta` describe the `Restoringbuffer` of each GET and
  `restoring` is `restoringlayermap`.  Caches may forget: a lookup can miss whatever was stored,
  which covers eviction and expiry.

In `LayerDedup` and `LayerRestore`, `./decode` and `./encode` appear as what the
registry relies on.  `./decode` appends to its output and fails when the layer file is
missing.  `NotGzip` are the blobs the two tools do not bring back: those without gzip header, which make
`./decode` use uninitialised variables, and the gzip files the codec loses or refuses (section 4).  There it may
fail or succeed with data that `./encode` cannot turn back.

Simplifications of `LayerDedup`.  `Decode` and `SplitFileChunk` are one step each, although `./decode` writes its output
piece by piece and chunks are written one after another.  That matters only to two dedups in one directory
(`sameLayer`): there a piece can land in a file the other one reads, and a chunk file that cannot be opened because
the other dedup has removed `unpack` (`j_dedup.go:236`) ends the dedup as a missing `data_partial` does, which is
modelled.  `Finish` makes its `os.Remove` calls in one step; a crash between them leaves only a `data_partial`
or files of `unpack` behind, as a crash before all of them does.

In the codec modules a file is a record of its gzip header fields, its blocks, those of a second member (`rest`), its deflate
stream and how many bytes of it are missing (`cut`).  `misread` are the codes a reader finds that does not start at the stream
or expects a zlib header: for a file with an extra field the bytes are whatever the header holds, so the instances have
some that begin no block, one that reads as a last block and one that reads as a zlib stream.  `src` and `rd` are the reading ends: the next
code, the bits dropped, the bytes pulled into `hold` and the bytes left in the buffer.
`NEEDBITS(n)` is `Enough(n)`; without it the action leaves as `inf_leave` does.  `wr` is the writing
end: the codes sent, the bytes pending and the room in the buffer.  `chunk` stands for `CHUNK` and
`CURCHUNK`, which are 16384 in the code.  Once
the encoder has used an uninitialised value `en.undef` holds: the locals of the switch when `SENDINS` is resumed in a
later call (`deflate.c:1055`), and `last`, `hold` and `bits` of the `deflate_state`, which `j_deflateInit2_` does not set
(`en.stale`, `EStale`).  The bytes of a stored block that `memcpy` copies onto itself (`Overlap`, `trees.c:324`) may be any, too.
The decoder counts header bits in an uninitialised buffer when it reads a zlib header (`inflate.c:475`): `ZHead` goes on
or crashes.  The properties speak of behaviours without such a use.  `inflate_table_my` is a definition of its own and not
that of `inflate_table`, so `TablesDecode` compares the two functions.

In `BruteForceCluster`, `produceQ` and `resultQ` are the queues, `rep_list` the representatives,
`job[w]` what a worker holds; a step is what happens between two unlocks of the mutex.  Compressed
sizes are the constants `Dist` and `Lz4`.  In `DeltaStore` the super-features and sketches of a
content are constants as well, and NGT finds any subset of the sketches in its index.  In `BruteForce`
the text of `_bf_temp` is a sequence of numbers, blanks and halves of numbers, so that a kill can cut a
line between its tokens or inside a number (a number has one place where it is cut) and the next `fscanf` reads
what `fscanf` would read.  Fields of a recipe in `DeltaStore` have no width (40, 12, 28 and 2 bits in `compress.h:17-26`), which matters
to traces above 1 TB.  In `Clustering` some block is always sampled (`CoarseAgain`; `coarse_xdelta3.cpp:254-255` can skip all of them with
a very small probability), and fine starts with an empty log, to which the code appends (`fine_xdelta3.cpp:361`).  In `BlobCache` a list
is a record of its keys, front first, and of the `size` that `arcList` adds to and subtracts from; that this
counter is the size of the listed files is a property (`SizesExact`), not a definition.

## 3. Runs

All runs use `CHECK_DEADLOCK FALSE` except `partial_codec`: an instance has finitely many pushes,
GETs or blocks, and when they are done nothing is left to do.  `GetAnswered`, `DedupEnds`, `Labelled`,
`BFEnds` and `ToolsEnd` cover being stuck.

| Run | Instance | Shows |
|---|---|---|
| `cluster` | A pushed to two servers, B (a chunk of A) to one, a GET of A; three of the four, two at a time; one Redis error, one crash, F-mode after one dedup | `TypeOK`, `OriginalKept`, `NoOrphanFiles`, `RecipesClosed`, `DescriptorsLive`, `RecipesComplete`, `RecipesServable`, `NoLeftovers`, `MetadataStable`, and the inductive `FileInv` (1.4 million states) |
| `push_pull` | A and a non-gzip B with a common chunk, two GETs of A | `ServedBytesAreOriginal`, `ConstructionSucceeds`, `RecipesInOrder` (284 thousand states) |
| `get_answered` | B pushed to two repositories and asked for twice, any two of the four at a time; one crash and any panic; fairness | `NeverGotta`, `LockReleased`, `GetAnswered`, `DedupEnds` (228 thousand states) |
| `partial_codec` | 25 gzip files, intact, misread and damaged, through decode and encode with four buffer sizes | `RoundTrip` (byte for byte), `NoSilentDamage`, `ToolsSucceed`, `DecodesPrefix` (what is decoded so far is right at every step), `PTypeOK` (the buffers keep their bounds; the overlapping symbol buffer is never written over), `TablesDecode`, `ToolsEnd` (19 thousand states) |
| `clustering` | ten blocks, two workers, a window of three blocks, both programs | the refinement `SequentialClustering`, `WithinThreshold`, `LabelsComplete`, the inductive `ThreadInv` (which bounds the window), and `Labelled`: the programs end (18 thousand states) |
| `trace_tools` | every trace of up to four blocks with four contents and two longer ones; the search with two threads and kills | `RecipesRestore`, `FileRestores`, `NoBlockForgotten`, `ResumedExact`, `BFEnds` (39 thousand states) |
| `blob_cache` | four files of sizes 0, 1, 1, 3 in a cache of 3 | `CacheOK`, `SizesExact`, `FullNeverGrows`, `EvictedUnlisted` (185 thousand states) |
| `lost_race` | A and B share a chunk | violated: the chunk is missing from a recipe |
| `recipe_error` | one Redis error | violated: the original is removed without a recipe |
| `get_races_dedup` | one push, one GET | violated: the fallback finds no file |
| `chunk_order` | A ends with the chunk B consists of | violated: A is restored in another order |
| `stream_complete` | a gzip file with an extra field, one with two members | violated: encode ends with success and only part of the file |

Why the bounds are enough to be interesting.  Layer A has a whole and a short chunk, so
numbering, the short tail and a recipe of several entries occur; B is exactly one chunk, the
first (or last) one of A, so a duplicate is met before and after a new chunk, and a layer can lose all its
chunks.  Two dedups suffice for each race of the code, a third one meets the state two
others have left.  One Redis error can hit any command and one crash any step.
`WarmCount` 0 makes F-mode start after the first dedup; the code's 200 only delays it.
`SizeThres` 0 is what a configuration without `registryparams` gives, and 2 in `cluster`
sends layers of at most two blocks through the local branch of `Uniqdistribution` and A through the
greedy one.  Two dedups in one *directory* are checked with a
crash (`get_answered`) but without Redis errors; the theorems of section 5 have no
such limit.  `MaxActive` bounds how many pushes and GETs run at a time, `MaxRequests` how many there are in all.  A GET
is blocked only by another one that left the buffer locked, and that takes two pushes in one directory and two GETs: this is
the instance of `get_answered`.  Two at a time suffice, since what a request leaves
behind for the next is in files, Redis and the buffer; which requests can leave a buffer locked at all is
`LockReleased`, which is proved for any number of them (section 5).

The codec's files have blocks of all three types in one stream; codes longer than the first level of a
table; the shortest and longest lengths and distances; literals that look like escapes and end
marks; a run of code lengths that crosses from literals to distances; a block with as many
symbols as zlib gathers, and one with too many; a stored block that is too long to be copied; a length of 258 with the code of
257; a zlib stream; three files with an extra field and one with two members; and thirteen files that are damaged, one
of which looks like a zlib stream.  Buffers of
2, 3 and 5 bytes run out in every mode, 40 lets `inflate_fast` run (`FastIn`, `FastOut` are 6 and 258
in the code; 8 for the latter is enough for what one instruction writes).  `LitBufsize` is 32 instead of 16384, which keeps
the ratio of `sym_end` to `lit_bufsize`.

Ten blocks on a line give clusters that grow while a block of the window is compared, blocks with two
equally near representatives, a duplicate, and a fine program that tries more than one threshold; `NUM_THREAD`
3 is two workers and the main thread.  In the trace programs `BATCH_SIZE` 2 and `LINEAR_SIZE` 2 (256 and
128 in the code) make batches end in the middle of a trace and move sketches to the index;
`MaxWork` 6 bounds how much is written over all starts of the search.  Capacity 3 lets one file fill the cache.

Fairness.  `Fairness` and `PPFairness` are weak fairness of each goroutine's next step: the Go
scheduler runs every runnable goroutine, Redis replies or the client times out (an error
reply), and a free `sync.Mutex` is handed to a waiter.  Nothing obliges a client to push or to
ask, and no fairness is put on crashes.  For the threaded programs it is weak fairness of the main
thread and of each worker: a thread that keeps asking for the mutex gets it.  The search is not
obliged to be started again after a kill.  The codec is sequential; it only has to keep running.

## 4. What the violations show

Each `violation` run states what a comment or the API document says, without the conditions under
which the passing properties hold.  They concern ordinary operation: an inverted
condition after a lost SETNX (`blobwriter.go:990,1038`), a recipe error that is returned
next to `isdedup = true` (`blobwriter.go:805,825`), a GET that reads the original after a dedup
removed it (`blobserver.go:1161`), chunks listed in the order they were found to be
known or new rather than in the order of the layer (`blobwriter.go:659,686`), and gzip files that are read from the wrong place or only in part
(`decode_docker.cpp:69,99,150`) while the encoder reports a complete stream.

Seen while modelling and not given a run of their own: F-mode removes the whole `diff` of a
layer that was deduplicated before (`blobwriter.go:595`); the RLMap is updated without a lock
(`blobwriter.go:511`); two dedups of a layer in one directory can leave a layer recipe that names no server, a GET of it
locks the restoring buffer and returns without unlocking it (`blobserver.go:897,919`), and the next GET of the layer
waits for ever (`blobserver.go:878`); `GetAnswered` and `LockReleased` hold except in this case (`NotOneHost`), and without the exception
TLC finds this behaviour in the instance of `get_answered`; `./decode` returns 0 for blobs that are no gzip file (`decode_docker.cpp:206-217`).

In the codec: a block with more symbols than `sym_buf` holds ends the encoder with success
(`deflate.c:1023,1029`; no property is claimed for such files); code lengths whose runs cross from
literals to distances, as some compressors other than zlib write them, come back with other runs, so the
layer is equal but not byte for byte (`RoundTrip` asks for `Canonical`, `NoSilentDamage` covers the
rest); a length of 258 that another compressor coded as 227 and 31 more comes back as its own code
(`trees.c:416`); an extra field makes the decoder start two bytes early (`decode_docker.cpp:69`), where it refuses the file or, when the
bytes there happen to read as a block, decodes something else; only the first member of a gzip file is decoded, and the
encoder does not notice; a raw stream the decoder refuses is tried as zlib, and one that looks like zlib is
accepted (`decode_docker.cpp:212`).  `NoSilentDamage` therefore speaks of files with neither (`Unambiguous`), and
`stream_complete` shows the loss.  The uninitialised values are those of section 2.

In the programs: `max` of the macros keeps -1 against a size, so `chooseRep` never takes its threaded branch
(`fine_xdelta3.cpp:77-79`); with `NUM_THREAD` 1 clustering waits for ever; fine prints clusters of one
block to the standard output only; the last duplicates of a trace get no recipe in DeepSketch and
`recipe_write` reads past the vector (`deepsketch_comp.cpp:100`, `compress.h:100`; `FileRestores` says what
holds up to there); a line that a kill cut is joined with the next run's first line
(`bf_xdelta3_all.cpp:52,102`; `ResumedExact` says what holds then); `xdelta3_compress` hands error codes on as sizes.

In the cache: `replace` shadows `old`, so ghosts stay in `items` and their bytes in `MemCache` until bigcache
drops them (`arc.go:41-63`); an eviction
between the two steps of `SetFile` leaves bytes that nothing lists.

## 5. Proofs

TLAPS proves the theorems below for every choice of the constants that satisfies the assumptions
named at the end.  They are about the definitions the runs check.  Of the inductive invariants the runs check
`FileInv` and `ThreadInv`, and of `OrderInv` the part `RecipesInOrder`; the others are proved only.

### Dedups (`Spec` of `LayerDedup`)

Any number of servers, layers and pushes, any contents, chunk size and thresholds, any number of
faults and crashes.

* `TypeCorrect`: `Spec => []TypeOK`, from `TypeInv`.  `TypeOK` is not inductive: `k` and `no`
  index `nodist`, so the shape of the local variables at each label (`LocalShape`) is needed, and `fcnt`
  is a number only because `unpack` is finite.
* `MetadataIsStable`: the action property, from the types alone.
* `RecipesAreClosed`, `OriginalIsKept`: from `RecipeInv`.  What `doDedup` remembers as
  written is stored (`WroteStored`), stored slices are not empty, and a dedup about to
  remove the original has stored its recipe (`FinishHasRecipe`).
* `FilesAreConsistent`, `DescriptorsAreLive`: from `FileInv`, in three layers.
  `PathInv`: a path belongs to the push that made it and is used once.
  `ScanInv`: without `sameLayer` only one dedup works in a directory, so the chunk digested is the chunk
  moved, and without errors a dedup that ends has deduplicated.
  `LiveInv`: a chunk that is pending or registered is on disk with its content.
* `NothingIsLeftOver`: from `TidyInv`.  While no process died and no two dedups shared a directory, every
  file of `unpack/` and every `data_partial` has an owner, which has still to look at it or is going to
  remove it, and `ReadDir` counts exactly the chunks of the layer (`AllListed`).
* `NoFileIsOrphaned`: from `DiffOwned`.  A file below `diff/uniquefiles` is registered, is still to be offered
  to SETNX, or is about to be removed with its directory.  Here Redis errors and lost races are allowed.
* `RecipesAreServable`: from `GenuineInv` (an entry of a slice or of a slice recipe is a registered descriptor, filed under the
  host it names) and `FileInv` (a registered descriptor's file exists and has its content).  It is what `packAllFilesToPartial`
  relies on.  Which server has the file is stated for a single registry only: `Uniqdistribution` may give a chunk another
  host than the one whose disk it stays on.
* `RecipesAreComplete`: from `WholeInv`.  While a dedup scans, each chunk it has passed is in a slice or
  pending; the size of a slice with chunks is not zero, so that `doDedup` does not skip it.
* `RecipesAreInOrder`: from `OrderInv`.  The new chunks are the last ones scanned, and what is in the slices is a
  prefix of the layer; this is the exact reason why a known chunk after a new one (`reorder`) breaks the order.

`LayerDedupProofs` first states, for each action, what it leaves alone and what it changes
(the `...Effect` lemmas); the invariance proofs use those instead of the definitions.

### Dedups and GETs (`PPSpec` of `PushPull`)

* `PushPullTypes`, `MetadataIsStableForGets`, and `GetsDoNotDisturb`: what is proved of the dedups alone also holds
  with GETs next to them.
* `ServedIsOriginal`: from `ServeInv`.  A GET past the layer recipe holds the recipe that is stored, a cached
  chunk is the one registered under its path, and the buffer of a GET that packs is the concatenation of
  the first chunks of the layer (`PackInOrder`, which needs `OrderInv`).
* `GottaIsNeverSent`, `ConstructionNeverFails`: for a single registry, from `AnswerInv`; a
  layer recipe then has exactly one host, and its slice recipe is there.
* `LocksAreReleased`: `[]LockReleased` without any condition.  A GET that has locked its buffer is at one of two labels, or has read
  a layer recipe with other than one host; recipes are never rebound, so that stays so (`NotOneHostStays`).  The
  theorem adds that an undisturbed single registry has no such recipe.

### Clustering

`CallSpec` is `bruteForceCluster` with a caller that may pass any blocks, any clusters without an empty one and
any threshold below `INF`.

* `CallTypes`, `ThreadsAreConsistent`: from `BTypeOK` and `ThreadInv`.  The queue holds the last blocks of the
  window in order (`QueueInv`); each earlier one is with one worker or in one result (`HeldInv`,
  `OnceInv`), which also gives the size of the window (`CountInv`); a result has the nearest of the
  first `mx` representatives (`ResultInv`) and stays right while the main thread opens clusters, because
  representatives are only appended.
* `CallsAreSequential`: `CallSpec => SequentialClustering`.  Placing a block is one step of `GreedyCluster`,
  every other step a stutter.  What a worker found among the first representatives and what the main
  thread finds among the rest together is the nearest of all (`ScanSplit`), and the nearest is unique
  (`NearestUnique`).
* `ProgramsAreSequential`, `BlocksAreWithin`, `WindowIsBounded`, `ProgramsAreConsistent`: the same over all calls
  of the two programs, with whatever they pass.  That they pass blocks, and clusters without an empty one
  (`ArgumentsOK`), follows from `WholeInv`: `CallWhole` says that the clusters of a call and the blocks it has
  still to place have no block in common and together are the blocks of the call; `ChoiceWhole` that the clustering fine
  keeps is one of the cluster it divides; `LogWhole` that what fine has printed and has not yet read, the single blocks and the
  cluster in hand have no block in common and together are all blocks; `CoarseWhole` that coarse has printed nothing.
* `BlocksAreOnce`: `[]EachBlockOnce`, from `CallWhole`: a block of a call is at one place of the clusters or still to be placed.
  It is proved only.
* `LabelsAreComplete`: `[]LabelsComplete`, from `LogWhole`; `LabelsOfPrinted` is what reading the printed log back
  gives.  Its hypothesis `SumsBelowINF` is a limit of the code: fine starts `optimal` at `INF` and keeps no
  clustering whose sum of distances is not below it.  Without the hypothesis `LabelsOnce` still holds: no block is
  labelled twice, and every labelled block is of the trace.
  One more limit is left out of the model: `LeastSum` takes the block with the least sum of deltas even when
  no sum is below `INF` (`coarse_xdelta3.cpp:251` would leave -1).

The programs fold, filter and flatten sequences and parse a log.  What that computes is proved without
induction: of the places where a claim fails one is the least (`LeastNumber`), and one step of the
recursive function there contradicts that.

### Trace programs (`Spec` of `TraceTools`)

Any traces, contents, sizes after LZ4 and xdelta3, super-features, sketches and distances, any batch and list size; any number of
threads, runs and kills of the search.

* `RecipesBringBack`, `FileBringsBack`, `StoreTypes`: from `StoreInv`.  `RecipesRestore` follows references through
  chains of any length, so the invariant says it link by link (`RecipesOK`): each recipe names an earlier block with the
  same content, or a piece at its offset that is the block itself or a delta against the block it names.  The least recipe
  that would not restore its block then contradicts its own link.  `PendingOK` is what makes the links right
  in DeepSketch: the blocks of a batch and the duplicates put off (`dedup_lazy_recipe`) are together exactly the blocks between
  the last recipe and the one main is at, each in order, so that a recipe is appended at the number of its block.
  `TablesOK` keeps references in the past, `FileOK` the file equal to the recipes with undefined entries after the last.
* `NoneForgotten`, `ResumptionExact`: from `SearchInv`.  `Kept`: a unique block is to do, with one thread or in the result.
  `ResumeOK`: the text in the file and in the stream spells the triples of the result, and as `fscanf` reads it the file
  alone gives the triples the next run starts from.  Where a line was cut two numbers run
  together; the second has at most nine digits (`Shift`).  `ResumptionExact` speaks of
  kills that cut no line (`cut` is false); `NoneForgotten` of all.
* `ToolTypes`: from both.

### Cache

* `CacheIsConsistent`, `SizesAreExact`, `FullCacheDoesNotGrow`, `EvictedFilesAreUnlisted`: from `CacheInv`, for any files,
  sizes (zero too) and capacity.  `CacheOK` is not inductive: `set` and `replace` decide by the counters which list to
  take a tail of, so the invariant says that each counter is the size of the listed files.  It says so by the partial
  sums of the list (`Sums`), because the recursive sum (`Sum`) cannot be unfolded by the provers; that both agree
  is the lemma `SumIsLast`, by the least place where they would differ.  For a ghost list of empty files `set` would divide
  by zero (`arc.go:129,137`); the registry stores no empty file, and the model takes it as the end of the process (`down`).

### Assumptions

There are finitely many servers and at least one, and `NoHost` is none; a push or GET names a server,
repository and layer; decoded layers are not empty (`./decode` starts its output with an offset); sizes
and thresholds are natural numbers; there are at least two threads and windows are not empty; blocks are numbered and distances are below `INF`;
`2^CoarseShift` is a positive number (TLC evaluates it; the provers know nothing of exponentiation);
the cache has a positive capacity; a trace has at least one block and blocks compress to at least one byte
(`TraceAssumption`, `SearchAssumption`); there is at least one super-feature, and batches and lists have room for one entry
(`SketchAssumption`); the search has at least one thread (`ThreadsAssumption`).

### Only model-checked

* Liveness: `GetAnswered`, `DedupEnds`, `ToolsEnd`, `Labelled`, `BFEnds`.  Liveness is out of the prover's reach here.
* The codec (`RoundTrip`, `NoSilentDamage`, `DecodesPrefix`, `TablesDecode`, `ToolsSucceed`, `PTypeOK`): what
  its readings of a stream compute is induction over data.  That holds for `PTypeOK` too: whether a length or a
  distance is in its range at a mode depends on which code comes next in the stream, that is on the grammar of what
  the compressor wrote, block by block and code by code.

## 6. Not modelled

* The DupHunter mode (`do_partial = false`), forwarding between servers and prefetching: the
  code is there and not called.
* Failures of local file operations other than a missing file, and a full disk.
* Collisions of the six random digits that name a directory below `diff/uniquefiles`.
* Layers of 2 GiB and more, whose length the codec keeps in an `int`.
* The mode of `inflate.c` that writes plain data (`MY_ZLIB` off), gzip headers inside `j_inflate`
  (the tools skip the header themselves), and the parts of zlib's deflate that compress: the tools never
  call them.
* `RP` and the threaded `chooseRep` (dead code), the multi-candidate programs, `merge_files.c`, `my_finesse`, progress output and timing.
* Manifests, tags, garbage collection, notifications, proxy, drivers and health checks: upstream code that
  deduplication leaves as it was.
* Third-party code.  Of the 80 thousand lines of C and C++ in the repository, xdelta3, LZ4, xxHash, NGT, the
  B-tree and the tables of `crc32.h` make up more than four fifths; none of it is SimEnc's, and a model of a
  hash or a delta coder would be its arithmetic again.  SimEnc's own C++ programs have some 3000 lines, the
  zlib it changed some 8000 without the tables.  That is why the modelled share of all C and C++
  lines is small although the programs that are SimEnc's own are modelled.

## 7. Plan

Done: `DedupMetadata`, `LayerDedup`, `LayerRestore`, `PushPull`; the codec; clustering with its
refinement; the trace programs; the cache.  Proved: dedups, dedups with GETs, clustering, the trace programs, the
cache.  Next, in this order:

1. Proofs: the codec, beginning with `PTypeOK`, from an invariant that relates the mode of each tool to the code
   at its place in the stream.
2. `UploadLifecycle`: write, resume, commit, cancel and purge of an upload, the descriptor
   cache in Redis and its errors, composed with `LayerDedup` in place of the single `Push`.
3. `LayerStore`: an abstract store (committed layers and their bytes) that `PushPull` implements in
   behaviours without the named events.
4. Garbage collection as an action on the files and its effect on recipes.
