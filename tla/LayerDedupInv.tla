---------------------------- MODULE LayerDedupInv ----------------------------
(***************************************************************************)
(* The strengthenings that make the invariants of LayerDedup inductive,    *)
(* and what the recipes hold, which the GET handler relies on.  The proof  *)
(* modules prove all of them; runs check FileInv, RecipesServable and      *)
(* RecipesInOrder too.                                                     *)
(***************************************************************************)
EXTENDS LayerDedup

BeforeScan == {"idle", "open", "statrl", "setrl", "decode", "split", "list"}
Scanning == {"check", "remove", "rename"}
BeforeRegister == BeforeScan \cup Scanning \cup {"decide", "empty"}

\* The new chunks of push w that have not been offered to SETNX yet.
Pending(w) ==
    (IF pc[w] = "lost" THEN loc[w].k + 1 ELSE loc[w].k) .. Len(loc[w].nodist)

Registered(p) == \E c \in DOMAIN fileDesc : fileDesc[c].path = p

\* The conditions under which no chunk file is ever removed by mistake.
Quiet == faults = 0 /\ events \cap {"sameLayer", "fmode"} = {}

-----------------------------------------------------------------------------
(* Types. *)

\* What the local variables l of Dedup are when it is at label.
Shape(l, label) ==
    /\ label \in BeforeScan => l.nodist = <<>> /\ l.no = 1
    /\ label \in BeforeRegister => l.k = 1 /\ ~l.isdedup
    /\ label \in BeforeScan \cup Scanning => ~l.someWrong
    /\ label = "lost" => l.k <= Len(l.nodist)

LocalShape == \A w \in Pushes : Shape(loc[w], pc[w])

TypeInv == TypeOK /\ IsFiniteSet(DOMAIN unpack) /\ LocalShape

-----------------------------------------------------------------------------
(* Recipes. *)

\* A slice recipe doDedup counts as written is in Redis.
WroteStored ==
    \A w \in Pushes : \A h \in loc[w].wrote : <<w.layer, h>> \in DOMAIN sliceRecipe

SlicesNonEmpty == \A x \in DOMAIN sliceRecipe : sliceRecipe[x] # <<>>

\* A dedup about to remove the original has stored the layer recipe.
FinishHasRecipe ==
    faults = 0 =>
        \A w \in Pushes :
            pc[w] = "finish" /\ loc[w].isdedup => w.layer \in DOMAIN layerRecipe

RecipeInv ==
    /\ WroteStored
    /\ SlicesNonEmpty
    /\ RecipesClosed
    /\ FinishHasRecipe
    /\ OriginalKept

-----------------------------------------------------------------------------
(* Chunk files. *)

\* A push that is still scanning has not used the path of its next chunk.
FreshPaths ==
    \A p \in DOMAIN diff :
        pc[p[1]] \in BeforeScan \cup Scanning => p[2] < loc[p[1]].no

\* The new chunks of a push are in files of its own, each in another one.
OwnedPaths ==
    \A w \in Pushes : \A i \in 1..Len(loc[w].nodist) :
        /\ loc[w].nodist[i].path[1] = w
        /\ loc[w].nodist[i].path[2] < loc[w].no
        /\ \A j \in 1..Len(loc[w].nodist) :
              i # j => loc[w].nodist[i].path # loc[w].nodist[j].path

\* A descriptor is stored under its digest, by a push that has ended its scan.
DescriptorsWellFormed ==
    \A c \in DOMAIN fileDesc :
        /\ fileDesc[c].digest = c
        /\ pc[fileDesc[c].path[1]] \notin BeforeRegister

PendingUnregistered ==
    \A w \in Pushes : \A i \in Pending(w) : ~Registered(loc[w].nodist[i].path)

\* At most one dedup works in the directory of a layer.
Exclusive ==
    "sameLayer" \notin events =>
        \A v, w \in Pushes : Active(v) /\ Active(w) /\ SameDir(v, w) => v = w

\* The chunk that was digested is the chunk that is moved.
ChunkPresent ==
    "sameLayer" \notin events =>
        \A w \in Pushes :
            /\ pc[w] # "empty"
            /\ pc[w] = "list" => UnpackDir(w) # {}
            /\ pc[w] \in Scanning \cup {"decide"} => loc[w].fcnt # 0
            /\ pc[w] \in {"remove", "rename"} =>
                  /\ ChunkFile(w, loc[w].no) \in DOMAIN unpack
                  /\ unpack[ChunkFile(w, loc[w].no)] = loc[w].dgst

\* Without faults every dedup that gets to its end has deduplicated.
NothingWrong ==
    Quiet =>
        \A w \in Pushes :
            /\ ~loc[w].someWrong
            /\ pc[w] \in {"register", "lost", "finish"} => loc[w].isdedup

PendingLive ==
    Quiet =>
        \A w \in Pushes : \A i \in Pending(w) :
            /\ loc[w].nodist[i].path \in DOMAIN diff
            /\ diff[loc[w].nodist[i].path] = loc[w].nodist[i].digest

\* Who owns which path, who works in which directory, and which files exist.
PathInv == FreshPaths /\ OwnedPaths /\ DescriptorsWellFormed /\ PendingUnregistered
ScanInv == Exclusive /\ ChunkPresent /\ NothingWrong
LiveInv == PendingLive /\ DescriptorsLive

FileInv == PathInv /\ ScanInv /\ LiveInv

-----------------------------------------------------------------------------
(* Directories. *)

\* No process died and no two dedups shared a directory.
Tidy == crashes = 0 /\ "sameLayer" \notin events

\* Where a dedup may have files in unpack/, and in data_partial.
Unpacked == {"list"} \cup Scanning \cup {"decide", "empty", "register", "lost", "finish"}
Decoded == Unpacked \cup {"split"}

\* The unpack/ file f belongs to push v, which still has to look at it or is
\* going to remove the directory.
Owns(v, f) ==
    /\ f[1] = v.srv /\ f[2] = v.layer
    /\ pc[v] \in Unpacked
    /\ pc[v] \in Scanning => f[3] >= loc[v].no
    /\ pc[v] \in {"register", "lost", "finish"} => ~loc[v].isdedup

WrongScan ==
    \A v \in Pushes :
        /\ loc[v].isdedup => ~loc[v].someWrong
        /\ pc[v] = "decide" => loc[v].someWrong

PartialOwned ==
    Tidy =>
        \A d \in DOMAIN partial :
            /\ partial[d] = Content[d[2]]
            /\ \E v \in Pushes : Dir(v) = d /\ pc[v] \in Decoded

UnpackOwned ==
    Tidy =>
        \A f \in DOMAIN unpack :
            /\ f[3] <= ChunkNum(Content[f[2]])
            /\ unpack[f] = ChunkAt(Content[f[2]], f[3])
            /\ \E v \in Pushes : Owns(v, f)

\* ReadDir counts the chunks of the layer.
AllListed ==
    Tidy =>
        \A v \in Pushes :
            /\ pc[v] = "list" => Cardinality(UnpackDir(v)) = ChunkNum(Content[v.layer])
            /\ pc[v] \in Scanning => loc[v].fcnt = ChunkNum(Content[v.layer])

TidyInv == WrongScan /\ PartialOwned /\ UnpackOwned /\ AllListed

\* A file below diff/uniquefiles is registered, or is still to be offered to
\* SETNX, or is going to be removed with its directory.
Kept(p) ==
    \/ Registered(p)
    \/ /\ Active(p[1]) /\ pc[p[1]] # "finish"
       /\ \E i \in Pending(p[1]) : loc[p[1]].nodist[i].path = p
    \/ pc[p[1]] = "finish" /\ ~loc[p[1]].isdedup

DiffOwned == crashes = 0 => \A p \in DOMAIN diff : Kept(p)

-----------------------------------------------------------------------------
(* What the slices hold. *)

ChunkOf(l, i) == ChunkAt(Content[l], i)
ChunkIndices(l) == 1..ChunkNum(Content[l])

\* des is the descriptor under which its chunk is registered, and names host h.
Genuine(des, h) ==
    /\ des.digest \in DOMAIN fileDesc
    /\ fileDesc[des.digest] = des
    /\ des.host = h

\* Without Redis errors a slice lists only registered descriptors that name its host.
SlicesGenuine ==
    faults = 0 =>
        \A w \in Pushes :
            /\ pc[w] = "remove" => Genuine(loc[w].des, loc[w].des.host) /\ loc[w].des.digest = loc[w].dgst
            /\ pc[w] = "lost" => loc[w].nodist[loc[w].k].digest \in DOMAIN fileDesc
            /\ \A h \in Hosts : \A j \in DOMAIN loc[w].slices[h] : Genuine(loc[w].slices[h][j], h)

RecipesGenuine ==
    faults = 0 =>
        \A x \in DOMAIN sliceRecipe : \A j \in DOMAIN sliceRecipe[x] :
            Genuine(sliceRecipe[x][j], x[2])

HostsGenuine == faults = 0 => \A l \in DOMAIN layerRecipe : layerRecipe[l] \subseteq Servers

GenuineInv == SlicesGenuine /\ RecipesGenuine /\ HostsGenuine

\* What packAllFilesToPartial needs of a slice recipe: each entry names a chunk
\* file that exists and has the digest of the entry, also after lost races and
\* crashes; on a single registry it is a file of the server whose recipe it is.
\* (Uniqdistribution may name another host than the one the file stays on, once
\* there are several.)
RecipesServable ==
    Quiet =>
        \A x \in DOMAIN sliceRecipe : \A j \in DOMAIN sliceRecipe[x] :
            LET des == sliceRecipe[x][j] IN
            /\ des.path \in DOMAIN diff
            /\ diff[des.path] = des.digest
            /\ Cardinality(Servers) = 1 => des.path[1].srv = x[2]

\* The conditions under which every dedup lists every chunk of its layer.
Whole == faults = 0 /\ Tidy /\ "lostRace" \notin events

OfLayer(c, l) == \E i \in ChunkIndices(l) : c = ChunkOf(l, i)
InSlices(slices, c) ==
    /\ c \in DOMAIN fileDesc
    /\ \E j \in DOMAIN slices[fileDesc[c].host] : slices[fileDesc[c].host][j] = fileDesc[c]
ToRegister(w, c) == \E j \in Pending(w) : loc[w].nodist[j].digest = c

\* Each of the first n chunks of the layer is in a slice or will be registered.
Collected(w, n) ==
    \A i \in 1..n : InSlices(loc[w].slices, ChunkOf(w.layer, i)) \/ ToRegister(w, ChunkOf(w.layer, i))

ScanCollects ==
    Whole =>
        \A w \in Pushes :
            /\ pc[w] \notin {"decide", "lost"}
            /\ pc[w] \in Scanning =>
                  loc[w].no <= ChunkNum(Content[w.layer]) + 1 /\ Collected(w, loc[w].no - 1)
            /\ pc[w] = "register" => Collected(w, ChunkNum(Content[w.layer]))

\* A slice holds chunks of the layer, so its size is not zero.
SlicesOfLayer ==
    Whole =>
        \A w \in Pushes :
            /\ \A j \in 1..Len(loc[w].nodist) : OfLayer(loc[w].nodist[j].digest, w.layer)
            /\ \A h \in Hosts :
                  /\ \A j \in DOMAIN loc[w].slices[h] : OfLayer(loc[w].slices[h][j].digest, w.layer)
                  /\ loc[w].slices[h] # <<>> => loc[w].size[h] > 0

SliceRecipesWhole ==
    Whole =>
        \A x \in DOMAIN sliceRecipe :
            /\ \A j \in DOMAIN sliceRecipe[x] : OfLayer(sliceRecipe[x][j].digest, x[1])
            /\ \A i \in ChunkIndices(x[1]) :
                  /\ ChunkOf(x[1], i) \in DOMAIN fileDesc
                  /\ fileDesc[ChunkOf(x[1], i)].host = x[2] =>
                        \E j \in DOMAIN sliceRecipe[x] : sliceRecipe[x][j] = fileDesc[ChunkOf(x[1], i)]

LayerRecipesWhole ==
    Whole =>
        \A l \in DOMAIN layerRecipe : \A i \in ChunkIndices(l) :
            /\ ChunkOf(l, i) \in DOMAIN fileDesc
            /\ fileDesc[ChunkOf(l, i)].host \in layerRecipe[l]

WholeInv == ScanCollects /\ SlicesOfLayer /\ SliceRecipesWhole /\ LayerRecipesWhole

-----------------------------------------------------------------------------
(* In which order the slices hold it. *)

\* Nothing went wrong.
Ordered == faults = 0 /\ crashes = 0 /\ events = {}

\* How many chunks have been put into slices when no - 1 are scanned, nodist
\* are new and k - 1 of these are registered.
Sliced(nodist, no, k) == no - 1 - Len(nodist) + (k - 1)

\* The new chunks are the last ones that were scanned.
NewAreLast(nodist, no, k, l) ==
    /\ Len(nodist) < no
    /\ k <= Len(nodist) + 1
    /\ \A j \in 1..Len(nodist) : nodist[j].digest = ChunkOf(l, no - 1 - Len(nodist) + j)

\* If only one host has a slice, it holds the first n chunks of l in order.
PrefixOf(slices, l, n) ==
    \A h \in Hosts :
        (\A g \in Hosts \ {h} : slices[g] = <<>>) =>
            Len(slices[h]) = n /\ \A j \in 1..n : slices[h][j].digest = ChunkOf(l, j)

SlicesInOrder ==
    Ordered =>
        \A w \in Pushes :
            /\ pc[w] \in BeforeScan => \A h \in Hosts : loc[w].slices[h] = <<>>
            /\ pc[w] \in Scanning \cup {"register"} =>
                  /\ NewAreLast(loc[w].nodist, loc[w].no, loc[w].k, w.layer)
                  /\ PrefixOf(loc[w].slices, w.layer, Sliced(loc[w].nodist, loc[w].no, loc[w].k))
            /\ pc[w] = "register" => loc[w].no = ChunkNum(Content[w.layer]) + 1

\* When nothing went wrong, a slice recipe that holds all chunks of its layer
\* lists them in the order of the layer (CheckPartialDedup, Uniqdistribution),
\* in which packAllFilesToPartial concatenates them.
RecipesInOrder ==
    Ordered =>
        \A x \in DOMAIN sliceRecipe :
            (\A i \in ChunkIndices(x[1]) : fileDesc[ChunkOf(x[1], i)].host = x[2]) =>
                /\ Len(sliceRecipe[x]) = ChunkNum(Content[x[1]])
                /\ \A i \in ChunkIndices(x[1]) : sliceRecipe[x][i] = fileDesc[ChunkOf(x[1], i)]

OrderInv == SlicesInOrder /\ RecipesInOrder

=============================================================================
