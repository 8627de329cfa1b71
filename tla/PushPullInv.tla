----------------------------- MODULE PushPullInv -----------------------------
(***************************************************************************)
(* The strengthenings that make the invariants of PushPull inductive;      *)
(* ServeProofs proves them.                                                *)
(***************************************************************************)
EXTENDS PushPull, LayerDedupInv

\* What a GET that has read the layer recipe knows of it.
HasHosts(g) == g.layer \in DOMAIN layerRecipe /\ gloc[g].hosts = layerRecipe[g.layer]

RecipeRead ==
    \A g \in Gets :
        /\ gpc[g] \in {"load", "wait", "lock", "slice"} => HasHosts(g)
        /\ gpc[g] = "slice" => Cardinality(gloc[g].hosts) = 1
        /\ gpc[g] \in {"idle", "cache", "recipe"} => gloc[g] = NoGetLocal
        /\ gpc[g] \in {"load", "wait", "lock", "slice"} => gloc[g].i = 1 /\ gloc[g].buf = <<>>
        /\ gpc[g] = "wait" => Dir(g) \in DOMAIN restoring

\* A cached chunk is the chunk that is registered under its path.
CachedChunks ==
    Undisturbed =>
        \A key \in DOMAIN chunkCache :
            \E c \in DOMAIN fileDesc : fileDesc[c].path = key[2] /\ chunkCache[key] = c

\* The first n chunks of layer l.
FirstChunks(l, n) ==
    SubSeq(Content[l], 1,
           IF n * ChunkSize < Len(Content[l]) THEN n * ChunkSize ELSE Len(Content[l]))

\* The files are the chunks of the layer in order, and the buffer holds those
\* before number i.
PackInOrder(g) ==
    /\ Len(gloc[g].files) = ChunkNum(Content[g.layer])
    /\ \A i \in ChunkIndices(g.layer) :
          /\ ChunkOf(g.layer, i) \in DOMAIN fileDesc
          /\ gloc[g].files[i] = fileDesc[ChunkOf(g.layer, i)]
    /\ gloc[g].i \in 1..(ChunkNum(Content[g.layer]) + 1)
    /\ gloc[g].buf = FirstChunks(g.layer, gloc[g].i - 1)

Packing == Undisturbed => \A g \in Gets : gpc[g] = "pack" => PackInOrder(g)

\* What may be sent for layer l: the layer itself, or no file at all.
Honest(l, a) == a.kind \in {"bytes", "garbled"} => a = Bytes(Content[l])

AllHonest ==
    Undisturbed =>
        /\ \A g \in Gets : g.layer \notin NotGzip =>
              Honest(g.layer, gloc[g].bss) /\ Honest(g.layer, answer[g])
        /\ \A d \in DOMAIN layerCache : d[2] \notin NotGzip => Honest(d[2], layerCache[d])

\* On a single registry no buffer, no cache and no answer is "gotta!".
SingleServer == Cardinality(Servers) = 1

GottaFree ==
    faults = 0 /\ SingleServer =>
        /\ gotta = {}
        /\ \A g \in Gets : gloc[g].bss.kind # "gotta" /\ answer[g].kind # "gotta"
        /\ \A d \in DOMAIN layerCache : layerCache[d].kind # "gotta"

\* No error is kept to be sent, so an error is the end of a GET.
ErrorsEnd ==
    /\ \A g \in Gets :
          gloc[g].bss.kind # "error" /\ (answer[g].kind = "error" => gpc[g] = "done")
    /\ \A d \in DOMAIN layerCache : layerCache[d].kind # "error"

\* A construction that has read a recipe does not fall back to the original.
FallbackUnread ==
    Undisturbed /\ SingleServer =>
        \A g \in Gets : gpc[g] = "fallback" /\ g.layer \notin NotGzip => ~gloc[g].sawRecipe

AnswerInv == GottaFree /\ ErrorsEnd /\ FallbackUnread /\ ConstructionSucceeds /\ LockReleased

ServeInv == RecipeRead /\ CachedChunks /\ Packing /\ AllHonest

=============================================================================
