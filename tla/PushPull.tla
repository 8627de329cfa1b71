------------------------------- MODULE PushPull -------------------------------
(***************************************************************************)
(* The registry under pushes and pulls: the Dedup goroutines of LayerDedup *)
(* and the GET handlers of LayerRestore, which share Redis, the files of   *)
(* each server and the registry process itself.                            *)
(***************************************************************************)
EXTENDS LayerRestore

CONSTANTS MaxRequests,   \* how many pushes and GETs clients make
          MaxActive      \* and how many of them at the same time

allVars == <<vars, getVars>>

PPInit == Init /\ RestoreInit

\* A GET touches neither the files nor the dedup goroutines.
DedupOwnVars == <<storeVars, counter, workerVars, historyVars>>

MoreRequests ==
    /\ Cardinality({w \in Pushes : pc[w] # "idle"})
        + Cardinality({g \in Gets : gpc[g] # "idle"}) < MaxRequests
    /\ Cardinality({w \in Pushes : Active(w)})
        + Cardinality({g \in Gets : GetActive(g)}) < MaxActive

PPPush(w) == MoreRequests /\ Push(w) /\ UNCHANGED getVars
PPDedup(w) == DedupStep(w) /\ UNCHANGED getVars
PPPanic(w) == Panic(w) /\ RestoreDies(w.srv)
PPCrash(s) == Crash(s) /\ RestoreDies(s)
PPGet(g) == MoreRequests /\ Get(g) /\ UNCHANGED DedupOwnVars
PPServe(g) == GetStep(g) /\ UNCHANGED DedupOwnVars

PPNext ==
    \/ \E w \in Pushes : PPPush(w) \/ PPDedup(w) \/ PPPanic(w)
    \/ \E s \in Servers : PPCrash(s)
    \/ \E g \in Gets : PPGet(g) \/ PPServe(g)

PPSpec == PPInit /\ [][PPNext]_allVars

\* The Go scheduler runs every goroutine and every handler; sync.Mutex hands
\* the lock to a waiter once it is free.
PPFairness ==
    /\ \A w \in Pushes : WF_allVars(PPDedup(w) \/ PPPanic(w))
    /\ \A g \in Gets : WF_allVars(PPServe(g))

PPFairSpec == PPSpec /\ PPFairness

-----------------------------------------------------------------------------
(* Properties. *)

\* Nothing went wrong: no Redis error, no crash, no rare event.
Undisturbed == faults = 0 /\ crashes = 0 /\ events = {}

\* If g was sent a file, then it is the one that was pushed.
ServedOriginal(g) ==
    answer[g].kind \in {"bytes", "garbled"} => answer[g] = Bytes(Content[g.layer])

\* Every variable of the dedups and of the GETs holds a value of its type.
PPTypeOK == TypeOK /\ RestoreTypeOK

\* A client never receives another layer than the one pushed, whichever of
\* cache, buffer, chunks and original it comes from.
ServedBytesAreOriginal ==
    Undisturbed =>
        \A g \in Gets : g.layer \notin NotGzip => ServedOriginal(g)

\* On a single registry "gotta!" is never sent instead of a layer, nor cached:
\* a layer recipe that names one host is followed by that host's slice recipe.
NeverGotta ==
    faults = 0 /\ Cardinality(Servers) = 1 =>
        \A g \in Gets : answer[g].kind # "gotta"

\* On a single registry a GET that has read the recipe of the layer is
\* answered with its bytes: the construction does not fail half way.
ConstructionSucceeds ==
    Undisturbed /\ Cardinality(Servers) = 1 =>
        \A g \in Gets :
            answer[g].kind = "error" /\ g.layer \notin NotGzip => ~gloc[g].sawRecipe

\* The recipe of layer l names no host, or several.
NotOneHost(l) == l \in DOMAIN layerRecipe /\ Cardinality(layerRecipe[l]) # 1

\* A Restoringbuffer is locked only while the GET that owns it constructs the
\* layer, whatever fails meanwhile; the one return of constructLayerFromPartial
\* that forgets the unlock is that for a layer which is not on one host.
LockReleased ==
    \A g \in locked : gpc[g] \in {"slice", "pack"} \/ NotOneHost(g.layer)

\* Every GET is answered, or waits for the buffer of a layer that is not on one
\* host, which a GET before it has left locked.
GetAnswered ==
    \A g \in Gets :
        GetActive(g) ~> (~GetActive(g) \/ (gpc[g] = "wait" /\ NotOneHost(g.layer)))

-----------------------------------------------------------------------------
(* What comments of the code and the API specification say without the     *)
(* conditions above.  TLC finds a counterexample for each.                  *)

\* "the construction failed, the original file was not deleted": whenever the
\* construction fails, the fallback finds the original file (ServeBlob).
FallbackFindsOriginal ==
    Undisturbed /\ Cardinality(Servers) = 1 =>
        \A g \in Gets : answer[g].kind # "error"

\* "The blob content will be present in the body": the bytes of a restored
\* blob are those pushed, whatever it is and in whatever order its chunks were found.
BodyIsTheBlob ==
    faults = 0 /\ crashes = 0 /\ events \subseteq {"reorder"} =>
        \A g \in Gets : ServedOriginal(g)
=============================================================================
