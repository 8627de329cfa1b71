----------------------------- MODULE BlobCache ------------------------------
(***************************************************************************)
(* The file cache of the registry (src/simenc/registry/storage/driver/     *)
(* gcache/): FileLST, an ARC over the sizes of the files, says which files *)
(* are cached; MemCache, a bigcache that may drop entries of its own, has  *)
(* the bytes.  Goroutines call SetFile and GetFile; each call to FileLST   *)
(* holds its mutex, and between SetFile's two calls anything may happen.   *)
(* A cached file keeps its size: keys are digests or paths of chunk files. *)
(*                                                                         *)
(* Get renews the expiration before it looks at it, so with a positive TTL *)
(* nothing expires.                                                        *)
(***************************************************************************)
EXTENDS Integers, Sequences, FiniteSets, SequencesExt

CONSTANTS Keys,
          SizeOf,       \* SizeOf[k]: of the file with key k
          Capacity      \* c.size (FileCacheCap)

ASSUME CacheAssumption == Capacity \in Nat \ {0} /\ SizeOf \in [Keys -> Nat]

VARIABLES arc,      \* the lists t1, t2, b1, b2, front first, part and the keys of items
          mem,      \* the keys in MemCache
          writing,  \* keys whose SetFile has not reached MemCache
          down      \* an integer was divided by zero in a goroutine: the process ended

vars == <<arc, mem, writing, down>>

-----------------------------------------------------------------------------
\* arcList: the keys, front first, and size, which each operation keeps up.
newARCList == [l |-> <<>>, size |-> 0]
Has(al, k) == k \in ToSet(al.l)
Without(l, k) == RemoveAt(l, CHOOSE n \in DOMAIN l : l[n] = k)
MoveToFront(al, k) == [al EXCEPT !.l = <<k>> \o Without(@, k)]

PushFront(al, k) ==
    IF Has(al, k) THEN MoveToFront(al, k)
    ELSE [l |-> <<k>> \o al.l, size |-> al.size + SizeOf[k]]

RemoveKey(al, k) == [l |-> Without(al.l, k), size |-> al.size - SizeOf[k]]

\* Mutant: the size is left as it was.
RemoveTailKeepsSize(al) ==
    CASE al.l # <<>> -> [l |-> Front(al.l), size |-> al.size]

\* RemoveTail of an empty list follows a nil pointer; here it has no value.
RemoveTail(al) ==
    CASE al.l # <<>> -> [l |-> Front(al.l), size |-> al.size - SizeOf[Last(al.l)]]

isCacheFull(c) == c.t1.size + c.t2.size >= Capacity
setPart(c, p) == IF isCacheFull(c) THEN [c EXCEPT !.part = p] ELSE c

(***************************************************************************)
(* replace: the tail of t1 or t2 becomes a ghost in b1 or b2.  The key     *)
(* that is looked up in items afterwards is the outer variable old, which  *)
(* none of the branches assigns (each declares its own): items keeps the   *)
(* entry and evictedFunc is not called.                                    *)
(***************************************************************************)
replace(c, key) ==
    LET s1 == c.t1.size
        fromT1 == [c EXCEPT !.t1 = RemoveTail(@), !.b1 = PushFront(@, Last(c.t1.l))]
        fromT2 == [c EXCEPT !.t2 = RemoveTail(@), !.b2 = PushFront(@, Last(c.t2.l))]
    IN  IF ~isCacheFull(c) THEN c
        ELSE IF s1 > 0 /\ (s1 > c.part \/ (s1 >= c.part /\ Has(c.b2, key))) THEN fromT1
        ELSE IF c.t2.size > 0 THEN fromT2 ELSE fromT1

-----------------------------------------------------------------------------
Smaller(m, n) == IF m < n THEN m ELSE n
Larger(m, n) == IF m > n THEN m ELSE n

\* Mutant: the ghost stays a ghost.
RevivedStillGhost(c, key) ==
    LET d == setPart(c, Smaller(Capacity, c.part + 1))
    IN  [replace(d, key) EXCEPT !.t2 = PushFront(@, key)]

\* set finds the key among the ghosts of b1 or of b2.
Revived(c, key) ==
    IF Has(c.b1, key)
    THEN LET d == setPart(c, Smaller(Capacity, c.part + Larger(c.b2.size \div c.b1.size, 1)))
         IN  [replace(d, key) EXCEPT !.b1 = RemoveKey(@, key), !.t2 = PushFront(@, key)]
    ELSE LET d == setPart(c, Larger(0, c.part - Larger(c.b1.size \div c.b2.size, 1)))
         IN  [replace(d, key) EXCEPT !.b2 = RemoveKey(@, key), !.t2 = PushFront(@, key)]

\* Mutant: room only for a file that fills t1.
RoomForLarge(c, key) ==
    IF c.t1.size < Capacity THEN c
    ELSE [c EXCEPT !.t1 = RemoveTail(@), !.items = @ \ {Last(c.t1.l)}]

\* set puts a new key into t1 and makes room.
Room(c, key) ==
    LET total == c.t1.size + c.b1.size + c.t2.size + c.b2.size
        fewer == IF total < 2 * Capacity THEN c
                 ELSE IF c.b2.size > 0 THEN [c EXCEPT !.b2 = RemoveTail(@)]
                 ELSE IF c.b1.size > 0 THEN [c EXCEPT !.b1 = RemoveTail(@)] ELSE c
    IN  IF isCacheFull(c) /\ c.t1.size + c.b1.size >= Capacity
        THEN IF c.t1.size < Capacity
             THEN replace([c EXCEPT !.b1 = RemoveTail(@)], key)
             ELSE [c EXCEPT !.t1 = RemoveTail(@), !.items = @ \ {Last(c.t1.l)}]
        ELSE IF total >= Capacity THEN replace(fewer, key) ELSE c

set(c, key) ==
    LET d == [c EXCEPT !.items = @ \cup {key}]
    IN  CASE Has(c.t1, key) \/ Has(c.t2, key) -> d
          [] Has(c.b1, key) \/ Has(c.b2, key) -> Revived(d, key)
          [] OTHER -> Room([d EXCEPT !.t1 = PushFront(@, key)], key)

\* The quotient of set's ghost lists has no value.
DividesByZero(c, key) ==
    \/ Has(c.b1, key) /\ c.b1.size = 0
    \/ Has(c.b2, key) /\ c.b2.size = 0

-----------------------------------------------------------------------------
Init ==
    /\ arc = [t1 |-> newARCList, t2 |-> newARCList, b1 |-> newARCList, b2 |-> newARCList,
              part |-> 0, items |-> {}]
    /\ mem = {} /\ writing = {} /\ down = FALSE

\* Mutant: evictedFunc gets the key that is set.
SetFileEvictsNew(k) ==
    /\ ~down /\ k \notin writing /\ ~DividesByZero(arc, k)
    /\ arc' = set(arc, k)
    /\ mem' = IF arc.items \subseteq arc'.items THEN mem ELSE mem \ {k}
    /\ writing' = writing \cup {k}
    /\ UNCHANGED down

\* SetFile: FileLST.Set, with evictedFunc (MemCache.Delete) for the entry that
\* was deleted from items.  One goroutine at a time sets a key.
SetFile(k) ==
    /\ ~down /\ k \notin writing
    /\ IF DividesByZero(arc, k)
       THEN down' = TRUE /\ UNCHANGED <<arc, mem, writing>>
       ELSE /\ arc' = set(arc, k)
            /\ mem' = mem \ ((arc.items \cup {k}) \ arc'.items)
            /\ writing' = writing \cup {k}
            /\ UNCHANGED down

\* SetFile: MemCache.Set.
SetMem(k) ==
    /\ ~down /\ k \in writing
    /\ mem' = mem \cup {k}
    /\ writing' = writing \ {k}
    /\ UNCHANGED <<arc, down>>

\* GetFile: FileLST.Get of a file it lists; what MemCache.Get then finds
\* changes nothing.
GetFile(k) ==
    /\ ~down
    /\ \/ Has(arc.t1, k) /\ arc' = [arc EXCEPT !.t1 = RemoveKey(@, k), !.t2 = PushFront(@, k)]
       \/ Has(arc.t2, k) /\ arc' = [arc EXCEPT !.t2 = MoveToFront(@, k)]
    /\ UNCHANGED <<mem, writing, down>>

\* bigcache drops entries that are old or that it has no room for.
BigcacheDrops(k) ==
    /\ ~down /\ k \in mem
    /\ mem' = mem \ {k}
    /\ UNCHANGED <<arc, writing, down>>

Next == \E k \in Keys : SetFile(k) \/ SetMem(k) \/ GetFile(k) \/ BigcacheDrops(k)

Spec == Init /\ [][Next]_vars

-----------------------------------------------------------------------------
Listed(c) == ToSet(c.t1.l) \cup ToSet(c.t2.l)
Lists(c) == <<c.t1, c.t2, c.b1, c.b2>>

\* A key is in one of the four lists at most and once, part is within the
\* capacity, and items has every key of t1 and t2 (get follows items[key]
\* without a check).
CacheOK ==
    /\ \A m, n \in 1..4 : m # n => ToSet(Lists(arc)[m].l) \cap ToSet(Lists(arc)[n].l) = {}
    /\ \A n \in 1..4 : IsInjective(Lists(arc)[n].l)
    /\ arc.part \in 0..Capacity
    /\ Listed(arc) \subseteq arc.items /\ arc.items \subseteq Keys
    /\ mem \cup writing \subseteq Keys

\* The sum of the sizes of the files in a list.
Sum(l) ==
    LET upTo[n \in 0..Len(l)] == IF n = 0 THEN 0 ELSE upTo[n - 1] + SizeOf[l[n]]
    IN  upTo[Len(l)]

\* The size that arcList adds to and takes from is that of the files it lists,
\* however they move between the lists: RemoveTail is never called on an empty
\* list, and no list is taken for empty or full when it is not.
SizesExact == \A n \in 1..4 : Lists(arc)[n].size = Sum(Lists(arc)[n].l)

\* replace evicts one file however large the new one is, so the sizes may
\* pass the capacity; but once they have reached it the number of files no
\* longer grows.
FullNeverGrows ==
    [][isCacheFull(arc) => Len(arc'.t1.l) + Len(arc'.t2.l) <= Len(arc.t1.l) + Len(arc.t2.l)]_vars

\* The bytes of a file that FileLST lists leave MemCache only when bigcache
\* drops them: evictedFunc never deletes those of a listed file.
EvictedUnlisted ==
    [][\A k \in mem \ mem' : k \notin Listed(arc') \/ arc' = arc]_vars
=============================================================================
