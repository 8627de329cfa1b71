---------------------------- MODULE DedupMetadata ----------------------------
(***************************************************************************)
(* The deduplication metadata service: redisDedupMetadataService of        *)
(* registry/storage/cache/redis/redis.go.  Four key families live in one   *)
(* Redis cluster shared by every registry server:                          *)
(*                                                                         *)
(*   File::<digest>                 fileDesc      written with SETNX       *)
(*   Slice:Recipe::<digest>::<ip>   sliceRecipe   written with SETNX       *)
(*   Layer:Recipe::<digest>         layerRecipe   written with SETNX       *)
(*   RLMap::<repo>                  rlmap         written with SET         *)
(*                                                                         *)
(* Every command is one atomic step of Redis.  A command can also return   *)
(* an error to its caller (a connection error, a read timeout, a value     *)
(* that does not unmarshal); a write that returns an error may or may not  *)
(* have been applied, because the client's timeout says nothing of what    *)
(* the server did.  A reply is the Go caller's view of the outcome.        *)
(***************************************************************************)
EXTENDS Naturals, PartialMaps

CONSTANT MaxFaults      \* bound on the Redis commands that return an error

ASSUME MaxFaultsAssumption == MaxFaults \in Nat

VARIABLES
    fileDesc,           \* chunk digest -> file descriptor
    sliceRecipe,        \* <<layer, server>> -> sequence of file descriptors
    layerRecipe,        \* layer -> set of HostServerIps
    rlmap,              \* repository -> (layer -> count)
    faults              \* how many commands have returned an error so far

metadataVars == <<fileDesc, sliceRecipe, layerRecipe, rlmap, faults>>

StatReplies == {"ok", "nil", "error"}
SetNXReplies == {"set", "exists", "error"}
SetReplies == {"ok", "error"}

MetadataInit ==
    /\ fileDesc = EmptyMap
    /\ sliceRecipe = EmptyMap
    /\ layerRecipe = EmptyMap
    /\ rlmap = EmptyMap
    /\ faults = 0

\* A command that returns an error other than redisgo.Nil.
RedisError ==
    /\ faults < MaxFaults
    /\ faults' = faults + 1

\* GET: found, redisgo.Nil, or an error.
Stat(db, k, reply) ==
    \/ /\ reply = "ok"
       /\ k \in DOMAIN db
       /\ UNCHANGED faults
    \/ /\ reply = "nil"
       /\ k \notin DOMAIN db
       /\ UNCHANGED faults
    \/ /\ reply = "error"
       /\ RedisError

StatFile(dgst, reply) ==
    /\ Stat(fileDesc, dgst, reply)
    /\ UNCHANGED <<fileDesc, sliceRecipe, layerRecipe, rlmap>>

StatLayerRecipe(dgst, reply) ==
    /\ Stat(layerRecipe, dgst, reply)
    /\ UNCHANGED <<fileDesc, sliceRecipe, layerRecipe, rlmap>>

\* A server asks only for the slice recipe stored under its own address.
StatSliceRecipe(dgst, hostserverIp, reply) ==
    /\ Stat(sliceRecipe, <<dgst, hostserverIp>>, reply)
    /\ UNCHANGED <<fileDesc, sliceRecipe, layerRecipe, rlmap>>

StatRLMapEntry(reponame, reply) ==
    /\ Stat(rlmap, reponame, reply)
    /\ UNCHANGED <<fileDesc, sliceRecipe, layerRecipe, rlmap>>

\* SETNX whose caller learns whether the key was set ("key already exsits").
SetFileDescriptor(dgst, desc, reply) ==
    /\ \/ /\ reply = "set"
          /\ dgst \notin DOMAIN fileDesc
          /\ fileDesc' = PutNew(fileDesc, dgst, desc)
          /\ UNCHANGED faults
       \/ /\ reply = "exists"
          /\ dgst \in DOMAIN fileDesc
          /\ UNCHANGED <<fileDesc, faults>>
       \/ /\ reply = "error"
          /\ RedisError
          /\ \/ UNCHANGED fileDesc
             \/ fileDesc' = PutNew(fileDesc, dgst, desc)
    /\ UNCHANGED <<sliceRecipe, layerRecipe, rlmap>>

\* SETNX whose caller does not learn whether the key was set: a recipe that
\* exists already is kept and the call still succeeds.
SetLayerRecipe(dgst, hosts, reply) ==
    /\ \/ /\ reply = "ok"
          /\ layerRecipe' = PutNew(layerRecipe, dgst, hosts)
          /\ UNCHANGED faults
       \/ /\ reply = "error"
          /\ RedisError
          /\ \/ UNCHANGED layerRecipe
             \/ layerRecipe' = PutNew(layerRecipe, dgst, hosts)
    /\ UNCHANGED <<fileDesc, sliceRecipe, rlmap>>

\* Mutant: SET instead of SETNX.
SetSliceRecipeOverwrites(dgst, files, sip, reply) ==
    /\ reply = "ok"
    /\ sliceRecipe' = Put(sliceRecipe, <<dgst, sip>>, files)
    /\ UNCHANGED <<fileDesc, layerRecipe, rlmap, faults>>

SetSliceRecipe(dgst, files, sip, reply) ==
    /\ \/ /\ reply = "ok"
          /\ sliceRecipe' = PutNew(sliceRecipe, <<dgst, sip>>, files)
          /\ UNCHANGED faults
       \/ /\ reply = "error"
          /\ RedisError
          /\ \/ UNCHANGED sliceRecipe
             \/ sliceRecipe' = PutNew(sliceRecipe, <<dgst, sip>>, files)
    /\ UNCHANGED <<fileDesc, layerRecipe, rlmap>>

\* Plain SET: the whole map of the repository is overwritten.
SetRLMapEntry(reponame, entry, reply) ==
    /\ \/ /\ reply = "ok"
          /\ rlmap' = Put(rlmap, reponame, entry)
          /\ UNCHANGED faults
       \/ /\ reply = "error"
          /\ RedisError
          /\ \/ UNCHANGED rlmap
             \/ rlmap' = Put(rlmap, reponame, entry)
    /\ UNCHANGED <<fileDesc, sliceRecipe, layerRecipe>>

=============================================================================
