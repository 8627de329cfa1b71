----------------------------- MODULE PartialMaps -----------------------------
(***************************************************************************)
(* Finite maps as functions whose domain grows and shrinks.  A Redis       *)
(* keyspace and a directory tree are both such maps: a key exists exactly  *)
(* when it is in the DOMAIN.                                               *)
(***************************************************************************)

\* The map with no key.
EmptyMap == [x \in {} |-> x]

\* m maps keys of K to values of V.
IsMap(m, K, V) == DOMAIN m \subseteq K /\ \A k \in DOMAIN m : m[k] \in V

\* m with key k bound to v, whether or not k was bound (Redis SET, a file write).
Put(m, k, v) == [x \in DOMAIN m \cup {k} |-> IF x = k THEN v ELSE m[x]]

\* m with key k bound to v unless k is bound already (Redis SETNX).
PutNew(m, k, v) == IF k \in DOMAIN m THEN m ELSE Put(m, k, v)

\* m without the keys of S (os.Remove, os.RemoveAll).
Drop(m, S) == [x \in DOMAIN m \ S |-> m[x]]

=============================================================================
