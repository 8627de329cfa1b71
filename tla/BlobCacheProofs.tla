-------------------------- MODULE BlobCacheProofs ---------------------------
(***************************************************************************)
(* Proofs about the file cache of the registry                             *)
(* (src/simenc/registry/storage/driver/gcache/): its lists stay            *)
(* consistent, their sizes are exact, a full cache does not grow.          *)
(***************************************************************************)
EXTENDS BlobCache, TLAPS, SequenceTheorems, WellFoundedInduction

-----------------------------------------------------------------------------
(***************************************************************************)
(* Lists.                                                                  *)
(***************************************************************************)
ArcLists == [l : Seq(Keys), size : Nat]

\* p[n] is the size of the first n files of list l.
Sums(p, l) ==
    /\ p \in [0..Len(l) -> Nat]
    /\ p[0] = 0
    /\ \A n \in 1..Len(l) : p[n] = p[n - 1] + SizeOf[l[n]]
    /\ \A m, n \in 0..Len(l) : m <= n => p[m] <= p[n]

\* A list has no key twice, and its size is the sum of the sizes of its files.
ListOK(al) ==
    /\ al \in ArcLists
    /\ IsInjective(al.l)
    /\ \E p : Sums(p, al.l) /\ al.size = p[Len(al.l)]

LEMMA KeysOfList ==
    ASSUME NEW l \in Seq(Keys)
    PROVE  /\ \A x : x \in ToSet(l) <=> \E n \in 1..Len(l) : l[n] = x
           /\ ToSet(l) \subseteq Keys
BY DEF ToSet

LEMMA SizeType == ASSUME NEW k \in Keys PROVE SizeOf[k] \in Nat
BY CacheAssumption

LEMMA NewListOK == ListOK(newARCList) /\ ToSet(newARCList.l) = {} /\ Len(newARCList.l) = 0
<1>1. newARCList \in ArcLists
  BY DEF newARCList, ArcLists
<1>2. newARCList.l = <<>> /\ newARCList.size = 0 /\ Len(<<>>) = 0
  BY DEF newARCList
<1>3. IsInjective(<<>>) /\ ToSet(<<>>) = {}
  BY DEF IsInjective, ToSet
<1> DEFINE p == [n \in 0..0 |-> 0]
<1>4. p[0] = 0
  OBVIOUS
<1>5. Sums(p, <<>>)
  BY <1>2 DEF Sums
<1> QED  BY <1>1, <1>2, <1>3, <1>4, <1>5 DEF ListOK

\* A list with a size is not empty.
LEMMA SizeMeansFiles ==
    ASSUME NEW al, ListOK(al), al.size > 0
    PROVE  al.l # <<>>
<1>1. PICK p : Sums(p, al.l) /\ al.size = p[Len(al.l)]
  BY DEF ListOK
<1>2. ASSUME al.l = <<>> PROVE FALSE
  <2>1. Len(al.l) = 0
    BY <1>2
  <2> QED  BY <1>1, <2>1 DEF Sums
<1> QED  BY <1>2

\* A new key comes first.
Front1(al, k) == [l |-> <<k>> \o al.l, size |-> al.size + SizeOf[k]]

LEMMA FrontFacts ==
    ASSUME NEW al, ListOK(al), NEW k \in Keys, k \notin ToSet(al.l)
    PROVE  /\ ListOK(Front1(al, k))
           /\ ToSet(Front1(al, k).l) = ToSet(al.l) \cup {k}
           /\ Len(Front1(al, k).l) = Len(al.l) + 1
<1> DEFINE l == al.l
           m == <<k>> \o l
<1>1. l \in Seq(Keys) /\ Len(l) \in Nat /\ al.size \in Nat /\ SizeOf[k] \in Nat
  BY SizeType DEF ListOK, ArcLists
<1>2. /\ m \in Seq(Keys) /\ Len(m) = Len(l) + 1 /\ m[1] = k
      /\ \A n \in 1..Len(l) : m[n + 1] = l[n]
      /\ \A n \in 2..(Len(l) + 1) : m[n] = l[n - 1]
  BY <1>1
<1>3. Front1(al, k).l = m /\ Front1(al, k).size = al.size + SizeOf[k]
  BY DEF Front1
<1>4. Front1(al, k) \in ArcLists
  BY <1>1, <1>2 DEF Front1, ArcLists
<1>5. \A n \in 1..Len(l) : l[n] # k
  BY <1>1 DEF ToSet
<1>6. \A a, b \in 1..Len(l) : l[a] = l[b] => a = b
  BY <1>1 DEF ListOK, IsInjective
<1> HIDE DEF m, l
<1>7. IsInjective(m)
  <2> SUFFICES ASSUME NEW a \in 1..(Len(l) + 1), NEW b \in 1..(Len(l) + 1), m[a] = m[b]
               PROVE  a = b
    BY <1>1, <1>2 DEF IsInjective
  <2>1. CASE a = 1
    BY <1>1, <1>2, <1>5, <2>1
  <2>2. CASE b = 1
    BY <1>1, <1>2, <1>5, <2>2
  <2>3. CASE a # 1 /\ b # 1
    <3>1. a - 1 \in 1..Len(l) /\ b - 1 \in 1..Len(l) /\ l[a - 1] = l[b - 1]
      BY <1>1, <1>2, <2>3
    <3> QED  BY <1>6, <3>1
  <2> QED  BY <2>1, <2>2, <2>3
<1>8. ToSet(m) = ToSet(l) \cup {k}
  <2>1. /\ \A x : x \in ToSet(m) <=> \E n \in 1..(Len(l) + 1) : m[n] = x
        /\ \A x : x \in ToSet(l) <=> \E n \in 1..Len(l) : l[n] = x
    BY <1>1, <1>2, KeysOfList
  <2>2. ASSUME NEW n \in 1..(Len(l) + 1) PROVE m[n] \in ToSet(l) \cup {k}
    <3>1. CASE n = 1
      BY <1>2, <3>1
    <3>2. CASE n # 1
      <4>1. n - 1 \in 1..Len(l) /\ m[n] = l[n - 1]
        BY <1>1, <1>2, <3>2
      <4> QED  BY <2>1, <4>1
    <3> QED  BY <3>1, <3>2
  <2>3. \A n \in 1..Len(l) : n + 1 \in 1..(Len(l) + 1)
    BY <1>1
  <2>4. \A n \in 1..Len(l) : l[n] \in ToSet(m)
    BY <1>2, <2>1, <2>3
  <2>5. k \in ToSet(m)
    BY <1>1, <1>2, <2>1
  <2> QED  BY <2>1, <2>2, <2>4, <2>5
<1>9. \E q : Sums(q, m) /\ al.size + SizeOf[k] = q[Len(m)]
  <2>1. PICK p : Sums(p, l) /\ al.size = p[Len(l)]
    BY DEF ListOK, l
  <2> DEFINE q == [n \in 0..(Len(l) + 1) |-> IF n = 0 THEN 0 ELSE p[n - 1] + SizeOf[k]]
  <2>2. \A n \in 0..Len(l) : p[n] \in Nat
    BY <2>1 DEF Sums
  <2>3. q \in [0..Len(m) -> Nat]
    <3>1. ASSUME NEW n \in 0..(Len(l) + 1), n # 0 PROVE p[n - 1] + SizeOf[k] \in Nat
      <4>1. n - 1 \in 0..Len(l)
        BY <1>1, <3>1
      <4>2. p[n - 1] \in Nat /\ SizeOf[k] \in Nat
        BY <1>1, <2>2, <4>1, SizeType
      <4> QED  BY <4>2
    <3>2. q \in [0..(Len(l) + 1) -> Nat]
      BY <3>1
    <3> HIDE DEF q
    <3> QED  BY <1>2, <3>2
  <2>4. q[0] = 0
    BY <1>1
  <2>5. \A n \in 1..Len(m) : q[n] = q[n - 1] + SizeOf[m[n]]
    <3> SUFFICES ASSUME NEW n \in 1..(Len(l) + 1) PROVE q[n] = q[n - 1] + SizeOf[m[n]]
      BY <1>2
    <3>1. CASE n = 1
      <4>1. q[1] = p[0] + SizeOf[k] /\ p[0] = 0
        BY <1>1, <2>1 DEF Sums
      <4> QED  BY <1>1, <1>2, <2>4, <3>1, <4>1
    <3>2. CASE n # 1
      <4>1. n - 1 \in 1..Len(l) /\ n - 1 - 1 \in 0..Len(l)
        BY <1>1, <3>2
      <4>2. p[n - 1] = p[n - 1 - 1] + SizeOf[l[n - 1]]
        BY <2>1, <4>1 DEF Sums
      <4>3. q[n] = p[n - 1] + SizeOf[k] /\ q[n - 1] = p[n - 1 - 1] + SizeOf[k]
        BY <1>1, <3>2, <4>1
      <4>4. m[n] = l[n - 1] /\ SizeOf[l[n - 1]] \in Nat
        BY <1>1, <1>2, <3>2, <4>1, SizeType
      <4> QED  BY <1>1, <2>2, <4>1, <4>2, <4>3, <4>4
    <3> QED  BY <3>1, <3>2
  <2>6. \A a, b \in 0..Len(m) : a <= b => q[a] <= q[b]
    <3> SUFFICES ASSUME NEW a \in 0..(Len(l) + 1), NEW b \in 0..(Len(l) + 1), a <= b
                 PROVE  q[a] <= q[b]
      BY <1>2
    <3>1. CASE a = 0
      <4>1. q[b] \in Nat
        BY <1>2, <2>3
      <4> HIDE DEF q
      <4> QED  BY <2>4, <3>1, <4>1
    <3>2. CASE a # 0
      <4>1. a - 1 \in 0..Len(l) /\ b - 1 \in 0..Len(l) /\ a - 1 <= b - 1
        BY <1>1, <3>2
      <4>2. p[a - 1] <= p[b - 1]
        BY <2>1, <4>1 DEF Sums
      <4>3. q[a] = p[a - 1] + SizeOf[k] /\ q[b] = p[b - 1] + SizeOf[k]
        BY <1>1, <3>2
      <4> QED  BY <1>1, <2>2, <4>1, <4>2, <4>3
    <3> QED  BY <3>1, <3>2
  <2>7. q[Len(m)] = al.size + SizeOf[k]
    BY <1>1, <1>2, <2>1
  <2> HIDE DEF q
  <2> QED  BY <2>3, <2>4, <2>5, <2>6, <2>7 DEF Sums
<1> QED  BY <1>2, <1>3, <1>4, <1>7, <1>8, <1>9 DEF ListOK, l

\* A list without its file number m.
Cut(al, m) == [l |-> RemoveAt(al.l, m), size |-> al.size - SizeOf[al.l[m]]]

LEMMA CutFacts ==
    ASSUME NEW al, ListOK(al), NEW m \in 1..Len(al.l)
    PROVE  /\ ListOK(Cut(al, m))
           /\ ToSet(Cut(al, m).l) = ToSet(al.l) \ {al.l[m]}
           /\ Len(Cut(al, m).l) = Len(al.l) - 1
<1> DEFINE l == al.l
           r == RemoveAt(l, m)
           z == SizeOf[l[m]]
           d == [l |-> r, size |-> al.size - z]
<1>1. l \in Seq(Keys) /\ Len(l) \in Nat /\ al.size \in Nat /\ z \in Nat /\ m \in 1..Len(l)
  BY SizeType DEF ListOK, ArcLists
<1>2. /\ r \in Seq(Keys) /\ Len(r) = Len(l) - 1
      /\ \A n \in 1..(m - 1) : r[n] = l[n]
      /\ \A n \in m..(Len(l) - 1) : r[n] = l[n + 1]
  <2> HIDE DEF l
  <2>1. r = SubSeq(l, 1, m - 1) \o SubSeq(l, m + 1, Len(l))
    BY DEF RemoveAt
  <2> DEFINE a == SubSeq(l, 1, m - 1)
             b == SubSeq(l, m + 1, Len(l))
  <2>2. a \in Seq(Keys) /\ Len(a) = m - 1 /\ \A n \in 1..(m - 1) : a[n] = l[n]
    BY <1>1
  <2>3. b \in Seq(Keys) /\ Len(b) = Len(l) - m /\ \A n \in 1..(Len(l) - m) : b[n] = l[m + n]
    BY <1>1
  <2> HIDE DEF a, b
  <2>4. r = a \o b
    BY <2>1 DEF a, b
  <2> HIDE DEF r
  <2>5. /\ r \in Seq(Keys) /\ Len(r) = Len(a) + Len(b)
        /\ \A n \in 1..(Len(a) + Len(b)) : r[n] = IF n <= Len(a) THEN a[n] ELSE b[n - Len(a)]
    BY <2>2, <2>3, <2>4, ConcatProperties
  <2>6. Len(a) + Len(b) = Len(l) - 1
    BY <1>1, <2>2, <2>3
  <2>7. \A n \in 1..(m - 1) : r[n] = l[n]
    <3> SUFFICES ASSUME NEW n \in 1..(m - 1) PROVE r[n] = l[n]
      OBVIOUS
    <3>1. n \in 1..(Len(a) + Len(b)) /\ n <= Len(a)
      BY <1>1, <2>2, <2>3
    <3> QED  BY <2>2, <2>5, <3>1
  <2>8. \A n \in m..(Len(l) - 1) : r[n] = l[n + 1]
    <3> SUFFICES ASSUME NEW n \in m..(Len(l) - 1) PROVE r[n] = l[n + 1]
      OBVIOUS
    <3>a. n \in 1..(Len(a) + Len(b)) /\ ~(n <= Len(a)) /\ Len(a) = m - 1
      BY <1>1, <2>2, <2>3
    <3>1. r[n] = b[n - (m - 1)]
      BY <2>5, <3>a
    <3>2. n - (m - 1) \in 1..(Len(l) - m) /\ m + (n - (m - 1)) = n + 1
      BY <1>1
    <3> QED  BY <2>3, <3>1, <3>2
  <2> QED  BY <2>5, <2>6, <2>7, <2>8
<1>3. \A a, b \in 1..Len(l) : l[a] = l[b] => a = b
  BY <1>1 DEF ListOK, IsInjective
<1>4. d.l = r /\ d.size = al.size - z
  OBVIOUS
<1>5. PICK p : Sums(p, l) /\ al.size = p[Len(l)]
  BY DEF ListOK
<1> HIDE DEF r, l, z
<1>6. \A n \in 1..(Len(l) - 1) : r[n] = IF n < m THEN l[n] ELSE l[n + 1]
  BY <1>1, <1>2
<1>7. IsInjective(r)
  <2> SUFFICES ASSUME NEW a \in 1..(Len(l) - 1), NEW b \in 1..(Len(l) - 1), r[a] = r[b]
               PROVE  a = b
    BY <1>1, <1>2 DEF IsInjective
  <2> QED  BY <1>1, <1>3, <1>6
<1>8. ToSet(r) = ToSet(l) \ {l[m]}
  <2>1. /\ \A x : x \in ToSet(r) <=> \E n \in 1..(Len(l) - 1) : r[n] = x
        /\ \A x : x \in ToSet(l) <=> \E n \in 1..Len(l) : l[n] = x
    BY <1>1, <1>2, KeysOfList
  <2>2. \A n \in 1..(Len(l) - 1) : r[n] \in ToSet(l) \ {l[m]}
    <3> SUFFICES ASSUME NEW n \in 1..(Len(l) - 1) PROVE r[n] \in ToSet(l) \ {l[m]}
      OBVIOUS
    <3>1. CASE n < m
      <4>1. r[n] = l[n] /\ n \in 1..Len(l) /\ n # m
        BY <1>1, <1>6, <3>1
      <4> QED  BY <1>1, <1>3, <2>1, <4>1
    <3>2. CASE ~(n < m)
      <4>1. r[n] = l[n + 1] /\ n + 1 \in 1..Len(l) /\ n + 1 # m
        BY <1>1, <1>6, <3>2
      <4> QED  BY <1>1, <1>3, <2>1, <4>1
    <3> QED  BY <3>1, <3>2
  <2>3. \A n \in 1..Len(l) : n # m => l[n] \in ToSet(r)
    <3> SUFFICES ASSUME NEW n \in 1..Len(l), n # m PROVE l[n] \in ToSet(r)
      OBVIOUS
    <3>1. CASE n < m
      <4>1. n \in 1..(Len(l) - 1) /\ r[n] = l[n]
        BY <1>1, <1>6, <3>1
      <4> QED  BY <2>1, <4>1
    <3>2. CASE ~(n < m)
      <4>1. n - 1 \in 1..(Len(l) - 1) /\ r[n - 1] = l[n]
        BY <1>1, <1>6, <3>2
      <4> QED  BY <2>1, <4>1
    <3> QED  BY <3>1, <3>2
  <2> QED  BY <2>1, <2>2, <2>3
<1>9. /\ \E q : Sums(q, r) /\ al.size - z = q[Len(r)]
      /\ al.size - z \in Nat
  <2> DEFINE q == [n \in 0..(Len(l) - 1) |-> IF n < m THEN p[n] ELSE p[n + 1] - z]
  <2>1. /\ \A n \in 0..Len(l) : p[n] \in Nat
        /\ \A a, b \in 0..Len(l) : a <= b => p[a] <= p[b]
        /\ \A n \in 1..Len(l) : p[n] = p[n - 1] + SizeOf[l[n]]
        /\ p[0] = 0
    BY <1>5 DEF Sums
  <2>2. p[m] = p[m - 1] + z /\ m \in 0..Len(l) /\ m - 1 \in 0..Len(l)
    BY <1>1, <2>1 DEF z
  <2>3. \A n \in m..Len(l) : p[n] >= p[m - 1] + z /\ p[n] - z \in Nat
    <3> SUFFICES ASSUME NEW n \in m..Len(l) PROVE p[n] >= p[m - 1] + z /\ p[n] - z \in Nat
      OBVIOUS
    <3>1. n \in 0..Len(l) /\ m <= n
      BY <1>1
    <3>2. p[m] <= p[n]
      BY <2>1, <2>2, <3>1
    <3>3. p[n] \in Nat /\ p[m] \in Nat /\ p[m - 1] \in Nat
      BY <2>1, <2>2, <3>1
    <3>4. z \in Nat /\ p[m] = p[m - 1] + z
      BY <1>1, <2>2
    <3> QED  BY <3>2, <3>3, <3>4
  <2>4. q \in [0..Len(r) -> Nat]
    <3>1. \A n \in 0..(Len(l) - 1) : n \in 0..Len(l) /\ (~(n < m) => n + 1 \in m..Len(l))
      BY <1>1
    <3>2. \A n \in 0..(Len(l) - 1) : (IF n < m THEN p[n] ELSE p[n + 1] - z) \in Nat
      BY <2>1, <2>3, <3>1
    <3> QED  BY <1>2, <3>2
  <2>5. \A n \in 0..(Len(l) - 1) : q[n] = IF n < m THEN p[n] ELSE p[n + 1] - z
    OBVIOUS
  <2> HIDE DEF q
  <2>6. q[0] = 0
    BY <1>1, <2>1, <2>5
  <2>7. \A n \in 1..(Len(l) - 1) : q[n] = q[n - 1] + SizeOf[r[n]]
    <3> SUFFICES ASSUME NEW n \in 1..(Len(l) - 1) PROVE q[n] = q[n - 1] + SizeOf[r[n]]
      OBVIOUS
    <3>1. CASE n < m
      <4>1. q[n] = p[n] /\ q[n - 1] = p[n - 1] /\ r[n] = l[n] /\ n \in 1..Len(l)
        BY <1>1, <1>6, <2>5, <3>1
      <4> QED  BY <2>1, <4>1
    <3>2. CASE n = m
      <4>1. q[n] = p[m + 1] - z /\ q[n - 1] = p[m - 1] /\ r[n] = l[m + 1] /\ m + 1 \in 1..Len(l)
        BY <1>1, <1>6, <2>5, <3>2
      <4>2. p[m + 1] = p[m + 1 - 1] + SizeOf[l[m + 1]] /\ m + 1 - 1 = m
        BY <1>1, <2>1, <4>1
      <4>3. SizeOf[l[m + 1]] \in Nat
        BY <1>1, <4>1, SizeType
      <4>4. p[m] \in Nat /\ p[m - 1] \in Nat
        BY <2>1, <2>2
      <4>5. p[m + 1] = p[m] + SizeOf[l[m + 1]] /\ p[m] = p[m - 1] + z /\ z \in Nat
        BY <1>1, <2>2, <4>2
      <4>6. p[m + 1] - z = p[m - 1] + SizeOf[l[m + 1]]
        BY <4>3, <4>4, <4>5
      <4> QED  BY <4>1, <4>6
    <3>3. CASE n > m
      <4>1. q[n] = p[n + 1] - z /\ q[n - 1] = p[n - 1 + 1] - z /\ r[n] = l[n + 1]
            /\ n + 1 \in 1..Len(l) /\ n - 1 + 1 = n /\ n \in 0..Len(l)
        BY <1>1, <1>6, <2>5, <3>3
      <4>2. p[n + 1] = p[n + 1 - 1] + SizeOf[l[n + 1]] /\ n + 1 - 1 = n
        BY <2>1, <4>1
      <4>3. SizeOf[l[n + 1]] \in Nat /\ p[n] \in Nat
        BY <1>1, <2>1, <4>1, SizeType
      <4> QED  BY <1>1, <4>1, <4>2, <4>3
    <3> QED  BY <1>1, <3>1, <3>2, <3>3
  <2>8. \A a, b \in 0..(Len(l) - 1) : a <= b => q[a] <= q[b]
    <3> SUFFICES ASSUME NEW a \in 0..(Len(l) - 1), NEW b \in 0..(Len(l) - 1), a <= b
                 PROVE  q[a] <= q[b]
      OBVIOUS
    <3>1. CASE b < m
      <4>1. q[a] = p[a] /\ q[b] = p[b] /\ a \in 0..Len(l) /\ b \in 0..Len(l)
        BY <1>1, <2>5, <3>1
      <4> QED  BY <2>1, <4>1
    <3>2. CASE a < m /\ ~(b < m)
      <4>1. q[a] = p[a] /\ q[b] = p[b + 1] - z /\ a \in 0..Len(l) /\ b + 1 \in m..Len(l)
            /\ a <= m - 1
        BY <1>1, <2>5, <3>2
      <4>2. p[a] <= p[m - 1] /\ p[a] \in Nat /\ p[m - 1] \in Nat
        BY <2>1, <2>2, <4>1
      <4>3. p[b + 1] >= p[m - 1] + z /\ p[b + 1] - z \in Nat
        BY <2>3, <4>1
      <4>4. p[b + 1] \in Nat
        BY <1>1, <2>1, <4>1
      <4>5. z \in Nat
        BY <1>1
      <4> HIDE DEF z
      <4> QED  BY <4>1, <4>2, <4>3, <4>4, <4>5
    <3>3. CASE ~(a < m)
      <4>1. q[a] = p[a + 1] - z /\ q[b] = p[b + 1] - z /\ a + 1 \in 0..Len(l) /\ b + 1 \in 0..Len(l)
            /\ a + 1 <= b + 1
        BY <1>1, <2>5, <3>3
      <4>2. p[a + 1] <= p[b + 1] /\ p[a + 1] \in Nat /\ p[b + 1] \in Nat
        BY <2>1, <4>1
      <4> QED  BY <1>1, <4>1, <4>2
    <3> QED  BY <1>1, <3>1, <3>2, <3>3
  <2>9. q[Len(r)] = al.size - z /\ al.size - z \in Nat
    <3>1. CASE m = Len(l)
      <4>1. q[Len(r)] = p[m - 1]
        BY <1>1, <1>2, <2>5, <3>1
      <4>2. p[m] \in Nat /\ p[m - 1] \in Nat /\ al.size = p[m]
        BY <1>5, <2>1, <2>2, <3>1
      <4> QED  BY <1>1, <2>2, <4>1, <4>2
    <3>2. CASE m # Len(l)
      <4>1. q[Len(r)] = p[Len(l) - 1 + 1] - z /\ Len(l) - 1 + 1 = Len(l) /\ Len(l) \in m..Len(l)
        BY <1>1, <1>2, <2>5, <3>2
      <4> QED  BY <1>5, <2>3, <4>1
    <3> QED  BY <3>1, <3>2
  <2> QED  BY <1>2, <2>4, <2>6, <2>7, <2>8, <2>9 DEF Sums
<1>10. d \in ArcLists
  BY <1>2, <1>9 DEF ArcLists
<1>11. ListOK(d) /\ ToSet(d.l) = ToSet(l) \ {l[m]} /\ Len(d.l) = Len(l) - 1
  BY <1>2, <1>4, <1>7, <1>8, <1>9, <1>10 DEF ListOK
<1> QED  BY <1>11 DEF Cut, r, l, z

\* Remove of a key.
LEMMA RemoveKeyFacts ==
    ASSUME NEW al, ListOK(al), NEW k \in ToSet(al.l)
    PROVE  /\ ListOK(RemoveKey(al, k))
           /\ ToSet(RemoveKey(al, k).l) = ToSet(al.l) \ {k}
           /\ Len(RemoveKey(al, k).l) = Len(al.l) - 1
<1> DEFINE m == CHOOSE n \in DOMAIN al.l : al.l[n] = k
<1>1. m \in DOMAIN al.l /\ al.l[m] = k
  BY DEF ToSet
<1>2. m \in 1..Len(al.l)
  BY <1>1 DEF ListOK, ArcLists
<1>3. RemoveKey(al, k) = Cut(al, m)
  BY <1>1 DEF RemoveKey, Without, Cut
<1> HIDE DEF m
<1> QED  BY <1>1, <1>2, <1>3, CutFacts

\* MoveToFront changes the order only.
LEMMA MoveToFrontFacts ==
    ASSUME NEW al, ListOK(al), NEW k \in ToSet(al.l)
    PROVE  /\ ListOK(MoveToFront(al, k))
           /\ ToSet(MoveToFront(al, k).l) = ToSet(al.l)
           /\ Len(MoveToFront(al, k).l) = Len(al.l)
<1> DEFINE r == RemoveKey(al, k)
<1>1. al \in ArcLists /\ k \in Keys /\ al.size \in Nat /\ Len(al.l) \in Nat
  BY KeysOfList DEF ListOK, ArcLists
<1>2. ListOK(r) /\ ToSet(r.l) = ToSet(al.l) \ {k} /\ Len(r.l) = Len(al.l) - 1
  BY RemoveKeyFacts
<1>3. r.l = Without(al.l, k) /\ r.size = al.size - SizeOf[k]
  BY DEF RemoveKey
<1> HIDE DEF r
<1>4. SizeOf[k] \in Nat
  BY <1>1, SizeType
<1>5. MoveToFront(al, k) = [l |-> <<k>> \o r.l, size |-> al.size]
  <2>1. \A x : [al EXCEPT !.l = x] = [l |-> x, size |-> al.size]
    BY <1>1 DEF ArcLists
  <2>2. MoveToFront(al, k) = [al EXCEPT !.l = <<k>> \o Without(al.l, k)]
    BY DEF MoveToFront
  <2> QED  BY <1>3, <2>1, <2>2
<1>6. r.size + SizeOf[k] = al.size
  BY <1>1, <1>3, <1>4
<1>7. MoveToFront(al, k) = Front1(r, k)
  BY <1>5, <1>6 DEF Front1
<1>8. /\ ListOK(Front1(r, k)) /\ ToSet(Front1(r, k).l) = ToSet(r.l) \cup {k}
      /\ Len(Front1(r, k).l) = Len(r.l) + 1
  BY <1>1, <1>2, FrontFacts
<1> QED  BY <1>1, <1>2, <1>7, <1>8

\* PushFront of a key the list does not have.
LEMMA PushFrontFacts ==
    ASSUME NEW al, ListOK(al), NEW k \in Keys, k \notin ToSet(al.l)
    PROVE  /\ ListOK(PushFront(al, k))
           /\ ToSet(PushFront(al, k).l) = ToSet(al.l) \cup {k}
           /\ Len(PushFront(al, k).l) = Len(al.l) + 1
           /\ PushFront(al, k).size = al.size + SizeOf[k]
<1>1. PushFront(al, k) = Front1(al, k)
  BY DEF PushFront, Has, Front1
<1>2. Front1(al, k).size = al.size + SizeOf[k]
  BY DEF Front1
<1> QED  BY <1>1, <1>2, FrontFacts

\* RemoveTail of a list that is not empty.
LEMMA RemoveTailFacts ==
    ASSUME NEW al, ListOK(al), al.l # <<>>
    PROVE  /\ ListOK(RemoveTail(al))
           /\ Last(al.l) \in ToSet(al.l) /\ Last(al.l) \in Keys
           /\ ToSet(RemoveTail(al).l) = ToSet(al.l) \ {Last(al.l)}
           /\ Len(RemoveTail(al).l) = Len(al.l) - 1
<1> DEFINE m == Len(al.l)
<1>1. al.l \in Seq(Keys) /\ m \in Nat
  BY DEF ListOK, ArcLists
<1>2. m \in 1..Len(al.l)
  BY <1>1, EmptySeq
<1>3. RemoveAt(al.l, m) = Front(al.l)
  <2>1. RemoveAt(al.l, m) = SubSeq(al.l, 1, m - 1) \o SubSeq(al.l, m + 1, m)
    BY DEF RemoveAt
  <2>2. SubSeq(al.l, m + 1, m) = <<>> /\ SubSeq(al.l, 1, m - 1) \in Seq(Keys)
    BY <1>1, <1>2
  <2>3. SubSeq(al.l, 1, m - 1) \o <<>> = SubSeq(al.l, 1, m - 1)
    BY <2>2
  <2> QED  BY <2>1, <2>2, <2>3 DEF Front
<1>4. al.l[m] = Last(al.l)
  BY DEF Last
<1>5. RemoveTail(al) = Cut(al, m)
  BY <1>3, <1>4 DEF RemoveTail, Cut
<1>6. Last(al.l) \in ToSet(al.l) /\ Last(al.l) \in Keys
  BY <1>1, <1>2, <1>4, KeysOfList
<1> HIDE DEF m
<1> QED  BY <1>2, <1>4, <1>5, <1>6, CutFacts

-----------------------------------------------------------------------------
(***************************************************************************)
(* The cache.                                                              *)
(***************************************************************************)
Arcs == [t1 : ArcLists, t2 : ArcLists, b1 : ArcLists, b2 : ArcLists,
         part : 0..Capacity, items : SUBSET Keys]

\* The four lists are right and have no key in common.
ArcOK(c) ==
    /\ c \in Arcs
    /\ ListOK(c.t1) /\ ListOK(c.t2) /\ ListOK(c.b1) /\ ListOK(c.b2)
    /\ ToSet(c.t1.l) \cap ToSet(c.t2.l) = {}
    /\ ToSet(c.t1.l) \cap ToSet(c.b1.l) = {}
    /\ ToSet(c.t1.l) \cap ToSet(c.b2.l) = {}
    /\ ToSet(c.t2.l) \cap ToSet(c.b1.l) = {}
    /\ ToSet(c.t2.l) \cap ToSet(c.b2.l) = {}
    /\ ToSet(c.b1.l) \cap ToSet(c.b2.l) = {}

ItemsOK(c) == Listed(c) \subseteq c.items

Count(c) == Len(c.t1.l) + Len(c.t2.l)

LEMMA ArcNumbers ==
    ASSUME NEW c, ArcOK(c)
    PROVE  /\ c.t1.size \in Nat /\ c.t2.size \in Nat /\ c.b1.size \in Nat /\ c.b2.size \in Nat
           /\ Len(c.t1.l) \in Nat /\ Len(c.t2.l) \in Nat
           /\ c.part \in 0..Capacity /\ c.items \subseteq Keys
           /\ Capacity \in Nat \ {0}
BY CacheAssumption DEF ArcOK, Arcs, ArcLists

\* r is c without one of its files, which is a ghost now.
Evicted(c, r) ==
    /\ ArcOK(r)
    /\ r.items = c.items
    /\ Listed(r) \subseteq Listed(c)
    /\ ToSet(c.b1.l) \subseteq ToSet(r.b1.l)
    /\ ToSet(c.b2.l) \subseteq ToSet(r.b2.l)
    /\ Count(r) = Count(c) - 1

LEMMA EvictedFromT1 ==
    ASSUME NEW c, ArcOK(c), c.t1.l # <<>>
    PROVE  Evicted(c, [c EXCEPT !.t1 = RemoveTail(@), !.b1 = PushFront(@, Last(c.t1.l))])
<1> DEFINE k == Last(c.t1.l)
           t == RemoveTail(c.t1)
           b == PushFront(c.b1, k)
           r == [c EXCEPT !.t1 = t, !.b1 = b]
<1>1. /\ ListOK(t) /\ k \in ToSet(c.t1.l) /\ k \in Keys
      /\ ToSet(t.l) = ToSet(c.t1.l) \ {k} /\ Len(t.l) = Len(c.t1.l) - 1
  BY RemoveTailFacts DEF ArcOK
<1>2. /\ ListOK(b) /\ ToSet(b.l) = ToSet(c.b1.l) \cup {k}
  <2>1. k \notin ToSet(c.b1.l) /\ ListOK(c.b1)
    BY <1>1 DEF ArcOK
  <2> QED  BY <1>1, <2>1, PushFrontFacts
<1> HIDE DEF k, t, b
<1>3. t \in ArcLists /\ b \in ArcLists
  BY <1>1, <1>2 DEF ListOK
<1>4. /\ r \in Arcs /\ r.t1 = t /\ r.b1 = b /\ r.t2 = c.t2 /\ r.b2 = c.b2
      /\ r.items = c.items
  BY <1>3 DEF ArcOK, Arcs
<1> HIDE DEF r
<1>5. ArcOK(r)
  BY <1>1, <1>2, <1>4 DEF ArcOK
<1>6. Listed(r) \subseteq Listed(c) /\ ToSet(c.b1.l) \subseteq ToSet(r.b1.l)
  BY <1>1, <1>2, <1>4 DEF Listed
<1>7. Count(r) = Count(c) - 1
  <2>1. Len(r.t1.l) = Len(c.t1.l) - 1 /\ Len(r.t2.l) = Len(c.t2.l)
    BY <1>1, <1>4
  <2>2. Len(c.t1.l) \in Nat /\ Len(c.t2.l) \in Nat
    BY ArcNumbers
  <2>3. \A u, v \in Nat : (u - 1) + v = u + v - 1
    OBVIOUS
  <2> QED  BY <2>1, <2>2, <2>3 DEF Count
<1>8. Evicted(c, r)
  BY <1>4, <1>5, <1>6, <1>7 DEF Evicted
<1> QED  BY <1>8 DEF r, t, b, k

LEMMA EvictedFromT2 ==
    ASSUME NEW c, ArcOK(c), c.t2.l # <<>>
    PROVE  Evicted(c, [c EXCEPT !.t2 = RemoveTail(@), !.b2 = PushFront(@, Last(c.t2.l))])
<1> DEFINE k == Last(c.t2.l)
           t == RemoveTail(c.t2)
           b == PushFront(c.b2, k)
           r == [c EXCEPT !.t2 = t, !.b2 = b]
<1>1. /\ ListOK(t) /\ k \in ToSet(c.t2.l) /\ k \in Keys
      /\ ToSet(t.l) = ToSet(c.t2.l) \ {k} /\ Len(t.l) = Len(c.t2.l) - 1
  BY RemoveTailFacts DEF ArcOK
<1>2. /\ ListOK(b) /\ ToSet(b.l) = ToSet(c.b2.l) \cup {k}
  <2>1. k \notin ToSet(c.b2.l) /\ ListOK(c.b2)
    BY <1>1 DEF ArcOK
  <2> QED  BY <1>1, <2>1, PushFrontFacts
<1> HIDE DEF k, t, b
<1>3. t \in ArcLists /\ b \in ArcLists
  BY <1>1, <1>2 DEF ListOK
<1>4. /\ r \in Arcs /\ r.t2 = t /\ r.b2 = b /\ r.t1 = c.t1 /\ r.b1 = c.b1
      /\ r.items = c.items
  BY <1>3 DEF ArcOK, Arcs
<1> HIDE DEF r
<1>5. ArcOK(r)
  BY <1>1, <1>2, <1>4 DEF ArcOK
<1>6. Listed(r) \subseteq Listed(c) /\ ToSet(c.b2.l) \subseteq ToSet(r.b2.l)
  BY <1>1, <1>2, <1>4 DEF Listed
<1>7. Count(r) = Count(c) - 1
  <2>1. Len(r.t2.l) = Len(c.t2.l) - 1 /\ Len(r.t1.l) = Len(c.t1.l)
    BY <1>1, <1>4
  <2>2. Len(c.t1.l) \in Nat /\ Len(c.t2.l) \in Nat
    BY ArcNumbers
  <2>3. \A u, v \in Nat : u + (v - 1) = u + v - 1
    OBVIOUS
  <2> QED  BY <2>1, <2>2, <2>3 DEF Count
<1>8. Evicted(c, r)
  BY <1>4, <1>5, <1>6, <1>7 DEF Evicted
<1> QED  BY <1>8 DEF r, t, b, k

\* replace makes a ghost of one file of a full cache; it never finds the list
\* it takes the tail of empty.
LEMMA ReplaceFacts ==
    ASSUME NEW c, ArcOK(c), NEW key
    PROVE  /\ isCacheFull(c) => Evicted(c, replace(c, key))
           /\ ~isCacheFull(c) => replace(c, key) = c
<1> DEFINE fromT1 == [c EXCEPT !.t1 = RemoveTail(@), !.b1 = PushFront(@, Last(c.t1.l))]
           fromT2 == [c EXCEPT !.t2 = RemoveTail(@), !.b2 = PushFront(@, Last(c.t2.l))]
           first == c.t1.size > 0 /\ (c.t1.size > c.part \/ (c.t1.size >= c.part /\ Has(c.b2, key)))
<1>1. CASE ~isCacheFull(c)
  BY <1>1 DEF replace
<1>2. CASE isCacheFull(c)
  <2>1. replace(c, key) = IF first THEN fromT1 ELSE IF c.t2.size > 0 THEN fromT2 ELSE fromT1
    BY <1>2 DEF replace
  <2>2. c.t1.size > 0 => Evicted(c, fromT1)
    BY SizeMeansFiles, EvictedFromT1 DEF ArcOK
  <2>3. c.t2.size > 0 => Evicted(c, fromT2)
    BY SizeMeansFiles, EvictedFromT2 DEF ArcOK
  <2>4. c.t1.size > 0 \/ c.t2.size > 0
    BY <1>2, ArcNumbers DEF isCacheFull
  <2>5. first => c.t1.size > 0
    OBVIOUS
  <2> HIDE DEF fromT1, fromT2, first
  <2> QED  BY <1>2, <2>1, <2>2, <2>3, <2>4, <2>5
<1> QED  BY <1>1, <1>2

\* What replace leaves, full or not.
LEMMA ReplaceKeeps ==
    ASSUME NEW c, ArcOK(c), NEW key
    PROVE  LET r == replace(c, key)
           IN  /\ ArcOK(r)
               /\ r.items = c.items
               /\ Listed(r) \subseteq Listed(c)
               /\ ToSet(c.b1.l) \subseteq ToSet(r.b1.l)
               /\ ToSet(c.b2.l) \subseteq ToSet(r.b2.l)
               /\ isCacheFull(c) => Count(r) = Count(c) - 1
BY ReplaceFacts DEF Evicted

\* setPart moves the target size of t1 within the capacity.
LEMMA SetPartFacts ==
    ASSUME NEW c, ArcOK(c), NEW p \in 0..Capacity
    PROVE  /\ ArcOK(setPart(c, p))
           /\ Listed(setPart(c, p)) = Listed(c) /\ Count(setPart(c, p)) = Count(c)
           /\ setPart(c, p).items = c.items
           /\ setPart(c, p).b1 = c.b1 /\ setPart(c, p).b2 = c.b2
           /\ isCacheFull(c) => isCacheFull(setPart(c, p))
<1> DEFINE r == [c EXCEPT !.part = p]
<1>1. /\ r \in Arcs /\ r.t1 = c.t1 /\ r.t2 = c.t2 /\ r.b1 = c.b1 /\ r.b2 = c.b2
      /\ r.items = c.items
  BY DEF ArcOK, Arcs
<1> HIDE DEF r
<1>2. ArcOK(r)
  BY <1>1 DEF ArcOK
<1>3. Listed(r) = Listed(c) /\ Count(r) = Count(c) /\ isCacheFull(r) = isCacheFull(c)
  BY <1>1 DEF Listed, Count, isCacheFull
<1>4. setPart(c, p) = r \/ setPart(c, p) = c
  BY DEF setPart, r
<1> QED  BY <1>1, <1>2, <1>3, <1>4

\* s is c with key k at the front of t2, which came from another list.
Promoted(c, s, k) ==
    /\ ArcOK(s)
    /\ s.items = c.items
    /\ Listed(s) = Listed(c) \cup {k}

LEMMA PromotedFromB1 ==
    ASSUME NEW c, ArcOK(c), NEW k \in ToSet(c.b1.l)
    PROVE  LET s == [c EXCEPT !.b1 = RemoveKey(@, k), !.t2 = PushFront(@, k)]
           IN  Promoted(c, s, k) /\ Count(s) = Count(c) + 1
<1> DEFINE b == RemoveKey(c.b1, k)
           t == PushFront(c.t2, k)
           s == [c EXCEPT !.b1 = b, !.t2 = t]
<1>1. ListOK(b) /\ ToSet(b.l) = ToSet(c.b1.l) \ {k}
  BY RemoveKeyFacts DEF ArcOK
<1>2. k \in Keys /\ k \notin ToSet(c.t1.l) /\ k \notin ToSet(c.t2.l) /\ k \notin ToSet(c.b2.l)
  BY KeysOfList DEF ArcOK, Arcs, ArcLists
<1>3. ListOK(t) /\ ToSet(t.l) = ToSet(c.t2.l) \cup {k} /\ Len(t.l) = Len(c.t2.l) + 1
  BY <1>2, PushFrontFacts DEF ArcOK
<1> HIDE DEF b, t
<1>4. b \in ArcLists /\ t \in ArcLists
  BY <1>1, <1>3 DEF ListOK
<1>5. /\ s \in Arcs /\ s.t1 = c.t1 /\ s.t2 = t /\ s.b1 = b /\ s.b2 = c.b2
      /\ s.items = c.items
  BY <1>4 DEF ArcOK, Arcs
<1> HIDE DEF s
<1>6. ArcOK(s)
  BY <1>1, <1>2, <1>3, <1>5 DEF ArcOK
<1>7. Listed(s) = Listed(c) \cup {k}
  BY <1>3, <1>5 DEF Listed
<1>8. Count(s) = Count(c) + 1
  <2>1. Len(s.t1.l) = Len(c.t1.l) /\ Len(s.t2.l) = Len(c.t2.l) + 1
    BY <1>3, <1>5
  <2>2. Len(c.t1.l) \in Nat /\ Len(c.t2.l) \in Nat
    BY ArcNumbers
  <2>3. \A u, v \in Nat : u + (v + 1) = u + v + 1
    OBVIOUS
  <2> QED  BY <2>1, <2>2, <2>3 DEF Count
<1>9. Promoted(c, s, k) /\ Count(s) = Count(c) + 1
  BY <1>5, <1>6, <1>7, <1>8 DEF Promoted
<1> QED  BY <1>9 DEF s, b, t

LEMMA PromotedFromB2 ==
    ASSUME NEW c, ArcOK(c), NEW k \in ToSet(c.b2.l)
    PROVE  LET s == [c EXCEPT !.b2 = RemoveKey(@, k), !.t2 = PushFront(@, k)]
           IN  Promoted(c, s, k) /\ Count(s) = Count(c) + 1
<1> DEFINE b == RemoveKey(c.b2, k)
           t == PushFront(c.t2, k)
           s == [c EXCEPT !.b2 = b, !.t2 = t]
<1>1. ListOK(b) /\ ToSet(b.l) = ToSet(c.b2.l) \ {k}
  BY RemoveKeyFacts DEF ArcOK
<1>2. k \in Keys /\ k \notin ToSet(c.t1.l) /\ k \notin ToSet(c.t2.l) /\ k \notin ToSet(c.b1.l)
  BY KeysOfList DEF ArcOK, Arcs, ArcLists
<1>3. ListOK(t) /\ ToSet(t.l) = ToSet(c.t2.l) \cup {k} /\ Len(t.l) = Len(c.t2.l) + 1
  BY <1>2, PushFrontFacts DEF ArcOK
<1> HIDE DEF b, t
<1>4. b \in ArcLists /\ t \in ArcLists
  BY <1>1, <1>3 DEF ListOK
<1>5. /\ s \in Arcs /\ s.t1 = c.t1 /\ s.t2 = t /\ s.b2 = b /\ s.b1 = c.b1
      /\ s.items = c.items
  BY <1>4 DEF ArcOK, Arcs
<1> HIDE DEF s
<1>6. ArcOK(s)
  BY <1>1, <1>2, <1>3, <1>5 DEF ArcOK
<1>7. Listed(s) = Listed(c) \cup {k}
  BY <1>3, <1>5 DEF Listed
<1>8. Count(s) = Count(c) + 1
  <2>1. Len(s.t1.l) = Len(c.t1.l) /\ Len(s.t2.l) = Len(c.t2.l) + 1
    BY <1>3, <1>5
  <2>2. Len(c.t1.l) \in Nat /\ Len(c.t2.l) \in Nat
    BY ArcNumbers
  <2>3. \A u, v \in Nat : u + (v + 1) = u + v + 1
    OBVIOUS
  <2> QED  BY <2>1, <2>2, <2>3 DEF Count
<1>9. Promoted(c, s, k) /\ Count(s) = Count(c) + 1
  BY <1>5, <1>6, <1>7, <1>8 DEF Promoted
<1> QED  BY <1>9 DEF s, b, t

\* get of a key of t1.
LEMMA PromotedFromT1 ==
    ASSUME NEW c, ArcOK(c), NEW k \in ToSet(c.t1.l)
    PROVE  LET s == [c EXCEPT !.t1 = RemoveKey(@, k), !.t2 = PushFront(@, k)]
           IN  Promoted(c, s, k) /\ Count(s) = Count(c)
<1> DEFINE b == RemoveKey(c.t1, k)
           t == PushFront(c.t2, k)
           s == [c EXCEPT !.t1 = b, !.t2 = t]
<1>1. ListOK(b) /\ ToSet(b.l) = ToSet(c.t1.l) \ {k} /\ Len(b.l) = Len(c.t1.l) - 1
  BY RemoveKeyFacts DEF ArcOK
<1>2. k \in Keys /\ k \notin ToSet(c.t2.l) /\ k \notin ToSet(c.b1.l) /\ k \notin ToSet(c.b2.l)
  BY KeysOfList DEF ArcOK, Arcs, ArcLists
<1>3. ListOK(t) /\ ToSet(t.l) = ToSet(c.t2.l) \cup {k} /\ Len(t.l) = Len(c.t2.l) + 1
  BY <1>2, PushFrontFacts DEF ArcOK
<1> HIDE DEF b, t
<1>4. b \in ArcLists /\ t \in ArcLists
  BY <1>1, <1>3 DEF ListOK
<1>5. /\ s \in Arcs /\ s.t1 = b /\ s.t2 = t /\ s.b1 = c.b1 /\ s.b2 = c.b2
      /\ s.items = c.items
  BY <1>4 DEF ArcOK, Arcs
<1> HIDE DEF s
<1>6. ArcOK(s)
  BY <1>1, <1>2, <1>3, <1>5 DEF ArcOK
<1>7. Listed(s) = Listed(c) \cup {k}
  BY <1>1, <1>3, <1>5 DEF Listed
<1>8. Count(s) = Count(c)
  <2>1. Len(s.t1.l) = Len(c.t1.l) - 1 /\ Len(s.t2.l) = Len(c.t2.l) + 1
    BY <1>1, <1>3, <1>5
  <2>2. Len(c.t1.l) \in Nat /\ Len(c.t2.l) \in Nat
    BY ArcNumbers
  <2>3. \A u, v \in Nat : (u - 1) + (v + 1) = u + v
    OBVIOUS
  <2> QED  BY <2>1, <2>2, <2>3 DEF Count
<1>9. Promoted(c, s, k) /\ Count(s) = Count(c)
  BY <1>5, <1>6, <1>7, <1>8 DEF Promoted
<1> QED  BY <1>9 DEF s, b, t

\* get of a key of t2.
LEMMA Touched ==
    ASSUME NEW c, ArcOK(c), NEW k \in ToSet(c.t2.l)
    PROVE  LET s == [c EXCEPT !.t2 = MoveToFront(@, k)]
           IN  ArcOK(s) /\ s.items = c.items /\ Listed(s) = Listed(c) /\ Count(s) = Count(c)
<1> DEFINE t == MoveToFront(c.t2, k)
           s == [c EXCEPT !.t2 = t]
<1>1. ListOK(t) /\ ToSet(t.l) = ToSet(c.t2.l) /\ Len(t.l) = Len(c.t2.l)
  BY MoveToFrontFacts DEF ArcOK
<1> HIDE DEF t
<1>2. t \in ArcLists
  BY <1>1 DEF ListOK
<1>3. /\ s \in Arcs /\ s.t1 = c.t1 /\ s.t2 = t /\ s.b1 = c.b1 /\ s.b2 = c.b2
      /\ s.items = c.items
  BY <1>2 DEF ArcOK, Arcs
<1> HIDE DEF s
<1>4. ArcOK(s)
  BY <1>1, <1>3 DEF ArcOK
<1>5. Listed(s) = Listed(c) /\ Count(s) = Count(c)
  BY <1>1, <1>3 DEF Listed, Count
<1>6. ArcOK(s) /\ s.items = c.items /\ Listed(s) = Listed(c) /\ Count(s) = Count(c)
  BY <1>3, <1>4, <1>5
<1> QED  BY <1>6 DEF s, t

\* What set makes of cache c and key k: the lists stay right, items has what
\* they list, and a full cache has as many files as before at most.
SetKeeps(c, r) ==
    /\ ArcOK(r) /\ ItemsOK(r)
    /\ isCacheFull(c) => Count(r) <= Count(c)

\* A target size for t1 that set computes.
LEMMA PartBounds ==
    ASSUME NEW p \in 0..Capacity, NEW m \in Nat, NEW n \in Nat, n # 0
    PROVE  /\ Smaller(Capacity, p + Larger(m \div n, 1)) \in 0..Capacity
           /\ Larger(0, p - Larger(m \div n, 1)) \in 0..Capacity
<1>1. Capacity \in Nat
  BY CacheAssumption
<1> DEFINE q == m \div n
<1>2. q \in Nat
  OBVIOUS
<1> HIDE DEF q
<1>3. Larger(q, 1) \in Nat /\ Larger(q, 1) > 0
  BY <1>2 DEF Larger
<1>4. \A d \in Nat : Smaller(Capacity, p + d) \in 0..Capacity /\ Larger(0, p - d) \in 0..Capacity
  BY <1>1 DEF Smaller, Larger
<1> QED  BY <1>3, <1>4 DEF q

LEMMA CountType == ASSUME NEW c, ArcOK(c) PROVE Count(c) \in Nat
<1>1. Len(c.t1.l) \in Nat /\ Len(c.t2.l) \in Nat
  BY ArcNumbers
<1>2. \A u, v \in Nat : u + v \in Nat
  OBVIOUS
<1> QED  BY <1>1, <1>2 DEF Count

\* The file with a ghost comes back into t2, and replace has made room for it.
LEMMA RevivedFacts ==
    ASSUME NEW c, ArcOK(c), ItemsOK(c), NEW k \in c.items,
           Has(c.b1, k) \/ Has(c.b2, k), ~DividesByZero(c, k)
    PROVE  SetKeeps(c, Revived(c, k))
<1> DEFINE p1 == Smaller(Capacity, c.part + Larger(c.b2.size \div c.b1.size, 1))
           p2 == Larger(0, c.part - Larger(c.b1.size \div c.b2.size, 1))
<1>0. c.part \in 0..Capacity /\ c.b1.size \in Nat /\ c.b2.size \in Nat
  BY ArcNumbers
<1>1. CASE Has(c.b1, k)
  <2>1. p1 \in 0..Capacity
    <3>1. c.b1.size # 0
      BY <1>1 DEF DividesByZero
    <3> QED  BY <1>0, <3>1, PartBounds
  <2> DEFINE d == setPart(c, p1)
             r == replace(d, k)
             s == [r EXCEPT !.b1 = RemoveKey(@, k), !.t2 = PushFront(@, k)]
  <2>2. Revived(c, k) = s
    BY <1>1 DEF Revived
  <2> HIDE DEF p1
  <2>3. /\ ArcOK(d) /\ Listed(d) = Listed(c) /\ Count(d) = Count(c) /\ d.items = c.items
        /\ d.b1 = c.b1 /\ (isCacheFull(c) => isCacheFull(d))
    BY <2>1, SetPartFacts
  <2> HIDE DEF d
  <2>4. /\ ArcOK(r) /\ r.items = d.items /\ Listed(r) \subseteq Listed(d)
        /\ ToSet(d.b1.l) \subseteq ToSet(r.b1.l)
        /\ isCacheFull(d) => Count(r) = Count(d) - 1
    BY <2>3, ReplaceKeeps
  <2> HIDE DEF r
  <2>5. k \in ToSet(r.b1.l)
    BY <1>1, <2>3, <2>4 DEF Has
  <2>6. Promoted(r, s, k) /\ Count(s) = Count(r) + 1
    BY <2>4, <2>5, PromotedFromB1
  <2> HIDE DEF s
  <2>7. ArcOK(s) /\ ItemsOK(s)
    BY <2>3, <2>4, <2>6 DEF Promoted, ItemsOK
  <2>8. ASSUME isCacheFull(c) PROVE Count(s) <= Count(c)
    <3>1. Count(s) = Count(c) - 1 + 1 /\ Count(c) \in Nat
      BY <2>3, <2>4, <2>6, <2>8, CountType
    <3> QED  BY <3>1
  <2> QED  BY <2>2, <2>7, <2>8 DEF SetKeeps
<1>2. CASE ~Has(c.b1, k)
  <2>0. Has(c.b2, k)
    BY <1>2
  <2>1. p2 \in 0..Capacity
    <3>1. c.b2.size # 0
      BY <2>0 DEF DividesByZero
    <3> QED  BY <1>0, <3>1, PartBounds
  <2> DEFINE d == setPart(c, p2)
             r == replace(d, k)
             s == [r EXCEPT !.b2 = RemoveKey(@, k), !.t2 = PushFront(@, k)]
  <2>2. Revived(c, k) = s
    BY <1>2 DEF Revived
  <2> HIDE DEF p2
  <2>3. /\ ArcOK(d) /\ Listed(d) = Listed(c) /\ Count(d) = Count(c) /\ d.items = c.items
        /\ d.b2 = c.b2 /\ (isCacheFull(c) => isCacheFull(d))
    BY <2>1, SetPartFacts
  <2> HIDE DEF d
  <2>4. /\ ArcOK(r) /\ r.items = d.items /\ Listed(r) \subseteq Listed(d)
        /\ ToSet(d.b2.l) \subseteq ToSet(r.b2.l)
        /\ isCacheFull(d) => Count(r) = Count(d) - 1
    BY <2>3, ReplaceKeeps
  <2> HIDE DEF r
  <2>5. k \in ToSet(r.b2.l)
    BY <2>0, <2>3, <2>4 DEF Has
  <2>6. Promoted(r, s, k) /\ Count(s) = Count(r) + 1
    BY <2>4, <2>5, PromotedFromB2
  <2> HIDE DEF s
  <2>7. ArcOK(s) /\ ItemsOK(s)
    BY <2>3, <2>4, <2>6 DEF Promoted, ItemsOK
  <2>8. ASSUME isCacheFull(c) PROVE Count(s) <= Count(c)
    <3>1. Count(s) = Count(c) - 1 + 1 /\ Count(c) \in Nat
      BY <2>3, <2>4, <2>6, <2>8, CountType
    <3> QED  BY <3>1
  <2> QED  BY <2>2, <2>7, <2>8 DEF SetKeeps
<1> QED  BY <1>1, <1>2

\* A ghost less in b1 or b2.
Forgot(c, r) ==
    /\ ArcOK(r)
    /\ r.t1 = c.t1 /\ r.t2 = c.t2 /\ r.items = c.items

LEMMA ForgotB1 ==
    ASSUME NEW c, ArcOK(c), c.b1.l # <<>>
    PROVE  Forgot(c, [c EXCEPT !.b1 = RemoveTail(@)])
<1> DEFINE b == RemoveTail(c.b1)
           r == [c EXCEPT !.b1 = b]
<1>1. ListOK(b) /\ ToSet(b.l) \subseteq ToSet(c.b1.l)
  BY RemoveTailFacts DEF ArcOK
<1> HIDE DEF b
<1>2. b \in ArcLists
  BY <1>1 DEF ListOK
<1>3. /\ r \in Arcs /\ r.t1 = c.t1 /\ r.t2 = c.t2 /\ r.b1 = b /\ r.b2 = c.b2
      /\ r.items = c.items
  BY <1>2 DEF ArcOK, Arcs
<1> HIDE DEF r
<1>4. ArcOK(r)
  BY <1>1, <1>3 DEF ArcOK
<1>5. Forgot(c, r)
  BY <1>3, <1>4 DEF Forgot
<1> QED  BY <1>5 DEF r, b

LEMMA ForgotB2 ==
    ASSUME NEW c, ArcOK(c), c.b2.l # <<>>
    PROVE  Forgot(c, [c EXCEPT !.b2 = RemoveTail(@)])
<1> DEFINE b == RemoveTail(c.b2)
           r == [c EXCEPT !.b2 = b]
<1>1. ListOK(b) /\ ToSet(b.l) \subseteq ToSet(c.b2.l)
  BY RemoveTailFacts DEF ArcOK
<1> HIDE DEF b
<1>2. b \in ArcLists
  BY <1>1 DEF ListOK
<1>3. /\ r \in Arcs /\ r.t1 = c.t1 /\ r.t2 = c.t2 /\ r.b1 = c.b1 /\ r.b2 = b
      /\ r.items = c.items
  BY <1>2 DEF ArcOK, Arcs
<1> HIDE DEF r
<1>4. ArcOK(r)
  BY <1>1, <1>3 DEF ArcOK
<1>5. Forgot(c, r)
  BY <1>3, <1>4 DEF Forgot
<1> QED  BY <1>5 DEF r, b

\* replace after a ghost was forgotten, or none.
LEMMA ReplaceAfter ==
    ASSUME NEW c, ItemsOK(c), NEW f, Forgot(c, f), NEW k
    PROVE  /\ ArcOK(replace(f, k)) /\ ItemsOK(replace(f, k))
           /\ isCacheFull(c) => Count(replace(f, k)) = Count(c) - 1
<1> DEFINE r == replace(f, k)
<1>1. /\ Listed(f) = Listed(c) /\ Count(f) = Count(c) /\ f.items = c.items
      /\ isCacheFull(c) => isCacheFull(f)
  BY DEF Forgot, Listed, Count, isCacheFull
<1>2. /\ ArcOK(r) /\ r.items = f.items /\ Listed(r) \subseteq Listed(f)
      /\ isCacheFull(f) => Count(r) = Count(f) - 1
  BY ReplaceKeeps DEF Forgot
<1> HIDE DEF r
<1>3. ArcOK(r) /\ ItemsOK(r) /\ (isCacheFull(c) => Count(r) = Count(c) - 1)
  BY <1>1, <1>2 DEF ItemsOK
<1> QED  BY <1>3 DEF r

\* The tail of t1 leaves the cache, items too.
LEMMA DroppedFromT1 ==
    ASSUME NEW c, ArcOK(c), ItemsOK(c), c.t1.l # <<>>
    PROVE  LET r == [c EXCEPT !.t1 = RemoveTail(@), !.items = @ \ {Last(c.t1.l)}]
           IN  ArcOK(r) /\ ItemsOK(r) /\ Count(r) = Count(c) - 1
<1> DEFINE k == Last(c.t1.l)
           t == RemoveTail(c.t1)
           i == c.items \ {k}
           r == [c EXCEPT !.t1 = t, !.items = i]
<1>1. /\ ListOK(t) /\ k \in ToSet(c.t1.l)
      /\ ToSet(t.l) = ToSet(c.t1.l) \ {k} /\ Len(t.l) = Len(c.t1.l) - 1
  BY RemoveTailFacts DEF ArcOK
<1>2. i \subseteq Keys
  BY ArcNumbers
<1> HIDE DEF k, t
<1>3. t \in ArcLists
  BY <1>1 DEF ListOK
<1>4. /\ r \in Arcs /\ r.t1 = t /\ r.t2 = c.t2 /\ r.b1 = c.b1 /\ r.b2 = c.b2
      /\ r.items = i
  <2> HIDE DEF i
  <2> QED  BY <1>2, <1>3 DEF ArcOK, Arcs
<1> HIDE DEF r
<1>5. ArcOK(r)
  BY <1>1, <1>4 DEF ArcOK
<1>6. ItemsOK(r)
  <2>1. k \notin ToSet(c.t2.l)
    BY <1>1 DEF ArcOK
  <2> QED  BY <1>1, <1>4, <2>1 DEF ItemsOK, Listed
<1>7. Count(r) = Count(c) - 1
  <2>1. Len(r.t1.l) = Len(c.t1.l) - 1 /\ Len(r.t2.l) = Len(c.t2.l)
    BY <1>1, <1>4
  <2>2. Len(c.t1.l) \in Nat /\ Len(c.t2.l) \in Nat
    BY ArcNumbers
  <2>3. \A u, v \in Nat : (u - 1) + v = u + v - 1
    OBVIOUS
  <2> QED  BY <2>1, <2>2, <2>3 DEF Count
<1>8. ArcOK(r) /\ ItemsOK(r) /\ Count(r) = Count(c) - 1
  BY <1>5, <1>6, <1>7
<1> QED  BY <1>8 DEF r, i, t, k

\* What set does once the new key is in t1: a full cache loses one file, and
\* none of the lists it takes a tail of is empty.
LEMMA RoomFacts ==
    ASSUME NEW c, ArcOK(c), ItemsOK(c), NEW k
    PROVE  /\ ArcOK(Room(c, k)) /\ ItemsOK(Room(c, k))
           /\ isCacheFull(c) => Count(Room(c, k)) = Count(c) - 1
<1> DEFINE total == c.t1.size + c.b1.size + c.t2.size + c.b2.size
           less1 == [c EXCEPT !.b1 = RemoveTail(@)]
           less2 == [c EXCEPT !.b2 = RemoveTail(@)]
           fewer == IF total < 2 * Capacity THEN c
                    ELSE IF c.b2.size > 0 THEN less2 ELSE IF c.b1.size > 0 THEN less1 ELSE c
           gone == [c EXCEPT !.t1 = RemoveTail(@), !.items = @ \ {Last(c.t1.l)}]
           ghosts == isCacheFull(c) /\ c.t1.size + c.b1.size >= Capacity
           Good(r) == /\ ArcOK(r) /\ ItemsOK(r)
                      /\ isCacheFull(c) => Count(r) = Count(c) - 1
<1>1. Room(c, k) = IF ghosts
                   THEN IF c.t1.size < Capacity THEN replace(less1, k) ELSE gone
                   ELSE IF total >= Capacity THEN replace(fewer, k) ELSE c
  BY DEF Room
<1>2. /\ c.t1.size \in Nat /\ c.t2.size \in Nat /\ c.b1.size \in Nat /\ c.b2.size \in Nat
      /\ Capacity \in Nat \ {0}
  BY ArcNumbers
<1>3. c.b1.size > 0 => Forgot(c, less1)
  <2> SUFFICES ASSUME c.b1.size > 0 PROVE Forgot(c, less1)
    OBVIOUS
  <2>1. c.b1.l # <<>>
    BY SizeMeansFiles DEF ArcOK
  <2> QED  BY <2>1, ForgotB1
<1>4. c.b2.size > 0 => Forgot(c, less2)
  <2> SUFFICES ASSUME c.b2.size > 0 PROVE Forgot(c, less2)
    OBVIOUS
  <2>1. c.b2.l # <<>>
    BY SizeMeansFiles DEF ArcOK
  <2> QED  BY <2>1, ForgotB2
<1>5. c.t1.size > 0 => Good(gone)
  <2> SUFFICES ASSUME c.t1.size > 0 PROVE Good(gone)
    OBVIOUS
  <2>1. c.t1.l # <<>>
    BY SizeMeansFiles DEF ArcOK
  <2> QED  BY <2>1, DroppedFromT1
<1>6. Forgot(c, c)
  BY DEF Forgot
<1>7. Forgot(c, fewer)
  <2> HIDE DEF less1, less2, total
  <2> QED  BY <1>3, <1>4, <1>6
<1>8. \A f : Forgot(c, f) => Good(replace(f, k))
  BY ReplaceAfter
<1>9. isCacheFull(c) => total >= Capacity
  BY <1>2 DEF isCacheFull
<1>10. ghosts /\ c.t1.size < Capacity => c.b1.size > 0
  BY <1>2
<1>11. ~(c.t1.size < Capacity) => c.t1.size > 0
  BY <1>2
<1>12. ~isCacheFull(c) => Good(c)
  OBVIOUS
<1>13. ghosts => isCacheFull(c)
  OBVIOUS
<1> HIDE DEF total, less1, fewer, gone, ghosts, Good
<1>14. Good(Room(c, k))
  <2>1. CASE ghosts /\ c.t1.size < Capacity
    BY <1>1, <1>3, <1>8, <1>10, <2>1
  <2>2. CASE ghosts /\ ~(c.t1.size < Capacity)
    BY <1>1, <1>5, <1>11, <2>2
  <2>3. CASE ~ghosts /\ total >= Capacity
    BY <1>1, <1>7, <1>8, <2>3
  <2>4. CASE ~ghosts /\ ~(total >= Capacity)
    BY <1>1, <1>9, <1>12, <2>4
  <2> QED  BY <2>1, <2>2, <2>3, <2>4
<1> QED  BY <1>14 DEF Good

\* The key of a new file at the front of t1.
LEMMA EnteredFacts ==
    ASSUME NEW c, ArcOK(c), ItemsOK(c), NEW k \in c.items,
           k \notin Listed(c), k \notin ToSet(c.b1.l), k \notin ToSet(c.b2.l)
    PROVE  LET s == [c EXCEPT !.t1 = PushFront(@, k)]
           IN  /\ ArcOK(s) /\ ItemsOK(s) /\ Count(s) = Count(c) + 1
               /\ isCacheFull(c) => isCacheFull(s)
<1> DEFINE t == PushFront(c.t1, k)
           s == [c EXCEPT !.t1 = t]
<1>1. k \in Keys /\ k \notin ToSet(c.t1.l) /\ k \notin ToSet(c.t2.l)
  BY ArcNumbers DEF Listed
<1>2. /\ ListOK(t) /\ ToSet(t.l) = ToSet(c.t1.l) \cup {k}
      /\ Len(t.l) = Len(c.t1.l) + 1 /\ t.size = c.t1.size + SizeOf[k]
  BY <1>1, PushFrontFacts DEF ArcOK
<1> HIDE DEF t
<1>3. t \in ArcLists
  BY <1>2 DEF ListOK
<1>4. /\ s \in Arcs /\ s.t1 = t /\ s.t2 = c.t2 /\ s.b1 = c.b1 /\ s.b2 = c.b2
      /\ s.items = c.items
  BY <1>3 DEF ArcOK, Arcs
<1> HIDE DEF s
<1>5. ArcOK(s)
  BY <1>1, <1>2, <1>4 DEF ArcOK
<1>6. ItemsOK(s)
  BY <1>2, <1>4 DEF ItemsOK, Listed
<1>7. Count(s) = Count(c) + 1
  <2>1. Len(s.t1.l) = Len(c.t1.l) + 1 /\ Len(s.t2.l) = Len(c.t2.l)
    BY <1>2, <1>4
  <2>2. Len(c.t1.l) \in Nat /\ Len(c.t2.l) \in Nat
    BY ArcNumbers
  <2>3. \A u, v \in Nat : (u + 1) + v = u + v + 1
    OBVIOUS
  <2> QED  BY <2>1, <2>2, <2>3 DEF Count
<1>8. isCacheFull(c) => isCacheFull(s)
  <2>1. c.t1.size \in Nat /\ c.t2.size \in Nat /\ Capacity \in Nat /\ SizeOf[k] \in Nat
    BY <1>1, ArcNumbers, SizeType
  <2>2. s.t1.size = c.t1.size + SizeOf[k] /\ s.t2.size = c.t2.size
    BY <1>2, <1>4
  <2> QED  BY <2>1, <2>2 DEF isCacheFull
<1>9. /\ ArcOK(s) /\ ItemsOK(s) /\ Count(s) = Count(c) + 1
      /\ isCacheFull(c) => isCacheFull(s)
  BY <1>5, <1>6, <1>7, <1>8
<1> QED  BY <1>9 DEF s, t

\* set of any key, when it divides by no empty ghost list.
LEMMA SetFacts ==
    ASSUME NEW c, ArcOK(c), ItemsOK(c), NEW k \in Keys, ~DividesByZero(c, k)
    PROVE  SetKeeps(c, set(c, k))
<1> DEFINE i == c.items \cup {k}
           d == [c EXCEPT !.items = i]
           e == [d EXCEPT !.t1 = PushFront(@, k)]
<1>1. i \subseteq Keys /\ k \in i /\ c.items \subseteq i
  BY ArcNumbers
<1>2. /\ d \in Arcs /\ d.t1 = c.t1 /\ d.t2 = c.t2 /\ d.b1 = c.b1 /\ d.b2 = c.b2
      /\ d.items = i
  <2> HIDE DEF i
  <2> QED  BY <1>1 DEF ArcOK, Arcs
<1>3. set(c, k) = CASE Has(c.t1, k) \/ Has(c.t2, k) -> d
                    [] Has(c.b1, k) \/ Has(c.b2, k) -> Revived(d, k)
                    [] OTHER -> Room(e, k)
  BY DEF set
<1> HIDE DEF d, i
<1>4. ArcOK(d)
  BY <1>2 DEF ArcOK
<1>5. /\ ItemsOK(d) /\ Count(d) = Count(c) /\ isCacheFull(d) = isCacheFull(c)
      /\ Listed(d) = Listed(c)
  BY <1>1, <1>2 DEF ItemsOK, Listed, Count, isCacheFull
<1>6. Count(c) \in Nat
  BY CountType
<1>7. CASE Has(c.t1, k) \/ Has(c.t2, k)
  <2>1. Count(d) <= Count(c)
    BY <1>5, <1>6
  <2>2. set(c, k) = d
    <3>1. ASSUME Has(c.b1, k) \/ Has(c.b2, k) PROVE FALSE
      BY <1>7, <3>1 DEF ArcOK, Has
    <3> QED  BY <1>3, <1>7, <3>1
  <2> QED  BY <1>4, <1>5, <2>1, <2>2 DEF SetKeeps
<1>8. CASE Has(c.b1, k) \/ Has(c.b2, k)
  <2>1. set(c, k) = Revived(d, k)
    <3>1. ASSUME Has(c.t1, k) \/ Has(c.t2, k) PROVE FALSE
      BY <1>8, <3>1 DEF ArcOK, Has
    <3> QED  BY <1>3, <1>8, <3>1
  <2>2. (Has(d.b1, k) \/ Has(d.b2, k)) /\ ~DividesByZero(d, k) /\ k \in d.items
    BY <1>1, <1>2, <1>8 DEF DividesByZero
  <2>3. SetKeeps(d, Revived(d, k))
    BY <1>4, <1>5, <2>2, RevivedFacts
  <2> QED  BY <1>5, <2>1, <2>3 DEF SetKeeps
<1>9. CASE ~(Has(c.t1, k) \/ Has(c.t2, k)) /\ ~(Has(c.b1, k) \/ Has(c.b2, k))
  <2>1. set(c, k) = Room(e, k)
    BY <1>3, <1>9
  <2>2. k \notin Listed(d) /\ k \notin ToSet(d.b1.l) /\ k \notin ToSet(d.b2.l) /\ k \in d.items
    BY <1>1, <1>2, <1>9 DEF Listed, Has
  <2>3. /\ ArcOK(e) /\ ItemsOK(e) /\ Count(e) = Count(d) + 1
        /\ isCacheFull(d) => isCacheFull(e)
    BY <1>4, <1>5, <2>2, EnteredFacts
  <2> HIDE DEF e
  <2>4. /\ ArcOK(Room(e, k)) /\ ItemsOK(Room(e, k))
        /\ isCacheFull(e) => Count(Room(e, k)) = Count(e) - 1
    BY <2>3, RoomFacts
  <2>5. ASSUME isCacheFull(c) PROVE Count(Room(e, k)) <= Count(c)
    <3>1. isCacheFull(e) /\ Count(e) = Count(c) + 1
      BY <1>5, <2>3, <2>5
    <3>2. Count(Room(e, k)) = Count(e) - 1
      BY <2>4, <3>1
    <3>3. \A a, b, x \in Int : x \in Nat /\ a = x + 1 /\ b = a - 1 => b <= x
      OBVIOUS
    <3>4. Count(Room(e, k)) \in Nat /\ Count(e) \in Nat
      BY <2>3, <2>4, CountType
    <3> QED  BY <1>6, <3>1, <3>2, <3>3, <3>4
  <2> QED  BY <2>1, <2>4, <2>5 DEF SetKeeps
<1> QED  BY <1>7, <1>8, <1>9

-----------------------------------------------------------------------------
(***************************************************************************)
(* The specification.                                                      *)
(***************************************************************************)
\* The inductive invariant: the lists are right, with exact sizes and no key
\* twice, and items has the keys of t1 and t2.
CacheInv ==
    /\ ArcOK(arc) /\ ItemsOK(arc)
    /\ mem \subseteq Keys /\ writing \subseteq Keys

LEMMA InitCache == Init => CacheInv
<1> SUFFICES ASSUME Init PROVE CacheInv
  OBVIOUS
<1> DEFINE n == newARCList
           c == [t1 |-> n, t2 |-> n, b1 |-> n, b2 |-> n, part |-> 0, items |-> {}]
<1>1. ListOK(n) /\ ToSet(n.l) = {}
  BY NewListOK
<1>2. arc = c /\ mem = {} /\ writing = {}
  BY DEF Init
<1> HIDE DEF n
<1>3. n \in ArcLists /\ 0 \in 0..Capacity
  BY <1>1, CacheAssumption DEF ListOK
<1>4. c \in Arcs /\ c.t1 = n /\ c.t2 = n /\ c.b1 = n /\ c.b2 = n
  BY <1>3 DEF Arcs
<1> HIDE DEF c
<1>5. ArcOK(c) /\ ItemsOK(c)
  BY <1>1, <1>4 DEF ArcOK, ItemsOK, Listed
<1> QED  BY <1>2, <1>5 DEF CacheInv

\* What GetFile makes of the cache.
LEMMA GetFacts ==
    ASSUME CacheInv, NEW k \in Keys, GetFile(k)
    PROVE  ArcOK(arc') /\ ItemsOK(arc') /\ Count(arc') = Count(arc)
<1>0. ArcOK(arc) /\ ItemsOK(arc)
  BY DEF CacheInv
<1>1. CASE Has(arc.t1, k) /\ arc' = [arc EXCEPT !.t1 = RemoveKey(@, k), !.t2 = PushFront(@, k)]
  <2>1. k \in ToSet(arc.t1.l)
    BY <1>1 DEF Has
  <2>2. Promoted(arc, arc', k) /\ Count(arc') = Count(arc)
    BY <1>0, <1>1, <2>1, PromotedFromT1
  <2>3. k \in arc.items
    BY <1>0, <2>1 DEF ItemsOK, Listed
  <2> QED  BY <1>0, <2>2, <2>3 DEF Promoted, ItemsOK
<1>2. CASE Has(arc.t2, k) /\ arc' = [arc EXCEPT !.t2 = MoveToFront(@, k)]
  <2>1. k \in ToSet(arc.t2.l)
    BY <1>2 DEF Has
  <2>2. /\ ArcOK(arc') /\ arc'.items = arc.items /\ Listed(arc') = Listed(arc)
        /\ Count(arc') = Count(arc)
    BY <1>0, <1>2, <2>1, Touched
  <2> QED  BY <1>0, <2>2 DEF ItemsOK
<1> QED  BY <1>1, <1>2 DEF GetFile

\* What every step makes of the cache.
LEMMA CacheStep ==
    ASSUME CacheInv, [Next]_vars
    PROVE  /\ CacheInv'
           /\ isCacheFull(arc) => Count(arc') <= Count(arc)
<1>0. ArcOK(arc) /\ ItemsOK(arc) /\ mem \subseteq Keys /\ writing \subseteq Keys
  BY DEF CacheInv
<1>a. Count(arc) \in Nat
  BY <1>0, CountType
<1>s. ASSUME arc' = arc, mem' \subseteq Keys, writing' \subseteq Keys
      PROVE  /\ CacheInv'
             /\ isCacheFull(arc) => Count(arc') <= Count(arc)
  <2>1. ArcOK(arc') /\ ItemsOK(arc') /\ Count(arc') = Count(arc)
    BY <1>0, <1>s
  <2>2. Count(arc') <= Count(arc)
    BY <1>a, <2>1
  <2> QED  BY <1>s, <2>1, <2>2 DEF CacheInv
<1>1. ASSUME NEW k \in Keys, SetFile(k)
      PROVE  /\ CacheInv'
             /\ isCacheFull(arc) => Count(arc') <= Count(arc)
  <2>1. CASE DividesByZero(arc, k)
    <3>1. arc' = arc /\ mem' = mem /\ writing' = writing
      BY <1>1, <2>1 DEF SetFile
    <3> QED  BY <1>0, <1>s, <3>1
  <2>2. CASE ~DividesByZero(arc, k)
    <3>1. /\ arc' = set(arc, k) /\ mem' \subseteq mem
          /\ writing' = writing \cup {k}
      BY <1>1, <2>2 DEF SetFile
    <3>2. SetKeeps(arc, arc')
      BY <1>0, <2>2, <3>1, SetFacts
    <3> QED  BY <1>0, <3>1, <3>2 DEF SetKeeps, CacheInv
  <2> QED  BY <2>1, <2>2
<1>2. ASSUME NEW k \in Keys, SetMem(k)
      PROVE  /\ CacheInv'
             /\ isCacheFull(arc) => Count(arc') <= Count(arc)
  BY <1>0, <1>2, <1>s DEF SetMem
<1>3. ASSUME NEW k \in Keys, GetFile(k)
      PROVE  /\ CacheInv'
             /\ isCacheFull(arc) => Count(arc') <= Count(arc)
  <2>1. ArcOK(arc') /\ ItemsOK(arc') /\ Count(arc') = Count(arc)
    BY <1>3, GetFacts
  <2>2. Count(arc') <= Count(arc)
    BY <1>a, <2>1
  <2>3. mem' = mem /\ writing' = writing
    BY <1>3 DEF GetFile
  <2> QED  BY <1>0, <2>1, <2>2, <2>3 DEF CacheInv
<1>4. ASSUME NEW k \in Keys, BigcacheDrops(k)
      PROVE  /\ CacheInv'
             /\ isCacheFull(arc) => Count(arc') <= Count(arc)
  BY <1>0, <1>4, <1>s DEF BigcacheDrops
<1>5. CASE UNCHANGED vars
  BY <1>0, <1>5, <1>s DEF vars
<1>6. CASE Next
  BY <1>1, <1>2, <1>3, <1>4, <1>6 DEF Next
<1> QED  BY <1>5, <1>6

LEMMA CacheInvariant == Spec => []CacheInv
<1>1. CacheInv /\ [Next]_vars => CacheInv'
  BY CacheStep
<1> QED  BY InitCache, <1>1, PTL DEF Spec

-----------------------------------------------------------------------------
\* For every set of files, their sizes and every capacity: a key is in one of
\* the four lists at most and once, part is within the capacity, and get finds
\* in items every key of t1 and t2.
THEOREM CacheIsConsistent == Spec => []CacheOK
<1>1. CacheInv => CacheOK
  <2> SUFFICES ASSUME CacheInv PROVE CacheOK
    OBVIOUS
  <2>1. ArcOK(arc) /\ ItemsOK(arc) /\ mem \subseteq Keys /\ writing \subseteq Keys
    BY DEF CacheInv
  <2>2. /\ Lists(arc)[1] = arc.t1 /\ Lists(arc)[2] = arc.t2
        /\ Lists(arc)[3] = arc.b1 /\ Lists(arc)[4] = arc.b2
    BY DEF Lists
  <2>3. 1..4 = {1, 2, 3, 4}
    OBVIOUS
  <2>4. \A m, n \in 1..4 : m # n => ToSet(Lists(arc)[m].l) \cap ToSet(Lists(arc)[n].l) = {}
    BY <2>1, <2>2, <2>3 DEF ArcOK
  <2>5. \A n \in 1..4 : IsInjective(Lists(arc)[n].l)
    BY <2>1, <2>2, <2>3 DEF ArcOK, ListOK
  <2>6. arc.part \in 0..Capacity /\ arc.items \subseteq Keys
    BY <2>1, ArcNumbers
  <2> QED  BY <2>1, <2>4, <2>5, <2>6 DEF CacheOK, ItemsOK
<1> QED  BY CacheInvariant, <1>1, PTL

\* Every set of numbers that is not empty has a least one.
LEMMA LeastNumber ==
    ASSUME NEW T, T \subseteq Nat, T # {}
    PROVE  \E x \in T : \A y \in T : x <= y
<1>1. \E x \in T : \A y \in T : ~(<<y, x>> \in OpToRel(<, Nat))
  BY NatLessThanWellFounded, WFMin
<1>2. PICK x \in T : \A y \in T : ~(<<y, x>> \in OpToRel(<, Nat))
  BY <1>1
<1>3. \A y \in T : ~(y < x)
  BY <1>2 DEF OpToRel
<1>4. x \in Nat /\ \A y \in T : y \in Nat
  OBVIOUS
<1> QED  BY <1>3, <1>4

\* f is the recursive function of Sum.
IsUpTo(f, l) == f = [n \in 0..Len(l) |-> IF n = 0 THEN 0 ELSE f[n - 1] + SizeOf[l[n]]]

\* The sum of a list is the last of its partial sums.
LEMMA SumIsLast ==
    ASSUME NEW l \in Seq(Keys), NEW p, Sums(p, l)
    PROVE  Sum(l) = p[Len(l)]
<1> DEFINE f == CHOOSE g : IsUpTo(g, l)
<1>0. Len(l) \in Nat
  OBVIOUS
<1>1. Sum(l) = f[Len(l)]
  BY DEF Sum, IsUpTo
<1>2. IsUpTo(p, l)
  <2> DEFINE q == [n \in 0..Len(l) |-> IF n = 0 THEN 0 ELSE p[n - 1] + SizeOf[l[n]]]
  <2>1. \A n \in 0..Len(l) : p[n] = q[n]
    <3> SUFFICES ASSUME NEW n \in 0..Len(l) PROVE p[n] = q[n]
      OBVIOUS
    <3>1. CASE n = 0
      BY <3>1 DEF Sums
    <3>2. CASE n # 0
      <4>1. n \in 1..Len(l)
        BY <1>0, <3>2
      <4> QED  BY <3>2, <4>1 DEF Sums
    <3> QED  BY <3>1, <3>2
  <2>2. p = [n \in 0..Len(l) |-> p[n]]
    BY DEF Sums
  <2>3. [n \in 0..Len(l) |-> p[n]] = [n \in 0..Len(l) |-> q[n]]
    BY <2>1
  <2>4. [n \in 0..Len(l) |-> q[n]] = q
    OBVIOUS
  <2>5. p = q
    BY <2>2, <2>3, <2>4
  <2> QED  BY <2>5 DEF IsUpTo
<1>3. IsUpTo(f, l)
  BY <1>2
<1> HIDE DEF f
<1>4. \A n \in 0..Len(l) : f[n] = IF n = 0 THEN 0 ELSE f[n - 1] + SizeOf[l[n]]
  BY <1>3 DEF IsUpTo
<1>5. \A n \in 0..Len(l) : f[n] = p[n]
  <2> DEFINE T == {n \in 0..Len(l) : f[n] # p[n]}
  <2> SUFFICES ASSUME T # {} PROVE FALSE
    OBVIOUS
  <2>1. T \subseteq Nat
    OBVIOUS
  <2>2. PICK x \in T : \A y \in T : x <= y
    BY <2>1, LeastNumber
  <2>3. x \in 0..Len(l) /\ f[x] # p[x]
    OBVIOUS
  <2>4. x # 0
    BY <1>0, <1>4, <2>3 DEF Sums
  <2>5. x \in 1..Len(l) /\ x - 1 \in 0..Len(l) /\ ~(x <= x - 1)
    BY <1>0, <2>3, <2>4
  <2>6. f[x - 1] = p[x - 1]
    BY <2>2, <2>5
  <2>7. f[x] = f[x - 1] + SizeOf[l[x]] /\ p[x] = p[x - 1] + SizeOf[l[x]]
    BY <1>4, <2>3, <2>4, <2>5 DEF Sums
  <2> QED  BY <2>3, <2>6, <2>7
<1> QED  BY <1>0, <1>1, <1>5

\* The size that each list keeps is the sum of the sizes of its files, however
\* long the cache has run: set and replace never take the tail of an empty
\* list.
THEOREM SizesAreExact == Spec => []SizesExact
<1>1. ASSUME NEW al, ListOK(al) PROVE al.size = Sum(al.l)
  <2>1. al.l \in Seq(Keys)
    BY <1>1 DEF ListOK, ArcLists
  <2>2. PICK p : Sums(p, al.l) /\ al.size = p[Len(al.l)]
    BY <1>1 DEF ListOK
  <2> QED  BY <2>1, <2>2, SumIsLast
<1>2. CacheInv => SizesExact
  <2> SUFFICES ASSUME CacheInv PROVE SizesExact
    OBVIOUS
  <2>1. ListOK(arc.t1) /\ ListOK(arc.t2) /\ ListOK(arc.b1) /\ ListOK(arc.b2)
    BY DEF CacheInv, ArcOK
  <2>2. /\ Lists(arc)[1] = arc.t1 /\ Lists(arc)[2] = arc.t2
        /\ Lists(arc)[3] = arc.b1 /\ Lists(arc)[4] = arc.b2
    BY DEF Lists
  <2>3. 1..4 = {1, 2, 3, 4}
    OBVIOUS
  <2>4. \A n \in 1..4 : ListOK(Lists(arc)[n])
    BY <2>1, <2>2, <2>3
  <2> QED  BY <1>1, <2>4 DEF SizesExact
<1> QED  BY CacheInvariant, <1>2, PTL

\* No call makes a full cache list more files, whatever the sizes of the files
\* it evicts and takes in.
THEOREM FullCacheDoesNotGrow == Spec => FullNeverGrows
<1>1. CacheInv /\ [Next]_vars =>
          [isCacheFull(arc) => Len(arc'.t1.l) + Len(arc'.t2.l) <= Len(arc.t1.l) + Len(arc.t2.l)]_vars
  BY CacheStep DEF Count
<1> QED  BY CacheInvariant, <1>1, PTL DEF Spec, FullNeverGrows

\* evictedFunc deletes from MemCache only the bytes of a file that FileLST no
\* longer lists.
THEOREM EvictedFilesAreUnlisted == Spec => EvictedUnlisted
<1>1. CacheInv /\ CacheInv' /\ [Next]_vars =>
          [\A k \in mem \ mem' : k \notin Listed(arc') \/ arc' = arc]_vars
  <2> SUFFICES ASSUME CacheInv', Next, NEW j \in mem \ mem', arc' # arc
               PROVE  j \notin Listed(arc')
    BY DEF vars
  <2>1. Listed(arc') \subseteq arc'.items
    BY DEF CacheInv, ItemsOK
  <2>2. PICK k \in Keys : SetFile(k) \/ SetMem(k) \/ GetFile(k) \/ BigcacheDrops(k)
    BY DEF Next
  <2>3. CASE SetFile(k)
    <3>1. mem' = mem \ ((arc.items \cup {k}) \ arc'.items)
      BY <2>3 DEF SetFile
    <3> QED  BY <2>1, <3>1
  <2>4. CASE SetMem(k)
    BY <2>4 DEF SetMem
  <2>5. CASE GetFile(k)
    BY <2>5 DEF GetFile
  <2>6. CASE BigcacheDrops(k)
    BY <2>6 DEF BigcacheDrops
  <2> QED  BY <2>2, <2>3, <2>4, <2>5, <2>6
<1> QED  BY CacheInvariant, <1>1, PTL DEF Spec, EvictedUnlisted

=============================================================================
