-------------------------- MODULE BruteForceProofs --------------------------
(***************************************************************************)
(* Proofs about bf_xdelta3_all (src/training/bruteforce/): for every trace *)
(* and any number of threads no unique block is forgotten or searched      *)
(* twice, and a search that is killed and resumed any number of times,     *)
(* never inside a line, prints what an undisturbed one prints.             *)
(***************************************************************************)
EXTENDS DeltaStoreProofs

-----------------------------------------------------------------------------
(***************************************************************************)
(* The inductive invariant.                                                *)
(***************************************************************************)
Tokens == {Blank} \cup {Number(n) : n \in Int}
TripleSet == Int \X Int \X Int

SearchTypes ==
    /\ trace \in Seq(Contents) /\ trace # <<>>
    /\ runs \in 0..MaxWork
    /\ phase \in {"off", "threads", "closed", "end"}
    /\ todo \subseteq UniqueBlocks
    /\ job \in [Threads -> {0, -1} \cup UniqueBlocks]
    /\ result \in Seq(TripleSet) /\ temp \in Seq(Tokens) /\ buffer \in Seq(Tokens)
    /\ cut \in BOOLEAN

\* A thread returns when nothing is to do, main goes on when all returned,
\* and only a running program has text in its stream.
Ended ==
    /\ phase = "off" => \A t \in Threads : job[t] = 0
    /\ phase \in {"closed", "end"} => \A t \in Threads : job[t] = -1
    /\ \A t \in Threads : job[t] = -1 => todo = {}
    /\ phase # "threads" => buffer = <<>>

\* Text t is the lines of rs.
Spells(t, rs) ==
    /\ Len(t) = 6 * Len(rs)
    /\ \A k \in 1..Len(rs) :
          /\ t[6 * k - 5] = Number(rs[k][1]) /\ t[6 * k - 4] = Blank
          /\ t[6 * k - 3] = Number(rs[k][2]) /\ t[6 * k - 2] = Blank
          /\ t[6 * k - 1] = Number(rs[k][3]) /\ t[6 * k] = Blank

\* rs holds the best triples of unique blocks, each at most once.
AllBest(rs) ==
    /\ rs \in Seq(TripleSet)
    /\ \A k \in 1..Len(rs) : rs[k][1] \in UniqueBlocks /\ rs[k] = Best(rs[k][1])
    /\ \A j, k \in 1..Len(rs) : rs[j][1] = rs[k][1] => j = k

\* Every unique block is to do, a thread's or in the result, and nowhere
\* twice: NoBlockForgotten, block by block.
Kept ==
    phase \in {"threads", "closed"} =>
        /\ \A b \in UniqueBlocks : \/ b \in todo
                                   \/ \E t \in Threads : job[t] = b
                                   \/ \E k \in 1..Len(result) : result[k][1] = b
        /\ \A b \in todo : /\ \A t \in Threads : job[t] # b
                           /\ \A k \in 1..Len(result) : result[k][1] # b
        /\ \A t \in Threads, k \in 1..Len(result) : job[t] > 0 => result[k][1] # job[t]
        /\ \A s, t \in Threads : s # t /\ job[s] > 0 => job[s] # job[t]

\* As long as no line was cut, file and stream together spell the result of
\* a run, and the file alone spells what the next run will restore.
RunSpelled == AllBest(result) /\ Spells(temp \o buffer, result)
FileSpelled == AllBest(Triples(temp)) /\ Spells(temp, Triples(temp))
ResumeOK ==
    ~cut => /\ phase \in {"threads", "closed"} => RunSpelled
            /\ phase \in {"off", "end"} => FileSpelled

SearchInv == SearchTypes /\ Ended /\ Kept /\ ResumeOK /\ ResumedExact

-----------------------------------------------------------------------------
(***************************************************************************)
(* What fscanf reads.                                                      *)
(***************************************************************************)
Accs == {a \in [open : BOOLEAN, seq : Seq(Int)] : a.open => a.seq # <<>>}
NoNumbers == [open |-> FALSE, seq |-> <<>>]

LEMMA TokenFacts ==
    /\ Blank \in Tokens
    /\ \A n \in Int : Number(n) \in Tokens /\ Number(n) # Blank /\ Number(n)[2] = n
    /\ \A x \in Tokens : x # Blank => x[2] \in Int
<1>1. \A n : Number(n) # Blank /\ Number(n)[2] = n
  BY DEF Number, Blank
<1> QED  BY <1>1 DEF Tokens

LEMMA PowersFacts == Powers \subseteq Nat /\ \E p \in Powers : \A q \in Powers : q <= p
BY SMT DEF Powers

LEMMA ShiftType ==
    ASSUME NEW n \in Int
    PROVE  Shift(n) \in Int
<1> DEFINE Is(p) == /\ n < p \/ \A q \in Powers : q <= p
                    /\ \A q \in Powers : n < q => p <= q
           T == {p \in Powers : n < p}
<1>1. Powers \subseteq Nat /\ \E p \in Powers : \A q \in Powers : q <= p
  BY PowersFacts
<1>2. \E p \in Powers : Is(p)
  <2>1. CASE T = {}
    BY <1>1, <2>1
  <2>2. CASE T # {}
    <3>1. PICK p \in T : \A q \in T : p <= q
      BY <1>1, <2>2, LeastNumber
    <3> QED  BY <3>1
  <2> QED  BY <2>1, <2>2
<1>3. Shift(n) = CHOOSE p \in Powers : Is(p)
  BY DEF Shift
<1> HIDE DEF Is
<1>4. Shift(n) \in Powers
  BY <1>2, <1>3, Zenon
<1>5. \A p \in Powers : p \in Int
  <2>1. Powers \subseteq Nat
    BY <1>1, Zenon
  <2> QED  BY <2>1
<1> QED  BY <1>4, <1>5, Zenon

LEMMA TogetherType ==
    ASSUME NEW m \in Int, NEW n \in Int
    PROVE  Together(m, n) \in Int
<1>1. Shift(n) \in Int
  BY ShiftType
<1>2. \A p \in Int : p * m - n \in Int /\ p * m + n \in Int
  OBVIOUS
<1> QED  BY <1>1, <1>2 DEF Together

LEMMA ScanBlank ==
    ASSUME NEW a \in Accs
    PROVE  Scan(a, Blank) = [open |-> FALSE, seq |-> a.seq]
BY DEF Scan, Accs

LEMMA ScanNumber ==
    ASSUME NEW a \in Accs, ~a.open, NEW n \in Int
    PROVE  Scan(a, Number(n)) = [open |-> TRUE, seq |-> Append(a.seq, n)]
BY TokenFacts DEF Scan

LEMMA AccFacts ==
    ASSUME NEW s \in Seq(Int)
    PROVE  /\ [open |-> FALSE, seq |-> s] \in Accs
           /\ \A n \in Int : [open |-> TRUE, seq |-> Append(s, n)] \in Accs
<1>1. \A n \in Int : Append(s, n) \in Seq(Int) /\ Append(s, n) # <<>>
  OBVIOUS
<1> QED  BY <1>1 DEF Accs

LEMMA ScanType ==
    ASSUME NEW a \in Accs, NEW x \in Tokens
    PROVE  Scan(a, x) \in Accs
<1>1. a \in [open : BOOLEAN, seq : Seq(Int)] /\ (a.open => a.seq # <<>>) /\ a.seq \in Seq(Int)
  BY DEF Accs
<1>2. CASE x = Blank
  BY <1>1, <1>2, ScanBlank, AccFacts
<1>3. CASE x # Blank /\ a.open /\ x[2] >= 0
  <2> DEFINE s == a.seq
             m == Len(s)
             s2 == [s EXCEPT ![m] = Together(s[m], x[2])]
  <2>1. s \in Seq(Int) /\ s # <<>> /\ x[2] \in Int
    BY <1>1, <1>3, TokenFacts
  <2>2. m \in 1..Len(s) /\ s[m] \in Int /\ DOMAIN s = 1..Len(s)
    BY <2>1
  <2>3. Together(s[m], x[2]) \in Int
    BY <2>1, <2>2, TogetherType
  <2>4. s2 \in Seq(Int) /\ Len(s2) = Len(s)
    BY <2>1, <2>2, <2>3
  <2>5. s2 # <<>>
    BY <2>1, <2>2, <2>4
  <2>6. Scan(a, x) = [a EXCEPT !.seq = s2]
    BY <1>1, <1>3 DEF Scan
  <2> HIDE DEF s2
  <2> QED  BY <1>1, <2>4, <2>5, <2>6 DEF Accs
<1>4. CASE x # Blank /\ ~(a.open /\ x[2] >= 0)
  <2>1. Scan(a, x) = [open |-> TRUE, seq |-> Append(a.seq, x[2])]
    BY <1>4 DEF Scan
  <2> QED  BY <1>1, <1>4, <2>1, TokenFacts, AccFacts
<1> QED  BY <1>2, <1>3, <1>4

\* p[k] is what the first k elements of the text leave, for k up to n.
Scans(p, text, n) ==
    /\ p \in [0..n -> Accs]
    /\ p[0] = NoNumbers
    /\ \A k \in 1..n : p[k] = Scan(p[k - 1], text[k])

LEMMA ScansExist ==
    ASSUME NEW text \in Seq(Tokens), NEW n \in 0..Len(text)
    PROVE  \E p : Scans(p, text, n)
<1> DEFINE T == {m \in 0..Len(text) : ~\E p : Scans(p, text, m)}
<1>0. Len(text) \in Nat /\ NoNumbers \in Accs
  BY DEF NoNumbers, Accs
<1>1. SUFFICES ASSUME T # {} PROVE FALSE
  OBVIOUS
<1>2. PICK x \in T : \A y \in T : x <= y
  <2>1. T \subseteq Nat
    OBVIOUS
  <2> HIDE DEF T
  <2> QED  BY <1>1, <2>1, LeastNumber
<1>3. x \in 0..Len(text) /\ ~\E p : Scans(p, text, x)
  OBVIOUS
<1>4. CASE x = 0
  <2> DEFINE p == [k \in 0..0 |-> NoNumbers]
  <2>1. Scans(p, text, 0)
    BY <1>0 DEF Scans
  <2> QED  BY <1>3, <1>4, <2>1
<1>5. CASE x # 0
  <2>1. x - 1 \in 0..Len(text) /\ x \in 1..Len(text) /\ x \in Nat /\ ~(x <= x - 1)
    BY <1>0, <1>3, <1>5
  <2>2. PICK p : Scans(p, text, x - 1)
    BY <1>2, <2>1
  <2> DEFINE q == [k \in 0..x |-> IF k = x THEN Scan(p[x - 1], text[x]) ELSE p[k]]
  <2>3. text[x] \in Tokens
    BY <2>1
  <2>4. \A k \in 0..(x - 1) : p[k] \in Accs /\ q[k] = p[k]
    BY <2>1, <2>2 DEF Scans
  <2>5. q[x] = Scan(p[x - 1], text[x])
    BY <2>1
  <2>6. q \in [0..x -> Accs]
    <3>1. x - 1 \in 0..(x - 1) /\ \A k \in 0..x : k = x \/ k \in 0..(x - 1)
      BY <2>1
    <3>2. q = [k \in 0..x |-> q[k]]
      OBVIOUS
    <3> HIDE DEF q
    <3>3. p[x - 1] \in Accs
      BY <2>4, <3>1
    <3>4. \A k \in 0..x : q[k] \in Accs
      BY <2>3, <2>4, <2>5, <3>1, <3>3, ScanType
    <3> QED  BY <3>2, <3>4
  <2>7. \A k \in 1..x : q[k] = Scan(q[k - 1], text[k])
    <3> SUFFICES ASSUME NEW k \in 1..x PROVE q[k] = Scan(q[k - 1], text[k])
      OBVIOUS
    <3>1. k - 1 \in 0..(x - 1)
      BY <2>1
    <3> HIDE DEF q
    <3>2. CASE k = x
      BY <2>4, <2>5, <3>1, <3>2
    <3>3. CASE k # x
      <4>1. k \in 0..(x - 1) /\ k \in 1..(x - 1)
        BY <2>1, <3>3
      <4> QED  BY <2>2, <2>4, <3>1, <4>1 DEF Scans
    <3> QED  BY <3>2, <3>3
  <2>8. q[0] = NoNumbers
    <3>1. 0 \in 0..(x - 1)
      BY <1>5, <2>1
    <3> HIDE DEF q
    <3> QED  BY <2>2, <2>4, <3>1 DEF Scans
  <2>9. Scans(q, text, x)
    <3> HIDE DEF q
    <3> QED  BY <2>6, <2>7, <2>8 DEF Scans
  <2> QED  BY <1>3, <2>9
<1> QED  BY <1>4, <1>5

\* f is the recursive function of Scanned.
IsScanned(f, text) ==
    f = [n \in 0..Len(text) |-> IF n = 0 THEN NoNumbers ELSE Scan(f[n - 1], text[n])]

LEMMA ScannedFacts ==
    ASSUME NEW text \in Seq(Tokens)
    PROVE  Scans(Scanned(text), text, Len(text))
<1> DEFINE f == CHOOSE g : IsScanned(g, text)
<1>0. Len(text) \in Nat
  OBVIOUS
<1>1. Scanned(text) = f
  BY DEF Scanned, IsScanned, NoNumbers
<1>2. PICK p : Scans(p, text, Len(text))
  BY <1>0, ScansExist
<1>3. IsScanned(p, text)
  <2> DEFINE q == [n \in 0..Len(text) |-> IF n = 0 THEN NoNumbers ELSE Scan(p[n - 1], text[n])]
  <2>1. \A n \in 0..Len(text) : p[n] = q[n]
    <3> SUFFICES ASSUME NEW n \in 0..Len(text) PROVE p[n] = q[n]
      OBVIOUS
    <3>1. CASE n = 0
      BY <1>2, <3>1 DEF Scans
    <3>2. CASE n # 0
      <4>1. n \in 1..Len(text)
        BY <1>0, <3>2
      <4> QED  BY <1>2, <3>2, <4>1 DEF Scans
    <3> QED  BY <3>1, <3>2
  <2>2. p = [n \in 0..Len(text) |-> p[n]]
    BY <1>2 DEF Scans
  <2>3. [n \in 0..Len(text) |-> p[n]] = [n \in 0..Len(text) |-> q[n]]
    BY <2>1
  <2>4. [n \in 0..Len(text) |-> q[n]] = q
    OBVIOUS
  <2>5. p = q
    BY <2>2, <2>3, <2>4
  <2> QED  BY <2>5 DEF IsScanned
<1>4. IsScanned(f, text)
  BY <1>3
<1> HIDE DEF f
<1>5. /\ \A n \in 0..Len(text) : f[n] = IF n = 0 THEN NoNumbers ELSE Scan(f[n - 1], text[n])
      /\ f = [n \in 0..Len(text) |-> f[n]]
  BY <1>4 DEF IsScanned
<1>6. \A n \in 0..Len(text) : f[n] = p[n]
  <2> DEFINE T == {n \in 0..Len(text) : f[n] # p[n]}
  <2> SUFFICES ASSUME T # {} PROVE FALSE
    OBVIOUS
  <2>1. T \subseteq Nat
    OBVIOUS
  <2>2. PICK x \in T : \A y \in T : x <= y
    BY <2>1, LeastNumber
  <2>3. x \in 0..Len(text) /\ f[x] # p[x]
    OBVIOUS
  <2>4. x # 0
    BY <1>0, <1>2, <1>5, <2>3 DEF Scans
  <2>5. x \in 1..Len(text) /\ x - 1 \in 0..Len(text) /\ ~(x <= x - 1)
    BY <1>0, <2>3, <2>4
  <2>6. f[x - 1] = p[x - 1]
    BY <2>2, <2>5
  <2>7. f[x] = Scan(f[x - 1], text[x]) /\ p[x] = Scan(p[x - 1], text[x])
    BY <1>2, <1>5, <2>3, <2>4, <2>5 DEF Scans
  <2> QED  BY <2>3, <2>6, <2>7
<1>7. p = [n \in 0..Len(text) |-> p[n]]
  BY <1>2 DEF Scans
<1>8. f = p
  BY <1>5, <1>6, <1>7
<1> QED  BY <1>1, <1>2, <1>8

LEMMA NumbersType ==
    ASSUME NEW text \in Seq(Tokens)
    PROVE  Numbers(text) \in Seq(Int)
<1>1. Scanned(text)[Len(text)] \in Accs
  <2>1. Len(text) \in 0..Len(text)
    OBVIOUS
  <2> QED  BY <2>1, ScannedFacts DEF Scans
<1> QED  BY <1>1 DEF Accs, Numbers

LEMMA TriplesType ==
    ASSUME NEW text \in Seq(Tokens)
    PROVE  Triples(text) \in Seq(TripleSet)
<1> DEFINE ns == Numbers(text)
           m == Len(ns) \div 3
<1>1. ns \in Seq(Int) /\ Len(ns) \in Nat
  BY NumbersType
<1> HIDE DEF ns
<1>2. m \in Nat /\ 3 * m <= Len(ns)
  BY <1>1
<1> HIDE DEF m
<1>3. \A k \in 1..m : 3 * k - 2 \in 1..Len(ns) /\ 3 * k - 1 \in 1..Len(ns) /\ 3 * k \in 1..Len(ns)
  BY <1>1, <1>2
<1>4. \A k \in 1..m : <<ns[3 * k - 2], ns[3 * k - 1], ns[3 * k]>> \in TripleSet
  <2>1. \A x, y, z \in Int : <<x, y, z>> \in TripleSet
    BY DEF TripleSet
  <2>2. \A k \in 1..m : ns[3 * k - 2] \in Int /\ ns[3 * k - 1] \in Int /\ ns[3 * k] \in Int
    BY <1>1, <1>3
  <2> QED  BY <2>1, <2>2
<1>5. Triples(text) = [k \in 1..m |-> <<ns[3 * k - 2], ns[3 * k - 1], ns[3 * k]>>]
  BY DEF Triples, ns, m
<1> QED  BY <1>2, <1>4, <1>5

\* The accumulator holds the first k triples of rs.
HoldsTriples(a, rs, k) ==
    /\ a \in Accs /\ ~a.open /\ Len(a.seq) = 3 * k
    /\ \A m \in 1..k : /\ a.seq[3 * m - 2] = rs[m][1]
                       /\ a.seq[3 * m - 1] = rs[m][2]
                       /\ a.seq[3 * m] = rs[m][3]

LEMMA TripleFacts ==
    ASSUME NEW t \in TripleSet
    PROVE  t = <<t[1], t[2], t[3]>> /\ t[1] \in Int /\ t[2] \in Int /\ t[3] \in Int
BY DEF TripleSet

\* A number and the white space behind it.
LEMMA ScanPair ==
    ASSUME NEW s \in Seq(Int), NEW n \in Int, NEW a, a = [open |-> FALSE, seq |-> s]
    PROVE  Scan(Scan(a, Number(n)), Blank) = [open |-> FALSE, seq |-> Append(s, n)]
<1>1. a \in Accs /\ ~a.open /\ a.seq = s
  BY AccFacts
<1> DEFINE b == [open |-> TRUE, seq |-> Append(s, n)]
<1>2. Scan(a, Number(n)) = b /\ b \in Accs /\ b.seq = Append(s, n)
  BY <1>1, ScanNumber, AccFacts
<1> HIDE DEF b
<1> QED  BY <1>2, ScanBlank

Three(s, x, y, z) == Append(Append(Append(s, x), y), z)

\* A line from element m of the text on.
LineAt(text, m, x, y, z) ==
    /\ text[m + 1] = Number(x) /\ text[m + 2] = Blank
    /\ text[m + 3] = Number(y) /\ text[m + 4] = Blank
    /\ text[m + 5] = Number(z) /\ text[m + 6] = Blank

Closed(a, s) == a = [open |-> FALSE, seq |-> s]

LEMMA SixAhead ==
    ASSUME NEW m \in Nat, NEW n \in Nat, m + 6 <= n
    PROVE  /\ m + 1 \in 1..n /\ m + 2 \in 1..n /\ m + 3 \in 1..n
           /\ m + 4 \in 1..n /\ m + 5 \in 1..n /\ m + 6 \in 1..n
           /\ (m + 1) - 1 = m /\ (m + 2) - 1 = m + 1 /\ (m + 3) - 1 = m + 2
           /\ (m + 4) - 1 = m + 3 /\ (m + 5) - 1 = m + 4 /\ (m + 6) - 1 = m + 5
OBVIOUS

LEMMA ScanLine ==
    ASSUME NEW text \in Seq(Tokens), NEW p, Scans(p, text, Len(text)), NEW m \in Nat, m + 6 <= Len(text),
           NEW s \in Seq(Int), Closed(p[m], s),
           NEW x \in Int, NEW y \in Int, NEW z \in Int, LineAt(text, m, x, y, z)
    PROVE  Closed(p[m + 6], Three(s, x, y, z))
<1>1. \A k \in 1..Len(text) : p[k] = Scan(p[k - 1], text[k])
  BY DEF Scans
<1>2. /\ m + 1 \in 1..Len(text) /\ m + 2 \in 1..Len(text) /\ m + 3 \in 1..Len(text)
      /\ m + 4 \in 1..Len(text) /\ m + 5 \in 1..Len(text) /\ m + 6 \in 1..Len(text)
      /\ (m + 1) - 1 = m /\ (m + 2) - 1 = m + 1 /\ (m + 3) - 1 = m + 2
      /\ (m + 4) - 1 = m + 3 /\ (m + 5) - 1 = m + 4 /\ (m + 6) - 1 = m + 5
  <2>1. Len(text) \in Nat
    OBVIOUS
  <2> QED  BY <2>1, SixAhead
<1>3. /\ p[m + 2] = Scan(Scan(p[m], Number(x)), Blank)
      /\ p[m + 4] = Scan(Scan(p[m + 2], Number(y)), Blank)
      /\ p[m + 6] = Scan(Scan(p[m + 4], Number(z)), Blank)
  BY <1>1, <1>2 DEF LineAt
<1>4. Append(s, x) \in Seq(Int) /\ Append(Append(s, x), y) \in Seq(Int)
  OBVIOUS
<1>5. p[m + 2] = [open |-> FALSE, seq |-> Append(s, x)]
  BY <1>3, ScanPair, Zenon DEF Closed
<1>6. p[m + 4] = [open |-> FALSE, seq |-> Append(Append(s, x), y)]
  BY <1>3, <1>4, <1>5, ScanPair, Zenon
<1>7. p[m + 6] = [open |-> FALSE, seq |-> Append(Append(Append(s, x), y), z)]
  BY <1>3, <1>4, <1>6, ScanPair, Zenon
<1> QED  BY <1>7 DEF Three, Closed

LEMMA ThreeAppended ==
    ASSUME NEW s \in Seq(Int), NEW x \in Int, NEW y \in Int, NEW z \in Int
    PROVE  /\ Three(s, x, y, z) \in Seq(Int) /\ Len(Three(s, x, y, z)) = Len(s) + 3
           /\ \A k \in 1..Len(s) : Three(s, x, y, z)[k] = s[k]
           /\ Three(s, x, y, z)[Len(s) + 1] = x
           /\ Three(s, x, y, z)[Len(s) + 2] = y
           /\ Three(s, x, y, z)[Len(s) + 3] = z
<1> DEFINE u == Append(s, x)
           v == Append(u, y)
           t == Append(v, z)
<1>1. u \in Seq(Int) /\ Len(u) = Len(s) + 1 /\ Len(s) \in Nat /\ u[Len(s) + 1] = x
      /\ \A k \in 1..Len(s) : u[k] = s[k]
  OBVIOUS
<1> HIDE DEF u
<1>2. v \in Seq(Int) /\ Len(v) = Len(u) + 1 /\ v[Len(u) + 1] = y /\ \A k \in 1..Len(u) : v[k] = u[k]
  BY <1>1
<1> HIDE DEF v
<1>3. t \in Seq(Int) /\ Len(t) = Len(v) + 1 /\ t[Len(v) + 1] = z /\ \A k \in 1..Len(v) : t[k] = v[k]
  BY <1>2
<1> HIDE DEF t
<1>4. Len(u) = Len(s) + 1 /\ Len(v) = Len(s) + 2 /\ Len(t) = Len(s) + 3
  BY <1>1, <1>2, <1>3
<1>5. \A k \in 1..Len(s) : k \in 1..Len(u) /\ k \in 1..Len(v)
  BY <1>1, <1>4
<1>6. Len(s) + 1 \in 1..Len(u) /\ Len(s) + 1 \in 1..Len(v) /\ Len(s) + 2 \in 1..Len(v)
  BY <1>1, <1>4
<1>7. \A k \in 1..Len(s) : t[k] = s[k]
  BY <1>1, <1>2, <1>3, <1>5
<1>8. t[Len(s) + 1] = x
  BY <1>1, <1>2, <1>3, <1>6
<1>9. t[Len(s) + 2] = y
  <2>1. v[Len(s) + 2] = y
    BY <1>1, <1>2, <1>4
  <2> QED  BY <1>3, <1>6, <2>1
<1>10. t[Len(s) + 3] = z
  BY <1>1, <1>3, <1>4
<1>11. t = Three(s, x, y, z)
  BY DEF t, v, u, Three
<1> QED  BY <1>3, <1>4, <1>7, <1>8, <1>9, <1>10, <1>11

LEMMA ReadsLines ==
    ASSUME NEW text \in Seq(Tokens), NEW rs \in Seq(TripleSet), Spells(text, rs), NEW k \in 0..Len(rs)
    PROVE  HoldsTriples(Scanned(text)[6 * k], rs, k)
<1> DEFINE p == Scanned(text)
           T == {m \in 0..Len(rs) : ~HoldsTriples(p[6 * m], rs, m)}
<1>0. Len(rs) \in Nat /\ Len(text) = 6 * Len(rs) /\ Scans(p, text, Len(text))
  <2>1. Scans(p, text, Len(text))
    BY ScannedFacts
  <2>2. Len(text) = 6 * Len(rs)
    BY DEF Spells
  <2>3. Len(rs) \in Nat
    OBVIOUS
  <2> QED  BY <2>1, <2>2, <2>3
<1> HIDE DEF p
<1>1. SUFFICES ASSUME T # {} PROVE FALSE
  BY DEF p
<1>2. PICK x \in T : \A y \in T : x <= y
  <2>1. T \subseteq Nat
    OBVIOUS
  <2> HIDE DEF T
  <2> QED  BY <1>1, <2>1, LeastNumber
<1>3. x \in 0..Len(rs) /\ ~HoldsTriples(p[6 * x], rs, x)
  OBVIOUS
<1> HIDE DEF T
<1>4. CASE x = 0
  <2>1. p[6 * x] = NoNumbers
    BY <1>0, <1>4 DEF Scans
  <2>2. NoNumbers \in Accs /\ ~NoNumbers.open /\ NoNumbers.seq = <<>> /\ Len(<<>>) = 0
    BY DEF NoNumbers, Accs
  <2>3. HoldsTriples(NoNumbers, rs, 0)
    BY <2>2 DEF HoldsTriples
  <2> QED  BY <1>3, <1>4, <2>1, <2>3
<1>5. CASE x # 0
  <2> DEFINE m == x - 1
             a == p[6 * m]
             s == a.seq
             b == p[6 * x]
  <2>1. m \in 0..Len(rs) /\ m \in Nat /\ x \in 1..Len(rs) /\ x = m + 1 /\ ~(x <= m)
    BY <1>0, <1>3, <1>5
  <2> HIDE DEF m
  <2>2. HoldsTriples(a, rs, m)
    BY <1>2, <2>1 DEF T
  <2>3. a \in Accs /\ s \in Seq(Int) /\ ~a.open /\ Len(s) = 3 * m
        /\ \A j \in 1..m : s[3 * j - 2] = rs[j][1] /\ s[3 * j - 1] = rs[j][2] /\ s[3 * j] = rs[j][3]
    BY <2>2 DEF HoldsTriples, Accs
  <2>4. a = [open |-> FALSE, seq |-> s]
    BY <2>3 DEF Accs
  <2>5. rs[x][1] \in Int /\ rs[x][2] \in Int /\ rs[x][3] \in Int
    BY <2>1, TripleFacts
  <2>6. /\ 6 * x = 6 * m + 6 /\ 6 * m \in Nat /\ 6 * m + 6 <= Len(text)
        /\ 6 * x - 5 = 6 * m + 1 /\ 6 * x - 4 = 6 * m + 2 /\ 6 * x - 3 = 6 * m + 3
        /\ 6 * x - 2 = 6 * m + 4 /\ 6 * x - 1 = 6 * m + 5
    BY <1>0, <2>1
  <2>7. /\ text[6 * x - 5] = Number(rs[x][1]) /\ text[6 * x - 4] = Blank
        /\ text[6 * x - 3] = Number(rs[x][2]) /\ text[6 * x - 2] = Blank
        /\ text[6 * x - 1] = Number(rs[x][3]) /\ text[6 * x] = Blank
    BY <2>1 DEF Spells
  <2> DEFINE u == rs[x][1]
             v == rs[x][2]
             w == rs[x][3]
             t == Three(s, u, v, w)
             l == 6 * m
  <2>20. /\ l \in Nat /\ l + 6 <= Len(text) /\ Closed(p[l], s) /\ 6 * x = l + 6
         /\ LineAt(text, l, u, v, w)
    BY <2>4, <2>6, <2>7 DEF LineAt, Closed
  <2>21. u \in Int /\ v \in Int /\ w \in Int
    BY <2>5
  <2> HIDE DEF s, u, v, w, l
  <2>8. b = [open |-> FALSE, seq |-> t]
    <3>1. Closed(p[l + 6], Three(s, u, v, w))
      BY <1>0, <2>3, <2>20, <2>21, ScanLine
    <3> QED  BY <2>20, <3>1 DEF Closed
  <2>9. /\ t \in Seq(Int) /\ Len(t) = Len(s) + 3
        /\ \A j \in 1..Len(s) : t[j] = s[j]
        /\ t[Len(s) + 1] = rs[x][1] /\ t[Len(s) + 2] = rs[x][2] /\ t[Len(s) + 3] = rs[x][3]
    <3>1. /\ t \in Seq(Int) /\ Len(t) = Len(s) + 3
          /\ \A j \in 1..Len(s) : t[j] = s[j]
          /\ t[Len(s) + 1] = u /\ t[Len(s) + 2] = v /\ t[Len(s) + 3] = w
      <4>1. s \in Seq(Int)
        BY <2>3
      <4> QED  BY <2>21, <4>1, ThreeAppended
    <3> QED  BY <3>1 DEF u, v, w
  <2> HIDE DEF t
  <2>10. b \in Accs /\ ~b.open /\ b.seq = t
    BY <2>8, <2>9, AccFacts
  <2>11. Len(t) = 3 * x
    BY <2>1, <2>3, <2>9
  <2>12. \A j \in 1..x : t[3 * j - 2] = rs[j][1] /\ t[3 * j - 1] = rs[j][2] /\ t[3 * j] = rs[j][3]
    <3> SUFFICES ASSUME NEW j \in 1..x
                 PROVE  t[3 * j - 2] = rs[j][1] /\ t[3 * j - 1] = rs[j][2] /\ t[3 * j] = rs[j][3]
      OBVIOUS
    <3>1. CASE j = x
      <4>1. 3 * j - 2 = Len(s) + 1 /\ 3 * j - 1 = Len(s) + 2 /\ 3 * j = Len(s) + 3
        BY <2>1, <2>3, <3>1
      <4> QED  BY <2>9, <3>1, <4>1
    <3>2. CASE j # x
      <4>1. j \in 1..m
        BY <2>1, <3>2
      <4>2. 3 * j - 2 \in 1..Len(s) /\ 3 * j - 1 \in 1..Len(s) /\ 3 * j \in 1..Len(s)
        <5>1. \A c \in Nat : c = 3 * m => 3 * j - 2 \in 1..c /\ 3 * j - 1 \in 1..c /\ 3 * j \in 1..c
          BY <2>1, <4>1
        <5>2. Len(s) \in Nat
          BY <2>3
        <5> QED  BY <2>3, <5>1, <5>2
      <4> QED  BY <2>3, <2>9, <4>1, <4>2
    <3> QED  BY <3>1, <3>2
  <2>13. HoldsTriples(b, rs, x)
    BY <2>10, <2>11, <2>12 DEF HoldsTriples
  <2> QED  BY <1>3, <2>13
<1> QED  BY <1>4, <1>5

\* restore_result reads back what the lines say.
LEMMA TriplesOfLines ==
    ASSUME NEW text \in Seq(Tokens), NEW rs \in Seq(TripleSet), Spells(text, rs)
    PROVE  Triples(text) = rs
<1> DEFINE ns == Numbers(text)
           n == Len(rs)
<1>1. n \in Nat /\ n \in 0..n /\ Len(text) = 6 * n
  BY DEF Spells
<1>2. HoldsTriples(Scanned(text)[6 * n], rs, n)
  BY <1>1, ReadsLines
<1>3. Len(ns) = 3 * n
  BY <1>1, <1>2 DEF HoldsTriples, Numbers
<1>4. \A m \in 1..n : ns[3 * m - 2] = rs[m][1] /\ ns[3 * m - 1] = rs[m][2] /\ ns[3 * m] = rs[m][3]
  BY <1>1, <1>2 DEF HoldsTriples, Numbers
<1>5. Triples(text) = [k \in 1..(Len(ns) \div 3) |-> <<ns[3 * k - 2], ns[3 * k - 1], ns[3 * k]>>]
  BY DEF Triples
<1> HIDE DEF ns
<1>6. Len(ns) \div 3 = n
  BY <1>1, <1>3
<1>7. \A m \in 1..n : rs[m] = <<rs[m][1], rs[m][2], rs[m][3]>>
  BY <1>1, TripleFacts
<1>8. \A m \in 1..n : <<ns[3 * m - 2], ns[3 * m - 1], ns[3 * m]>> = rs[m]
  BY <1>4, <1>7
<1>9. rs = [m \in 1..n |-> rs[m]]
  OBVIOUS
<1> HIDE DEF n
<1>10. Triples(text) = [m \in 1..n |-> <<ns[3 * m - 2], ns[3 * m - 1], ns[3 * m]>>]
  BY <1>5, <1>6
<1> QED  BY <1>8, <1>9, <1>10

-----------------------------------------------------------------------------
(***************************************************************************)
(* The text of a result.                                                   *)
(***************************************************************************)
LEMMA LineFacts ==
    ASSUME NEW x \in TripleSet
    PROVE  /\ Line(x) \in Seq(Tokens) /\ Len(Line(x)) = 6
           /\ Line(x)[1] = Number(x[1]) /\ Line(x)[2] = Blank
           /\ Line(x)[3] = Number(x[2]) /\ Line(x)[4] = Blank
           /\ Line(x)[5] = Number(x[3]) /\ Line(x)[6] = Blank
<1>1. Number(x[1]) \in Tokens /\ Number(x[2]) \in Tokens /\ Number(x[3]) \in Tokens /\ Blank \in Tokens
  BY TripleFacts, TokenFacts
<1>2. \A a, b, c, d, e, f \in Tokens : /\ <<a, b, c, d, e, f>> \in Seq(Tokens) /\ Len(<<a, b, c, d, e, f>>) = 6
                                       /\ <<a, b, c, d, e, f>>[1] = a /\ <<a, b, c, d, e, f>>[2] = b
                                       /\ <<a, b, c, d, e, f>>[3] = c /\ <<a, b, c, d, e, f>>[4] = d
                                       /\ <<a, b, c, d, e, f>>[5] = e /\ <<a, b, c, d, e, f>>[6] = f
  OBVIOUS
<1> QED  BY <1>1, <1>2 DEF Line

LEMMA JoinFacts ==
    ASSUME NEW S, NEW s \in Seq(S), NEW t \in Seq(S)
    PROVE  /\ s \o t \in Seq(S) /\ Len(s \o t) = Len(s) + Len(t)
           /\ \A k \in 1..Len(s) : (s \o t)[k] = s[k]
           /\ \A k \in 1..Len(t) : (s \o t)[Len(s) + k] = t[k]
OBVIOUS

\* A line more.
LEMMA SpellsAppend ==
    ASSUME NEW t \in Seq(Tokens), NEW rs \in Seq(TripleSet), Spells(t, rs), NEW x \in TripleSet
    PROVE  Spells(t \o Line(x), Append(rs, x))
<1> DEFINE n == Len(rs)
           line == Line(x)
           u == t \o line
           r == Append(rs, x)
<1>1. n \in Nat /\ r \in Seq(TripleSet) /\ Len(r) = n + 1 /\ r[n + 1] = x /\ \A k \in 1..n : r[k] = rs[k]
  OBVIOUS
<1>2. Len(t) = 6 * n
  BY DEF Spells
<1>3. /\ line \in Seq(Tokens) /\ Len(line) = 6
      /\ line[1] = Number(x[1]) /\ line[2] = Blank /\ line[3] = Number(x[2]) /\ line[4] = Blank
      /\ line[5] = Number(x[3]) /\ line[6] = Blank
  BY LineFacts
<1> HIDE DEF line
<1>4. /\ u \in Seq(Tokens) /\ Len(u) = Len(t) + Len(line)
      /\ \A k \in 1..Len(t) : u[k] = t[k]
      /\ \A k \in 1..Len(line) : u[Len(t) + k] = line[k]
  <2>1. line \in Seq(Tokens)
    BY <1>3
  <2> QED  BY <2>1, JoinFacts
<1> HIDE DEF n, u, r
<1>5. Len(u) = 6 * n + 6 /\ \A k \in 1..(6 * n) : u[k] = t[k]
  BY <1>2, <1>3, <1>4
<1>6. Len(u) = 6 * Len(r)
  BY <1>1, <1>5
<1>7. \A k \in 1..6 : u[6 * n + k] = line[k]
  <2>1. Len(t) = 6 * n /\ 1..Len(line) = 1..6
    BY <1>2, <1>3
  <2>2. \A k \in 1..6 : u[Len(t) + k] = line[k]
    BY <1>4, <2>1, Zenon
  <2> QED  BY <2>1, <2>2
<1>8. ASSUME NEW k \in 1..Len(r)
      PROVE  /\ u[6 * k - 5] = Number(r[k][1]) /\ u[6 * k - 4] = Blank
             /\ u[6 * k - 3] = Number(r[k][2]) /\ u[6 * k - 2] = Blank
             /\ u[6 * k - 1] = Number(r[k][3]) /\ u[6 * k] = Blank
  <2>1. CASE k = n + 1
    <3>1. /\ 6 * k - 5 = 6 * n + 1 /\ 6 * k - 4 = 6 * n + 2 /\ 6 * k - 3 = 6 * n + 3
          /\ 6 * k - 2 = 6 * n + 4 /\ 6 * k - 1 = 6 * n + 5 /\ 6 * k = 6 * n + 6
      BY <1>1, <2>1
    <3>2. /\ u[6 * n + 1] = line[1] /\ u[6 * n + 2] = line[2] /\ u[6 * n + 3] = line[3]
          /\ u[6 * n + 4] = line[4] /\ u[6 * n + 5] = line[5] /\ u[6 * n + 6] = line[6]
      BY <1>7
    <3> QED  BY <1>1, <1>3, <2>1, <3>1, <3>2
  <2>2. CASE k # n + 1
    <3>1. k \in 1..n
      BY <1>1, <2>2
    <3>2. /\ 6 * k - 5 \in 1..(6 * n) /\ 6 * k - 4 \in 1..(6 * n) /\ 6 * k - 3 \in 1..(6 * n)
          /\ 6 * k - 2 \in 1..(6 * n) /\ 6 * k - 1 \in 1..(6 * n) /\ 6 * k \in 1..(6 * n)
      BY <1>1, <3>1
    <3>3. /\ t[6 * k - 5] = Number(rs[k][1]) /\ t[6 * k - 4] = Blank
          /\ t[6 * k - 3] = Number(rs[k][2]) /\ t[6 * k - 2] = Blank
          /\ t[6 * k - 1] = Number(rs[k][3]) /\ t[6 * k] = Blank
      BY <3>1 DEF Spells, n
    <3> QED  BY <1>1, <1>5, <3>1, <3>2, <3>3
  <2> QED  BY <2>1, <2>2
<1>9. Spells(u, r)
  BY <1>6, <1>8 DEF Spells
<1> QED  BY <1>9 DEF u, r, line

\* The first lines.
LEMMA SpellsFront ==
    ASSUME NEW t \in Seq(Tokens), NEW rs \in Seq(TripleSet), Spells(t, rs), NEW n \in 0..Len(rs),
           NEW u \in Seq(Tokens), Len(u) = 6 * n, \A k \in 1..Len(u) : u[k] = t[k],
           NEW r \in Seq(TripleSet), Len(r) = n, \A k \in 1..n : r[k] = rs[k]
    PROVE  Spells(u, r)
<1>1. n \in Nat /\ Len(rs) \in Nat
  OBVIOUS
<1>2. ASSUME NEW k \in 1..n
      PROVE  /\ u[6 * k - 5] = Number(r[k][1]) /\ u[6 * k - 4] = Blank
             /\ u[6 * k - 3] = Number(r[k][2]) /\ u[6 * k - 2] = Blank
             /\ u[6 * k - 1] = Number(r[k][3]) /\ u[6 * k] = Blank
  <2>1. /\ 6 * k - 5 \in 1..(6 * n) /\ 6 * k - 4 \in 1..(6 * n) /\ 6 * k - 3 \in 1..(6 * n)
        /\ 6 * k - 2 \in 1..(6 * n) /\ 6 * k - 1 \in 1..(6 * n) /\ 6 * k \in 1..(6 * n)
    BY <1>1
  <2>2. k \in 1..Len(rs)
    BY <1>1
  <2>3. /\ t[6 * k - 5] = Number(rs[k][1]) /\ t[6 * k - 4] = Blank
        /\ t[6 * k - 3] = Number(rs[k][2]) /\ t[6 * k - 2] = Blank
        /\ t[6 * k - 1] = Number(rs[k][3]) /\ t[6 * k] = Blank
    BY <2>2 DEF Spells
  <2> QED  BY <2>1, <2>3
<1> QED  BY <1>2 DEF Spells

-----------------------------------------------------------------------------
(***************************************************************************)
(* The search.                                                             *)
(***************************************************************************)
TraceTyped == trace \in Seq(Contents) /\ trace # <<>>

LEMMA UniqueFacts ==
    ASSUME TraceTyped
    PROVE  /\ N \in Nat /\ UniqueBlocks \subseteq 1..N /\ 1 \in UniqueBlocks
           /\ \A b \in UniqueBlocks : b \in Nat /\ b > 0 /\ trace[b] \in Contents
<1>1. N \in Nat /\ N > 0 /\ \A b \in 1..N : trace[b] \in Contents
  BY DEF TraceTyped, N
<1>2. 1 \in 1..N /\ \A a \in 1..(1 - 1) : FALSE
  BY <1>1
<1> QED  BY <1>1, <1>2 DEF UniqueBlocks

LEMMA BestFacts ==
    ASSUME TraceTyped, NEW b \in UniqueBlocks
    PROVE  Best(b) \in TripleSet /\ Best(b)[1] = b
<1> DEFINE sizeOf(r) == IF r = NoRef THEN Lz4[trace[b]] ELSE Delta[trace[b]][trace[r]]
           refs == {NoRef} \cup {r \in UniqueBlocks : r < b}
           best == {r \in refs : \A s \in refs : sizeOf(r) <= sizeOf(s)}
           ref == CHOOSE r \in best : \A s \in best : r <= s
<1>1. Best(b) = <<b, ref, sizeOf(ref)>>
  BY DEF Best
<1>2. \A x \in UniqueBlocks : x \in Nat /\ trace[x] \in Contents
  BY UniqueFacts
<1>3. \A r \in refs : r \in Int /\ r >= -1 /\ sizeOf(r) \in Nat
  <2>1. NoRef = -1
    BY DEF NoRef
  <2>2. Lz4[trace[b]] \in Nat /\ \A r \in UniqueBlocks : Delta[trace[b]][trace[r]] \in Nat
    BY <1>2, TraceAssumption
  <2> QED  BY <1>2, <2>1, <2>2
<1>4. NoRef \in refs
  OBVIOUS
<1> HIDE DEF refs, sizeOf
<1>5. best # {}
  <2> DEFINE T == {sizeOf(r) : r \in refs}
  <2>1. T \subseteq Nat /\ T # {}
    BY <1>3, <1>4
  <2>2. PICK x \in T : \A y \in T : x <= y
    <3> HIDE DEF T
    <3> QED  BY <2>1, LeastNumber
  <2>3. PICK r \in refs : sizeOf(r) = x
    OBVIOUS
  <2>4. \A s \in refs : sizeOf(s) \in T
    OBVIOUS
  <2> HIDE DEF T
  <2>5. \A s \in refs : sizeOf(r) <= sizeOf(s)
    BY <2>2, <2>3, <2>4
  <2> QED  BY <2>5
<1>6. best \subseteq refs
  OBVIOUS
<1> HIDE DEF best
<1>7. \E r \in best : \A s \in best : r <= s
  <2> DEFINE T == {r + 1 : r \in best}
  <2>0. \A r \in best : r \in Int /\ r + 1 \in Nat
    BY <1>3, <1>6
  <2>1. T \subseteq Nat /\ T # {}
    BY <1>5, <2>0
  <2>2. PICK x \in T : \A y \in T : x <= y
    <3> HIDE DEF T
    <3> QED  BY <2>1, LeastNumber
  <2>3. PICK r \in best : r + 1 = x
    OBVIOUS
  <2>4. \A s \in best : s + 1 \in T
    OBVIOUS
  <2> HIDE DEF T
  <2>5. \A s \in best : r + 1 <= s + 1
    BY <2>2, <2>3, <2>4
  <2> QED  BY <2>0, <2>5
<1>8. ref \in best
  BY <1>7, Zenon
<1> HIDE DEF ref
<1>9. b \in Int /\ ref \in Int /\ sizeOf(ref) \in Int
  BY <1>2, <1>3, <1>6, <1>8
<1>10. \A x, y, z \in Int : <<x, y, z>> \in TripleSet /\ <<x, y, z>>[1] = x
  BY DEF TripleSet
<1> QED  BY <1>1, <1>9, <1>10

-----------------------------------------------------------------------------
(***************************************************************************)
(* sort.                                                                   *)
(***************************************************************************)
\* Triples of different numbers.
Distinct(rs) ==
    /\ rs \in Seq(TripleSet)
    /\ \A j, k \in 1..Len(rs) : rs[j][1] = rs[k][1] => j = k

\* The triples with smaller numbers than the j-th.
Below(rs, j) == {k \in 1..Len(rs) : rs[k][1] < rs[j][1]}

LEMMA DistinctFacts ==
    ASSUME NEW rs, Distinct(rs)
    PROVE  /\ Len(rs) \in Nat /\ DOMAIN rs = 1..Len(rs)
           /\ \A j \in 1..Len(rs) : rs[j][1] \in Int
           /\ \A j, k \in 1..Len(rs) : rs[j][1] = rs[k][1] => j = k
<1>1. rs \in Seq(TripleSet)
  BY DEF Distinct
<1>2. \A j \in 1..Len(rs) : rs[j] \in TripleSet
  BY <1>1
<1>3. \A j \in 1..Len(rs) : rs[j][1] \in Int
  BY <1>2, TripleFacts
<1> QED  BY <1>1, <1>3 DEF Distinct

LEMMA BelowFacts ==
    ASSUME NEW rs, Distinct(rs), NEW j \in 1..Len(rs)
    PROVE  /\ IsFiniteSet(Below(rs, j)) /\ Cardinality(Below(rs, j)) \in 0..(Len(rs) - 1)
           /\ \A k \in 1..Len(rs) : rs[j][1] < rs[k][1] =>
                 Cardinality(Below(rs, j)) < Cardinality(Below(rs, k))
<1> DEFINE n == Len(rs)
           D == 1..n
<1>1. n \in Nat /\ \A k \in D : rs[k][1] \in Int
  BY DistinctFacts
<1>2. IsFiniteSet(D) /\ Cardinality(D) = n
  BY <1>1, FS_Interval
<1>3. \A k \in D : IsFiniteSet(Below(rs, k)) /\ Cardinality(Below(rs, k)) \in Nat
  <2>1. \A k \in D : Below(rs, k) \in SUBSET D
    BY DEF Below
  <2> HIDE DEF D
  <2>2. \A T \in SUBSET D : IsFiniteSet(T) /\ Cardinality(T) \in Nat
    BY <1>2, FS_Subset, FS_CardinalityType
  <2> QED  BY <2>1, <2>2
<1>4. Cardinality(Below(rs, j)) \in 0..(n - 1)
  <2> DEFINE E == D \ {j}
  <2>1. j \in D
    OBVIOUS
  <2>2. IsFiniteSet(E) /\ Cardinality(E) = n - 1
    <3> HIDE DEF D
    <3> QED  BY <1>2, <2>1, FS_RemoveElement
  <2>3. Below(rs, j) \in SUBSET E
    BY <1>1 DEF Below
  <2> HIDE DEF E
  <2>4. Cardinality(Below(rs, j)) <= n - 1
    <3>1. Cardinality(Below(rs, j)) <= Cardinality(E)
      BY <2>2, <2>3, FS_Subset
    <3> QED  BY <2>2, <3>1
  <2> QED  BY <1>1, <1>3, <2>4
<1>5. ASSUME NEW k \in D, rs[j][1] < rs[k][1]
      PROVE  Cardinality(Below(rs, j)) < Cardinality(Below(rs, k))
  <2>1. Below(rs, j) \in SUBSET Below(rs, k)
    BY <1>1, <1>5 DEF Below
  <2>2. j \in Below(rs, k) /\ j \notin Below(rs, j)
    BY <1>1, <1>5 DEF Below
  <2>3. /\ Cardinality(Below(rs, j)) <= Cardinality(Below(rs, k))
        /\ Cardinality(Below(rs, k)) = Cardinality(Below(rs, j)) => Below(rs, k) = Below(rs, j)
    BY <1>3, <2>1, FS_Subset
  <2>4. Cardinality(Below(rs, k)) # Cardinality(Below(rs, j))
    BY <2>2, <2>3
  <2> QED  BY <1>3, <2>3, <2>4
<1> QED  BY <1>3, <1>4, <1>5

\* Every place is taken by one triple.
LEMMA PlaceTaken ==
    ASSUME NEW rs, Distinct(rs), NEW m \in 1..Len(rs)
    PROVE  \E j \in 1..Len(rs) : Cardinality(Below(rs, j)) = m - 1
<1> DEFINE n == Len(rs)
           D == 1..n
           c == [j \in D |-> Cardinality(Below(rs, j)) + 1]
<1>1. n \in Nat /\ \A k \in D : rs[k][1] \in Int
  BY DistinctFacts
<1>2. \A j, k \in D : rs[j][1] = rs[k][1] => j = k
  BY DistinctFacts
<1>3. \A j \in D : Cardinality(Below(rs, j)) \in 0..(n - 1)
  BY BelowFacts
<1>4. \A j, k \in D : rs[j][1] < rs[k][1] => Cardinality(Below(rs, j)) < Cardinality(Below(rs, k))
  BY BelowFacts
<1>5. c \in [D -> D]
  BY <1>1, <1>3
<1>6. \A j, k \in D : c[j] = c[k] => j = k
  <2> SUFFICES ASSUME NEW j \in D, NEW k \in D, c[j] = c[k] PROVE rs[j][1] = rs[k][1]
    BY <1>2
  <2>1. Cardinality(Below(rs, j)) = Cardinality(Below(rs, k))
    BY <1>3
  <2>2. ~(rs[j][1] < rs[k][1]) /\ ~(rs[k][1] < rs[j][1])
    BY <1>3, <1>4, <2>1
  <2> QED  BY <1>1, <2>2
<1>7. IsFiniteSet(D) /\ Cardinality(D) = Cardinality(D)
  BY <1>1, FS_Interval
<1>8. m \in D
  OBVIOUS
<1>9. \A j \in D : c[j] = Cardinality(Below(rs, j)) + 1
  OBVIOUS
<1> HIDE DEF c, D
<1>10. c \in Injection(D, D)
  BY <1>5, <1>6 DEF Injection, IsInjective
<1>11. c \in Surjection(D, D)
  BY <1>7, <1>10, FS_Injection
<1>12. PICK j \in D : c[j] = m
  BY <1>8, <1>11 DEF Surjection
<1>13. Cardinality(Below(rs, j)) = m - 1
  <2>1. Cardinality(Below(rs, j)) \in Int
    BY <1>3
  <2> QED  BY <1>9, <1>12, <2>1
<1> QED  BY <1>13 DEF D

\* The triple at place m.
Place(rs, m) == CHOOSE j \in 1..Len(rs) : Cardinality(Below(rs, j)) = m - 1

LEMMA PlaceFacts ==
    ASSUME NEW rs, Distinct(rs), NEW m \in 1..Len(rs)
    PROVE  Place(rs, m) \in 1..Len(rs) /\ Cardinality(Below(rs, Place(rs, m))) = m - 1
BY PlaceTaken DEF Place

LEMMA SortedIs ==
    ASSUME NEW rs, Distinct(rs)
    PROVE  Sorted(rs) = [m \in 1..Len(rs) |-> rs[Place(rs, m)]]
<1> DEFINE ahead(j) == {k \in DOMAIN rs : Before(rs[k], rs[j]) \/ (rs[k] = rs[j] /\ k < j)}
<1>1. Sorted(rs) = [m \in DOMAIN rs |-> rs[CHOOSE j \in DOMAIN rs : Cardinality(ahead(j)) = m - 1]]
  BY DEF Sorted
<1>2. DOMAIN rs = 1..Len(rs) /\ Len(rs) \in Nat
  BY DistinctFacts
<1>3. \A j \in 1..Len(rs) : ahead(j) = Below(rs, j)
  <2> SUFFICES ASSUME NEW j \in 1..Len(rs), NEW k \in 1..Len(rs)
               PROVE  Before(rs[k], rs[j]) \/ (rs[k] = rs[j] /\ k < j) <=> rs[k][1] < rs[j][1]
    BY <1>2 DEF Below
  <2>1. rs[j][1] \in Int /\ rs[k][1] \in Int /\ (rs[k][1] = rs[j][1] => j = k)
    BY DistinctFacts
  <2>2. CASE j = k
    <3>1. rs[j] \in TripleSet
      BY DEF Distinct
    <3>2. rs[j][2] \in Int /\ rs[j][3] \in Int
      BY <3>1, TripleFacts
    <3> QED  BY <2>1, <2>2, <3>2 DEF Before
  <2>3. CASE j # k
    <3>1. rs[k][1] # rs[j][1]
      BY <2>1, <2>3
    <3> QED  BY <2>1, <3>1 DEF Before
  <2> QED  BY <2>2, <2>3
<1> HIDE DEF ahead
<1>4. \A m : (CHOOSE j \in 1..Len(rs) : Cardinality(ahead(j)) = m - 1) = Place(rs, m)
  <2> SUFFICES ASSUME NEW m
               PROVE  (CHOOSE j \in 1..Len(rs) : Cardinality(ahead(j)) = m - 1) = Place(rs, m)
    OBVIOUS
  <2>1. \A j : (j \in 1..Len(rs) /\ Cardinality(ahead(j)) = m - 1)
                  <=> (j \in 1..Len(rs) /\ Cardinality(Below(rs, j)) = m - 1)
    BY <1>3
  <2> QED  BY <2>1 DEF Place
<1> QED  BY <1>1, <1>2, <1>4

\* What sort makes of triples of different numbers.
LEMMA SortedFacts ==
    ASSUME NEW rs, Distinct(rs)
    PROVE  /\ DOMAIN Sorted(rs) = 1..Len(rs)
           /\ ToSet(Sorted(rs)) = ToSet(rs)
           /\ \A j, k \in 1..Len(rs) : j < k => Sorted(rs)[j][1] < Sorted(rs)[k][1]
<1> DEFINE n == Len(rs)
           D == 1..n
           s == Sorted(rs)
<1>1. s = [m \in D |-> rs[Place(rs, m)]]
  BY SortedIs
<1>2. n \in Nat /\ DOMAIN rs = D /\ (\A k \in D : rs[k][1] \in Int)
      /\ \A j, k \in D : rs[j][1] = rs[k][1] => j = k
  BY DistinctFacts
<1>3. \A m \in D : Place(rs, m) \in D /\ Cardinality(Below(rs, Place(rs, m))) = m - 1
  BY PlaceFacts
<1>4. \A j \in D : Cardinality(Below(rs, j)) \in 0..(n - 1)
  BY BelowFacts
<1>5. \A j, k \in D : rs[j][1] < rs[k][1] => Cardinality(Below(rs, j)) < Cardinality(Below(rs, k))
  BY BelowFacts
<1>6. \A m \in D : m \in Nat
  BY <1>2
<1>7. \A c \in 0..(n - 1) : c + 1 \in D /\ (c + 1) - 1 = c
  BY <1>2
<1> HIDE DEF s, D
<1>8. DOMAIN s = D
  BY <1>1
<1>9. \A x : x \in ToSet(s) <=> x \in ToSet(rs)
  <2>1. \A x : x \in ToSet(s) <=> \E m \in D : x = rs[Place(rs, m)]
    BY <1>1, <1>8 DEF ToSet
  <2>2. \A x : x \in ToSet(rs) <=> \E j \in D : x = rs[j]
    BY <1>2 DEF ToSet
  <2>3. \A j \in D : \E m \in D : Place(rs, m) = j
    <3> SUFFICES ASSUME NEW j \in D PROVE \E m \in D : Place(rs, m) = j
      OBVIOUS
    <3> DEFINE m == Cardinality(Below(rs, j)) + 1
               p == Place(rs, m)
    <3>1. m \in D /\ m - 1 = Cardinality(Below(rs, j))
      BY <1>4, <1>7
    <3>2. p \in D /\ Cardinality(Below(rs, p)) = Cardinality(Below(rs, j))
      BY <1>3, <3>1
    <3> HIDE DEF p, m
    <3>3. ~(rs[p][1] < rs[j][1]) /\ ~(rs[j][1] < rs[p][1])
      BY <1>4, <1>5, <3>2
    <3>4. p = j
      BY <1>2, <3>2, <3>3
    <3> QED  BY <3>1, <3>4 DEF p
  <2> QED  BY <1>3, <2>1, <2>2, <2>3
<1>10. ASSUME NEW j \in D, NEW k \in D, j < k
       PROVE  s[j][1] < s[k][1]
  <2> DEFINE p == Place(rs, j)
             q == Place(rs, k)
  <2>1. /\ p \in D /\ q \in D /\ s[j] = rs[p] /\ s[k] = rs[q]
        /\ Cardinality(Below(rs, p)) = j - 1 /\ Cardinality(Below(rs, q)) = k - 1
    BY <1>1, <1>3
  <2> HIDE DEF p, q
  <2>2. Cardinality(Below(rs, p)) < Cardinality(Below(rs, q))
    BY <1>6, <1>10, <2>1
  <2>3. p # q /\ ~(rs[q][1] < rs[p][1])
    BY <1>4, <1>5, <2>1, <2>2
  <2> QED  BY <1>2, <2>1, <2>3
<1>11. ToSet(s) = ToSet(rs)
  BY <1>9
<1> QED  BY <1>8, <1>10, <1>11 DEF s, D

-----------------------------------------------------------------------------
(***************************************************************************)
(* The steps.                                                              *)
(***************************************************************************)
LEMMA TypeFacts ==
    ASSUME SearchTypes
    PROVE  /\ TraceTyped
           /\ \A b \in UniqueBlocks : b \in Nat /\ b > 0
           /\ \A t \in Threads : job[t] \in {0, -1} \cup UniqueBlocks /\ job[t] \in Int
           /\ \A t \in Threads : job[t] > 0 => job[t] \in UniqueBlocks
           /\ \A k \in 1..Len(result) : result[k] \in TripleSet
<1>1. TraceTyped
  BY DEF SearchTypes, TraceTyped
<1>2. \A b \in UniqueBlocks : b \in Nat /\ b > 0
  BY <1>1, UniqueFacts
<1>3. \A t \in Threads : job[t] \in {0, -1} \cup UniqueBlocks
  BY DEF SearchTypes
<1>4. \A t \in Threads : job[t] \in Int /\ (job[t] > 0 => job[t] \in UniqueBlocks)
  BY <1>2, <1>3
<1>5. \A k \in 1..Len(result) : result[k] \in TripleSet
  BY DEF SearchTypes
<1> QED  BY <1>1, <1>2, <1>3, <1>4, <1>5

LEMMA NamesFacts ==
    ASSUME NEW s \in Seq(TripleSet)
    PROVE  \A x : x \in Names(s) <=> \E k \in 1..Len(s) : s[k][1] = x
<1>1. \A y : y \in ToSet(s) <=> \E k \in 1..Len(s) : s[k] = y
  BY DEF ToSet
<1> QED  BY <1>1 DEF Names

LEMMA KeptIsEnough ==
    ASSUME SearchTypes, Kept
    PROVE  NoBlockForgotten
<1> SUFFICES ASSUME phase \in {"threads", "closed"}
             PROVE  /\ UniqueBlocks \subseteq todo \cup Jobs \cup Names(result)
                    /\ todo \cap (Jobs \cup Names(result)) = {} /\ Jobs \cap Names(result) = {}
                    /\ \A s, t \in Threads : s # t => job[s] <= 0 \/ job[s] # job[t]
  BY DEF NoBlockForgotten
<1>1. \A x : x \in Names(result) <=> \E k \in 1..Len(result) : result[k][1] = x
  BY NamesFacts DEF SearchTypes
<1>2. \A x : x \in Jobs <=> x # 0 /\ x # -1 /\ \E t \in Threads : job[t] = x
  BY DEF Jobs
<1>3. /\ \A b \in UniqueBlocks : b # 0 /\ b # -1
      /\ \A t \in Threads : job[t] \in {0, -1} \cup UniqueBlocks
      /\ \A t \in Threads : job[t] # 0 /\ job[t] # -1 => job[t] > 0
      /\ \A t \in Threads : job[t] <= 0 \/ job[t] > 0
  <2>1. \A b \in UniqueBlocks : b \in Nat /\ b > 0
    BY TypeFacts
  <2>2. \A t \in Threads : job[t] \in {0, -1} \cup UniqueBlocks
    BY TypeFacts
  <2> QED  BY <2>1, <2>2
<1>4. UniqueBlocks \subseteq todo \cup Jobs \cup Names(result)
  BY <1>1, <1>2, <1>3 DEF Kept
<1>5. todo \cap (Jobs \cup Names(result)) = {}
  BY <1>1, <1>2 DEF Kept
<1>6. Jobs \cap Names(result) = {}
  BY <1>1, <1>2, <1>3 DEF Kept
<1>7. \A s, t \in Threads : s # t => job[s] <= 0 \/ job[s] # job[t]
  BY <1>3 DEF Kept
<1> QED  BY <1>4, <1>5, <1>6, <1>7

\* The trace stays, and with it what is best.
LEMMA SameBlocks ==
    ASSUME trace' = trace
    PROVE  UniqueBlocks' = UniqueBlocks
BY DEF UniqueBlocks, N

UniqueOf(tr) == {b \in 1..Len(tr) : \A a \in 1..(b - 1) : tr[a] # tr[b]}
BestOf(tr, b) ==
    LET sizeOf(r) == IF r = NoRef THEN Lz4[tr[b]] ELSE Delta[tr[b]][tr[r]]
        refs == {NoRef} \cup {r \in UniqueOf(tr) : r < b}
        best == {r \in refs : \A s \in refs : sizeOf(r) <= sizeOf(s)}
        ref == CHOOSE r \in best : \A s \in best : r <= s
    IN  <<b, ref, sizeOf(ref)>>

LEMMA BestIs == \A b : Best(b) = BestOf(trace, b)
BY Zenon DEF Best, BestOf, UniqueBlocks, UniqueOf, N

LEMMA SameBest ==
    ASSUME trace' = trace
    PROVE  \A b : Best(b)' = Best(b)
<1>1. \A b : Best(b)' = BestOf(trace', b)
  BY Zenon DEF Best, BestOf, UniqueBlocks, UniqueOf, N
<1>2. \A b : BestOf(trace', b) = BestOf(trace, b)
  OBVIOUS
<1> QED  BY <1>1, <1>2, BestIs

LEMMA RunNext ==
    ASSUME trace' = trace, AllBest(result'), Spells(temp' \o buffer', result')
    PROVE  RunSpelled'
<1>1. AllBest(result)'
  BY SameBlocks, SameBest DEF AllBest
<1>2. Spells(temp \o buffer, result)'
  BY DEF Spells
<1> QED  BY <1>1, <1>2 DEF RunSpelled

LEMMA FileNext ==
    ASSUME trace' = trace, AllBest(Triples(temp')), Spells(temp', Triples(temp'))
    PROVE  FileSpelled'
<1>1. AllBest(Triples(temp))'
  BY SameBlocks, SameBest DEF AllBest
<1>2. Spells(temp, Triples(temp))'
  BY DEF Spells
<1> QED  BY <1>1, <1>2 DEF FileSpelled

LEMMA ExactNext ==
    ASSUME trace' = trace,
           ~cut' /\ printed' # <<>> =>
               /\ ToSet(printed') = {Best(b) : b \in UniqueBlocks}
               /\ \A j, k \in DOMAIN printed' : j < k => printed'[j][1] < printed'[k][1]
    PROVE  ResumedExact'
BY SameBlocks, SameBest DEF ResumedExact

LEMMA ExactKept ==
    ASSUME ResumedExact, UNCHANGED <<trace, printed>>, ~cut' => ~cut
    PROVE  ResumedExact'
<1>1. ~cut' /\ printed' # <<>> =>
         /\ ToSet(printed') = {Best(b) : b \in UniqueBlocks}
         /\ \A j, k \in DOMAIN printed' : j < k => printed'[j][1] < printed'[k][1]
  BY DEF ResumedExact
<1> QED  BY <1>1, ExactNext

LEMMA StartStep ==
    ASSUME SearchInv, Start, trace' = trace
    PROVE  SearchInv'
<1>1. SearchTypes /\ Ended /\ Kept /\ ResumeOK /\ ResumedExact
  BY DEF SearchInv
<1>2. /\ phase \in {"off", "end"} /\ (runs + 1) * Cardinality(UniqueBlocks) <= MaxWork /\ runs' = runs + 1
      /\ result' = Triples(temp) /\ todo' = UniqueBlocks \ Names(Triples(temp))
      /\ job' = [t \in Threads |-> 0] /\ phase' = "threads" /\ buffer' = <<>>
      /\ UNCHANGED <<temp, printed, cut>>
  BY DEF Start, Names
<1>3. TraceTyped /\ temp \in Seq(Tokens) /\ runs \in 0..MaxWork /\ cut \in BOOLEAN
  BY <1>1 DEF SearchTypes, TraceTyped
<1>4. result' \in Seq(TripleSet)
  BY <1>2, <1>3, TriplesType
<1>5. UniqueBlocks' = UniqueBlocks
  BY SameBlocks
<1>6. runs' \in 0..MaxWork
  <2> DEFINE c == Cardinality(UniqueBlocks)
  <2>1. UniqueBlocks \subseteq 1..N /\ N \in Nat /\ 1 \in UniqueBlocks
    BY <1>3, UniqueFacts
  <2>2. IsFiniteSet(1..N)
    BY <2>1, FS_Interval
  <2>3. IsFiniteSet(UniqueBlocks) /\ c \in Nat
    BY <2>1, <2>2, FS_Subset, FS_CardinalityType
  <2>4. c # 0
    BY <2>1, <2>3, FS_EmptySet
  <2> HIDE DEF c
  <2>5. runs + 1 \in Nat /\ MaxWork \in Nat
    BY <1>3, ThreadsAssumption
  <2>6. \A m, n \in Nat : n # 0 => m <= m * n
    <3> SUFFICES ASSUME NEW m \in Nat, NEW n \in Nat, n # 0 PROVE m <= m * n
      OBVIOUS
    <3>1. m * n = m + m * (n - 1) /\ n - 1 \in Nat
      OBVIOUS
    <3>2. m * (n - 1) \in Nat
      BY <3>1
    <3> QED  BY <3>1, <3>2
  <2>7. (runs + 1) * c <= MaxWork
    BY <1>2 DEF c
  <2>8. (runs + 1) <= (runs + 1) * c
    BY <2>3, <2>4, <2>5, <2>6
  <2>9. \A m, n, k \in Nat : m <= n /\ n <= k => m \in 0..k
    OBVIOUS
  <2>10. (runs + 1) * c \in Nat
    BY <2>3, <2>5
  <2> QED  BY <1>2, <2>5, <2>7, <2>8, <2>9, <2>10
<1>7. SearchTypes'
  BY <1>2, <1>3, <1>4, <1>5, <1>6 DEF SearchTypes, TraceTyped
<1>8. \A t \in Threads : job'[t] = 0
  BY <1>2
<1>9. Ended'
  BY <1>2, <1>8 DEF Ended
<1>10. Kept'
  <2>1. \A x : x \in Names(result') <=> \E k \in 1..Len(result') : result'[k][1] = x
    BY <1>4, NamesFacts
  <2>2. todo' = UniqueBlocks \ Names(result')
    BY <1>2
  <2>3. \A b \in UniqueBlocks : b # 0
    BY <1>3, UniqueFacts
  <2> QED  BY <1>5, <1>8, <2>1, <2>2, <2>3 DEF Kept
<1>11. ResumeOK'
  <2> SUFFICES ASSUME ~cut' PROVE RunSpelled'
    BY <1>2 DEF ResumeOK
  <2>1. AllBest(Triples(temp)) /\ Spells(temp, Triples(temp))
    BY <1>1, <1>2 DEF ResumeOK, FileSpelled
  <2>2. temp' \o buffer' = temp
    BY <1>2, <1>3
  <2> QED  BY <1>2, <2>1, <2>2, RunNext
<1>12. ResumedExact'
  BY <1>1, <1>2, ExactKept
<1> QED  BY <1>7, <1>9, <1>10, <1>11, <1>12 DEF SearchInv

LEMMA TakeStep ==
    ASSUME SearchInv, NEW t \in Threads, Take(t), trace' = trace
    PROVE  SearchInv'
<1> DEFINE b == CHOOSE x \in todo : \A y \in todo : x <= y
<1>1. SearchTypes /\ Ended /\ Kept /\ ResumeOK /\ ResumedExact
  BY DEF SearchInv
<1>2. /\ phase = "threads" /\ job[t] = 0 /\ todo # {} /\ todo' = todo \ {b}
      /\ job' = [job EXCEPT ![t] = b]
      /\ UNCHANGED <<runs, phase, result, buffer, temp, printed, cut>>
  BY DEF Take
<1>3. b \in todo
  <2>1. todo \subseteq Nat
    BY <1>1, TypeFacts DEF SearchTypes
  <2>2. \E x \in todo : \A y \in todo : x <= y
    BY <1>2, <2>1, LeastNumber
  <2> QED  BY <2>2
<1> HIDE DEF b
<1>4. b \in UniqueBlocks /\ b \in Nat /\ b > 0 /\ job \in [Threads -> {0, -1} \cup UniqueBlocks]
  BY <1>1, <1>3, TypeFacts DEF SearchTypes
<1>5. UniqueBlocks' = UniqueBlocks
  BY SameBlocks
<1>6. job' \in [Threads -> {0, -1} \cup UniqueBlocks]
  BY <1>2, <1>4
<1>7. job'[t] = b /\ \A s \in Threads : s # t => job'[s] = job[s]
  BY <1>2, <1>4
<1>8. SearchTypes'
  BY <1>1, <1>2, <1>5, <1>6 DEF SearchTypes
<1>9. \A s \in Threads : job[s] # -1
  BY <1>1, <1>2 DEF Ended
<1>10. \A s \in Threads : job'[s] # -1
  BY <1>4, <1>7, <1>9
<1>11. Ended'
  BY <1>2, <1>10 DEF Ended
<1>12. Kept'
  <2>1. /\ \A x \in UniqueBlocks : \/ x \in todo
                                   \/ \E s \in Threads : job[s] = x
                                   \/ \E k \in 1..Len(result) : result[k][1] = x
        /\ \A x \in todo : /\ \A s \in Threads : job[s] # x
                           /\ \A k \in 1..Len(result) : result[k][1] # x
        /\ \A s \in Threads, k \in 1..Len(result) : job[s] > 0 => result[k][1] # job[s]
        /\ \A r, s \in Threads : r # s /\ job[r] > 0 => job[r] # job[s]
    BY <1>1, <1>2 DEF Kept
  <2>2. \A x \in UniqueBlocks : \/ x \in todo'
                                \/ \E s \in Threads : job'[s] = x
                                \/ \E k \in 1..Len(result) : result[k][1] = x
    <3> SUFFICES ASSUME NEW x \in UniqueBlocks, x \notin todo', \A k \in 1..Len(result) : result[k][1] # x
                 PROVE  \E s \in Threads : job'[s] = x
      OBVIOUS
    <3>1. CASE x = b
      BY <1>7, <3>1
    <3>2. CASE x # b
      <4>1. x \notin todo /\ x # 0
        BY <1>1, <1>2, <3>2, TypeFacts
      <4>2. PICK s \in Threads : job[s] = x
        BY <2>1, <4>1
      <4>3. s # t
        BY <1>2, <4>1, <4>2
      <4> QED  BY <1>7, <4>2, <4>3
    <3> QED  BY <3>1, <3>2
  <2>3. \A x \in todo' : /\ \A s \in Threads : job'[s] # x
                         /\ \A k \in 1..Len(result) : result[k][1] # x
    BY <1>2, <1>7, <2>1
  <2>4. \A s \in Threads, k \in 1..Len(result) : job'[s] > 0 => result[k][1] # job'[s]
    BY <1>3, <1>7, <2>1
  <2>5. \A r, s \in Threads : r # s /\ job'[r] > 0 => job'[r] # job'[s]
    BY <1>3, <1>7, <2>1
  <2> QED  BY <1>2, <1>5, <2>2, <2>3, <2>4, <2>5 DEF Kept
<1>13. ResumeOK'
  <2> SUFFICES ASSUME ~cut' PROVE RunSpelled'
    BY <1>2 DEF ResumeOK
  <2>1. AllBest(result) /\ Spells(temp \o buffer, result)
    BY <1>1, <1>2 DEF ResumeOK, RunSpelled
  <2> QED  BY <1>2, <2>1, RunNext
<1>14. ResumedExact'
  BY <1>1, <1>2, ExactKept
<1> QED  BY <1>8, <1>11, <1>12, <1>13, <1>14 DEF SearchInv

LEMMA ReturnStep ==
    ASSUME SearchInv, NEW t \in Threads, Return(t), trace' = trace
    PROVE  SearchInv'
<1>1. SearchTypes /\ Ended /\ Kept /\ ResumeOK /\ ResumedExact
  BY DEF SearchInv
<1>2. /\ phase = "threads" /\ job[t] = 0 /\ todo = {} /\ job' = [job EXCEPT ![t] = -1]
      /\ UNCHANGED <<runs, phase, todo, result, buffer, temp, printed, cut>>
  BY DEF Return
<1>3. job \in [Threads -> {0, -1} \cup UniqueBlocks]
  BY <1>1 DEF SearchTypes
<1>4. UniqueBlocks' = UniqueBlocks
  BY SameBlocks
<1>5. job' \in [Threads -> {0, -1} \cup UniqueBlocks]
  BY <1>2, <1>3
<1>6. job'[t] = -1 /\ \A s \in Threads : s # t => job'[s] = job[s]
  BY <1>2, <1>3
<1>7. SearchTypes'
  BY <1>1, <1>2, <1>4, <1>5 DEF SearchTypes
<1>8. Ended'
  BY <1>2 DEF Ended
<1>9. Kept'
  <2>1. /\ \A x \in UniqueBlocks : \/ \E s \in Threads : job[s] = x
                                   \/ \E k \in 1..Len(result) : result[k][1] = x
        /\ \A s \in Threads, k \in 1..Len(result) : job[s] > 0 => result[k][1] # job[s]
        /\ \A r, s \in Threads : r # s /\ job[r] > 0 => job[r] # job[s]
    BY <1>1, <1>2 DEF Kept
  <2>2. ASSUME NEW x \in UniqueBlocks, \A k \in 1..Len(result) : result[k][1] # x
        PROVE  \E s \in Threads : job'[s] = x
    <3>1. PICK s \in Threads : job[s] = x
      BY <2>1, <2>2
    <3>2. x # 0
      BY <1>1, TypeFacts
    <3>3. s # t
      BY <1>2, <3>1, <3>2
    <3> QED  BY <1>6, <3>1, <3>3
  <2>3. ~(job'[t] > 0)
    BY <1>6
  <2>4. \A s \in Threads, k \in 1..Len(result) : job'[s] > 0 => result[k][1] # job'[s]
    BY <1>6, <2>1, <2>3
  <2>5. \A r, s \in Threads : r # s /\ job'[r] > 0 => job'[r] # job'[s]
    <3> SUFFICES ASSUME NEW r \in Threads, NEW s \in Threads, r # s, job'[r] > 0 PROVE job'[r] # job'[s]
      OBVIOUS
    <3>1. r # t /\ job'[r] = job[r] /\ job[r] > 0
      BY <1>6, <2>3
    <3>2. job[r] # -1
      BY <3>1
    <3> QED  BY <1>6, <2>1, <3>1, <3>2
  <2> QED  BY <1>2, <1>4, <2>2, <2>4, <2>5 DEF Kept
<1>10. ResumeOK'
  <2> SUFFICES ASSUME ~cut' PROVE RunSpelled'
    BY <1>2 DEF ResumeOK
  <2>1. AllBest(result) /\ Spells(temp \o buffer, result)
    BY <1>1, <1>2 DEF ResumeOK, RunSpelled
  <2> QED  BY <1>2, <2>1, RunNext
<1>11. ResumedExact'
  BY <1>1, <1>2, ExactKept
<1> QED  BY <1>7, <1>8, <1>9, <1>10, <1>11 DEF SearchInv

LEMMA CutAndJoined ==
    ASSUME NEW S, NEW line \in Seq(S), NEW n \in 1..Len(line)
    PROVE  /\ SubSeq(line, 1, n) \in Seq(S) /\ SubSeq(line, n + 1, Len(line)) \in Seq(S)
           /\ SubSeq(line, 1, n) \o SubSeq(line, n + 1, Len(line)) = line
<1> DEFINE f == SubSeq(line, 1, n)
           r == SubSeq(line, n + 1, Len(line))
           g == f \o r
<1>1. f \in Seq(S) /\ Len(f) = n /\ \A k \in 1..n : f[k] = line[k]
  OBVIOUS
<1>2. r \in Seq(S) /\ Len(r) = Len(line) - n /\ \A k \in 1..(Len(line) - n) : r[k] = line[n + k]
  OBVIOUS
<1>3. n \in Nat /\ Len(line) \in Nat /\ n <= Len(line)
  OBVIOUS
<1> HIDE DEF f, r
<1>4. /\ g \in Seq(S) /\ Len(g) = Len(f) + Len(r)
      /\ \A k \in 1..Len(f) : g[k] = f[k]
      /\ \A k \in 1..Len(r) : g[Len(f) + k] = r[k]
  <2>1. f \in Seq(S) /\ r \in Seq(S)
    BY <1>1, <1>2
  <2> QED  BY <2>1, JoinFacts
<1> HIDE DEF g
<1>5. Len(g) = Len(line)
  BY <1>1, <1>2, <1>3, <1>4
<1>6. ASSUME NEW k \in 1..Len(line) PROVE g[k] = line[k]
  <2>1. CASE k \in 1..n
    BY <1>1, <1>4, <2>1
  <2>2. CASE ~(k \in 1..n)
    <3>1. k - n \in 1..(Len(line) - n) /\ n + (k - n) = k
      BY <1>3, <2>2
    <3>2. g[n + (k - n)] = r[k - n]
      BY <1>1, <1>2, <1>4, <3>1
    <3>3. r[k - n] = line[n + (k - n)]
      BY <1>2, <3>1
    <3> QED  BY <3>1, <3>2, <3>3
  <2> QED  BY <2>1, <2>2
<1>7. g = line
  BY <1>4, <1>5, <1>6
<1> QED  BY <1>1, <1>2, <1>7 DEF g, f, r

LEMMA TextJoined == \A a, b, c \in Seq(Tokens) : (a \o b) \o c = a \o (b \o c)
BY ConcatAssociative

\* However much of the line reaches the file, file and stream together grow
\* by the line.
LEMMA FprintfFacts ==
    ASSUME temp \in Seq(Tokens), buffer \in Seq(Tokens), NEW line \in Seq(Tokens), Fprintf(line)
    PROVE  /\ temp' \in Seq(Tokens) /\ buffer' \in Seq(Tokens)
           /\ temp' \o buffer' = (temp \o buffer) \o line
<1>1. CASE buffer' = buffer \o line /\ UNCHANGED temp
  BY <1>1, ConcatAssociative
<1>2. CASE \E n \in 1..Len(line) : /\ temp' = temp \o buffer \o SubSeq(line, 1, n)
                                    /\ buffer' = SubSeq(line, n + 1, Len(line))
  <2>1. PICK n \in 1..Len(line) : /\ temp' = temp \o buffer \o SubSeq(line, 1, n)
                                  /\ buffer' = SubSeq(line, n + 1, Len(line))
    BY <1>2
  <2> DEFINE t == temp \o buffer
             f == SubSeq(line, 1, n)
             r == SubSeq(line, n + 1, Len(line))
  <2>2. t \in Seq(Tokens)
    OBVIOUS
  <2>3. f \in Seq(Tokens) /\ r \in Seq(Tokens)
    BY CutAndJoined
  <2>4. f \o r = line
    BY CutAndJoined
  <2>5. temp' = t \o f /\ buffer' = r
    BY <2>1
  <2> HIDE DEF t, f, r
  <2>6. (t \o f) \o r = t \o (f \o r)
    BY <2>2, <2>3, TextJoined, Zenon
  <2>7. t \o f \in Seq(Tokens)
    BY <2>2, <2>3
  <2> QED  BY <2>3, <2>4, <2>5, <2>6, <2>7 DEF t
<1> QED  BY <1>1, <1>2 DEF Fprintf

LEMMA FoundStep ==
    ASSUME SearchInv, NEW t \in Threads, Found(t), trace' = trace
    PROVE  SearchInv'
<1> DEFINE b == job[t]
           x == Best(b)
           n == Len(result)
<1>1. SearchTypes /\ Ended /\ Kept /\ ResumeOK /\ ResumedExact
  BY DEF SearchInv
<1>2. /\ phase = "threads" /\ b > 0 /\ result' = Append(result, x) /\ Fprintf(Line(x))
      /\ job' = [job EXCEPT ![t] = 0] /\ UNCHANGED <<runs, phase, todo, printed, cut>>
  BY DEF Found
<1>3. /\ TraceTyped /\ b \in UniqueBlocks /\ job \in [Threads -> {0, -1} \cup UniqueBlocks]
      /\ result \in Seq(TripleSet) /\ temp \in Seq(Tokens) /\ buffer \in Seq(Tokens)
  BY <1>1, <1>2, TypeFacts DEF SearchTypes
<1>4. UniqueBlocks' = UniqueBlocks
  BY SameBlocks
<1>5. x \in TripleSet /\ x[1] = b
  BY <1>3, BestFacts
<1>6. job'[t] = 0 /\ (\A s \in Threads : s # t => job'[s] = job[s])
      /\ job' \in [Threads -> {0, -1} \cup UniqueBlocks]
  BY <1>2, <1>3
<1>7. Line(x) \in Seq(Tokens)
  BY <1>5, LineFacts
<1> HIDE DEF x
<1>8. /\ temp' \in Seq(Tokens) /\ buffer' \in Seq(Tokens)
      /\ temp' \o buffer' = (temp \o buffer) \o Line(x)
  BY <1>2, <1>3, <1>7, FprintfFacts
<1>9. /\ result' \in Seq(TripleSet) /\ n \in Nat /\ Len(result') = n + 1 /\ result'[n + 1] = x
      /\ \A k \in 1..n : result'[k] = result[k]
  BY <1>2, <1>3, <1>5
<1> HIDE DEF n
<1>10. (\A k \in 1..Len(result') : k = n + 1 \/ k \in 1..n) /\ n + 1 \in 1..Len(result')
       /\ \A k \in 1..n : k \in 1..Len(result')
  BY <1>9
<1>11. SearchTypes'
  BY <1>1, <1>2, <1>4, <1>6, <1>8, <1>9 DEF SearchTypes
<1>12. Ended'
  <2>1. \A s \in Threads : job'[s] = -1 => job[s] = -1
    BY <1>6
  <2> QED  BY <1>1, <1>2, <2>1 DEF Ended
<1>13. /\ \A y \in UniqueBlocks : \/ y \in todo
                                  \/ \E s \in Threads : job[s] = y
                                  \/ \E k \in 1..n : result[k][1] = y
       /\ \A y \in todo : /\ \A s \in Threads : job[s] # y
                          /\ \A k \in 1..n : result[k][1] # y
       /\ \A s \in Threads, k \in 1..n : job[s] > 0 => result[k][1] # job[s]
       /\ \A r, s \in Threads : r # s /\ job[r] > 0 => job[r] # job[s]
  BY <1>1, <1>2 DEF Kept, n
<1>14. Kept'
  <2>1. ASSUME NEW y \in UniqueBlocks, y \notin todo, ~\E s \in Threads : job'[s] = y
        PROVE  \E k \in 1..Len(result') : result'[k][1] = y
    <3>1. CASE y = b
      BY <1>5, <1>9, <1>10, <3>1
    <3>2. CASE y # b
      <4>1. ~\E s \in Threads : job[s] = y
        BY <1>6, <2>1, <3>2
      <4>2. PICK k \in 1..n : result[k][1] = y
        BY <1>13, <2>1, <4>1
      <4> QED  BY <1>9, <1>10, <4>2
    <3> QED  BY <3>1, <3>2
  <2>2. ASSUME NEW y \in todo
        PROVE  /\ \A s \in Threads : job'[s] # y
               /\ \A k \in 1..Len(result') : result'[k][1] # y
    <3>1. y # 0
      BY <1>1, TypeFacts DEF SearchTypes
    <3> QED  BY <1>5, <1>6, <1>9, <1>10, <1>13, <3>1
  <2>3. ASSUME NEW s \in Threads, job'[s] > 0, NEW k \in 1..Len(result')
        PROVE  result'[k][1] # job'[s]
    <3>1. s # t /\ job'[s] = job[s]
      BY <1>6, <2>3
    <3> QED  BY <1>5, <1>9, <1>10, <1>13, <2>3, <3>1
  <2>4. ASSUME NEW r \in Threads, NEW s \in Threads, r # s, job'[r] > 0
        PROVE  job'[r] # job'[s]
    <3>1. r # t /\ job'[r] = job[r] /\ job[r] # 0
      BY <1>6, <2>4
    <3> QED  BY <1>6, <1>13, <2>4, <3>1
  <2> QED  BY <1>2, <1>4, <2>1, <2>2, <2>3, <2>4 DEF Kept
<1>15. ResumeOK'
  <2> SUFFICES ASSUME ~cut' PROVE RunSpelled'
    BY <1>2 DEF ResumeOK
  <2>1. AllBest(result) /\ Spells(temp \o buffer, result)
    BY <1>1, <1>2 DEF ResumeOK, RunSpelled
  <2>2. AllBest(result')
    <3>1. /\ \A k \in 1..n : result[k][1] \in UniqueBlocks /\ result[k] = Best(result[k][1])
          /\ \A j, k \in 1..n : result[j][1] = result[k][1] => j = k
      BY <2>1 DEF AllBest, n
    <3>2. x[1] \in UniqueBlocks /\ x = Best(x[1])
      BY <1>3, <1>5 DEF x
    <3>3. \A k \in 1..n : result[k][1] # x[1]
      BY <1>2, <1>5, <1>13
    <3>4. \A k \in 1..Len(result') : result'[k][1] \in UniqueBlocks /\ result'[k] = Best(result'[k][1])
      BY <1>9, <1>10, <3>1, <3>2
    <3>5. \A j, k \in 1..Len(result') : result'[j][1] = result'[k][1] => j = k
      BY <1>9, <1>10, <3>1, <3>3
    <3> QED  BY <1>9, <3>4, <3>5 DEF AllBest
  <2>3. temp \o buffer \in Seq(Tokens)
    BY <1>3
  <2>4. Spells((temp \o buffer) \o Line(x), Append(result, x))
    BY <1>3, <1>5, <2>1, <2>3, SpellsAppend
  <2> QED  BY <1>2, <1>8, <2>2, <2>4, RunNext
<1>16. ResumedExact'
  <2>1. UNCHANGED printed /\ (~cut' => ~cut)
    BY <1>2
  <2> QED  BY <1>1, <2>1, ExactKept
<1> QED  BY <1>11, <1>12, <1>14, <1>15, <1>16 DEF SearchInv

LEMMA JoinStep ==
    ASSUME SearchInv, Join, trace' = trace
    PROVE  SearchInv'
<1>1. SearchTypes /\ Ended /\ Kept /\ ResumeOK /\ ResumedExact
  BY DEF SearchInv
<1>2. /\ phase = "threads" /\ (\A t \in Threads : job[t] = -1) /\ temp' = temp \o buffer /\ buffer' = <<>>
      /\ phase' = "closed" /\ UNCHANGED <<runs, todo, job, result, printed, cut>>
  BY DEF Join
<1>3. temp \in Seq(Tokens) /\ buffer \in Seq(Tokens)
  BY <1>1 DEF SearchTypes
<1>4. UniqueBlocks' = UniqueBlocks
  BY SameBlocks
<1>5. temp' \in Seq(Tokens) /\ buffer' \in Seq(Tokens) /\ temp' \o buffer' = temp \o buffer
  BY <1>2, <1>3
<1>6. SearchTypes'
  BY <1>1, <1>2, <1>4, <1>5 DEF SearchTypes
<1>7. Ended'
  BY <1>1, <1>2 DEF Ended
<1>8. Kept'
  BY <1>1, <1>2, <1>4 DEF Kept
<1>9. ResumeOK'
  <2> SUFFICES ASSUME ~cut' PROVE RunSpelled'
    BY <1>2 DEF ResumeOK
  <2>1. AllBest(result) /\ Spells(temp \o buffer, result)
    BY <1>1, <1>2 DEF ResumeOK, RunSpelled
  <2> QED  BY <1>2, <1>5, <2>1, RunNext
<1>10. ResumedExact'
  BY <1>1, <1>2, ExactKept
<1> QED  BY <1>6, <1>7, <1>8, <1>9, <1>10 DEF SearchInv

\* The triples of a result that no line of the file lost, as sort orders them.
LEMMA AllBestSorted ==
    ASSUME NEW rs, AllBest(rs), \A b \in UniqueBlocks : \E k \in 1..Len(rs) : rs[k][1] = b
    PROVE  /\ ToSet(Sorted(rs)) = {Best(b) : b \in UniqueBlocks}
           /\ \A j, k \in DOMAIN Sorted(rs) : j < k => Sorted(rs)[j][1] < Sorted(rs)[k][1]
<1>1. Distinct(rs)
  BY DEF AllBest, Distinct
<1>2. /\ DOMAIN Sorted(rs) = 1..Len(rs)
      /\ ToSet(Sorted(rs)) = ToSet(rs)
      /\ \A j, k \in 1..Len(rs) : j < k => Sorted(rs)[j][1] < Sorted(rs)[k][1]
  BY <1>1, SortedFacts
<1>3. rs \in Seq(TripleSet) /\ \A k \in 1..Len(rs) : rs[k][1] \in UniqueBlocks /\ rs[k] = Best(rs[k][1])
  BY DEF AllBest
<1>4. \A x : x \in ToSet(rs) <=> \E k \in 1..Len(rs) : rs[k] = x
  BY <1>3 DEF ToSet
<1>5. \A x : x \in ToSet(rs) <=> \E b \in UniqueBlocks : x = Best(b)
  BY <1>3, <1>4
<1>6. ToSet(rs) = {Best(b) : b \in UniqueBlocks}
  BY <1>5
<1> QED  BY <1>2, <1>6

LEMMA PrintResultStep ==
    ASSUME SearchInv, PrintResult, trace' = trace
    PROVE  SearchInv'
<1>1. SearchTypes /\ Ended /\ Kept /\ ResumeOK /\ ResumedExact
  BY DEF SearchInv
<1>2. /\ phase = "closed" /\ printed' = Sorted(result) /\ phase' = "end"
      /\ UNCHANGED <<runs, todo, job, result, buffer, temp, cut>>
  BY DEF PrintResult
<1>3. temp \in Seq(Tokens) /\ buffer = <<>> /\ result \in Seq(TripleSet) /\ (\A t \in Threads : job[t] = -1)
  BY <1>1, <1>2 DEF SearchTypes, Ended
<1>4. todo = {}
  BY <1>1, <1>3, ThreadsAssumption DEF Ended
<1>5. UniqueBlocks' = UniqueBlocks
  BY SameBlocks
<1>6. SearchTypes'
  BY <1>1, <1>2, <1>5 DEF SearchTypes
<1>7. Ended'
  BY <1>1, <1>2 DEF Ended
<1>8. Kept'
  BY <1>2 DEF Kept
<1>9. ASSUME ~cut PROVE AllBest(result) /\ Spells(temp, result)
  <2>1. AllBest(result) /\ Spells(temp \o buffer, result)
    BY <1>1, <1>2, <1>9 DEF ResumeOK, RunSpelled
  <2>2. temp \o buffer = temp
    BY <1>3
  <2> QED  BY <2>1, <2>2
<1>10. ResumeOK'
  <2> SUFFICES ASSUME ~cut' PROVE FileSpelled'
    BY <1>2 DEF ResumeOK
  <2>1. AllBest(result) /\ Spells(temp, result)
    BY <1>2, <1>9
  <2>2. Triples(temp) = result
    BY <1>3, <2>1, TriplesOfLines
  <2>3. temp' = temp
    BY <1>2
  <2> QED  BY <2>1, <2>2, <2>3, FileNext
<1>11. ResumedExact'
  <2>1. \A b \in UniqueBlocks : \E k \in 1..Len(result) : result[k][1] = b
    <3>1. \A b \in UniqueBlocks : b # -1
      BY <1>1, TypeFacts
    <3> QED  BY <1>1, <1>2, <1>3, <1>4, <3>1 DEF Kept
  <2>2. ~cut => /\ ToSet(Sorted(result)) = {Best(b) : b \in UniqueBlocks}
                /\ \A j, k \in DOMAIN Sorted(result) : j < k => Sorted(result)[j][1] < Sorted(result)[k][1]
    BY <1>9, <2>1, AllBestSorted
  <2>3. ~cut' /\ printed' # <<>> =>
           /\ ToSet(printed') = {Best(b) : b \in UniqueBlocks}
           /\ \A j, k \in DOMAIN printed' : j < k => printed'[j][1] < printed'[k][1]
    BY <1>2, <2>2
  <2> QED  BY <2>3, ExactNext
<1> QED  BY <1>6, <1>7, <1>8, <1>10, <1>11 DEF SearchInv

\* A program that is killed between two lines leaves a file that spells the
\* first triples of its result.
LEMMA KillSpelled ==
    ASSUME temp \in Seq(Tokens), buffer \in Seq(Tokens), RunSpelled, Len(temp) % 6 = 0
    PROVE  FileSpelled
<1> DEFINE m == Len(temp) \div 6
           t == temp \o buffer
           r == SubSeq(result, 1, m)
<1>1. AllBest(result) /\ Spells(t, result)
  BY DEF RunSpelled
<1>2. result \in Seq(TripleSet)
  BY <1>1 DEF AllBest
<1>3. /\ t \in Seq(Tokens) /\ Len(t) = Len(temp) + Len(buffer)
      /\ \A k \in 1..Len(temp) : t[k] = temp[k]
  BY JoinFacts
<1>4. Len(t) = 6 * Len(result)
  BY <1>1 DEF Spells
<1>5. Len(temp) \in Nat /\ Len(buffer) \in Nat /\ Len(result) \in Nat
  BY <1>2
<1>6. m \in 0..Len(result) /\ Len(temp) = 6 * m
  <2>1. \A a, b, c \in Nat : a % 6 = 0 /\ a + b = 6 * c => a \div 6 \in 0..c /\ a = 6 * (a \div 6)
    OBVIOUS
  <2>2. Len(temp) + Len(buffer) = 6 * Len(result)
    BY <1>3, <1>4
  <2> QED  BY <1>5, <2>1, <2>2
<1> HIDE DEF m, t
<1>7. r \in Seq(TripleSet) /\ Len(r) = m /\ \A k \in 1..m : r[k] = result[k]
  BY <1>2, <1>5, <1>6
<1> HIDE DEF r
<1>8. Spells(temp, r)
  BY <1>1, <1>2, <1>3, <1>6, <1>7, SpellsFront
<1>9. Triples(temp) = r
  BY <1>7, <1>8, TriplesOfLines
<1>10. AllBest(r)
  <2>1. \A k \in 1..Len(r) : k \in 1..Len(result) /\ r[k] = result[k]
    BY <1>5, <1>6, <1>7
  <2> QED  BY <1>1, <1>7, <2>1 DEF AllBest
<1> QED  BY <1>8, <1>9, <1>10 DEF FileSpelled

LEMMA KillStep ==
    ASSUME SearchInv, Kill, trace' = trace
    PROVE  SearchInv'
<1>1. SearchTypes /\ Ended /\ Kept /\ ResumeOK /\ ResumedExact
  BY DEF SearchInv
<1>2. /\ phase \in {"threads", "closed"} /\ phase' = "off" /\ buffer' = <<>> /\ todo' = {} /\ result' = <<>>
      /\ job' = [t \in Threads |-> 0]
      /\ cut' = (cut \/ Len(temp) % Len(Line(<<0, 0, 0>>)) # 0)
      /\ UNCHANGED <<runs, temp, printed>>
  BY DEF Kill
<1>3. temp \in Seq(Tokens) /\ buffer \in Seq(Tokens) /\ cut \in BOOLEAN
  BY <1>1 DEF SearchTypes
<1>4. UniqueBlocks' = UniqueBlocks
  BY SameBlocks
<1>5. job' \in [Threads -> {0, -1} \cup UniqueBlocks] /\ \A t \in Threads : job'[t] = 0
  BY <1>2
<1>6. cut' \in BOOLEAN
  BY <1>2, Zenon
<1>7. SearchTypes'
  BY <1>1, <1>2, <1>4, <1>5, <1>6 DEF SearchTypes
<1>8. Ended'
  BY <1>2, <1>5 DEF Ended
<1>9. Kept'
  BY <1>2 DEF Kept
<1>10. ~cut' => ~cut
  BY <1>2, Zenon
<1>11. Len(Line(<<0, 0, 0>>)) = 6
  BY DEF Line
<1>12. ~cut' => Len(temp) % 6 = 0
  BY <1>2, <1>11, Zenon
<1>13. ResumeOK'
  <2> SUFFICES ASSUME ~cut' PROVE FileSpelled'
    BY <1>2 DEF ResumeOK
  <2>1. RunSpelled
    BY <1>1, <1>2, <1>10 DEF ResumeOK
  <2>2. FileSpelled
    BY <1>3, <1>12, <2>1, KillSpelled
  <2>3. temp' = temp
    BY <1>2
  <2> QED  BY <2>2, <2>3, FileNext DEF FileSpelled
<1>14. ResumedExact'
  BY <1>1, <1>2, <1>10, ExactKept
<1> QED  BY <1>7, <1>8, <1>9, <1>13, <1>14 DEF SearchInv

LEMMA SearchKept ==
    ASSUME SearchInv, UNCHANGED <<trace, bfvars>>
    PROVE  SearchInv'
<1>1. SearchTypes /\ Ended /\ Kept /\ ResumeOK /\ ResumedExact
  BY DEF SearchInv
<1>2. UNCHANGED <<trace, runs, phase, todo, job, result, buffer, temp, printed, cut>>
  BY DEF bfvars
<1>3. UniqueBlocks' = UniqueBlocks
  BY <1>2, SameBlocks
<1>4. SearchTypes' /\ Ended' /\ Kept'
  BY <1>1, <1>2, <1>3 DEF SearchTypes, Ended, Kept
<1>5. RunSpelled => RunSpelled'
  BY <1>2, RunNext DEF RunSpelled
<1>6. FileSpelled => FileSpelled'
  BY <1>2, FileNext DEF FileSpelled
<1>7. ResumeOK'
  BY <1>1, <1>2, <1>5, <1>6 DEF ResumeOK
<1>8. ResumedExact'
  BY <1>1, <1>2, ExactKept
<1> QED  BY <1>4, <1>7, <1>8 DEF SearchInv

LEMMA SearchInit == Init => SearchInv
<1> SUFFICES ASSUME Init PROVE SearchInv
  OBVIOUS
<1>1. /\ runs = 0 /\ phase = "off" /\ todo = {} /\ job = [t \in Threads |-> 0]
      /\ result = <<>> /\ buffer = <<>> /\ temp = <<>> /\ printed = <<>> /\ cut = FALSE
  BY DEF Init, BFInit
<1>2. trace \in Seq(Contents) /\ trace # <<>>
  BY TraceAssumption, SearchAssumption DEF Init
<1>3. <<>> \in Seq(TripleSet) /\ <<>> \in Seq(Tokens) /\ Len(<<>>) = 0 /\ \A k \in 1..Len(<<>>) : FALSE
  OBVIOUS
<1>4. SearchTypes
  <2>1. runs \in 0..MaxWork
    BY <1>1, ThreadsAssumption
  <2>2. job \in [Threads -> {0, -1} \cup UniqueBlocks]
    BY <1>1
  <2> QED  BY <1>1, <1>2, <1>3, <2>1, <2>2 DEF SearchTypes
<1>5. Ended
  BY <1>1 DEF Ended
<1>6. Kept
  BY <1>1 DEF Kept
<1>7. ResumeOK
  <2>1. Spells(<<>>, <<>>) /\ AllBest(<<>>)
    BY <1>3 DEF Spells, AllBest
  <2>2. Triples(<<>>) = <<>>
    BY <1>3, <2>1, TriplesOfLines
  <2>3. FileSpelled
    BY <1>1, <2>1, <2>2 DEF FileSpelled
  <2> QED  BY <1>1, <2>3 DEF ResumeOK
<1>8. ResumedExact
  BY <1>1 DEF ResumedExact
<1> QED  BY <1>4, <1>5, <1>6, <1>7, <1>8 DEF SearchInv

LEMMA SearchStep == SearchInv /\ [Next]_vars => SearchInv'
<1> SUFFICES ASSUME SearchInv, [Next]_vars PROVE SearchInv'
  OBVIOUS
<1>1. CASE UNCHANGED <<trace, bfvars>>
  BY <1>1, SearchKept
<1>2. CASE BFNext /\ UNCHANGED trace
  BY <1>2, StartStep, JoinStep, PrintResultStep, KillStep, TakeStep, ReturnStep, FoundStep DEF BFNext
<1> QED  BY <1>1, <1>2 DEF Next, vars

LEMMA SearchInvariant == Spec => []SearchInv
BY SearchInit, SearchStep, PTL DEF Spec

LEMMA BFTypesHold ==
    ASSUME SearchInv
    PROVE  BFTypeOK
<1>1. SearchTypes /\ Ended
  BY DEF SearchInv
<1>2. \A t \in Threads : job[t] \in {0, -1} \cup UniqueBlocks
  BY <1>1, TypeFacts
<1>3. phase = "off" => Jobs = {} /\ buffer = <<>>
  BY <1>1 DEF Ended, Jobs
<1> QED  BY <1>1, <1>2, <1>3 DEF BFTypeOK, SearchTypes

\* While the threads of bf_xdelta3_all run, however often it was killed
\* before and wherever its lines were cut, every unique block is to do, taken
\* by one thread or in the result, for any number of threads.
THEOREM NoneForgotten == Spec => []NoBlockForgotten
<1>1. SearchInv => NoBlockForgotten
  BY KeptIsEnough DEF SearchInv
<1> QED  BY <1>1, SearchInvariant, PTL

\* As long as no kill cut a line of the temporary file, what bf_xdelta3_all
\* prints after any number of kills and resumptions is the best triple of
\* each unique block, in order.
THEOREM ResumptionExact == Spec => []ResumedExact
<1>1. SearchInv => ResumedExact
  BY DEF SearchInv
<1> QED  BY <1>1, SearchInvariant, PTL

\* The tables, batches and jobs of the three programs are well-formed.
THEOREM ToolTypes == Spec => []TTTypeOK
<1>1. StoreInv /\ SearchInv => TTTypeOK
  BY DSTypesHold, BFTypesHold DEF TTTypeOK
<1> QED  BY <1>1, StoreInvariant, SearchInvariant, PTL

=============================================================================
