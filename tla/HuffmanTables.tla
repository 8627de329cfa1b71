---------------------------- MODULE HuffmanTables ----------------------------
(***************************************************************************)
(* The Huffman tables of libz_j: inflate_table builds the two-level table  *)
(* the decoder looks codes up in, inflate_table_my the code each symbol is *)
(* sent with.  A code is a number whose lowest bit comes first in the      *)
(* stream, as in the sources.                                              *)
(***************************************************************************)
EXTENDS Integers, Sequences, SequencesExt, FiniteSetsExt

MAXBITS == 15
ENOUGH_LENS == 852
ENOUGH_DISTS == 592

Bit(x, j) == (x \div 2^j) % 2

\* How many symbols have a code of each length.
Count(lens) == [len \in 1..MAXBITS |-> Quantify(DOMAIN lens, LAMBDA s : lens[s] = len)]

\* The symbols that have a code, by length and then by symbol.
Work(lens) ==
    SortSeq(SelectSeq([s \in DOMAIN lens |-> s], LAMBDA s : lens[s] # 0),
            LAMBDA a, b : lens[a] < lens[b] \/ (lens[a] = lens[b] /\ a < b))

\* The prefix codes left over; negative when there are too many codes.
Left(lens) ==
    LET count == Count(lens)
    IN  FoldLeft(LAMBDA left, len : IF left < 0 THEN left ELSE left * 2 - count[len],
                 1, [len \in 1..MAXBITS |-> len])

\* The sets of lengths both functions refuse: over-subscribed ones, and
\* incomplete ones unless they are a single code of one bit.
BadLens(type, lens) ==
    /\ \E s \in DOMAIN lens : lens[s] # 0
    /\ \/ Left(lens) < 0
       \/ Left(lens) > 0 /\ (type = "CODES" \/ \E s \in DOMAIN lens : lens[s] > 1)

\* Mutant: the codes are counted upwards.
BackIncPlain(huff, len) == (huff + 1) % 2^len

\* Backwards increment of a code of len bits.
BackInc(huff, len) ==
    LET zeros == {j \in 0..(len - 1) : Bit(huff, j) = 0}
    IN  IF zeros = {} THEN 0 ELSE (huff % 2^Max(zeros)) + 2^Max(zeros)

-----------------------------------------------------------------------------
\* The size of a sub-table whose first code has len bits, counts[l] codes of
\* l bits being still to come.
SubTableBits(len, drop, max, counts) ==
    LET grow(st, j) ==
            IF st.stop \/ st.curr + drop >= max THEN [st EXCEPT !.stop = TRUE]
            ELSE LET left == st.left - counts[st.curr + drop]
                 IN  IF left <= 0 THEN [st EXCEPT !.stop = TRUE]
                     ELSE [curr |-> st.curr + 1, left |-> left * 2, stop |-> FALSE]
    IN  FoldLeft(grow, [curr |-> len - drop, left |-> 2^(len - drop), stop |-> FALSE],
                 [j \in 1..MAXBITS |-> j]).curr

\* The codes in the order of work, each the backwards increment of the one
\* before; the last is followed by 0 when the set of codes is complete.
Huffs(lens) ==
    LET work == Work(lens)
        huff[j \in 1..(Len(work) + 1)] ==
            IF j = 1 THEN 0 ELSE BackInc(huff[j - 1], lens[work[j - 1]])
    IN  [j \in 1..(Len(work) + 1) |-> huff[j]]

Entry(op, bits, val) == [op |-> op, bits |-> bits, val |-> val]
Invalid == 64
Symbol == 16

\* inflate_table with at most rootbits at the first level: where the codes
\* open sub-tables, how large these are and where they start.
InflateTable(lens, rootbits) ==
    LET work == Work(lens)
        n == Len(work)
        len == [j \in 1..n |-> lens[work[j]]]
        huff == Huffs(lens)
        root == IF n = 0 THEN 1 ELSE Max({len[1], Min({rootbits, len[n]})})
        low(j) == huff[j] % 2^root
        starts == {j \in 1..n : len[j] > root
                                   /\ (j > 1 /\ len[j - 1] > root => low(j) # low(j - 1))}
        counts(j) == [l \in 1..MAXBITS |-> Quantify(j..n, LAMBDA i : len[i] = l)]
        curr == [j \in starts |-> SubTableBits(len[j], root, len[n], counts(j))]
        upTo(j) == 2^root + MapThenSumSet(LAMBDA i : 2^curr[i], {i \in starts : i < j})
    IN  [root |-> root, work |-> work, len |-> len, huff |-> huff, starts |-> starts,
         curr |-> curr, next |-> [j \in starts |-> upTo(j)], used |-> upTo(n + 1)]

\* The entry at x of the first level, and of the sub-table opened at j: the
\* last one written.
RootEntry(t, x) ==
    LET n == Len(t.work)
        symbols == {j \in 1..n : t.len[j] <= t.root /\ x % 2^t.len[j] = t.huff[j]}
        links == {j \in t.starts : t.huff[j] % 2^t.root = x}
        last == Max(symbols \cup links)
    IN  CASE symbols \cup links = {} -> Entry(Invalid, 1, 0)
          [] symbols \cup links # {} /\ last \in links -> Entry(t.curr[last], t.root, last)
          [] OTHER -> Entry(Symbol, t.len[last], t.work[last])

SubEntry(t, start, x) ==
    LET until == Min({j \in t.starts : j > start} \cup {Len(t.work) + 1})
        symbols == {j \in start..(until - 1) :
                       x % 2^(t.len[j] - t.root) = t.huff[j] \div 2^t.root}
    IN  IF symbols = {} THEN Entry(Invalid, t.len[Len(t.work)] - t.root, 0)
        ELSE Entry(Symbol, t.len[Max(symbols)] - t.root, t.work[Max(symbols)])

\* inflate_table_my, a copy of inflate_table's loop: the symbols are placed by
\* the offsets of their lengths, and each gets the code after the one before.
InflateTableMy(lens) ==
    LET coded == {s \in DOMAIN lens : lens[s] # 0}
        offs[len \in 1..MAXBITS] ==
            IF len = 1 THEN 0
            ELSE offs[len - 1] + Quantify(coded, LAMBDA s : lens[s] = len - 1)
        place == [s \in coded |->
                    offs[lens[s]] + Quantify(coded, LAMBDA t : t < s /\ lens[t] = lens[s])]
        work == [j \in 0..(Cardinality(coded) - 1) |-> CHOOSE s \in coded : place[s] = j]
        \* incr, shifted down while huff has its bit.
        incr(huff, len) ==
            LET shift[j \in 0..len] ==
                    IF j = 0 THEN 0 ELSE IF Bit(huff, j - 1) = 0 THEN 2^(j - 1) ELSE shift[j - 1]
            IN  shift[len]
        after(huff, len) == LET i == incr(huff, len) IN IF i = 0 THEN 0 ELSE (huff % i) + i
        code[j \in DOMAIN work] ==
            IF j = 0 THEN 0 ELSE after(code[j - 1], lens[work[j - 1]])
    IN  [s \in coded |-> code[place[s]]]

-----------------------------------------------------------------------------
\* What the decoder makes of a bit buffer hold: the entry it ends at, and
\* the bits it drops for it.
Lookup(t, hold) ==
    LET here == RootEntry(t, hold % 2^t.root)
        second == SubEntry(t, here.val, (hold \div 2^t.root) % 2^here.op)
    IN  IF here.op \in {Symbol, Invalid} THEN [val |-> here.val, bits |-> here.bits]
        ELSE [val |-> second.val, bits |-> here.bits + second.bits]

\* Every code the encoder sends is read back as its symbol, whatever bits
\* follow it, the sub-tables that hold a code are large enough for it, and
\* the table is no larger than the space set aside for it.
TableDecodes(lens, rootbits, enough) ==
    LET t == InflateTable(lens, rootbits)
        code == InflateTableMy(lens)
        after(len) == {0, 1, 2^(MAXBITS - len) - 1}
    IN  /\ t.used <= enough
        /\ \A s \in DOMAIN code : \A bits \in after(lens[s]) :
              Lookup(t, code[s] + bits * 2^lens[s]) = [val |-> s, bits |-> lens[s]]
=============================================================================
