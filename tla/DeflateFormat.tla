---------------------------- MODULE DeflateFormat ----------------------------
(***************************************************************************)
(* The deflate format as src/partial/libz_j reads and writes it, one       *)
(* record per code: its kind, its value and its width in bits.  Bits are   *)
(* not spelled out; what the tools depend on is where codes start and end  *)
(* in bytes, and which value each stands for.                              *)
(***************************************************************************)
EXTENDS Integers, Sequences, SequencesExt, FiniteSetsExt

Code(k, v, n) == [k |-> k, v |-> v, n |-> n]

\* op over the sequence s, by halves.
Across(op(_, _), unit, s) ==
    LET f[i \in 1..(Len(s) + 1), j \in 0..Len(s)] ==
            CASE i > j -> unit
              [] i = j -> s[i]
              [] OTHER -> LET m == (i + j) \div 2 IN op(f[i, m], f[m + 1, j])
    IN  f[1, Len(s)]

Concat(seqs) == Across(LAMBDA a, b : a \o b, <<>>, seqs)
Bits(codes) == Across(LAMBDA a, b : a + b, 0, [j \in DOMAIN codes |-> codes[j].n])
BytesOf(bits) == (bits + 7) \div 8

\* Unused bits up to a byte boundary.
Pad(bits) == IF bits % 8 = 0 THEN <<>> ELSE <<Code("pad", <<>>, 8 - (bits % 8))>>

-----------------------------------------------------------------------------
(***************************************************************************)
(* Lengths and distances.                                                  *)
(***************************************************************************)
lbase == <<3, 4, 5, 6, 7, 8, 9, 10, 11, 13, 15, 17, 19, 23, 27, 31,
           35, 43, 51, 59, 67, 83, 99, 115, 131, 163, 195, 227, 258>>
lext == <<0, 0, 0, 0, 0, 0, 0, 0, 1, 1, 1, 1, 2, 2, 2, 2,
          3, 3, 3, 3, 4, 4, 4, 4, 5, 5, 5, 5, 0>>
dbase == <<1, 2, 3, 4, 5, 7, 9, 13, 17, 25, 33, 49, 65, 97, 129, 193,
           257, 385, 513, 769, 1025, 1537, 2049, 3073, 4097, 6145,
           8193, 12289, 16385, 24577>>
dext == <<0, 0, 0, 0, 1, 1, 2, 2, 3, 3, 4, 4, 5, 5, 6, 6,
          7, 7, 8, 8, 9, 9, 10, 10, 11, 11, 12, 12, 13, 13>>

\* The code of a value: the last whose base is not above it.
CodeIn(base, x) == Max({c \in DOMAIN base : base[c] <= x})

Literals == 0..255
END_BLOCK == 256

\* A symbol of a block: a literal, or a match of a length and a distance; a
\* match may name its length code, as the length 258 has two.
Lit(c) == <<c>>
Match(len, dist) == <<len, dist>>
MatchBy(len, dist, lcode) == <<len, dist, lcode>>
IsLit(sym) == Len(sym) = 1

-----------------------------------------------------------------------------
(***************************************************************************)
(* Code length sequences.                                                  *)
(***************************************************************************)
order == <<16, 17, 18, 0, 8, 7, 9, 6, 10, 5, 11, 4, 12, 3, 13, 2, 14, 1, 15>>
ClExtra(sym) == CASE sym = 16 -> 2 [] sym = 17 -> 3 [] sym = 18 -> 7 [] OTHER -> 0

\* What a code length code adds to lens: a length, or a repetition.
AddLens(lens, cl) ==
    LET times(len, n) == lens \o [j \in 1..n |-> len]
    IN  CASE cl[1] < 16 -> Append(lens, cl[1])
          [] cl[1] = 16 -> times(lens[Len(lens)], 3 + cl[2])
          [] cl[1] = 17 -> times(0, 3 + cl[2])
          [] cl[1] = 18 -> times(0, 11 + cl[2])

Expand(cls) == FoldLeft(AddLens, <<>>, cls)

\* send_tree: the run-length coding of lens, where beyond is what the tree
\* holds after its last code.
SendTree(lens, beyond) ==
    LET starts == SelectSeq([n \in DOMAIN lens |-> n],
                            LAMBDA n : n = 1 \/ lens[n - 1] # lens[n])
        \* The code for count times cur, or the codes when there are too few.
        once(cur, count, min) ==
            CASE count < min -> [j \in 1..count |-> <<cur, 0>>]
              [] count >= min /\ cur # 0 -> <<<<16, count - 3>>>>
              [] count >= min /\ cur = 0 /\ count <= 10 -> <<<<17, count - 3>>>>
              [] OTHER -> <<<<18, count - 11>>>>
        \* A run in pieces of at most max_count; the last piece of the last
        \* run stays unsent when the tree goes on with the same length.
        pieces(cur, count, max, open) ==
            LET whole == [j \in 1..(count \div max) |-> once(cur, max, 3)]
                rest == count % max
            IN  Concat(whole) \o (IF rest = 0 \/ open THEN <<>> ELSE once(cur, rest, 3))
        run(r) ==
            LET cur == lens[starts[r]]
                next == IF r < Len(starts) THEN starts[r + 1] ELSE Len(lens) + 1
                count == next - starts[r]
                open == r = Len(starts) /\ beyond = cur
            IN  CASE cur = 0 -> pieces(0, count, 138, open)
                  [] cur # 0 /\ count < 7 /\ open -> <<>>
                  [] cur # 0 /\ count < 4 /\ ~open -> once(cur, count, 4)
                  [] OTHER -> LET first == Min({count, 7})
                              IN  <<<<cur, 0>>, <<16, first - 4>>>>
                                      \o pieces(cur, count - first, 6, open)
    IN  Concat([r \in DOMAIN starts |-> run(r)])

-----------------------------------------------------------------------------
(***************************************************************************)
(* Trees: the code lengths of the literals and lengths, of the distances,  *)
(* and of the code length codes, of which the first ncode are sent.        *)
(***************************************************************************)
ClCodes(cls, bl) == [j \in DOMAIN cls |->
                        Code("cl", cls[j], bl[cls[j][1] + 1] + ClExtra(cls[j][1]))]

NumCodes(tree) ==
    <<Code("nums", <<Len(tree.lit), Len(tree.dist), tree.ncode>>, 14)>>
        \o [j \in 1..tree.ncode |-> Code("bl", <<tree.bl[order[j] + 1]>>, 3)]

FixedTree ==
    [lit |-> [s \in 1..288 |-> IF s <= 144 THEN 8 ELSE IF s <= 256 THEN 9
                               ELSE IF s <= 280 THEN 7 ELSE 8],
     dist |-> [s \in 1..30 |-> 5], bl |-> <<>>, ncode |-> 0]

\* The codes of a symbol (compress_block), and the end-of-block code.  The
\* distance 0 stands for the code that an incomplete distance tree leaves
\* unused, the length 0 for one that stands for no length: 286 or 287 of the
\* fixed tree, or the code that a tree of one code leaves unused.
SymCodes(tree, sym) ==
    CASE IsLit(sym) -> <<Code("lit", sym, tree.lit[sym[1] + 1])>>
      [] ~IsLit(sym) /\ sym[1] = 0 -> <<Code("len", <<0>>, IF tree = FixedTree THEN 8 ELSE 1)>>
      [] OTHER ->
         LET l == IF Len(sym) = 3 THEN sym[3] ELSE CodeIn(lbase, sym[1])
             d == CodeIn(dbase, sym[2])
             extra(k, v, n) == IF n = 0 THEN <<>> ELSE <<Code(k, <<v>>, n)>>
         IN  <<Code("len", <<l>>, tree.lit[257 + l])>>
                \o extra("lext", sym[1] - lbase[l], lext[l])
                \o (IF sym[2] = 0 THEN <<Code("dist", <<0>>, 1)>>
                    ELSE <<Code("dist", <<d>>, tree.dist[d])>>
                             \o extra("dext", sym[2] - dbase[d], dext[d]))

EndCode(tree) == <<Code("eob", <<>>, tree.lit[END_BLOCK + 1])>>

TypeCode(last, type) == <<Code("type", <<last, type>>, 3)>>
=============================================================================
