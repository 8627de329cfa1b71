------------------------------ MODULE MCPartial ------------------------------
(***************************************************************************)
(* Gzip files for the partial codec: of every block type, across blocks,   *)
(* with every instruction and its boundary values, those the tools read    *)
(* wrongly, and those they give up on.                                     *)
(***************************************************************************)
EXTENDS PartialCodec

\* The code lengths where only the given symbols have one.
LensOf(n, f) == [s \in 1..n |-> IF s - 1 \in DOMAIN f THEN f[s - 1] ELSE 0]

\* Five code length codes: 0, 1, 2, 18 and the one for the long lengths.
BlLens(f) == LensOf(19, f)

Dynamic(lit, dist, bl, ncode, cls, data) ==
    LET tree == [lit |-> lit, dist |-> dist, bl |-> bl, ncode |-> ncode]
    IN  [type |-> 2, ok |-> 1, tree |-> tree, data |-> data,
         header |-> NumCodes(tree) \o ClCodes(cls, bl)]
Zlib(lit, dist, bl, data) ==
    Dynamic(lit, dist, bl, 18, SendTree(lit, 0) \o SendTree(dist, 0), data)
Fixed(data) == [type |-> 1, ok |-> 1, tree |-> FixedTree, data |-> data, header |-> <<>>]
Store(data) == [type |-> 0, ok |-> 1, tree |-> FixedTree, header |-> <<>>,
                data |-> [j \in DOMAIN data |-> Lit(data[j])]]
Corrupt(b) == [b EXCEPT !.ok = 0]

Raw(blocks) == [extra |-> 0, name |-> 0, comment |-> 0, hcrc |-> 0, wrap |-> 0,
                blocks |-> blocks, rest |-> <<>>, cut |-> 0, misread |-> Misread]

\* A tree with codes of 1 to 11 bits, longer than the first level of its
\* table, and one with four codes of 2 bits.
LongLit == LensOf(260, (97 :> 1) @@ (98 :> 2) @@ (99 :> 3) @@ (100 :> 4) @@ (101 :> 5)
                 @@ (102 :> 6) @@ (103 :> 7) @@ (170 :> 8) @@ (255 :> 9)
                 @@ (256 :> 10) @@ (257 :> 11) @@ (259 :> 11))
LongBl == BlLens((0 :> 3) @@ (1 :> 3) @@ (2 :> 4) @@ (3 :> 4) @@ (4 :> 4) @@ (5 :> 4)
                 @@ (6 :> 4) @@ (7 :> 4) @@ (8 :> 4) @@ (9 :> 4) @@ (10 :> 4)
                 @@ (11 :> 4) @@ (17 :> 4) @@ (18 :> 4))
ShortLit == LensOf(258, (97 :> 2) @@ (170 :> 2) @@ (256 :> 2) @@ (257 :> 2))
ShortBl == BlLens((0 :> 2) @@ (1 :> 2) @@ (2 :> 2) @@ (18 :> 2))

A == Lit(97)
DynamicFile == Raw(<<Zlib(LongLit, <<1, 1>>, LongBl, <<A, Lit(170), Lit(255), Match(5, 2)>>),
                     Zlib(ShortLit, <<1, 1>>, ShortBl, <<Lit(170), Match(3, 1), A>>)>>)
\* Distances and lengths at the ends of their ranges; bytes like marks.
FixedFile == [Raw(<<Fixed(<<A, Lit(170), Match(258, 32768), Match(3, 170), Match(131, 255)>>),
                    Store(<<170, 255, 1>>), Fixed(<<>>), Store(<<>>)>>)
                 EXCEPT !.name = 4, !.comment = 2, !.hcrc = 2]
\* As many of the longest codes as zlib gathers for a block, and then more
\* literals than sym_buf holds.
LongFile == Raw(<<Fixed([j \in 1..(LitBufsize - 1) |-> Match(257, 32768)])>>)
FullFile == Raw(<<Fixed([j \in 1..(4 * LitBufsize) |-> A])>>)
\* A run of equal lengths that goes on from the literals to the distances.
CrossFile == Raw(<<Dynamic(LensOf(257, (97 :> 1) @@ (170 :> 2) @@ (256 :> 2)), <<2, 2, 2, 2>>,
                     BlLens((1 :> 2) @@ (2 :> 2) @@ (16 :> 2) @@ (18 :> 2)), 18,
                     <<<<18, 86>>, <<1, 0>>, <<18, 61>>, <<2, 0>>, <<18, 74>>, <<2, 0>>,
                       <<16, 1>>>>, <<A, Lit(170), A>>)>>)
ZlibFile == [Raw(<<Fixed(<<A, Match(4, 2)>>)>>) EXCEPT !.wrap = 1]

\* A stored block too long to be copied out of sym_buf, and a length of 258
\* coded as 227 and 31 more.
WideFile == Raw(<<Store([j \in 1..LitBufsize |-> j])>>)
Length258 == Raw(<<Fixed(<<A, MatchBy(258, 1, 28)>>)>>)

Good == [dynamic |-> DynamicFile, fixed |-> FixedFile, long |-> LongFile,
         cross |-> CrossFile, zlib |-> ZlibFile, wide |-> WideFile,
         length_258 |-> Length258]

\* Well formed files the tools do not read as they are: a second member, and
\* an extra field whose last bytes begin no block, a last block (as those of a
\* name that ends in 'k' do), or a zlib header.
LastFixed == Blocks(<<Fixed(<<A>>)>>, <<>>)
Whole(codes) == codes \o Pad(Bits(codes))
Early(codes) == [FixedFile EXCEPT !.extra = 4, !.misread = codes]
Members == [Raw(<<Fixed(<<A>>)>>) EXCEPT !.rest = <<Fixed(<<A, A>>)>>]
ExtraLast == Early([Misread EXCEPT ![0] = Whole(LastFixed)])
Misled == [extra |-> Early([Misread EXCEPT ![0] = TypeCode(0, 3)]),
           extra_last |-> ExtraLast,
           extra_zlib |-> Early([Misread EXCEPT ![1] = ZlibHead \o Stream(FixedFile)]),
           members |-> Members]

\* Files the tools give up on.
TwoOnes == LensOf(257, (97 :> 1) @@ (98 :> 1))
ThreeOnes == LensOf(257, (97 :> 1) @@ (98 :> 1) @@ (256 :> 1))
EndOnly == LensOf(257, 256 :> 1)
Ones == <<<<1, 0>>, <<1, 0>>>>
BadTree(lit, bl, cls) == Raw(<<Corrupt(Dynamic(lit, <<1, 1>>, bl, 18, cls, <<>>))>>)
Damaged ==
    [fixed_cut |-> [FixedFile EXCEPT !.cut = 3],
     dynamic_cut |-> [DynamicFile EXCEPT !.cut = 12],
     zlib_cut |-> [ZlibFile EXCEPT !.cut = 2],
     type_3 |-> Raw(<<Store(<<1>>), [Corrupt(Fixed(<<>>)) EXCEPT !.type = 3]>>),
     stored |-> Raw(<<Fixed(<<A>>), Corrupt(Store(<<1, 2>>))>>),
     distance |-> Raw(<<Corrupt(Fixed(<<A, Match(3, 0), A, A, A, A, A, A>>))>>),
     length |-> Raw(<<Corrupt(Fixed(<<A, Match(0, 0), A, A, A, A, A, A>>))>>),
     one_code |-> Raw(<<Corrupt(Zlib(EndOnly, <<1, 1>>, ShortBl, <<Match(0, 0)>>))>>),
     looks_zlib |-> [Raw(<<Corrupt(Fixed([j \in 1..9 |-> A] \o <<Match(3, 0)>>))>>)
                        EXCEPT !.misread[1] = Whole(ZlibHead \o LastFixed) \o ZlibCheck],
     no_bl |-> BadTree(ShortLit, BlLens((0 :> 1) @@ (1 :> 1) @@ (2 :> 1)), <<>>),
     no_end |-> BadTree(TwoOnes, ShortBl, SendTree(TwoOnes, 1) \o Ones),
     too_many |-> BadTree(ThreeOnes, ShortBl, SendTree(ThreeOnes, 0) \o Ones),
     repeat |-> BadTree(TwoOnes, BlLens((16 :> 1) @@ (1 :> 1)), <<<<16, 0>>>>)]

Gzipped(files) == [n \in DOMAIN files |-> Gzip(files[n])]
PassFiles == Gzipped(Good @@ [full |-> FullFile] @@ Misled @@ Damaged)
LossFiles == Gzipped([extra_last |-> ExtraLast, members |-> Members])
PassChunks == {2, 3, 5, 40}
=============================================================================
