----------------------------- MODULE PartialFile -----------------------------
(***************************************************************************)
(* The files the partial decode and encode tools work on: the gzip file,   *)
(* as its header and the codes of its deflate stream, and the partially    *)
(* decoded file, as bytes.                                                 *)
(***************************************************************************)
EXTENDS DeflateFormat, HuffmanTables

CONSTANTS Files,    \* the gzip files by name, with their streams
          Chunks    \* the sizes of the tools' buffers (CHUNK, CURCHUNK)

VARIABLES gz,       \* the name of the gzip file
          chunk,    \* the size of the buffers
          fri       \* the partially decoded file

ASSUME ChunksAssumption == Chunks \subseteq Nat \ {0, 1}

\* 0xaa starts an instruction, 0xaa 0xff ends a header or a block.
Esc == 170
End == 255

\* A byte of the decoded file: a plain one, or the k-th of a block header,
\* whose codes h are kept with the first.
Byte(v) == [h |-> <<>>, k |-> 0, v |-> v]
HeaderBytes(h) == [k \in 1..BytesOf(Bits(h)) |->
                      [h |-> IF k = 1 THEN h ELSE <<>>, k |-> k, v |-> 0]]
EndMark == <<Byte(Esc), Byte(End)>>

\* The instructions for a literal and for a match.
LitIns(c) == IF c = Esc THEN <<Byte(Esc), Byte(Esc)>> ELSE <<Byte(c)>>
MatchIns(len, dist) == <<Byte(Esc), Byte(dist \div 256), Byte(dist % 256), Byte(len - 3)>>

-----------------------------------------------------------------------------
(***************************************************************************)
(* A gzip file: the lengths of its optional header fields, its blocks, the *)
(* blocks of a second member (rest), and how many bytes of its deflate     *)
(* stream are missing.  A block has a type, its header's codes, its tree   *)
(* and its data, and ok = 0 when its lengths do not agree or its codes are *)
(* not a tree.  A zlib stream (wrap = 1) has a header of two bytes and a   *)
(* check value of four.  A reader that does not start at the stream, or    *)
(* expects the other wrap, finds whatever the bytes happen to mean: these  *)
(* are the codes misread[wrap].                                            *)
(***************************************************************************)
StoredBytes(data) == [j \in DOMAIN data |-> Code("byte", data[j], 8)]

BlockCodes(b, last, bits) ==
    LET type == TypeCode(last, b.type)
    IN  CASE b.type = 0 -> type \o Pad(bits + 3)
                           \o <<Code("stored", <<Len(b.data), b.ok>>, 32)>>
                           \o StoredBytes(b.data)
          [] b.type \in {1, 2} -> type \o b.header
                           \o Concat([j \in DOMAIN b.data |-> SymCodes(b.tree, b.data[j])])
                           \o EndCode(b.tree)
          [] b.type = 3 -> type

Blocks(blocks, start) ==
    FoldLeft(LAMBDA codes, j : codes \o BlockCodes(blocks[j],
                                  IF j = Len(blocks) THEN 1 ELSE 0, Bits(codes)),
             start, [j \in DOMAIN blocks |-> j])

ZlibHead == <<Code("zhead", <<1>>, 16)>>
ZlibCheck == <<Code("check", <<>>, 32)>>

\* The trailer of a member and the header of the next.
NextMember == <<Code("member", <<>>, 8 * 18)>>

\* The bytes from the deflate stream of g to its last trailer.
Stream(g) ==
    LET member(blocks, start) ==
            LET codes == Blocks(blocks, start) IN codes \o Pad(Bits(codes))
        first == member(g.blocks, IF g.wrap = 1 THEN ZlibHead ELSE <<>>)
    IN  CASE g.wrap = 1 -> first \o ZlibCheck
          [] g.rest # <<>> -> first \o NextMember \o member(g.rest, <<>>)
          [] OTHER -> first

GZIP_HEADER_LEN == 10

\* Where the deflate stream starts: an extra field has two bytes of length.
DeflateStart(g) ==
    GZIP_HEADER_LEN + (IF g.extra > 0 THEN 2 + g.extra ELSE 0) + g.name + g.comment + g.hcrc

\* parseGzipFile: where the decode tool takes it to start.
parseGzipFile(g) == GZIP_HEADER_LEN + g.extra + g.name + g.comment + g.hcrc

\* The bytes from there to the trailer.
DeflateLength(g) ==
    BytesOf(Bits(g.stream)) - g.cut + DeflateStart(g) - parseGzipFile(g)

\* The likely misreadings: the first byte of a zlib header (0x78) as a stored
\* block, whose lengths do not agree, and a raw stream as no zlib header.
ZlibAsRaw == TypeCode(0, 0) \o Pad(3) \o <<Code("stored", <<0, 0>>, 32)>>
Misread == [wrap \in 0..1 |-> IF wrap = 0 THEN ZlibAsRaw ELSE <<Code("zhead", <<0>>, 16)>>]

\* What a reader finds from the position parseGzipFile gives.
Seen(g, wrap) ==
    IF wrap = g.wrap /\ parseGzipFile(g) = DeflateStart(g) THEN g.stream ELSE g.misread[wrap]

-----------------------------------------------------------------------------
(***************************************************************************)
(* The partial file a gzip file stands for, and the files the tools can    *)
(* bring back.                                                             *)
(***************************************************************************)
SymIns(sym) == IF IsLit(sym) THEN LitIns(sym[1]) ELSE MatchIns(sym[1], sym[2])

BlockHeader(b, last) ==
    TypeCode(last, b.type)
        \o (IF b.type = 0 THEN Pad(3) \o <<Code("stored", <<Len(b.data), b.ok>>, 32)>>
            ELSE b.header)

\* That of the first member: the decode tool stops at the end of a stream.
PartialOf(g) ==
    LET body(b) == IF b.type = 0 THEN [j \in DOMAIN b.data |-> Byte(b.data[j][1])]
                   ELSE Concat([j \in DOMAIN b.data |-> SymIns(b.data[j])])
        block(j) == LET b == g.blocks[j]
                    IN  HeaderBytes(BlockHeader(b, IF j = Len(g.blocks) THEN 1 ELSE 0))
                            \o EndMark \o body(b) \o EndMark
        blocks == Concat([j \in DOMAIN g.blocks |-> block(j)])
    IN  IF g.wrap = 0 THEN blocks
        ELSE <<Byte(120), Byte(156)>> \o blocks \o [j \in 1..4 |-> Byte(0)]

\* A file with its stream, what readers find of it, and its partial file.
Gzip(f) ==
    LET g == f @@ [stream |-> Stream(f), partial |-> PartialOf(f)]
    IN  g @@ [seen |-> [wrap \in 0..1 |-> Seen(g, wrap)]]

Described(g) == [field \in DOMAIN g \ {"stream", "partial", "seen"} |-> g[field]]
ASSUME FilesAssumption == \A n \in DOMAIN Files : Files[n] = Gzip(Described(Files[n]))

gzip == Files[gz]

\* A gzip file any other tool accepts.
WellFormed(g) ==
    /\ g.cut = 0
    /\ \A j \in DOMAIN (g.blocks \o g.rest) :
          LET b == (g.blocks \o g.rest)[j] IN b.type \in 0..2 /\ b.ok = 1

\* Well formed, without an extra field and with one member.
Intact(g) == WellFormed(g) /\ g.extra = 0 /\ g.rest = <<>>

\* One member that is read from its start, and is no zlib stream by chance.
Unambiguous(g) == g.extra = 0 /\ g.rest = <<>> /\ g.misread = Misread

-----------------------------------------------------------------------------
(***************************************************************************)
(* The code lengths in a block header, which both tools read: s is the     *)
(* state of the reader, done its mode when the trees are built.            *)
(***************************************************************************)
Bad(s) == [s EXCEPT !.mode = "BAD"]

\* The next code length of the code length codes; after the last, their
\* table.
ReadBl(s, len) ==
    LET bl == Append(s.bl, len)
        place(sym) == CHOOSE j \in 1..19 : order[j] = sym - 1
        lens == [sym \in 1..19 |-> IF place(sym) <= s.nums[3] THEN bl[place(sym)] ELSE 0]
    IN  CASE Len(bl) < s.nums[3] -> [s EXCEPT !.bl = bl]
          [] Len(bl) = s.nums[3] /\ BadLens("CODES", lens) -> Bad(s)
          [] OTHER -> [s EXCEPT !.mode = "CODELENS", !.bl = lens]

\* The next of the run-length coded code lengths; after the last, the tables
\* of the literals and lengths and of the distances.
ReadLens(s, cl, done) ==
    LET nlen == s.nums[1]
        all == nlen + s.nums[2]
        lens == AddLens(s.lens, cl)
        lit == SubSeq(lens, 1, nlen)
        dist == SubSeq(lens, nlen + 1, all)
        unusable == \/ lens[END_BLOCK + 1] = 0
                    \/ BadLens("LENS", lit)
                    \/ BadLens("DISTS", dist)
    IN  IF cl[1] = 16 /\ s.lens = <<>> THEN Bad(s)
        ELSE CASE Len(lens) < all -> [s EXCEPT !.lens = lens]
               [] Len(lens) > all \/ (Len(lens) = all /\ unusable) -> Bad(s)
               [] OTHER -> [s EXCEPT !.mode = done, !.lens = lens,
                              !.tree = [lit |-> lit, dist |-> dist, bl |-> s.bl,
                                        ncode |-> s.nums[3]]]

\* The bits of a run-length code.
ClBits(s, cl) == s.bl[cl[1] + 1] + ClExtra(cl[1])
=============================================================================
