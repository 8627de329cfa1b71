---------------------------- MODULE PartialDeflate ----------------------------
(***************************************************************************)
(* The partial encode tool: encode_docker.cpp and j_deflate, which reads   *)
(* the block headers and instructions of a partially decoded file, gathers *)
(* a block's symbols in sym_buf and writes the block with the trees its    *)
(* header describes.                                                       *)
(***************************************************************************)
EXTENDS PartialFile

CONSTANT LitBufsize     \* lit_bufsize (16384)

ASSUME LitBufsizeAssumption == LitBufsize \in Nat \ {0, 1}

VARIABLES epc,      \* what main, compress_data and j_deflate do next
          en,       \* struct internal_state
          rd,       \* strm.next_in, avail_in and the bit buffer
          entry,    \* what they were when j_deflate was called
          wr        \* the codes sent to pending_buf so far, the bytes of them
                    \* pending in it and the bits in bi_buf (bi_valid), and
                    \* strm.avail_out (room)

evars == <<epc, en, rd, entry, wr>>

DeflateModes == {"HEAD", "TYPE", "STORED", "COPY", "TABLE", "LENLENS", "CODELENS",
                 "SKPI_HEADER_END", "LEN", "INS1", "INS2", "LIT", "MATCH",
                 "ENDOFBLOCK", "DONE", "SENDINS", "BAD"}

\* j_deflateInit2_.  The state is stale when it holds what malloc returned, and
\* undef once the tool has used an undefined value.
DeflateInit(wrap) ==
    [mode |-> "HEAD", wrap |-> wrap, last |-> 0, ttype |-> 0, codes |-> <<>>, at |-> 1,
     nums |-> <<0, 0, 0>>, bl |-> <<>>, lens |-> <<>>, tree |-> <<>>,
     length |-> 0, offset |-> 0, sym |-> <<>>, finish |-> FALSE, last_flush |-> -2,
     stale |-> FALSE, undef |-> FALSE]

sym_end == (LitBufsize - 1) * 12

RdInit(todo) == [todo |-> todo, have |-> 0, pos |-> 0, pulled |-> 0, skip |-> 0]

WrInit(room) == [sent |-> <<>>, pending |-> 0, bi_valid |-> 0, room |-> room]

EncodeInit ==
    /\ epc = "idle"
    /\ en = DeflateInit(0)
    /\ rd = RdInit(0) /\ entry = RdInit(0)
    /\ wr = WrInit(0)

-----------------------------------------------------------------------------
(***************************************************************************)
(* NEEDBITS and DROPBITS.  The header of a block is read code by code, the *)
(* rest byte by byte.                                                      *)
(***************************************************************************)
RdEnough(n) == BytesOf(rd.pos + n) - rd.pulled <= rd.have

RdDropped(s, n) ==
    LET pulled == Max({s.pulled, BytesOf(s.pos + n)})
    IN  [s EXCEPT !.pos = @ + n, !.pulled = pulled, !.have = @ - (pulled - s.pulled)]
RdAligned == [rd EXCEPT !.pos = 8 * BytesOf(@)]

\* The byte j after the next one.
InByte(j) == fri.data[rd.pos \div 8 + rd.skip + 1 + j]
hcode == en.codes[en.at]

Working(mode) == epc = "deflate" /\ en.mode = mode

\* inf_leave with Z_OK, which Z_FINISH turns into Z_BUF_ERROR.
LeaveOK == epc' = IF en.finish THEN "buf_error" ELSE "ok"
RdStarve(s) ==
    /\ rd' = [s EXCEPT !.pulled = @ + s.have, !.have = 0]
    /\ LeaveOK
    /\ UNCHANGED <<entry, wr>>

Still == UNCHANGED <<epc, entry, wr>>

\* The next n bits of the header are used: as s, else the input is empty.
Consume(n, s) ==
    \/ ~RdEnough(n) /\ UNCHANGED en /\ RdStarve(rd)
    \/ RdEnough(n) /\ en' = s /\ rd' = RdDropped(rd, n) /\ Still

-----------------------------------------------------------------------------
(***************************************************************************)
(* Output: pending_buf, and the bytes flush_pending moves to next_out.     *)
(***************************************************************************)
\* The codes put, and then flush_pending with room bytes of output.
Flushed(codes, room) ==
    LET bits == 8 * wr.pending + wr.bi_valid + Bits(codes)
        n == Min({bits \div 8, room})
    IN  [sent |-> wr.sent \o codes, pending |-> bits \div 8 - n, bi_valid |-> bits % 8,
         room |-> room - n]

\* put_byte counts from the start of pending_buf whatever has been flushed,
\* and the bytes of a zlib wrapper do not pass through it: a code written
\* while bytes are pending does not end up behind them.
Direct(c) == IF wr.pending = 0 THEN c ELSE Code("bad", <<>>, c.n)

\* Mutant: the end-of-block code is left out.
CompressBlockNoEnd(tree, syms, before) ==
    before \o Concat([j \in DOMAIN syms |-> SymCodes(tree, syms[j])])

\* The symbols of sym_buf as compress_block finds them: pending_buf grows
\* into sym_buf, and a block in which it reaches a symbol not yet coded is
\* not the block that was read.
compress_block(tree, syms, before) ==
    LET coded == [j \in DOMAIN syms |-> SymCodes(tree, syms[j])]
        start == wr.bi_valid + Bits(before)
        put(j) == 2 * ((start + Bits(Concat(SubSeq(coded, 1, j - 1))) - 1) \div 16)
        overrun == \E j \in DOMAIN syms : put(j) > LitBufsize + 3 * (j - 1)
    IN  IF overrun THEN <<Code("bad", <<>>, 8)>>
        ELSE before \o Concat(coded) \o EndCode(tree)

\* The trees, from what was read of the header.
send_all_trees(tree) ==
    NumCodes(tree) \o ClCodes(SendTree(tree.lit, 0), tree.bl)
                   \o ClCodes(SendTree(tree.dist, 0), tree.bl)

\* _tr_flush_block_my: the codes of the block, up to a byte boundary after
\* the last.
FlushBlock ==
    LET type == <<Direct(TypeCode(en.last, en.ttype)[1])>>
        block == CASE en.ttype = 0 -> type \o Pad(wr.bi_valid + 3)
                           \o <<Code("stored", <<Len(en.sym), 1>>, 32)>> \o StoredBytes(en.sym)
                   [] en.ttype = 1 -> compress_block(FixedTree, en.sym, type)
                   [] en.ttype = 2 -> compress_block(en.tree, en.sym,
                                                     type \o send_all_trees(en.tree))
    IN  IF en.last = 1 THEN block \o Pad(wr.bi_valid + Bits(block)) ELSE block

-----------------------------------------------------------------------------
(***************************************************************************)
(* deflate_my: the header of a block.                                      *)
(***************************************************************************)
EHead ==
    /\ Working("HEAD") /\ ~en.stale
    /\ \/ /\ en.wrap = 0
          /\ en' = [en EXCEPT !.mode = "TYPE"]
          /\ UNCHANGED rd /\ Still
       \/ en.wrap = 1 /\ Consume(16, [en EXCEPT !.mode = "SENDINS"])

\* last, hold and bits are whatever malloc returned: the tool ends at once, reads
\* the file from another bit, fails or dies.
EStale ==
    /\ Working("HEAD") /\ en.stale
    /\ wr' = [wr EXCEPT !.sent = <<Code("bad", <<>>, 8)>>]
    /\ epc' \in {"encoded", "data_error", "aborted"}
    /\ UNCHANGED <<en, rd, entry>>

\* The trees are cleared.  A zlib header reads as a stored block, and the
\* middle of a block header as none.
EType ==
    LET codes == CASE InByte(0).k = 0 -> ZlibAsRaw
                   [] InByte(0).k = 1 -> InByte(0).h
                   [] OTHER -> TypeCode(0, 3)
        type == codes[1].v[2]
    IN  /\ Working("TYPE")
        /\ \/ /\ en.last = 1
              /\ en' = [en EXCEPT !.mode = "DONE"]
              /\ rd' = RdAligned /\ Still
           \/ /\ en.last = 0
              /\ Consume(3, [en EXCEPT
                    !.codes = codes, !.at = 2, !.last = codes[1].v[1], !.ttype = type,
                    !.bl = <<>>, !.lens = <<>>, !.tree = <<>>,
                    !.mode = CASE type = 0 -> "STORED" [] type = 1 -> "SKPI_HEADER_END"
                               [] type = 2 -> "TABLE" [] type = 3 -> "BAD"])

EStored ==
    LET s == RdAligned
        len == en.codes[Len(en.codes)]
        fits == BytesOf(s.pos + 32) - s.pulled <= s.have
    IN  /\ Working("STORED")
        /\ \/ ~fits /\ UNCHANGED en /\ RdStarve(s)
           \/ /\ fits
              /\ en' = IF len.v[2] = 1
                       THEN [en EXCEPT !.mode = "SKPI_HEADER_END", !.length = len.v[1]]
                       ELSE Bad(en)
              /\ rd' = RdDropped(s, 32) /\ Still

ETable ==
    /\ Working("TABLE")
    /\ Consume(14, [en EXCEPT !.mode = "LENLENS", !.nums = hcode.v, !.at = @ + 1])

ELenLens ==
    /\ Working("LENLENS")
    /\ Consume(3, ReadBl([en EXCEPT !.at = @ + 1], hcode.v[1]))

ECodeLens ==
    /\ Working("CODELENS")
    /\ Consume(ClBits(en, hcode.v),
               ReadLens([en EXCEPT !.at = @ + 1], hcode.v, "SKPI_HEADER_END"))

SkipHeaderEnd ==
    LET s == RdAligned
        fits == BytesOf(s.pos + 16) - s.pulled <= s.have
    IN  /\ Working("SKPI_HEADER_END")
        /\ \/ ~fits /\ UNCHANGED en /\ RdStarve(s)
           \/ /\ fits
              /\ en' = [en EXCEPT !.mode = IF en.ttype = 0 THEN "COPY" ELSE "LEN"]
              /\ rd' = RdDropped(s, 16) /\ Still

-----------------------------------------------------------------------------
(***************************************************************************)
(* deflate_my: a block's instructions.                                     *)
(***************************************************************************)
ECopy ==
    LET n == Min({en.length, rd.have})
    IN  /\ Working("COPY")
        /\ \/ en.length = 0 /\ Consume(16, [en EXCEPT !.mode = "ENDOFBLOCK"])
           \/ /\ en.length > 0 /\ n = 0
              /\ LeaveOK
              /\ UNCHANGED <<en, rd, entry, wr>>
           \/ /\ en.length > 0 /\ n > 0
              /\ en' = [en EXCEPT !.length = @ - n,
                                  !.sym = @ \o [j \in 1..n |-> Lit(InByte(j - 1).v)]]
              /\ rd' = [rd EXCEPT !.pos = @ + 8 * n, !.pulled = @ + n, !.have = @ - n]
              /\ Still

ELen ==
    /\ Working("LEN")
    /\ Consume(8, IF InByte(0).v = Esc THEN [en EXCEPT !.mode = "INS1"]
                  ELSE [en EXCEPT !.mode = "LIT", !.length = InByte(0).v])

\* Mutant: the largest distance is taken for a bad instruction.
Ins1Narrow ==
    LET v == InByte(0).v
    IN  /\ Working("INS1")
        /\ Consume(8, CASE v = Esc -> [en EXCEPT !.mode = "LIT", !.length = Esc]
                        [] v = End -> [en EXCEPT !.mode = "ENDOFBLOCK"]
                        [] v >= 128 /\ v \notin {Esc, End} -> Bad(en)
                        [] OTHER -> [en EXCEPT !.mode = "INS2", !.offset = 256 * v])

Ins1 ==
    LET v == InByte(0).v
    IN  /\ Working("INS1")
        /\ Consume(8, CASE v = Esc -> [en EXCEPT !.mode = "LIT", !.length = Esc]
                        [] v = End -> [en EXCEPT !.mode = "ENDOFBLOCK"]
                        [] v > 128 /\ v \notin {Esc, End} -> Bad(en)
                        [] OTHER -> [en EXCEPT !.mode = "INS2", !.offset = 256 * v])

Ins2 ==
    /\ Working("INS2")
    /\ Consume(16, [en EXCEPT !.mode = "MATCH", !.offset = @ + InByte(0).v,
                              !.length = InByte(1).v])

\* _tr_tally_lit_my and _tr_tally_dist_my.  When sym_buf is full deflate_my
\* returns 1, which is Z_STREAM_END, and leaves the input where it was when
\* it was called.
Tally ==
    LET sym == IF en.mode = "LIT" THEN Lit(en.length) ELSE Match(en.length + 3, en.offset)
        tallied == [en EXCEPT !.sym = Append(@, sym)]
    IN  /\ Working("LIT") \/ Working("MATCH")
        /\ IF 3 * Len(tallied.sym) = sym_end
           THEN /\ en' = tallied
                /\ rd' = entry
                /\ epc' = "end"
           ELSE /\ en' = [tallied EXCEPT !.mode = "LEN"]
                /\ UNCHANGED <<epc, rd>>
        /\ UNCHANGED <<entry, wr>>

\* Mutant: the next block is read although output is pending.
EndOfBlockGoesOn ==
    /\ Working("ENDOFBLOCK")
    /\ wr' = Flushed(FlushBlock, wr.room)
    /\ en' = [en EXCEPT !.mode = "TYPE", !.sym = <<>>]
    /\ UNCHANGED <<epc, rd, entry>>

\* j_tr_stored_block copies from sym_buf to the start of pending_buf with memcpy;
\* when the two overlap, the bytes may be any.
Overlap ==
    en.ttype = 0 /\ BytesOf(wr.bi_valid + 3) + 4 + Len(en.sym) > LitBufsize

EndOfBlock ==
    /\ Working("ENDOFBLOCK")
    /\ \E torn \in IF Overlap THEN BOOLEAN ELSE {FALSE} :
          /\ wr' = Flushed(IF torn THEN <<Code("bad", <<>>, Bits(FlushBlock))>> ELSE FlushBlock,
                           wr.room)
          /\ en' = [en EXCEPT !.mode = "TYPE", !.sym = <<>>, !.undef = @ \/ torn]
    /\ IF wr'.room = 0 THEN LeaveOK ELSE UNCHANGED epc
    /\ UNCHANGED <<rd, entry>>

-----------------------------------------------------------------------------
(***************************************************************************)
(* deflate_my: the ends of the stream.                                     *)
(***************************************************************************)
EDone ==
    /\ Working("DONE")
    /\ \/ en.wrap = 0 /\ epc' = "end" /\ UNCHANGED <<en, rd, entry, wr>>
       \/ en.wrap = 1 /\ Consume(32, [en EXCEPT !.mode = "SENDINS"])

\* The zlib header and check value.  de_ins_buf_index, de_ins_buf_have and
\* de_ins_type are locals of the switch: in a later call than the one that
\* set them they hold anything, and the tool may end the stream, go on with
\* the next block, fill its buffer or die.
ESendIns ==
    LET c == IF en.last = 0 THEN ZlibHead[1] ELSE ZlibCheck[1]
        bytes == c.n \div 8
        put(x, room) == [wr EXCEPT !.sent = Append(@, x), !.room = room]
        lost(room) == [wr EXCEPT !.sent = <<Code("bad", <<>>, 8)>>, !.room = room]
    IN  /\ Working("SENDINS")
        /\ \/ /\ ~en.stale /\ wr.room >= bytes
              /\ wr' = put(Direct(c), wr.room - bytes)
              /\ IF en.last = 0
                 THEN en' = [en EXCEPT !.mode = "TYPE"] /\ UNCHANGED epc
                 ELSE UNCHANGED en /\ epc' = "end"
           \/ /\ ~en.stale /\ wr.room < bytes
              /\ wr' = put(Code("bad", <<>>, 8 * wr.room), 0)
              /\ UNCHANGED en /\ LeaveOK
           \/ /\ en.stale
              /\ \E room \in 0..wr.room :
                    /\ wr' = lost(room)
                    /\ \/ epc' = "end" /\ UNCHANGED en
                       \/ en' = [en EXCEPT !.mode = "TYPE"] /\ UNCHANGED epc
                       \/ room = 0 /\ LeaveOK /\ UNCHANGED en
                       \/ epc' = "aborted" /\ UNCHANGED en
        /\ UNCHANGED <<rd, entry>>

EBad ==
    /\ Working("BAD")
    /\ epc' = "data_error"
    /\ UNCHANGED <<en, rd, entry, wr>>

DeflateMy == \/ EHead \/ EStale \/ EType \/ EStored \/ ETable \/ ELenLens \/ ECodeLens
             \/ SkipHeaderEnd \/ ECopy \/ ELen \/ Ins1 \/ Ins2 \/ Tally \/ EndOfBlock
             \/ EDone \/ ESendIns \/ EBad

-----------------------------------------------------------------------------
(***************************************************************************)
(* j_deflate and encode_docker.cpp.                                        *)
(***************************************************************************)
RANK(f) == f * 2
flush == IF en.finish THEN 4 ELSE 0
Calling(s) == [s EXCEPT !.last_flush = flush, !.stale = @ \/ s.mode = "SENDINS",
                        !.undef = @ \/ s.mode = "SENDINS"]

\* One call of j_deflate, with a whole output buffer.
JDeflate ==
    /\ epc = "call"
    /\ \/ /\ wr.pending # 0
          /\ wr' = Flushed(<<>>, chunk)
          /\ IF wr'.room = 0
             THEN epc' = "ok" /\ en' = [en EXCEPT !.last_flush = -1]
             ELSE epc' = "deflate" /\ en' = Calling(en)
       \/ /\ wr.pending = 0
          /\ wr' = [wr EXCEPT !.room = chunk]
          /\ IF rd.have = 0 /\ RANK(flush) <= RANK(en.last_flush) /\ ~en.finish
             THEN epc' = "buf_error" /\ en' = [en EXCEPT !.last_flush = flush]
             ELSE epc' = "deflate" /\ en' = Calling(en)
    /\ entry' = rd
    /\ UNCHANGED rd

\* compress_data after a call: the buffer is written, and j_deflate called
\* again when it was full.
Result == IF epc = "end" /\ wr.pending # 0 THEN "ok" ELSE epc

\* Mutant: the last result is not asserted.
WroteUnasserted ==
    /\ epc \in {"ok", "end", "buf_error"}
    /\ epc' = CASE wr.room = 0 -> "call"
                [] wr.room # 0 /\ ~en.finish -> "read"
                [] wr.room # 0 /\ en.finish -> "tail"
    /\ UNCHANGED <<en, rd, entry, wr>>

Wrote ==
    /\ epc \in {"ok", "end", "buf_error"}
    /\ epc' = CASE wr.room = 0 -> "call"
                [] wr.room # 0 /\ ~en.finish -> "read"
                [] wr.room # 0 /\ en.finish -> IF Result = "end" THEN "tail" ELSE "aborted"
    /\ UNCHANGED <<en, rd, entry, wr>>

\* The outer loop of compress_data.  A read of a negative length takes what
\* there is; input that was not used is dropped.
ReadChunk ==
    LET n == IF rd.todo < 0 THEN rd.todo + 8 ELSE Min({rd.todo, chunk})
    IN  /\ epc = "read"
        /\ rd' = [rd EXCEPT !.skip = @ + rd.have, !.have = n,
                            !.todo = @ - Min({rd.todo, chunk})]
        /\ en' = [en EXCEPT !.finish = rd'.todo <= 0]
        /\ epc' = "call"
        /\ UNCHANGED <<entry, wr>>

\* j_compress_fri up to compress_data.  j_deflateInit2_ sets the mode, but not
\* last, hold and bits of the state it allocates: they may be 0, or not.
CompressFri ==
    /\ epc = "compress"
    /\ \E stale \in BOOLEAN : en' = [en EXCEPT !.stale = stale, !.undef = @ \/ stale]
    /\ rd' = RdInit(Len(fri.data) - (IF fri.tail THEN 0 ELSE 8))
    /\ wr' = WrInit(0)
    /\ epc' = "read"
    /\ UNCHANGED entry

\* The eight bytes of the trailer.
EncodeTail ==
    /\ epc = "tail"
    /\ epc' = "encoded"
    /\ UNCHANGED <<en, rd, entry, wr>>

\* main after Z_DATA_ERROR: the file is removed and encoded as a zlib
\* stream; a second failure is not looked at.
ERetry ==
    /\ epc = "data_error"
    /\ \/ /\ en.wrap = 0
          /\ en' = [DeflateInit(1) EXCEPT !.undef = en.undef]
          /\ epc' = "compress"
       \/ /\ en.wrap = 1
          /\ UNCHANGED en
          /\ epc' = "unusable"
    /\ UNCHANGED <<rd, entry, wr>>

EncodeStep ==
    /\ \/ DeflateMy \/ JDeflate \/ Wrote \/ ReadChunk \/ CompressFri \/ EncodeTail \/ ERetry
    /\ UNCHANGED <<gz, chunk, fri>>
=============================================================================
