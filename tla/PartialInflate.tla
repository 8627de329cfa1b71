---------------------------- MODULE PartialInflate ----------------------------
(***************************************************************************)
(* The partial decode tool: decode_docker.cpp and j_inflate.  j_inflate    *)
(* is a state machine that leaves whenever its input or its output buffer  *)
(* runs out and goes on in the same mode at the next call; every action    *)
(* below with a mode is one turn of its loop.                              *)
(***************************************************************************)
EXTENDS PartialFile

CONSTANTS FastIn,   \* input bytes inflate_fast asks for (6)
          FastOut   \* output bytes inflate_fast asks for (258)

ASSUME FastAssumption == FastIn >= 6 /\ FastOut >= 4

VARIABLES dpc,      \* what main, j_build_fri and decompressBytes do next
          st,       \* struct inflate_state
          ins,      \* ins_buffer: the bytes to send and ins_type
          src,      \* stream.next_in, avail_in and the bit buffer
          out       \* stream.next_out: the bytes in outBuffer

ivars == <<dpc, st, ins, src, out>>

InflateModes == {"HEAD", "TYPE", "STORED", "COPY", "TABLE", "LENLENS", "CODELENS",
                 "SEND_HEADER", "LEN", "LENEXT", "DIST", "DISTEXT", "CHECK",
                 "SENDINS", "DONE", "BAD"}

\* j_inflateInit2_ with windowBits -15 (wrap = 0) or 15.
InflateInit(wrap) ==
    [mode |-> "HEAD", wrap |-> wrap, last |-> 0, type |-> 0, header |-> <<>>,
     header_flag |-> 1, header_buf |-> <<>>, nums |-> <<0, 0, 0>>, bl |-> <<>>,
     lens |-> <<>>, tree |-> <<>>, length |-> 0, offset |-> 0]

\* Nothing read yet of the todo bytes from the deflate stream's start: the
\* next code, the bits dropped and the bytes pulled into hold.
SrcInit(todo, codes) == [todo |-> todo, size |-> 0, have |-> 0, codes |-> codes, at |-> 1,
                         pos |-> 0, pulled |-> 0]

DecodeInit ==
    /\ dpc = "build"
    /\ st = InflateInit(0)
    /\ ins = [buf |-> <<>>, type |-> 0]
    /\ src = SrcInit(0, <<>>)
    /\ out = <<>>
    /\ fri = [pos |-> 0, data |-> <<>>, tail |-> FALSE]

-----------------------------------------------------------------------------
(***************************************************************************)
(* NEEDBITS and DROPBITS.                                                  *)
(***************************************************************************)
left == chunk - Len(out)
CodeAt(j) == src.codes[j]
code == CodeAt(src.at)

Enough(n) == BytesOf(src.pos + n) - src.pulled <= src.have

Dropped(s, n) ==
    LET pulled == Max({s.pulled, BytesOf(s.pos + n)})
    IN  [s EXCEPT !.at = @ + 1, !.pos = @ + n, !.pulled = pulled,
                  !.have = @ - (pulled - s.pulled)]

\* BYTEBITS.
Aligned(s) == IF s.pos % 8 = 0 THEN s
              ELSE [s EXCEPT !.at = @ + 1, !.pos = 8 * BytesOf(@)]

\* PULLBYTE on an empty buffer: goto inf_leave.
Starve(s) ==
    /\ src' = [s EXCEPT !.pulled = @ + s.have, !.have = 0]
    /\ dpc' = "drain"
    /\ UNCHANGED <<ins, out>>

Running(mode) == dpc = "inflate" /\ st.mode = mode

\* st with the code added to the header, as DROP_HEADER_BITS does.
Noted == [st EXCEPT !.header = Append(@, code)]
Quiet == UNCHANGED <<dpc, ins, out>>

-----------------------------------------------------------------------------
(***************************************************************************)
(* The modes up to a block's data.                                         *)
(***************************************************************************)
\* The header of a zlib stream.  DROPBITS(4) adds the bits it drops to
\* header_buf, at an index and in a buffer that are not initialised before the
\* first block: the tool goes on, or dies of the write.
ZHead ==
    /\ Running("HEAD")
    /\ \/ /\ st.wrap = 0
          /\ st' = [st EXCEPT !.mode = "TYPE"]
          /\ UNCHANGED src /\ Quiet
       \/ /\ st.wrap = 1 /\ ~Enough(16)
          /\ UNCHANGED st /\ Starve(src)
       \/ /\ st.wrap = 1 /\ Enough(16)
          /\ src' = Dropped(src, 16)
          /\ ins' = [buf |-> <<Byte(120), Byte(156)>>, type |-> 4]
          /\ st' = IF code.v[1] = 1 THEN [st EXCEPT !.mode = "SENDINS"] ELSE Bad(st)
          /\ UNCHANGED <<dpc, out>>
       \/ /\ st.wrap = 1 /\ Enough(16) /\ code.v[1] = 1
          /\ dpc' = "crashed"
          /\ UNCHANGED <<st, src, ins, out>>

\* TYPE and TYPEDO, with the block type.
Type ==
    LET fresh == [st EXCEPT !.header_flag = 1, !.header = <<>>, !.header_buf = <<>>]
        seen == [fresh EXCEPT !.header = <<code>>, !.last = code.v[1], !.type = code.v[2]]
        mode == CASE code.v[2] = 0 -> "STORED" [] code.v[2] = 1 -> "SEND_HEADER"
                  [] code.v[2] = 2 -> "TABLE" [] code.v[2] = 3 -> "BAD"
    IN  /\ Running("TYPE")
        /\ \/ /\ st.last = 1
              /\ st' = [fresh EXCEPT !.mode = "CHECK"]
              /\ src' = Aligned(src) /\ Quiet
           \/ /\ st.last = 0 /\ ~Enough(3)
              /\ st' = fresh /\ Starve(src)
           \/ /\ st.last = 0 /\ Enough(3)
              /\ st' = [seen EXCEPT !.mode = mode]
              /\ src' = Dropped(src, 3) /\ Quiet

Stored ==
    LET s == Aligned(src)
        len == CodeAt(s.at)
        wound == [st EXCEPT !.header = @ \o Pad(Bits(@))]
        fits == BytesOf(s.pos + 32) - s.pulled <= s.have
    IN  /\ Running("STORED")
        /\ \/ ~fits /\ st' = wound /\ Starve(s)
           \/ /\ fits
              /\ st' = IF len.v[2] = 1
                       THEN [wound EXCEPT !.mode = "SEND_HEADER", !.length = len.v[1],
                                          !.header = Append(@, len)]
                       ELSE Bad(wound)
              /\ src' = Dropped(s, 32) /\ Quiet

Table ==
    /\ Running("TABLE")
    /\ \/ ~Enough(14) /\ UNCHANGED st /\ Starve(src)
       \/ /\ Enough(14)
          /\ st' = IF code.v[1] > 286 \/ code.v[2] > 30 THEN Bad(Noted)
                   ELSE [Noted EXCEPT !.mode = "LENLENS", !.nums = code.v,
                                      !.bl = <<>>, !.lens = <<>>]
          /\ src' = Dropped(src, 14) /\ Quiet

LenLens ==
    /\ Running("LENLENS")
    /\ \/ ~Enough(3) /\ UNCHANGED st /\ Starve(src)
       \/ /\ Enough(3)
          /\ st' = ReadBl(Noted, code.v[1])
          /\ src' = Dropped(src, 3) /\ Quiet

CodeLens ==
    LET n == ClBits(st, code.v)
    IN  /\ Running("CODELENS")
        /\ \/ ~Enough(n) /\ UNCHANGED st /\ Starve(src)
           \/ /\ Enough(n)
              /\ st' = ReadLens(Noted, code.v, "SEND_HEADER")
              /\ src' = Dropped(src, n) /\ Quiet

\* The header's bytes and its end mark go out as far as there is room.
SendHeader ==
    LET buf == IF st.header_flag = 1 THEN HeaderBytes(st.header) \o EndMark
               ELSE st.header_buf
        n == Min({left, Len(buf)})
    IN  /\ Running("SEND_HEADER")
        /\ out' = out \o SubSeq(buf, 1, n)
        /\ st' = [st EXCEPT !.header_flag = 0,
                            !.header_buf = SubSeq(buf, n + 1, Len(buf)),
                            !.mode = IF left = 0 \/ n < Len(buf) THEN @
                                     ELSE IF st.type = 0 THEN "COPY" ELSE "LEN"]
        /\ dpc' = IF left = 0 THEN "drain" ELSE dpc
        /\ UNCHANGED <<ins, src>>

-----------------------------------------------------------------------------
(***************************************************************************)
(* A block's data.                                                         *)
(***************************************************************************)
EndIns == [buf |-> EndMark, type |-> 2]

Copy ==
    LET n == Min({st.length, src.have, left})
    IN  /\ Running("COPY")
        /\ \/ /\ st.length = 0
              /\ st' = [st EXCEPT !.mode = "SENDINS"]
              /\ ins' = EndIns
              /\ UNCHANGED <<dpc, src, out>>
           \/ /\ st.length > 0 /\ n = 0
              /\ dpc' = "drain"
              /\ UNCHANGED <<st, ins, src, out>>
           \/ /\ st.length > 0 /\ n > 0
              /\ out' = out \o [j \in 1..n |-> Byte(CodeAt(src.at + j - 1).v[1])]
              /\ src' = [src EXCEPT !.at = @ + n, !.pos = @ + 8 * n,
                                    !.pulled = @ + n, !.have = @ - n]
              /\ st' = [st EXCEPT !.length = @ - n]
              /\ UNCHANGED <<dpc, ins>>

\* The width of the code that comes next, by the tree that was read.
usedTree == IF st.type = 1 THEN FixedTree ELSE st.tree
Width == CASE code.k = "lit" -> usedTree.lit[code.v[1] + 1]
           [] code.k = "eob" -> usedTree.lit[END_BLOCK + 1]
           [] code.k = "len" /\ code.v[1] = 0 -> IF st.type = 1 THEN 8 ELSE 1
           [] code.k = "len" /\ code.v[1] > 0 -> usedTree.lit[257 + code.v[1]]
           [] code.k = "dist" -> IF code.v[1] = 0 THEN 1 ELSE usedTree.dist[code.v[1]]

InFast == src.have >= FastIn /\ left >= FastOut

\* A literal, an end of block, a length or an invalid code, outside inflate_fast.
Length ==
    /\ Running("LEN") /\ ~InFast
    /\ \/ ~Enough(Width) /\ UNCHANGED st /\ Starve(src)
       \/ /\ Enough(Width)
          /\ src' = Dropped(src, Width)
          /\ CASE code.k = "lit" ->
                    /\ ins' = [buf |-> LitIns(code.v[1]), type |-> 0]
                    /\ st' = [st EXCEPT !.mode = "SENDINS"]
               [] code.k = "eob" ->
                    /\ ins' = EndIns
                    /\ st' = [st EXCEPT !.mode = "SENDINS"]
               [] code.k = "len" /\ code.v[1] = 0 -> st' = Bad(st) /\ UNCHANGED ins
               [] code.k = "len" /\ code.v[1] > 0 ->
                    /\ st' = [st EXCEPT !.length = lbase[code.v[1]],
                                        !.mode = IF lext[code.v[1]] > 0 THEN "LENEXT"
                                                 ELSE "DIST"]
                    /\ UNCHANGED ins
          /\ UNCHANGED <<dpc, out>>

LenExt ==
    /\ Running("LENEXT")
    /\ \/ ~Enough(code.n) /\ UNCHANGED st /\ Starve(src)
       \/ /\ Enough(code.n)
          /\ st' = [st EXCEPT !.length = @ + code.v[1], !.mode = "DIST"]
          /\ src' = Dropped(src, code.n) /\ Quiet

\* Mutant: the distance is counted from 0.
MatchBufFromZero(len, dist) == [buf |-> MatchIns(len, dist - 1), type |-> 1]

\* DISTEXT and MATCH: the instruction for the match.
MatchBuf(len, dist) == [buf |-> MatchIns(len, dist), type |-> 1]

Dist ==
    /\ Running("DIST")
    /\ \/ ~Enough(Width) /\ UNCHANGED st /\ Starve(src)
       \/ /\ Enough(Width)
          /\ src' = Dropped(src, Width)
          /\ IF code.v[1] = 0 THEN st' = Bad(st) /\ UNCHANGED ins
             ELSE IF dext[code.v[1]] > 0
             THEN /\ st' = [st EXCEPT !.offset = dbase[code.v[1]], !.mode = "DISTEXT"]
                  /\ UNCHANGED ins
             ELSE /\ st' = [st EXCEPT !.offset = dbase[code.v[1]], !.mode = "SENDINS"]
                  /\ ins' = MatchBuf(st.length, dbase[code.v[1]])
          /\ UNCHANGED <<dpc, out>>

DistExt ==
    /\ Running("DISTEXT")
    /\ \/ ~Enough(code.n) /\ UNCHANGED st /\ Starve(src)
       \/ /\ Enough(code.n)
          /\ st' = [st EXCEPT !.offset = @ + code.v[1], !.mode = "SENDINS"]
          /\ ins' = MatchBuf(st.length, st.offset + code.v[1])
          /\ src' = Dropped(src, code.n)
          /\ UNCHANGED <<dpc, out>>

\* One turn of inflate_fast: a whole symbol, written at once.
LengthFast ==
    LET l == code.v[1]
        at(j) == CodeAt(src.at + j)
        nx == IF lext[l] > 0 THEN 1 ELSE 0      \* codes between length and distance
        d == at(nx + 1).v[1]
        len == lbase[l] + (IF nx = 1 THEN at(1).v[1] ELSE 0)
        dist == dbase[d] + (IF dext[d] > 0 THEN at(nx + 2).v[1] ELSE 0)
        skip == Dropped(src, Width)
        bits == Width + lext[l] + (IF d = 0 THEN 1 ELSE usedTree.dist[d] + dext[d])
        count == 2 + nx + (IF d # 0 /\ dext[d] > 0 THEN 1 ELSE 0)
    IN  /\ Running("LEN") /\ InFast
        /\ CASE code.k = "lit" -> /\ out' = out \o LitIns(code.v[1])
                                  /\ src' = skip /\ UNCHANGED st
             [] code.k = "eob" -> /\ out' = out \o EndMark
                                  /\ st' = [st EXCEPT !.mode = "TYPE"]
                                  /\ src' = skip
             [] code.k = "len" /\ l = 0 -> st' = Bad(st) /\ src' = skip /\ UNCHANGED out
             [] code.k = "len" /\ l > 0 ->
                    /\ src' = [Dropped(src, bits) EXCEPT !.at = src.at + count]
                    /\ IF d = 0 THEN st' = Bad(st) /\ UNCHANGED out
                       ELSE out' = out \o MatchIns(len, dist) /\ UNCHANGED st
        /\ UNCHANGED <<dpc, ins>>

SendIns ==
    LET n == Min({left, Len(ins.buf)})
        sent == SubSeq(ins.buf, n + 1, Len(ins.buf))
    IN  /\ Running("SENDINS")
        /\ out' = out \o SubSeq(ins.buf, 1, n)
        /\ ins' = [ins EXCEPT !.buf = sent]
        /\ st' = [st EXCEPT !.mode = IF left = 0 \/ sent # <<>> THEN @
                                     ELSE CASE ins.type \in {2, 4} -> "TYPE"
                                            [] ins.type = 3 -> "DONE"
                                            [] OTHER -> "LEN"]
        /\ dpc' = IF left = 0 THEN "drain" ELSE dpc
        /\ UNCHANGED src

-----------------------------------------------------------------------------
(***************************************************************************)
(* The end of the stream.                                                  *)
(***************************************************************************)
Check ==
    /\ Running("CHECK")
    /\ \/ /\ st.wrap = 0
          /\ st' = [st EXCEPT !.mode = "DONE"]
          /\ UNCHANGED src /\ Quiet
       \/ st.wrap = 1 /\ ~Enough(32) /\ UNCHANGED st /\ Starve(src)
       \/ /\ st.wrap = 1 /\ Enough(32)
          /\ ins' = [buf |-> [j \in 1..4 |-> Byte(0)], type |-> 3]
          /\ st' = [st EXCEPT !.mode = "SENDINS"]
          /\ src' = Dropped(src, 32)
          /\ UNCHANGED <<dpc, out>>

\* Z_STREAM_END, and Z_DATA_ERROR.
Done ==
    /\ Running("DONE")
    /\ dpc' = "drain"
    /\ UNCHANGED <<st, ins, src, out>>

DataError ==
    /\ Running("BAD")
    /\ dpc' = "failed"
    /\ UNCHANGED <<st, ins, src, out>>

InflateStep ==
    /\ \/ ZHead \/ Type \/ Stored \/ Table \/ LenLens \/ CodeLens \/ SendHeader
       \/ Copy \/ Length \/ LenExt \/ Dist \/ DistExt \/ LengthFast \/ SendIns
       \/ Check \/ Done \/ DataError
    /\ UNCHANGED fri

-----------------------------------------------------------------------------
(***************************************************************************)
(* decode_docker.cpp.                                                      *)
(***************************************************************************)
\* j_build_fri up to decompressBytes: the position and the gzip header are
\* appended to the file, and the stream is initialised.
BuildFri ==
    /\ dpc = "build"
    /\ fri' = [fri EXCEPT !.pos = parseGzipFile(gzip)]
    /\ src' = SrcInit(DeflateLength(gzip), gzip.seen[st.wrap])
    /\ dpc' = "fill"
    /\ UNCHANGED <<st, ins, out>>

\* The outer loop of decompressBytes.  The bytes read count as done only
\* after they are inflated.
Fill ==
    /\ dpc = "fill"
    /\ LET n == Min({src.todo, chunk})
       IN  IF src.todo > 0
           THEN src' = [src EXCEPT !.have = n, !.size = n] /\ dpc' = "inflate"
           ELSE UNCHANGED src /\ dpc' = "copy"
    /\ UNCHANGED <<st, ins, out, fri>>

\* Mutant: the bytes inflated are not counted as done.
DrainUncounted ==
    /\ dpc = "drain"
    /\ fri' = [fri EXCEPT !.data = @ \o out]
    /\ out' = <<>>
    /\ dpc' = IF left = 0 THEN "inflate" ELSE "fill"
    /\ UNCHANGED <<st, ins, src>>

\* The inner loop: outBuffer is written, and j_inflate called again when it
\* was full.
Drain ==
    /\ dpc = "drain"
    /\ fri' = [fri EXCEPT !.data = @ \o out]
    /\ out' = <<>>
    /\ IF left = 0 THEN dpc' = "inflate" /\ UNCHANGED src
       ELSE dpc' = "fill" /\ src' = [src EXCEPT !.todo = @ - src.size]
    /\ UNCHANGED <<st, ins>>

\* The rest of j_build_fri: the trailer.
CopyTail ==
    /\ dpc = "copy"
    /\ fri' = [fri EXCEPT !.tail = TRUE]
    /\ dpc' = "decoded"
    /\ UNCHANGED <<st, ins, src, out>>

\* main after a failure: the file is removed and built again as a zlib
\* stream; a second failure is not looked at.
Retry ==
    /\ dpc = "failed"
    /\ \/ /\ st.wrap = 0
          /\ fri' = [fri EXCEPT !.data = <<>>]
          /\ st' = InflateInit(1)
          /\ dpc' = "build"
       \/ /\ st.wrap = 1
          /\ dpc' = "decoded"
          /\ UNCHANGED <<fri, st>>
    /\ out' = <<>>
    /\ UNCHANGED <<ins, src>>

DecodeStep ==
    /\ \/ InflateStep \/ BuildFri \/ Fill \/ Drain \/ CopyTail \/ Retry
    /\ UNCHANGED <<gz, chunk>>

-----------------------------------------------------------------------------
(***************************************************************************)
(* The bytes written and buffered are at every moment the beginning of     *)
(* what the file stands for, wherever the buffers of j_inflate happen to   *)
(* end, for a file that is read from the start of its stream; an intact    *)
(* file is decoded whole.                                                  *)
(***************************************************************************)
DecodesPrefix ==
    /\ dpc \notin {"failed"} /\ Unambiguous(gzip) => IsPrefix(fri.data \o out, gzip.partial)
    /\ dpc = "decoded" /\ Intact(gzip) =>
          fri = [pos |-> DeflateStart(gzip), data |-> gzip.partial, tail |-> TRUE]
=============================================================================
