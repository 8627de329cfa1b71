----------------------------- MODULE PartialCodec -----------------------------
(***************************************************************************)
(* A layer through both tools: decode_docker makes the partially decoded   *)
(* file, and encode_docker makes a gzip file of it again.                  *)
(***************************************************************************)
EXTENDS PartialInflate, PartialDeflate

vars == <<gz, chunk, fri, ivars, evars>>

Init ==
    /\ gz \in DOMAIN Files
    /\ chunk \in Chunks
    /\ DecodeInit
    /\ EncodeInit

\* The encode tool is started when the layer is wanted back.
StartEncode ==
    /\ dpc = "decoded" /\ epc = "idle"
    /\ epc' = "compress"
    /\ UNCHANGED <<gz, chunk, fri, ivars, en, rd, entry, wr>>

Ended == epc \in {"encoded", "aborted", "unusable"} \/ dpc = "crashed"

Next == \/ DecodeStep /\ UNCHANGED evars
        \/ StartEncode
        \/ EncodeStep /\ UNCHANGED ivars
        \/ Ended /\ UNCHANGED vars

Spec == Init /\ [][Next]_vars

\* Each tool is one thread that nothing blocks: it takes steps until it has
\* ended.
FairSpec == Spec /\ ([]<>Ended \/ []<><<Next>>_vars)

-----------------------------------------------------------------------------
(***************************************************************************)
(* The files the encode tool can bring back.                               *)
(***************************************************************************)
\* No block has as many symbols as zlib itself gathers for one.
Fits(g) == \A j \in DOMAIN g.blocks :
              g.blocks[j].type = 0 \/ Len(g.blocks[j].data) < LitBufsize

\* Every match has the length code that compress_block gives it.
OwnLengths(g) ==
    \A j \in DOMAIN g.blocks : \A k \in DOMAIN g.blocks[j].data : Len(g.blocks[j].data[k]) < 3

\* The lengths of each tree are coded on their own, in the runs of send_tree.
Canonical(g) ==
    /\ OwnLengths(g)
    /\ \A j \in DOMAIN g.blocks :
          LET b == g.blocks[j]
          IN  b.type = 2 => b.header = send_all_trees(b.tree)

\* What codes say: block types, symbols and stored bytes, and the trees.
Kinds(codes, kinds) == SelectSeq(codes, LAMBDA c : c.k \in kinds)
DataOf(codes) == SelectSeq(codes, LAMBDA c : c.k \notin {"nums", "bl", "cl", "pad"})
LensIn(codes) == LET cls == Kinds(codes, {"cl"})
                 IN  Expand([j \in DOMAIN cls |-> cls[j].v])

WholeWritten == wr.pending = 0 /\ wr.bi_valid = 0

-----------------------------------------------------------------------------
\* The modes are those of the two switches, the buffers stay within their
\* sizes, and no bit is dropped before it was pulled.  deflate_my works only
\* when pending_buf is empty: it holds the symbols of the block too, and
\* put_byte writes from its start.
PTypeOK ==
    /\ chunk \in Chunks
    /\ st.mode \in InflateModes /\ en.mode \in DeflateModes
    /\ src.have \in 0..chunk /\ rd.have \in 0..chunk
    /\ Len(out) \in 0..chunk /\ wr.room \in 0..chunk
    /\ 8 * src.pulled >= src.pos /\ 8 * rd.pulled >= rd.pos
    /\ wr.pending >= 0 /\ wr.bi_valid \in 0..7
    /\ epc = "deflate" => wr.pending = 0

\* A layer whose trees are coded as zlib codes them comes back byte for byte
\* from j_inflate and j_deflate, wherever their buffers end: the same gzip
\* header, the same codes to the last bit, the same trailer.
RoundTrip ==
    epc = "encoded" /\ Intact(gzip) /\ Fits(gzip) /\ Canonical(gzip) /\ ~en.undef =>
        /\ wr.sent = gzip.stream /\ WholeWritten
        /\ fri.pos = DeflateStart(gzip) /\ fri.tail

\* When encode_docker ends without a failed assert on a file of one member
\* that was read from the start of its stream, the layer was intact, and what
\* it wrote has the trees and the symbols of the layer even if the trees'
\* lengths are coded in other runs.
NoSilentDamage ==
    epc = "encoded" /\ Unambiguous(gzip) /\ Fits(gzip) /\ OwnLengths(gzip) /\ ~en.undef =>
        /\ Intact(gzip)
        /\ WholeWritten
        /\ DataOf(wr.sent) = DataOf(gzip.stream)
        /\ Kinds(wr.sent, {"nums", "bl"}) = Kinds(gzip.stream, {"nums", "bl"})
        /\ LensIn(wr.sent) = LensIn(gzip.stream)

\* No intact layer makes the tools fail: every instruction the decoder
\* writes is one the encoder takes.
ToolsSucceed ==
    Ended /\ dpc # "crashed" /\ Intact(gzip) /\ Fits(gzip) /\ ~en.undef => epc = "encoded"

\* The table inflate_table builds for a tree just read finds every code that
\* inflate_table_my gives the encoder for that tree, at both its levels.
TablesDecode ==
    Running("SEND_HEADER") /\ st.header_flag = 1 /\ st.type = 2 =>
        /\ \A root \in {2, 9} : TableDecodes(st.tree.lit, root, ENOUGH_LENS)
        /\ \A root \in {1, 6} : TableDecodes(st.tree.dist, root, ENOUGH_DISTS)
        /\ TableDecodes(st.tree.bl, 7, ENOUGH_LENS)

\* Both tools come to an end on every file, however their buffers end.
ToolsEnd == <>(Ended \/ en.undef)

-----------------------------------------------------------------------------
(* What a comment of the code says without the conditions above.  TLC finds *)
(* a counterexample.                                                       *)

\* "stream will be complete": when encode_docker's assert holds for a well
\* formed gzip file, all symbols of its deflate data are written back.
StreamComplete ==
    epc = "encoded" /\ WellFormed(gzip) /\ Fits(gzip) /\ ~en.undef =>
        DataOf(wr.sent) = DataOf(gzip.stream)

=============================================================================
