----------------------------- MODULE BlockTrace -----------------------------
(***************************************************************************)
(* A trace of blocks as the programs under src/training/ read it, and how  *)
(* well each block compresses.  Blocks are numbered from 1 and stand for   *)
(* their contents: the 64-bit hash the programs compare is taken to be     *)
(* free of collisions.                                                     *)
(***************************************************************************)
EXTENDS Integers, Sequences, FiniteSets, SequencesExt

CONSTANTS Traces,       \* the traces the programs are run on
          Contents,     \* the contents of a block
          BLOCK_SIZE,
          Lz4,          \* Lz4[c]: what LZ4_compress_default makes of c
          Delta         \* Delta[c][d]: what xdelta3_compress makes of c against d

ASSUME TraceAssumption ==
    /\ \A t \in Traces : t \in Seq(Contents) /\ t # <<>>
    /\ BLOCK_SIZE \in Nat \ {0}
    /\ \A c, d \in Contents : Lz4[c] \in Nat \ {0} /\ Delta[c][d] \in Nat \ {0}

VARIABLE trace          \* the trace this program reads

N == Len(trace)
NoRef == -1

\* The first block with each content: what the hash set lets through.
UniqueBlocks == {b \in 1..N : \A a \in 1..(b - 1) : trace[a] # trace[b]}
=============================================================================
