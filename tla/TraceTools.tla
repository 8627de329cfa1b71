----------------------------- MODULE TraceTools -----------------------------
(***************************************************************************)
(* The three programs that compress a trace of blocks, one at a time.      *)
(***************************************************************************)
EXTENDS DeltaStore, BruteForce

CONSTANT BFTraces       \* the traces the brute-force search is run on

ASSUME SearchAssumption == \A t \in BFTraces : t \in Seq(Contents) /\ t # <<>>

vars == <<trace, dsvars, bfvars>>

Init ==
    /\ DSInit /\ BFInit
    /\ \/ prog \in {"finesse", "deepsketch"} /\ trace \in Traces
       \/ prog = "none" /\ trace \in BFTraces

Next ==
    \/ DSNext /\ UNCHANGED <<trace, bfvars>>
    \/ prog = "none" /\ BFNext /\ UNCHANGED <<trace, dsvars>>

\* The threads and main of the search get the processor (nobody need start
\* the program or kill it).
Fairness ==
    /\ WF_vars(prog = "none" /\ (Join \/ PrintResult) /\ UNCHANGED <<trace, dsvars>>)
    /\ \A t \in Threads :
          WF_vars(prog = "none" /\ (Take(t) \/ Return(t) \/ Found(t)) /\ UNCHANGED <<trace, dsvars>>)

Spec == Init /\ [][Next]_vars /\ Fairness

\* The tables, batches and jobs of the programs are well-formed.
TTTypeOK == DSTypeOK /\ BFTypeOK
=============================================================================
