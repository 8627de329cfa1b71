----------------------------- MODULE BruteForce -----------------------------
(***************************************************************************)
(* bf_xdelta3_all (src/training/bruteforce/): threads look for the best    *)
(* reference of every unique block among all unique blocks before it.  A   *)
(* thread takes the least block to do under the mutex, and puts what it    *)
(* found under the mutex into result and, as a line, into the stream of    *)
(* the temporary file.  The program may be killed at any point and run     *)
(* again: restore_result reads the lines that reached the file and the     *)
(* blocks they name are not searched again.                                *)
(***************************************************************************)
EXTENDS BlockTrace

CONSTANTS Threads,      \* 1..NUM_THREAD
          MaxWork       \* bound: how often the program is started times the unique blocks

ASSUME ThreadsAssumption == Threads # {} /\ MaxWork \in Nat \ {0}

VARIABLES runs,         \* how often it was started
          phase,        \* of main: "off", "threads", "closed", "end"
          todo,         \* unique blocks nobody took yet
          job,          \* the block each thread searches for; 0 in between, -1 returned
          result,       \* triples of block, reference, size
          buffer,       \* what fprintf put into the stream and the file has not got
          temp,         \* the text of the temporary file
          printed,      \* the triples of the result file
          cut           \* history: a kill left a line of the file unfinished

bfvars == <<runs, phase, todo, job, result, buffer, temp, printed, cut>>

-----------------------------------------------------------------------------
(***************************************************************************)
(* Text: numbers and the white space between them.  A file cut inside a    *)
(* line has no white space before what is appended to it, and the digits   *)
(* of two numbers run together.                                            *)
(***************************************************************************)
Blank == <<"blank">>
Number(n) == <<"number", n>>

\* Mutant: the reference is written first.
LineRefFirst(t) == <<Number(t[2]), Blank, Number(t[1]), Blank, Number(t[3]), Blank>>

Line(t) == <<Number(t[1]), Blank, Number(t[2]), Blank, Number(t[3]), Blank>>

\* The digits of n behind those of m; n, the number of a block, has at most
\* nine.
Powers == {10, 100, 1000, 10000, 100000, 1000000, 10000000, 100000000, 1000000000}
Shift(n) == CHOOSE p \in Powers : /\ n < p \/ \A q \in Powers : q <= p
                                  /\ \A q \in Powers : n < q => p <= q
Together(m, n) == IF m < 0 THEN Shift(n) * m - n ELSE Shift(n) * m + n

\* fscanf in a text: the numbers so far, the last of them open to further
\* digits, and what the next element of the text does to them.  A sign ends
\* the number before it.
Scan(acc, x) ==
    IF x = Blank THEN [acc EXCEPT !.open = FALSE]
    ELSE IF acc.open /\ x[2] >= 0
    THEN [acc EXCEPT !.seq[Len(acc.seq)] = Together(@, x[2])]
    ELSE [open |-> TRUE, seq |-> Append(acc.seq, x[2])]

Scanned(text) ==
    LET upTo[n \in 0..Len(text)] == IF n = 0 THEN [open |-> FALSE, seq |-> <<>>]
                                    ELSE Scan(upTo[n - 1], text[n])
    IN  upTo
Numbers(text) == Scanned(text)[Len(text)].seq

\* Its triples: three numbers at a time, while there are three.
Triples(text) ==
    LET ns == Numbers(text)
    IN  [k \in 1..(Len(ns) \div 3) |-> <<ns[3 * k - 2], ns[3 * k - 1], ns[3 * k]>>]

-----------------------------------------------------------------------------
\* The search for block b: of its own compression and the deltas against the
\* unique blocks before it the smallest, the first of equals.
Best(b) ==
    LET sizeOf(r) == IF r = NoRef THEN Lz4[trace[b]] ELSE Delta[trace[b]][trace[r]]
        refs == {NoRef} \cup {r \in UniqueBlocks : r < b}
        best == {r \in refs : \A s \in refs : sizeOf(r) <= sizeOf(s)}
        ref == CHOOSE r \in best : \A s \in best : r <= s
    IN  <<b, ref, sizeOf(ref)>>

BFInit ==
    /\ runs = 0
    /\ phase = "off"
    /\ todo = {}
    /\ job = [t \in Threads |-> 0]
    /\ result = <<>> /\ buffer = <<>> /\ temp = <<>> /\ printed = <<>>
    /\ cut = FALSE

\* main: the unique blocks are to do, less those restore_result finds in the
\* file of an earlier run, and the threads start.
Start ==
    /\ phase \in {"off", "end"}
    /\ (runs + 1) * Cardinality(UniqueBlocks) <= MaxWork
    /\ runs' = runs + 1
    /\ result' = Triples(temp)
    /\ todo' = UniqueBlocks \ {t[1] : t \in ToSet(Triples(temp))}
    /\ job' = [t \in Threads |-> 0]
    /\ phase' = "threads"
    /\ buffer' = <<>>
    /\ UNCHANGED <<temp, printed, cut>>

\* Mutant: the block taken stays to do.
TakeKeeps(t) ==
    /\ phase = "threads" /\ job[t] = 0 /\ todo # {}
    /\ LET b == CHOOSE x \in todo : \A y \in todo : x <= y
       IN  /\ UNCHANGED todo
           /\ job' = [job EXCEPT ![t] = b]
    /\ UNCHANGED <<runs, phase, result, buffer, temp, printed, cut>>

\* func: the first critical section.
Take(t) ==
    /\ phase = "threads" /\ job[t] = 0 /\ todo # {}
    /\ LET b == CHOOSE x \in todo : \A y \in todo : x <= y
       IN  /\ todo' = todo \ {b}
           /\ job' = [job EXCEPT ![t] = b]
    /\ UNCHANGED <<runs, phase, result, buffer, temp, printed, cut>>

\* Mutant: a thread with nothing to do looks again.
ReturnWaits(t) ==
    /\ phase = "threads" /\ job[t] = 0 /\ todo = {}
    /\ UNCHANGED job
    /\ UNCHANGED <<runs, phase, todo, result, buffer, temp, printed, cut>>

Return(t) ==
    /\ phase = "threads" /\ job[t] = 0 /\ todo = {}
    /\ job' = [job EXCEPT ![t] = -1]
    /\ UNCHANGED <<runs, phase, todo, result, buffer, temp, printed, cut>>

\* fprintf: the line goes into the stream; a stream that is full on the way
\* is written to the file, so that the file ends anywhere in the line.
Fprintf(line) ==
    \/ /\ buffer' = buffer \o line
       /\ UNCHANGED temp
    \/ \E n \in 1..Len(line) :
          /\ temp' = temp \o buffer \o SubSeq(line, 1, n)
          /\ buffer' = SubSeq(line, n + 1, Len(line))

\* func: the search, then the second critical section.
Found(t) ==
    /\ phase = "threads" /\ job[t] > 0
    /\ result' = Append(result, Best(job[t]))
    /\ Fprintf(Line(Best(job[t])))
    /\ job' = [job EXCEPT ![t] = 0]
    /\ UNCHANGED <<runs, phase, todo, printed, cut>>

\* main: pthread_join of all threads and fclose.
Join ==
    /\ phase = "threads" /\ \A t \in Threads : job[t] = -1
    /\ temp' = temp \o buffer
    /\ buffer' = <<>>
    /\ phase' = "closed"
    /\ UNCHANGED <<runs, todo, job, result, printed, cut>>

Before(s, t) ==
    \/ s[1] < t[1]
    \/ s[1] = t[1] /\ (s[2] < t[2] \/ (s[2] = t[2] /\ s[3] < t[3]))

\* sort: a triple comes behind as many as go before it.
Sorted(seq) ==
    LET ahead(j) == {k \in DOMAIN seq : Before(seq[k], seq[j]) \/ (seq[k] = seq[j] /\ k < j)}
    IN  [n \in DOMAIN seq |-> seq[CHOOSE j \in DOMAIN seq : Cardinality(ahead(j)) = n - 1]]

\* print_result.
PrintResult ==
    /\ phase = "closed"
    /\ printed' = Sorted(result)
    /\ phase' = "end"
    /\ UNCHANGED <<runs, todo, job, result, buffer, temp, cut>>

\* The program is killed: what the stream holds is gone.
Kill ==
    /\ phase \in {"threads", "closed"}
    /\ phase' = "off"
    /\ buffer' = <<>> /\ todo' = {} /\ result' = <<>>
    /\ job' = [t \in Threads |-> 0]
    /\ cut' = (cut \/ Len(temp) % Len(Line(<<0, 0, 0>>)) # 0)
    /\ UNCHANGED <<runs, temp, printed>>

BFNext ==
    \/ Start \/ Join \/ PrintResult \/ Kill
    \/ \E t \in Threads : Take(t) \/ Return(t) \/ Found(t)

-----------------------------------------------------------------------------
Jobs == {job[t] : t \in Threads} \ {0, -1}
Names(seq) == {t[1] : t \in ToSet(seq)}

\* Main, threads and files hold blocks of the trace, and only running
\* threads hold jobs.
BFTypeOK ==
    /\ runs \in 0..MaxWork
    /\ phase \in {"off", "threads", "closed", "end"}
    /\ todo \subseteq UniqueBlocks
    /\ \A t \in Threads : job[t] \in {0, -1} \cup UniqueBlocks
    /\ phase = "off" => Jobs = {} /\ buffer = <<>>

\* While the threads run no unique block is forgotten (it is to do, taken by
\* a thread or in the result), no block is taken by two threads or again
\* while it is to do, and this even after a line of the temporary file was
\* cut and ran together with the next.
NoBlockForgotten ==
    phase \in {"threads", "closed"} =>
        /\ UniqueBlocks \subseteq todo \cup Jobs \cup Names(result)
        /\ todo \cap (Jobs \cup Names(result)) = {} /\ Jobs \cap Names(result) = {}
        /\ \A s, t \in Threads : s # t => job[s] <= 0 \/ job[s] # job[t]

\* As long as no kill cut a line, what a run prints after any number of kills
\* and resumptions is what an undisturbed run prints: one triple for each
\* unique block, the best, in order.
ResumedExact ==
    ~cut /\ printed # <<>> =>
        /\ ToSet(printed) = {Best(b) : b \in UniqueBlocks}
        /\ \A j, k \in DOMAIN printed : j < k => printed[j][1] < printed[k][1]

\* A run that is not killed prints its result.
BFEnds == phase = "threads" ~> phase \in {"off", "end"}
=============================================================================
