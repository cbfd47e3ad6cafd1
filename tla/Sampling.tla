------------------------------- MODULE Sampling -------------------------------
(***************************************************************************)
(* swift sample: pipelines/sampling/sampling.py and vanilla_sampler.py.    *)
(*                                                                         *)
(* A process samples its piece of the data set batch by batch.  After each *)
(* batch it appends the rows to a temporary file, copies that file to the  *)
(* resume file and writes the index of the batch to the checkpoint file;   *)
(* in the end it renames the resume file to the output file.  A process    *)
(* may be killed at any point, and is started again, with or without       *)
(* --resume.  The processes of several pieces write to one directory: each *)
(* has files of its own, but there is only one checkpoint file.            *)
(*                                                                         *)
(* A row is a sample and one of its answers.  What a batch generates is    *)
(* taken to be the same each time, and a file is cut off between two rows, *)
(* never inside the line of one.  No two samples have the same messages:   *)
(* each is looked up once in the cache, whose list of choices do_sample    *)
(* lengthens afterwards.  Reward models are left out.                      *)
(***************************************************************************)
EXTENDS Lists, SequencesExt

CONSTANTS
    Settings,    \* the data sets and arguments to try, see Setting
    MaxCrashes,  \* how often processes are killed (bound)
    MaxRuns      \* how often a process is started after it was through (bound)

ASSUME BoundsAssumption == MaxCrashes \in Nat /\ MaxRuns \in Nat

Setting == [
    samples : Nat,
    pieces : Nat \ {0},        \* data_range
    size : Nat \ {0},          \* num_sampling_batch_size
    limit : Nat \ {0},         \* num_sampling_batches, or more than there are
    returns : Nat \ {0},       \* num_return_sequences
    cached : Seq(Nat),         \* per sample: how many choices cache_files hold
    fails : SUBSET (Nat \X Nat), \* the answers that are exceptions: sample, choice
    override : BOOLEAN,        \* override_exist_file
    resumes : BOOLEAN]         \* whether a process that was killed is started with --resume

ASSUME SettingsAssumption == Settings \subseteq Setting

VARIABLES
    conf,
    pc,      \* "off", "loop", "copy", "ckpt", "end", "move", "done", or "raised"
    at,      \* _index
    tmp,     \* tmp[p], resume[p], iter[p]: the three files of piece p
    resume,
    iter,
    aside,   \* the output files moved out of the way
    ckpt,    \* the index in ckpt_state.json
    crashes, \* per piece: how often it was killed
    runs,    \* per piece: how often it was started after it was through
    torn     \* history: whether a process was killed while it wrote one of its records

vars == <<conf, pc, at, tmp, resume, iter, aside, ckpt, crashes, runs, torn>>

Pieces == 1 .. conf.pieces
File(rows) == [exists |-> TRUE, rows |-> rows]
Absent == [exists |-> FALSE, rows |-> <<>>]
NoIndex == -1
TornIndex == -2     \* a truncated checkpoint file, which is not JSON

Init ==
    /\ conf \in Settings
    /\ pc = [p \in Pieces |-> "off"]
    /\ at = [p \in Pieces |-> 0]
    /\ tmp = [p \in Pieces |-> Absent]
    /\ resume = [p \in Pieces |-> Absent]
    /\ iter = [p \in Pieces |-> Absent]
    /\ aside = [p \in Pieces |-> {}]
    /\ ckpt = NoIndex
    /\ crashes = [p \in Pieces |-> 0]
    /\ runs = [p \in Pieces |-> 0]
    /\ torn = FALSE

Least(a, b) == IF a < b THEN a ELSE b

-----------------------------------------------------------------------------
(* What a batch generates *)

\* _get_dataset: the samples of a piece.
PieceLen == conf.samples \div conf.pieces
Piece(p) == [i \in 1 .. PieceLen |-> PieceLen * (p - 1) + i]

\* num_sampling_batches after it was bounded.
Batches == Least(conf.limit, PieceLen \div conf.size)
Batch(p, i) == SubSeq(Piece(p), conf.size * i + 1, conf.size * (i + 1))

IsCached(s) == conf.cached[s] = conf.returns

\* The rows that are sent to the engine, num_return_sequences times each, and the answers.
Asked(batch) == Without(batch, {s \in 1 .. conf.samples : IsCached(s)})
RespList(batch) ==
    LET asked == Asked(batch)
    IN  [j \in 1 .. conf.returns * Len(asked) |->
            <<asked[((j - 1) \div conf.returns) + 1], ((j - 1) % conf.returns) + 1>>]

\* Mutant of Cur: the counter stays where it is.
Cur_Stuck(batch, i) == 0

\* _cur when row i is reached: the rows before it that were sent.
Cur(batch, i) == Cardinality({k \in 1 .. i - 1 : ~IsCached(batch[k])})

\* generate: the choices of row i; answers that failed are left out.
RowChoices(batch, i) ==
    IF IsCached(batch[i])
    THEN [k \in 1 .. conf.returns |-> <<batch[i], k>>]
    ELSE Without(SubSeq(RespList(batch), conf.returns * Cur(batch, i) + 1,
                                         conf.returns * (Cur(batch, i) + 1)),
                 conf.fails)

\* do_sample: a row of the file for every choice.
DoSample(batch) ==
    Joined([i \in DOMAIN batch |->
                LET choices == RowChoices(batch, i)
                IN  [c \in DOMAIN choices |-> [sample |-> batch[i], answer |-> choices[c]]]],
           Len(batch))

-----------------------------------------------------------------------------
(* run *)

AfterBatch(i) == IF i < Batches THEN "loop" ELSE "end"

\* Mutant of Start: the resume file is moved, not copied.
Start_Move(p) ==
    /\ \/ pc[p] = "off" /\ UNCHANGED runs
       \/ pc[p] = "done" /\ runs[p] < MaxRuns /\ runs' = [runs EXCEPT ![p] = @ + 1]
    /\ IF iter[p].exists /\ ~conf.override
       THEN /\ pc' = [pc EXCEPT ![p] = "done"]
            /\ UNCHANGED <<at, tmp, resume>>
       ELSE LET resuming == conf.resumes /\ pc[p] = "off" /\ crashes[p] > 0
                index == IF resuming /\ ckpt # NoIndex THEN ckpt ELSE -1
            IN IF index = TornIndex
               THEN /\ pc' = [pc EXCEPT ![p] = "raised"]
                    /\ UNCHANGED <<at, tmp, resume>>
               ELSE /\ tmp' = [tmp EXCEPT ![p] =
                                  IF ~resuming THEN File(<<>>)
                                  ELSE IF resume[p].exists THEN resume[p]
                                  ELSE File(tmp[p].rows)]
                    /\ resume' = [resume EXCEPT ![p] = IF resuming THEN Absent ELSE @]
                    /\ at' = [at EXCEPT ![p] = index + 1]
                    /\ pc' = [pc EXCEPT ![p] = AfterBatch(index + 1)]
    /\ UNCHANGED <<conf, iter, aside, ckpt, crashes, torn>>

\* From the start to the first batch that is not skipped.  A copy of the resume file
\* that is cut off here is made again by the next start.
Start(p) ==
    /\ \/ pc[p] = "off" /\ UNCHANGED runs
       \/ pc[p] = "done" /\ runs[p] < MaxRuns /\ runs' = [runs EXCEPT ![p] = @ + 1]
    /\ IF iter[p].exists /\ ~conf.override
       THEN /\ pc' = [pc EXCEPT ![p] = "done"]
            /\ UNCHANGED <<at, tmp>>
       ELSE LET resuming == conf.resumes /\ pc[p] = "off" /\ crashes[p] > 0
                index == IF resuming /\ ckpt # NoIndex THEN ckpt ELSE -1
            IN IF index = TornIndex
               THEN /\ pc' = [pc EXCEPT ![p] = "raised"]
                    /\ UNCHANGED <<at, tmp>>
               ELSE /\ tmp' = [tmp EXCEPT ![p] =
                                  IF ~resuming THEN File(<<>>)
                                  ELSE IF resume[p].exists THEN resume[p]
                                  ELSE File(tmp[p].rows)]
                    /\ at' = [at EXCEPT ![p] = index + 1]
                    /\ pc' = [pc EXCEPT ![p] = AfterBatch(index + 1)]
    /\ UNCHANGED <<conf, resume, iter, aside, ckpt, crashes, torn>>

\* Mutant of Write: the index is written before the rows are safe.
Write_IndexFirst(p) ==
    /\ pc[p] = "loop"
    /\ tmp' = [tmp EXCEPT ![p] = File(tmp[p].rows \o DoSample(Batch(p, at[p])))]
    /\ pc' = [pc EXCEPT ![p] = "copy"]
    /\ ckpt' = at[p]
    /\ UNCHANGED <<conf, at, resume, iter, aside, crashes, runs, torn>>

\* do_sample, writelines and flush.
Write(p) ==
    /\ pc[p] = "loop"
    /\ tmp' = [tmp EXCEPT ![p] = File(tmp[p].rows \o DoSample(Batch(p, at[p])))]
    /\ pc' = [pc EXCEPT ![p] = "copy"]
    /\ UNCHANGED <<conf, at, resume, iter, aside, ckpt, crashes, runs, torn>>

Copy(p) ==
    /\ pc[p] = "copy"
    /\ resume' = [resume EXCEPT ![p] = tmp[p]]
    /\ pc' = [pc EXCEPT ![p] = "ckpt"]
    /\ UNCHANGED <<conf, at, tmp, iter, aside, ckpt, crashes, runs, torn>>

WriteIndex(p) ==
    /\ pc[p] = "ckpt"
    /\ ckpt' = at[p]
    /\ at' = [at EXCEPT ![p] = @ + 1]
    /\ pc' = [pc EXCEPT ![p] = AfterBatch(at[p] + 1)]
    /\ UNCHANGED <<conf, tmp, resume, iter, aside, crashes, runs, torn>>

\* An output file that exists is renamed.
MoveAside(p) ==
    /\ pc[p] = "end"
    /\ IF iter[p].exists
       THEN /\ aside' = [aside EXCEPT ![p] = @ \cup {iter[p].rows}]
            /\ iter' = [iter EXCEPT ![p] = Absent]
       ELSE UNCHANGED <<aside, iter>>
    /\ pc' = [pc EXCEPT ![p] = "move"]
    /\ UNCHANGED <<conf, at, tmp, resume, ckpt, crashes, runs, torn>>

\* The resume file becomes the output file.
MoveResume(p) ==
    /\ pc[p] = "move"
    /\ IF resume[p].exists
       THEN /\ iter' = [iter EXCEPT ![p] = resume[p]]
            /\ resume' = [resume EXCEPT ![p] = Absent]
            /\ pc' = [pc EXCEPT ![p] = "done"]
       ELSE /\ pc' = [pc EXCEPT ![p] = "raised"]
            /\ UNCHANGED <<iter, resume>>
    /\ UNCHANGED <<conf, at, tmp, aside, ckpt, crashes, runs, torn>>

\* The process is killed.  A file it was writing may be left cut off: the rows of the
\* batch in the temporary file, the resume file, or the checkpoint file.
Crash(p) ==
    /\ pc[p] \in {"loop", "copy", "ckpt", "end", "move"}
    /\ crashes[p] < MaxCrashes
    /\ crashes' = [crashes EXCEPT ![p] = @ + 1]
    /\ pc' = [pc EXCEPT ![p] = "off"]
    /\ \/ UNCHANGED <<tmp, resume, ckpt, torn>>
       \/ /\ pc[p] = "loop"
          /\ \E rows \in Prefixes(DoSample(Batch(p, at[p]))) :
                 tmp' = [tmp EXCEPT ![p] = File(tmp[p].rows \o rows)]
          /\ UNCHANGED <<resume, ckpt, torn>>
       \/ /\ pc[p] = "copy"
          /\ \E rows \in Prefixes(tmp[p].rows) : resume' = [resume EXCEPT ![p] = File(rows)]
          /\ torn' = TRUE
          /\ UNCHANGED <<tmp, ckpt>>
       \/ /\ pc[p] = "ckpt"
          /\ ckpt' = TornIndex
          /\ torn' = TRUE
          /\ UNCHANGED <<tmp, resume>>
    /\ UNCHANGED <<conf, at, iter, aside, runs>>

Run(p) == Start(p) \/ Write(p) \/ Copy(p) \/ WriteIndex(p) \/ MoveAside(p) \/ MoveResume(p)

Next == \E p \in Pieces : Run(p) \/ Crash(p)

Spec == Init /\ [][Next]_vars

\* A process that was started goes on, and one that was killed is started again.
AllPieces == UNION {1 .. c.pieces : c \in Settings}
FairSpec == Spec /\ \A p \in AllPieces : WF_vars(p \in Pieces /\ Run(p))

-----------------------------------------------------------------------------
(* Properties *)

\* The index read back is the process's own: nothing is resumed, or the directory
\* holds one output file and it is made once; and no record was cut off.
Own == ~conf.resumes \/ (conf.pieces = 1 /\ ~conf.override /\ ~torn)

Wanted(p) == Joined([i \in 1 .. Batches |-> DoSample(Batch(p, i - 1))], Batches)
Output(p) == aside[p] \cup (IF iter[p].exists THEN {iter[p].rows} ELSE {})

\* Complete: however often the processes were killed and started again, an output file
\* has the rows of every batch of its piece, each once and at most once more for every
\* time the process was killed; together the pieces leave less than one batch each, and
\* the samples that cannot be dealt evenly, aside.
Complete ==
    Own =>
    /\ \A p \in Pieces : \A rows \in Output(p) :
           /\ ToSet(rows) = ToSet(Wanted(p))
           /\ \A row \in ToSet(rows) :
                  Times(row, rows) - 1 <= IF conf.resumes THEN crashes[p] ELSE 0
    /\ (/\ \A p \in Pieces : pc[p] = "done"
        /\ conf.limit >= PieceLen
        /\ conf.fails = {}) =>
           LET sampled == UNION {{row.sample : row \in ToSet(iter[p].rows)} : p \in Pieces}
           IN conf.samples - Cardinality(sampled) <= conf.pieces * conf.size - 1

\* OwnChoices: a row holds an answer that was given to its own sample, in whatever way
\* cached, sent and failed ones are mixed in the batch.
OwnChoices ==
    \A p \in Pieces : \A rows \in Output(p) \cup {tmp[p].rows, resume[p].rows} :
        \A row \in ToSet(rows) : row.sample = row.answer[1]

\* Finishes: once it is not killed any more every process comes to its end, with the
\* output file in place, unless its piece has no batch at all.
Finishes ==
    \A p \in AllPieces :
        <>[](p \in Pieces /\ Own /\ Batches > 0 => pc[p] = "done" /\ iter[p].exists)

=============================================================================
