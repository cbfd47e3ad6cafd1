---------------------------- MODULE EvalBatching ----------------------------
(***************************************************************************)
(* Batching of the evaluation: pipelines/eval/utils.py.                    *)
(*                                                                         *)
(* evalscope calls EvalModel.generate from several threads.  Each call     *)
(* starts the batch thread if there is none, puts its input with a future  *)
(* on batch_queue and waits for the future.  The batch thread collects     *)
(* inputs until there are batch_size of them or nothing came for two       *)
(* seconds, runs them with engine.infer and resolves the futures one by    *)
(* one; an exception goes to all of them.  The thread is a global without  *)
(* a lock, so two first callers can both create one.                       *)
(***************************************************************************)
EXTENDS Integers, Sequences, FiniteSets

CONSTANTS
    Callers,     \* threads that call generate, each again and again
    Sizes,       \* the choices of config.batch_size, one function per evaluation
    MaxBatches,  \* choices of the engine's max_batch_size
    MayRaise     \* whether infer and the conversion of a completion may raise

NoThread == "none"
Pending == "pending"
Failed == "exception"

ASSUME CallersAssumption ==
    IsFiniteSet(Callers) /\ Callers # {} /\ Callers \cap {NoThread, Pending, Failed} = {}
ASSUME SizesAssumption == Sizes \subseteq [Callers -> Nat] /\ Sizes # {}
ASSUME MaxBatchesAssumption == MaxBatches \subseteq Int /\ MaxBatches # {}
ASSUME MayRaiseAssumption == MayRaise \in BOOLEAN

VARIABLES
    size,        \* size[c]: the batch_size of c's calls
    maxBatch,    \* engine.max_batch_size
    pc,          \* where each caller is in generate
    future,      \* the future of c's call: Pending, or what it was resolved with
    batchThread, \* the global batch_thread: the caller that created it
    started,     \* thread objects whose start() was called
    phase,       \* what each batch thread does
    inputs,      \* inputs of each batch thread
    results,     \* completions of each batch thread, named by the input they are for
    done,        \* how many of them it has resolved
    batchQueue

callVars == <<pc, future>>
threadVars == <<phase, inputs, results, done>>
vars == <<size, maxBatch, pc, future, batchThread, started, phase, inputs, results, done, batchQueue>>

\* future[c] = q: resolved with the completion of q's input.
Init ==
    /\ size \in Sizes
    /\ maxBatch \in MaxBatches
    /\ pc = [c \in Callers |-> "new"]
    /\ future = [c \in Callers |-> Pending]
    /\ batchThread = NoThread
    /\ started = {}
    /\ phase = [t \in Callers |-> "collect"]
    /\ inputs = [t \in Callers |-> <<>>]
    /\ results = [t \in Callers |-> <<>>]
    /\ done = [t \in Callers |-> 0]
    /\ batchQueue = <<>>

-----------------------------------------------------------------------------
(* generate *)

At(c, from, to) == pc[c] = from /\ pc' = [pc EXCEPT ![c] = to]

\* generate up to the test of the global: if batch_thread is None.
Call(c) ==
    /\ At(c, "new", IF batchThread = NoThread THEN "create" ELSE "put")
    /\ future' = [future EXCEPT ![c] = Pending]
    /\ UNCHANGED <<size, maxBatch, batchThread, started, threadVars, batchQueue>>

\* batch_thread = Thread(...)
Create(c) ==
    /\ At(c, "create", "start")
    /\ batchThread' = c
    /\ UNCHANGED <<size, maxBatch, future, started, threadVars, batchQueue>>

\* batch_thread.start() looks the global up again: after a race it may name the
\* thread of another caller, and a second start() of one object raises.
StartThread(c) ==
    /\ IF batchThread \in started
       THEN /\ At(c, "start", "returned")
            /\ future' = [future EXCEPT ![c] = Failed]
            /\ UNCHANGED started
       ELSE /\ At(c, "start", "put")
            /\ started' = started \cup {batchThread}
            /\ UNCHANGED future
    /\ UNCHANGED <<size, maxBatch, batchThread, threadVars, batchQueue>>

PutItem(c) ==
    /\ At(c, "put", "wait")
    /\ batchQueue' = Append(batchQueue, c)
    /\ UNCHANGED <<size, maxBatch, future, batchThread, started, threadVars>>

\* future.result()
Return(c) ==
    /\ future[c] # Pending
    /\ At(c, "wait", "returned")
    /\ UNCHANGED <<size, maxBatch, future, batchThread, started, threadVars, batchQueue>>

\* The next sample of the evaluation.
Again(c) ==
    /\ At(c, "returned", "new")
    /\ UNCHANGED <<size, maxBatch, future, batchThread, started, threadVars, batchQueue>>

-----------------------------------------------------------------------------
(* _process_batches *)

Running(t, p) == t \in started /\ phase[t] = p

\* Mutant of Get: the size is tested before the item is added.
Get_TestFirst(t) ==
    /\ Running(t, "collect")
    /\ batchQueue # <<>>
    /\ LET c == Head(batchQueue)
       IN /\ inputs' = [inputs EXCEPT ![t] = Append(@, c)]
          /\ phase' = [phase EXCEPT ![t] = IF Len(inputs[t]) = size[c] THEN "infer" ELSE "collect"]
    /\ batchQueue' = Tail(batchQueue)
    /\ UNCHANGED <<size, maxBatch, callVars, batchThread, started, results, done>>

\* batch_queue.get(timeout=2) returns an item.
Get(t) ==
    /\ Running(t, "collect")
    /\ batchQueue # <<>>
    /\ LET c == Head(batchQueue)
           now == Append(inputs[t], c)
       IN /\ inputs' = [inputs EXCEPT ![t] = now]
          /\ phase' = [phase EXCEPT ![t] = IF Len(now) = size[c] THEN "infer" ELSE "collect"]
    /\ batchQueue' = Tail(batchQueue)
    /\ UNCHANGED <<size, maxBatch, callVars, batchThread, started, results, done>>

\* Mutant of TimeOut: waiting goes on until the batch is full.
TimeOut_Never(t) ==
    /\ Running(t, "collect")
    /\ batchQueue = <<>>
    /\ inputs[t] # <<>>
    /\ phase' = [phase EXCEPT ![t] = IF Len(inputs[t]) >= size[inputs[t][1]] THEN "infer" ELSE "collect"]
    /\ UNCHANGED <<size, maxBatch, callVars, batchThread, started, inputs, results, done, batchQueue>>

\* Empty: what was collected is run, if anything was.
TimeOut(t) ==
    /\ Running(t, "collect")
    /\ batchQueue = <<>>
    /\ inputs[t] # <<>>
    /\ phase' = [phase EXCEPT ![t] = "infer"]
    /\ UNCHANGED <<size, maxBatch, callVars, batchThread, started, inputs, results, done, batchQueue>>

\* Mutant of NextSlice: the step of the loop is one too short.
NextSlice_Overlap(reqs, i) ==
    LET n == IF maxBatch <= 0 THEN Len(reqs) ELSE maxBatch
        first == IF i = 0 THEN 1 ELSE i
    IN SubSeq(reqs, first, IF first + n - 1 < Len(reqs) THEN first + n - 1 ELSE Len(reqs))

\* infer_requests[i:i + max_batch_size]
NextSlice(reqs, i) ==
    LET n == IF maxBatch <= 0 THEN Len(reqs) ELSE maxBatch
    IN SubSeq(reqs, i + 1, IF i + n < Len(reqs) THEN i + n ELSE Len(reqs))

\* One round of the loop of TransformersEngine.infer.  _infer has a result for every
\* request of the slice, so the next slice begins behind what there are results for.
Infer(t) ==
    /\ Running(t, "infer")
    /\ LET now == results[t] \o NextSlice(inputs[t], Len(results[t]))
       IN /\ results' = [results EXCEPT ![t] = now]
          /\ phase' = [phase EXCEPT ![t] = IF Len(now) < Len(inputs[t]) THEN "infer" ELSE "deliver"]
    /\ UNCHANGED <<size, maxBatch, callVars, batchThread, started, inputs, done, batchQueue>>

\* Mutant of Finish: the inputs are kept for the next round.
Finish_KeepInputs(t) ==
    /\ results' = [results EXCEPT ![t] = <<>>]
    /\ done' = [done EXCEPT ![t] = 0]
    /\ phase' = [phase EXCEPT ![t] = "collect"]
    /\ UNCHANGED inputs

\* Mutant of Finish: the count of resolved inputs is kept.
Finish_KeepDone(t) ==
    /\ inputs' = [inputs EXCEPT ![t] = <<>>]
    /\ results' = [results EXCEPT ![t] = <<>>]
    /\ phase' = [phase EXCEPT ![t] = "collect"]
    /\ done' = [done EXCEPT ![t] = Len(inputs[t])]

Finish(t) ==
    /\ inputs' = [inputs EXCEPT ![t] = <<>>]
    /\ results' = [results EXCEPT ![t] = <<>>]
    /\ done' = [done EXCEPT ![t] = 0]
    /\ phase' = [phase EXCEPT ![t] = "collect"]

\* future.set_result for the next input; after the last one a new batch begins.
Deliver(t) ==
    /\ Running(t, "deliver")
    /\ LET i == done[t] + 1
       IN /\ future' = [future EXCEPT ![inputs[t][i]] = results[t][i]]
          /\ IF i = Len(inputs[t])
             THEN Finish(t)
             ELSE done' = [done EXCEPT ![t] = i] /\ UNCHANGED <<inputs, results, phase>>
    /\ UNCHANGED <<size, maxBatch, pc, batchThread, started, batchQueue>>

\* infer or the conversion of a completion raises: set_exception on every future.
\* On one that is resolved already it raises InvalidStateError itself, and the
\* thread ends.
Except(t) ==
    /\ MayRaise
    /\ Running(t, "infer") \/ Running(t, "deliver")
    /\ IF done[t] = 0
       THEN /\ LET all == {inputs[t][k] : k \in DOMAIN inputs[t]}
               IN future' = [c \in Callers |-> IF c \in all THEN Failed ELSE future[c]]
            /\ Finish(t)
       ELSE /\ phase' = [phase EXCEPT ![t] = "dead"]
            /\ UNCHANGED <<future, inputs, results, done>>
    /\ UNCHANGED <<size, maxBatch, pc, batchThread, started, batchQueue>>

Generate(c) == Create(c) \/ StartThread(c) \/ PutItem(c) \/ Return(c)
ProcessBatches(t) == Get(t) \/ TimeOut(t) \/ Infer(t) \/ Deliver(t)

Next == \E c \in Callers :
    \/ Call(c) \/ Create(c) \/ StartThread(c) \/ PutItem(c) \/ Return(c) \/ Again(c)
    \/ Get(c) \/ TimeOut(c) \/ Infer(c) \/ Deliver(c) \/ Except(c)

Spec == Init /\ [][Next]_vars

\* Threads that can run do; nobody has to call again.
FairSpec == Spec /\ \A c \in Callers : WF_vars(Generate(c)) /\ WF_vars(ProcessBatches(c))

-----------------------------------------------------------------------------
(* Properties *)

\* Type invariant.
TypeOK ==
    /\ size \in Sizes /\ maxBatch \in MaxBatches
    /\ pc \in [Callers -> {"new", "create", "start", "put", "wait", "returned"}]
    /\ future \in [Callers -> Callers \cup {Pending, Failed}]
    /\ batchThread \in Callers \cup {NoThread}
    /\ started \subseteq Callers
    /\ phase \in [Callers -> {"collect", "infer", "deliver", "dead"}]
    /\ inputs \in [Callers -> Seq(Callers)]
    /\ results \in [Callers -> Seq(Callers)]
    /\ done \in [Callers -> Nat]
    /\ \A t \in Callers : done[t] = 0 \/ done[t] \in 1 .. Len(inputs[t]) - 1
    /\ batchQueue \in Seq(Callers)

\* The positions of the inputs a batch thread has still to resolve.
Open(t) == done[t] + 1 .. Len(inputs[t])

\* NoneLost: a call whose future is pending is in the queue or in the unresolved part
\* of one batch, and nowhere twice, also when two batch threads share the queue.
NoneLost ==
    \A c \in Callers :
        Cardinality({i \in DOMAIN batchQueue : batchQueue[i] = c})
        + Cardinality(UNION {{<<t, i>> : i \in {k \in Open(t) : inputs[t][k] = c}} : t \in Callers})
        = IF pc[c] = "wait" /\ future[c] = Pending THEN 1 ELSE 0

\* BatchBound: when all calls ask for one batch size no batch is larger (the test of the
\* code is an equality, so every item must meet it).
BatchBound ==
    \A t \in Callers : \A c \in Callers :
        size[c] > 0 /\ (\A d \in Callers : size[d] = size[c]) => Len(inputs[t]) <= size[c]

\* A call as its caller sees it.
Stage == [c \in Callers |->
             CASE pc[c] = "new" -> "new"
               [] pc[c] \notin {"new", "returned"} -> "asked"
               [] pc[c] = "returned" /\ future[c] = Failed -> "failed"
               [] pc[c] = "returned" /\ future[c] = c -> "answered"
               [] pc[c] = "returned" /\ future[c] \notin {Failed, c} -> "wrong"]

Service == INSTANCE AnswerService WITH Requests <- Callers, state <- Stage

\* ImplementsAnswers: the race for the thread, the batches and the exceptions together
\* are the AnswerService: each call returns once, with the completion of its own input
\* or with an exception.
ImplementsAnswers == Service!Spec

\* Answered: every call returns, unless a batch thread has died (which ends the service
\* for those it left behind).
Answered ==
    \A c \in Callers :
        pc[c] \in {"create", "put"} ~> (pc[c] = "returned" \/ \E t \in Callers : phase[t] = "dead")

=============================================================================
