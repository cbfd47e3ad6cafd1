---------------------------- MODULE AsyncGenerate ----------------------------
(***************************************************************************)
(* GRPO training with async_generate: the trainer scores and trains on one *)
(* rollout while the next one is generated.                                *)
(*                                                                         *)
(* Two threads of the trainer's main process share the vLLM client and the *)
(* global sequence_parallel object.  The main thread runs the Hugging Face *)
(* loop: it moves weights to vLLM, submits rollouts and takes finished     *)
(* ones from a queue, for training from train_queue and for evaluation     *)
(* from eval_queue (_queue chooses by control.should_evaluate).  The other *)
(* thread (an executor with one worker) runs the submitted rollouts and    *)
(* the callback that puts each result into the queue that was current when *)
(* it was submitted; add_done_callback runs the callback in the main       *)
(* thread if the rollout is over by then.                                  *)
(*                                                                         *)
(* A queue is filled one ahead: _prefetch puts the first result, and every *)
(* generation submits a rollout and then takes the result of an earlier    *)
(* one.  No lock keeps the threads apart; the waits on the queues do.      *)
(***************************************************************************)
EXTENDS Integers, Sequences, FiniteSets

CONSTANTS
    Configs,     \* the training arguments to try, see Config
    Buckets,     \* weight buckets per move to vLLM (update requests)
    MaxResample, \* bound: rounds of dynamic sampling per generation
    MayFail      \* whether requests to vLLM may raise

Config == [
    microsteps : Nat \ {0},  \* calls of training_step (bound of the training)
    genEvery : Nat \ {0},    \* generate_every: microsteps per generation
    gas : Nat \ {0},         \* gradient_accumulation_steps
    evalSteps : Nat,         \* eval_steps, 0 for eval_strategy no
    evalBatches : Nat \ {0}, \* batches of the evaluation dataloader
    evalOnStart : BOOLEAN,   \* eval_on_start
    sp : Nat \ {0}]          \* sequence_parallel_size

ASSUME ConfigsAssumption == Configs \subseteq Config /\ Configs # {}
ASSUME BucketsAssumption == Buckets \in Nat \ {0}
ASSUME ResampleAssumption == MaxResample \in Nat
ASSUME MayFailAssumption == MayFail \in BOOLEAN

Streams == {"train", "eval"}

VARIABLES
    conf,           \* the arguments of this training
    (* main thread *)
    pc,             \* where it is
    ret,            \* where it goes on after a move of the weights
    mode,           \* model.training: "train" or "eval"
    shouldEvaluate, \* control.should_evaluate
    evalFlag,       \* eval_flag
    evalDone,       \* batches done in this evaluation
    resamples,      \* rounds of dynamic sampling in this generation
    step,           \* _step: microsteps begun
    globalStep,     \* state.global_step
    lastLoaded,     \* _last_loaded_step
    moved,          \* buckets pushed in the move that is under way
    taken,          \* the result it took last
    saved,          \* what _disable_sp_context will restore, per thread
    (* shared *)
    trainQ, evalQ,  \* train_queue and eval_queue
    spSize,         \* sequence_parallel.world_size
    (* executor thread *)
    tasks,          \* submitted rollouts; the first one is worked on
    seen,           \* weights that rollout was generated with so far
    failed,         \* some rollout has raised
    (* vLLM *)
    engine,         \* engine[b]: the global step bucket b was pushed at
    (* history *)
    asked           \* asked[s]: rollouts asked for in stream s

mainVars == <<pc, ret, mode, shouldEvaluate, evalFlag, evalDone, resamples,
              step, globalStep, lastLoaded, moved, taken>>
spVars == <<saved, spSize>>
queueVars == <<trainQ, evalQ>>
taskVars == <<tasks, seen, failed>>
vars == <<conf, mainVars, spVars, queueVars, taskVars, engine, asked>>

NoResult == [stream |-> "train", serial |-> 0, at |-> -1, vers |-> {}]

Init ==
    /\ conf \in Configs
    /\ pc = "prefetch" /\ ret = "start" /\ mode = "train"
    /\ shouldEvaluate = FALSE /\ evalFlag = FALSE /\ evalDone = 0 /\ resamples = 0
    /\ step = 0 /\ globalStep = 0 /\ lastLoaded = -1 /\ moved = 0
    /\ taken = NoResult
    /\ saved = [t \in {"main", "executor"} |-> conf.sp]
    /\ spSize = conf.sp
    /\ trainQ = <<>> /\ evalQ = <<>>
    /\ tasks = <<>> /\ seen = {} /\ failed = FALSE
    /\ engine = [b \in 1 .. Buckets |-> -1]
    /\ asked = [s \in Streams |-> 0]

-----------------------------------------------------------------------------
(* The queues and the sequence-parallel switch.                            *)

\* The property _queue.
CurrentQueue == IF shouldEvaluate THEN "eval" ELSE "train"
Queue == IF shouldEvaluate THEN evalQ ELSE trainQ

Put(q, r) ==
    /\ trainQ' = IF q = "train" THEN Append(trainQ, r) ELSE trainQ
    /\ evalQ' = IF q = "eval" THEN Append(evalQ, r) ELSE evalQ

\* Entering and leaving _disable_sp_context.
DisableSP(t) ==
    /\ saved' = [saved EXCEPT ![t] = spSize]
    /\ spSize' = 1
RestoreSP(t) ==
    /\ spSize' = saved[t]
    /\ UNCHANGED saved

-----------------------------------------------------------------------------
(* Main thread: moving the weights, and the prefetch.                      *)

\* _prefetch: moves the weights without waiting for a rollout.
Prefetch ==
    /\ pc = "prefetch"
    /\ pc' = IF globalStep # lastLoaded THEN "move" ELSE "sync"
    /\ UNCHANGED <<conf, ret, mode, shouldEvaluate, evalFlag, evalDone, resamples, step,
                   globalStep, lastLoaded, moved, taken, spVars, queueVars, taskVars,
                   engine, asked>>

\* One update request of _move_model_to_vllm.  A rollout that is running
\* meanwhile goes on with what it finds.
PushBucket ==
    /\ pc = "move" /\ moved < Buckets
    /\ moved' = moved + 1
    /\ engine' = [engine EXCEPT ![moved + 1] = globalStep]
    /\ seen' = IF seen # {} THEN seen \union {globalStep} ELSE seen
    /\ UNCHANGED <<conf, pc, ret, mode, shouldEvaluate, evalFlag, evalDone, resamples, step,
                   globalStep, lastLoaded, taken, spVars, queueVars, tasks, failed, asked>>

\* reset_prefix_cache, and _last_loaded_step is set.
EndMove ==
    /\ pc = "move" /\ moved = Buckets
    /\ moved' = 0
    /\ lastLoaded' = globalStep
    /\ pc' = IF ret \in {"start", "evalBatch"} THEN "sync" ELSE "submit"
    /\ UNCHANGED <<conf, ret, mode, shouldEvaluate, evalFlag, evalDone, resamples, step,
                   globalStep, taken, spVars, queueVars, taskVars, engine, asked>>

\* The prefetched rollout runs in the main thread.
SyncInfer ==
    /\ pc = "sync"
    /\ DisableSP("main")
    /\ pc' = "syncInfer"
    /\ UNCHANGED <<conf, ret, mode, shouldEvaluate, evalFlag, evalDone, resamples, step,
                   globalStep, lastLoaded, moved, taken, queueVars, taskVars, engine, asked>>

EndSyncInfer ==
    /\ pc = "syncInfer"
    /\ RestoreSP("main")
    /\ asked' = [asked EXCEPT ![mode] = @ + 1]
    /\ Put(CurrentQueue, [stream |-> mode, serial |-> asked'[mode], at |-> globalStep,
                          vers |-> {engine[b] : b \in 1 .. Buckets}])
    /\ pc' = ret
    /\ UNCHANGED <<conf, ret, mode, shouldEvaluate, evalFlag, evalDone, resamples, step,
                   globalStep, lastLoaded, moved, taken, taskVars, engine>>

\* A request of the main thread is refused: the training ends with an error.
Raise ==
    /\ MayFail
    /\ pc \in {"move", "syncInfer"}
    /\ pc' = "raised"
    /\ UNCHANGED <<conf, ret, mode, shouldEvaluate, evalFlag, evalDone, resamples, step,
                   globalStep, lastLoaded, moved, taken, spVars, queueVars, taskVars,
                   engine, asked>>

-----------------------------------------------------------------------------
(* Main thread: _generate_and_score_completions.                           *)

\* Mutant of Generate: the move does not wait for the rollout in flight.
Generate_NoWait ==
    /\ pc = "generate"
    /\ IF globalStep # lastLoaded
       THEN pc' = "move" /\ ret' = "submit"
       ELSE pc' = "submit" /\ UNCHANGED ret
    /\ UNCHANGED <<conf, mode, shouldEvaluate, evalFlag, evalDone, resamples, step,
                   globalStep, lastLoaded, moved, taken, spVars, queueVars, taskVars,
                   engine, asked>>

\* _fast_infer: if the weights changed, _wait_queue and then the move.
Generate ==
    /\ pc = "generate"
    /\ IF globalStep # lastLoaded
       THEN Queue # <<>> /\ pc' = "move" /\ ret' = "submit"
       ELSE pc' = "submit" /\ UNCHANGED ret
    /\ UNCHANGED <<conf, mode, shouldEvaluate, evalFlag, evalDone, resamples, step,
                   globalStep, lastLoaded, moved, taken, spVars, queueVars, taskVars,
                   engine, asked>>

\* async_generate_rollout: executor.submit, with the queue of now.
Submit ==
    /\ pc = "submit"
    /\ asked' = [asked EXCEPT ![mode] = @ + 1]
    /\ tasks' = Append(tasks, [queue |-> CurrentQueue, st |-> "queued", callback |-> FALSE,
                               ok |-> TRUE,
                               result |-> [stream |-> mode, serial |-> asked'[mode],
                                           at |-> globalStep, vers |-> {}]])
    /\ pc' = "register"
    /\ UNCHANGED <<conf, ret, mode, shouldEvaluate, evalFlag, evalDone, resamples, step,
                   globalStep, lastLoaded, moved, taken, spVars, queueVars, seen, failed,
                   engine>>

Last == tasks[Len(tasks)]

\* add_done_callback: runs the callback here if the rollout is over.
Register ==
    /\ pc = "register"
    /\ IF Last.st = "over"
       THEN /\ tasks' = SubSeq(tasks, 1, Len(tasks) - 1)
            /\ IF Last.ok THEN Put(Last.queue, Last.result) ELSE UNCHANGED queueVars
       ELSE /\ tasks' = [tasks EXCEPT ![Len(tasks)].callback = TRUE]
            /\ UNCHANGED queueVars
    /\ pc' = "get"
    /\ UNCHANGED <<conf, ret, mode, shouldEvaluate, evalFlag, evalDone, resamples, step,
                   globalStep, lastLoaded, moved, taken, spVars, seen, failed, engine, asked>>

\* Mutant of Get: the result stays in the queue.
Get_Peek ==
    /\ pc = "get"
    /\ Queue # <<>>
    /\ taken' = Head(Queue)
    /\ pc' = "score"
    /\ UNCHANGED <<conf, ret, mode, shouldEvaluate, evalFlag, evalDone, resamples, step,
                   globalStep, lastLoaded, moved, spVars, queueVars, taskVars, engine, asked>>

\* self._queue.get()
Get ==
    /\ pc = "get"
    /\ Queue # <<>>
    /\ taken' = Head(Queue)
    /\ IF shouldEvaluate THEN evalQ' = Tail(evalQ) /\ UNCHANGED trainQ
                         ELSE trainQ' = Tail(trainQ) /\ UNCHANGED evalQ
    /\ pc' = "score"
    /\ UNCHANGED <<conf, ret, mode, shouldEvaluate, evalFlag, evalDone, resamples, step,
                   globalStep, lastLoaded, moved, spVars, taskVars, engine, asked>>

\* _score_completions: a reward function runs without sequence parallelism.
Score ==
    /\ pc = "score"
    /\ DisableSP("main")
    /\ pc' = "reward"
    /\ UNCHANGED <<conf, ret, mode, shouldEvaluate, evalFlag, evalDone, resamples, step,
                   globalStep, lastLoaded, moved, taken, queueVars, taskVars, engine, asked>>

\* ... and returns: _dynamic_sampling may ask for more, a training microstep
\* goes on to the forward pass, an evaluation to its next batch.
EndScore ==
    /\ pc = "reward"
    /\ RestoreSP("main")
    /\ \/ /\ mode = "train" /\ resamples < MaxResample
          /\ resamples' = resamples + 1
          /\ pc' = "generate" /\ UNCHANGED evalDone
       \/ /\ mode = "train"
          /\ resamples' = 0
          /\ pc' = "forward" /\ UNCHANGED evalDone
       \/ /\ mode = "eval"
          /\ evalDone' = evalDone + 1
          /\ pc' = "evalBatch" /\ UNCHANGED resamples
    /\ UNCHANGED <<conf, ret, mode, shouldEvaluate, evalFlag, step, globalStep, lastLoaded,
                   moved, taken, queueVars, taskVars, engine, asked>>

-----------------------------------------------------------------------------
(* Main thread: training_step and evaluation_loop.                         *)

\* After on_train_begin.
Start ==
    /\ pc = "start"
    /\ pc' = IF conf.evalOnStart THEN "evaluate" ELSE "step"
    /\ UNCHANGED <<conf, ret, mode, shouldEvaluate, evalFlag, evalDone, resamples, step,
                   globalStep, lastLoaded, moved, taken, spVars, queueVars, taskVars,
                   engine, asked>>

\* training_step: waits for the eval rollout in flight; _prepare_inputs
\* generates or takes a buffered slice.
TrainingStep ==
    /\ pc = "step"
    /\ evalFlag => evalQ # <<>>
    /\ pc' = IF step % conf.genEvery = 0 THEN "generate" ELSE "forward"
    /\ UNCHANGED <<conf, ret, mode, shouldEvaluate, evalFlag, evalDone, resamples, step,
                   globalStep, lastLoaded, moved, taken, spVars, queueVars, taskVars,
                   engine, asked>>

\* Forward and backward pass and, at the end of an accumulation, the
\* optimizer step; DefaultFlowCallbackNew decides about an evaluation.
Forward ==
    /\ pc = "forward"
    /\ step' = step + 1
    /\ globalStep' = IF step' % conf.gas = 0 THEN globalStep + 1 ELSE globalStep
    /\ shouldEvaluate' = (/\ conf.evalSteps # 0 /\ globalStep' # globalStep
                          /\ globalStep' % conf.evalSteps = 0 \/ step' = conf.microsteps)
    /\ pc' = IF shouldEvaluate' THEN "evaluate"
             ELSE IF step' = conf.microsteps THEN "done" ELSE "step"
    /\ UNCHANGED <<conf, ret, mode, evalFlag, evalDone, resamples, lastLoaded, moved, taken,
                   spVars, queueVars, taskVars, engine, asked>>

\* Mutant of Evaluate: the prefetch of the evaluation does not wait for the
\* training rollout.
Evaluate_NoWait ==
    /\ pc = "evaluate"
    /\ mode' = "eval" /\ evalDone' = 0
    /\ IF Queue = <<>>
       THEN pc' = "prefetch" /\ ret' = "evalBatch"
       ELSE pc' = "evalBatch" /\ UNCHANGED ret
    /\ UNCHANGED <<conf, shouldEvaluate, evalFlag, resamples, step, globalStep, lastLoaded,
                   moved, taken, spVars, queueVars, taskVars, engine, asked>>

\* Mutant of Evaluate: prefetches although the last evaluation left a rollout.
Evaluate_AlwaysPrefetch ==
    /\ pc = "evaluate"
    /\ trainQ # <<>>
    /\ mode' = "eval" /\ evalDone' = 0
    /\ pc' = "prefetch" /\ ret' = "evalBatch"
    /\ UNCHANGED <<conf, shouldEvaluate, evalFlag, resamples, step, globalStep, lastLoaded,
                   moved, taken, spVars, queueVars, taskVars, engine, asked>>

\* evaluation_loop: waits for the training rollout in flight.
Evaluate ==
    /\ pc = "evaluate"
    /\ trainQ # <<>>
    /\ mode' = "eval" /\ evalDone' = 0
    /\ IF Queue = <<>>
       THEN pc' = "prefetch" /\ ret' = "evalBatch"
       ELSE pc' = "evalBatch" /\ UNCHANGED ret
    /\ UNCHANGED <<conf, shouldEvaluate, evalFlag, resamples, step, globalStep, lastLoaded,
                   moved, taken, spVars, queueVars, taskVars, engine, asked>>

\* The next batch, or the end: eval_flag is set, on_evaluate clears
\* should_evaluate.
EvalBatch ==
    /\ pc = "evalBatch"
    /\ IF evalDone < conf.evalBatches
       THEN pc' = "generate" /\ UNCHANGED <<mode, shouldEvaluate, evalFlag>>
       ELSE /\ evalFlag' = TRUE
            /\ shouldEvaluate' = FALSE
            /\ mode' = "train"
            /\ pc' = IF step = conf.microsteps THEN "done" ELSE "step"
    /\ UNCHANGED <<conf, ret, evalDone, resamples, step, globalStep, lastLoaded, moved,
                   taken, spVars, queueVars, taskVars, engine, asked>>

-----------------------------------------------------------------------------
(* The executor thread.                                                    *)

Running == tasks # <<>> /\ tasks[1].st = "running"

\* _engine_infer of the first task: sequence parallelism off, request posted.
TaskBegin ==
    /\ tasks # <<>> /\ tasks[1].st = "queued"
    /\ tasks' = [tasks EXCEPT ![1].st = "running"]
    /\ seen' = {engine[b] : b \in 1 .. Buckets}
    /\ saved' = [saved EXCEPT !["executor"] = spSize] /\ spSize' = 1
    /\ UNCHANGED <<conf, mainVars, queueVars, failed, engine, asked>>

\* The response arrives, or infer raises.
TaskEnd ==
    /\ Running
    /\ \E ok \in IF MayFail THEN BOOLEAN ELSE {TRUE} :
         /\ tasks' = [tasks EXCEPT ![1].st = "over", ![1].ok = ok, ![1].result.vers = seen]
         /\ failed' = (failed \/ ~ok)
    /\ seen' = {}
    /\ RestoreSP("executor")
    /\ UNCHANGED <<conf, mainVars, queueVars, engine, asked>>

\* Mutant of Callback: the queue is chosen when the rollout is over.
Callback_CurrentQueue ==
    /\ tasks # <<>> /\ tasks[1].st = "over" /\ tasks[1].callback
    /\ tasks' = Tail(tasks)
    /\ IF tasks[1].ok THEN Put(CurrentQueue, tasks[1].result) ELSE UNCHANGED queueVars
    /\ UNCHANGED <<conf, mainVars, spVars, seen, failed, engine, asked>>

\* done(future): an exception is only logged.
Callback ==
    /\ tasks # <<>> /\ tasks[1].st = "over" /\ tasks[1].callback
    /\ tasks' = Tail(tasks)
    /\ IF tasks[1].ok THEN Put(tasks[1].queue, tasks[1].result) ELSE UNCHANGED queueVars
    /\ UNCHANGED <<conf, mainVars, spVars, seen, failed, engine, asked>>

-----------------------------------------------------------------------------
Main ==
    \/ Prefetch \/ PushBucket \/ EndMove \/ SyncInfer \/ EndSyncInfer
    \/ Generate \/ Submit \/ Register \/ Get \/ Score \/ EndScore
    \/ Start \/ TrainingStep \/ Forward \/ Evaluate \/ EvalBatch

Executor == TaskBegin \/ TaskEnd \/ Callback

Next == Main \/ Executor \/ Raise

Spec == Init /\ [][Next]_vars

\* Both threads run and vLLM answers.  The polls are loops with a sleep: they
\* see a queue that stays filled.
Fairness == WF_vars(Main) /\ WF_vars(Executor)

FairSpec == Spec /\ Fairness

-----------------------------------------------------------------------------
(* Properties.                                                             *)

Results == [stream : Streams, serial : Nat, at : Int, vers : SUBSET Int]
Tasks == [queue : Streams, st : {"queued", "running", "over"}, callback : BOOLEAN,
          ok : BOOLEAN, result : Results]

\* Types, and what is in memory: at most two rollouts are submitted and at
\* most two results wait in a queue (Queue() is unbounded).
TypeOK ==
    /\ conf \in Configs
    /\ pc \in {"prefetch", "move", "sync", "syncInfer", "start", "step", "generate",
               "submit", "register", "get", "score", "reward", "forward", "evaluate",
               "evalBatch", "done", "raised"}
    /\ ret \in {"start", "evalBatch", "submit"}
    /\ mode \in Streams
    /\ {shouldEvaluate, evalFlag, failed} \subseteq BOOLEAN
    /\ {evalDone, resamples, step, globalStep, moved} \subseteq Nat
    /\ lastLoaded \in Nat \union {-1}
    /\ taken \in Results
    /\ saved \in [{"main", "executor"} -> Nat] /\ spSize \in Nat
    /\ trainQ \in Seq(Results) /\ Len(trainQ) <= 2
    /\ evalQ \in Seq(Results) /\ Len(evalQ) <= 2
    /\ tasks \in Seq(Tasks) /\ Len(tasks) <= 2
    /\ seen \in SUBSET Int
    /\ engine \in [1 .. Buckets -> Int]
    /\ asked \in [Streams -> Nat]

\* While the main thread moves weights, resets the cache or prefetches, no
\* rollout of the executor uses the client: the waits on the queues
\* (_wait_queue, and evaluation_loop and training_step across the two
\* queues) make up for skip_async_check and for the missing lock.
ClientExclusive == pc \in {"move", "syncInfer"} => ~Running

\* Every rollout is generated from its first to its last token with one
\* version of the weights, that of the global step in which it was asked for.
WholeRollout ==
    \A r \in {taken} \union {trainQ[k] : k \in DOMAIN trainQ}
                     \union {evalQ[k] : k \in DOMAIN evalQ} :
      r # NoResult => r.vers = {r.at}

\* What a generation takes is the rollout asked for just before the one it
\* submitted, in the same stream: training never consumes an evaluation
\* rollout or the other way round, and nothing is lost, repeated or
\* overtaken ("rollout will use the model updated in the previous round").
OneBehind ==
    pc = "score" /\ ~failed => taken.stream = mode /\ taken.serial = asked[mode] - 1

\* The training, with its evaluations, comes to its end unless a rollout
\* raises: neither poll loop waits for a rollout nobody asked for.
Finishes == <>(pc \in {"done", "raised"} \/ failed)

\* _disable_sp_context turns sequence parallelism off only for operations
\* that should not use it: a forward pass of the training runs with it.
SequenceParallelKept == pc = "forward" => spSize = conf.sp

=============================================================================
