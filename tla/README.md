# TLA+ models of OneVL training

OneVL training is a fork of ms-swift: a command-line toolkit that trains, samples,
evaluates and deploys multimodal language models. Most of its source registers
models, templates, tuners and arguments. The part that can go wrong in ways a test
hardly reaches is the part where several processes or threads share state: the
rollout server of GRPO training, the trainer that feeds it, and the queues and worker
processes of data preparation and batching. This directory models that part.

Paths below are relative to `src/`.

## 1. The system

| Part | Code | State it keeps | Operations | Model |
|---|---|---|---|---|
| Rollout server | `swift/pipelines/infer/rollout.py` | one duplex pipe per data-parallel worker process; per worker: engine weights, prefix cache, NCCL communicator | `init_communicator`, `update_named_param`, `update_flattened_params`, `update_adapter_flattened_param`, `close_communicator` (fire and forget), `reset_prefix_cache`, `infer` (call and collect), worker loop, start-up handshake | `RolloutServer` |
| Rollout client | `swift/rlhf_trainers/vllm_client.py` | HTTP sessions, NCCL group per server | `infer`, `init_communicator`, `update_*`, `reset_prefix_cache`, `close_communicator` (atexit) | `RolloutServer`, `ChunkList` (partly) |
| Asynchronous generation | `swift/rlhf_trainers/rollout_mixin.py`, `grpo_trainer.py` | `train_queue`, `eval_queue`, one-worker executor, `eval_flag`, `_last_loaded_step`, `sequence_parallel.world_size` | `_fast_infer`, `async_generate_rollout`, `_prefetch`, `_move_model_to_vllm`, `training_step`, `evaluation_loop` | `AsyncGenerate` |
| GRPO buffering | `grpo_trainer.py` | `_buffered_inputs`, `_step` | `_prepare_inputs`, `_dynamic_sampling`, `split_by_mini_batches` | `AsyncGenerate`, `MultiTurn` (partly) |
| Multi-turn rollout | `swift/rollout/multi_turn.py`, `rollout_mixin.py` | per-request messages, turn counter, token ids, loss masks, log-probabilities | `MultiTurnScheduler.run`, `step`, `_colocate_multi_turn_infer`, `_server_rollout`, `_postprocess_rollout_outputs` | `MultiTurn` |
| TransformersEngine batching | `swift/infer_engine/transformers_engine.py`, `infer_engine.py` | request queue, task pool, worker thread | `infer_async`, `_fetch_infer_requests`, `_infer_worker`, `_infer` | `EngineBatching` |
| Evaluation batching | `swift/pipelines/eval/utils.py` | lazily started thread, queue, futures | `generate`, `_process_batches` | `EvalBatching` |
| Dataset packing | `swift/dataset/packing.py` | input and output queues of worker processes, carried samples | `PackingDataset`, `IterablePackingDataset` | `Packing` |
| Distributed data loading | `swift/dataloader/` | epoch, indices per rank | `BatchSamplerShard`, `DataLoaderShard`, `DataLoaderDispatcher` | `DataLoading` |
| Activation offload | `swift/callbacks/activation_cpu_offload.py` | window map, group buffers, streams | `tensor_push`, `tensor_pop`, forward and backward commits | `ActivationOffload` |
| Sampling pipeline | `swift/pipelines/sampling/` | temporary, resume and output file, `ckpt_state.json` | `run`, `do_sample`, resume | `Sampling` |
| Indexed dataset files, JSONL writer, shutdown manager, resource manager, deployment server | `swift/dataset/indexed_dataset.py`, `swift/utils/`, `swift/ray/`, `swift/pipelines/infer/deploy.py` | small | | none |
| OneVL model, sequence parallelism, templates, models, tuners, UI | the rest | tensors, registries | | none |

**How they interact.** A GRPO trainer owns a `VLLMClient`. For every change of the
weights it posts one header per bucket over HTTP, then broadcasts the bucket over
NCCL, then waits in a barrier; the server process has meanwhile only put the header
on every worker's pipe and answered. After the last bucket it posts
`reset_prefix_cache`, and then rollouts. With `async_generate` a second thread of the
trainer posts the rollouts while the first one computes rewards and trains on the
rollout before; two queues and a few polling loops are all that keeps the threads
apart. The endpoints of the server never await, so it serves one request at a
time; results on the pipes carry no request number.

**What is hard.** Three channels (HTTP, pipe, NCCL) that order messages only each for
itself; exceptions that become `None` or a log line; workers that die between a send
and the receive that belongs to it; a trainer that exits while another one connects;
queues chosen by a flag that changes while the result is under way. `PROJECT.json`
lists each such place with its line (`hazards`), with the properties that cover it or
the reason why none does yet.

**What makes each part correct.**

* Rollout server and client: a result belongs to the request it is returned for; a
  rollout uses the weights pushed last and no prefix block computed with others; the
  answer is in the order of the request without what was computed for placeholders;
  a tensor is loaded under its own header; every request is answered; trainer and
  workers never wait in a circle.
* Asynchronous generation: no weights move under a rollout; each of the two streams
  is consumed exactly one rollout behind; the training ends.
* Engine and evaluation batching: every request is answered exactly once, with its own
  result, run with its own configuration, or with an exception.
* Packing and loading: packed groups partition the samples whatever process is faster, and
  every rank makes the same number of steps.
* Multi-turn rollout: a sample is trained on the tokens that were generated in its place,
  with their masks, log-probabilities and the advantage of its own reward.
* Activation offload: conflicting accesses of three streams are ordered, and each pass
  leaves the handler as it found it.
* Sampling: whatever is killed, an output file has the rows of every batch.

## 2. Modules

### `ChunkList` — cutting up a batch

Pure operators: `chunk_list` of `rlhf_trainers/utils.py` (server side, as evenly as
possible), the ceiling chunks of `VLLMClient.infer` (client side), the placeholder
prompt for a worker whose chunk is empty, and the `zip`/`chain` that put the answers
together. Requests are the numbers 1..n in the caller's order, so that the order of an
answer is visible; prompt 0 is the placeholder. `RolloutServerProofs` has the theorems
on both ways to cut.

### `RolloutServer` — server, workers and one trainer at a time

| Model | Code |
|---|---|
| `http`, `handler`, `got` | requests that reached uvicorn; the handler that is in its `connection.recv()` loop and what it has read |
| `chan[w]`, `repl[w]` | the two directions of the pipe to worker `w`; the command a worker is at stays the head of `chan[w]` until it is done |
| `wk[w]` | where `llm_worker` is: before `ready`, in the loop, in a rendezvous, in a broadcast, between barrier and `load_weights`, dead |
| `comm[w]`, `weights[w]`, `cache[w]` | the worker extension's communicator, the engine's weights, the weights its cached prefix blocks were computed with |
| `lost[w]` | history: which exceptions the worker has only logged |
| `cpc`, `creq`, `answer`, `cgroup`, `sync`, `pushed` | the trainer: where it is, its last request and the response, its group, how far its move of the weights is |

A handler that sends and returns is one action (`HandleFireAndForget`); one that
collects results is `HandleCall`, one `Recv` per connection and `Finish`, because
workers and the trainer run between them. `Broadcast` is a broadcast together with the
barrier after it, since neither ends before every member has arrived; the
load that follows is a separate action of each worker (`Load`), because the trainer
does not wait for it. `GroupForm` is the rendezvous; it meets at a host and port, so
any trainer can meet any `init_communicator` command that is being executed. Faults are a
constant set: an exception in `infer`, in a load or in a reset, a rendezvous timeout,
the death of a worker, the kill of a trainer. A trainer that ends normally or by an
exception posts `close_communicator` from `atexit`; a killed one does not, and its
request may still be in the server.

Abstractions: the three `update_*` endpoints are one operation (they differ in what
the header says); weights are the number of the update they came from, and an update
loads all of it or nothing; a worker process with tensor parallelism is one party;
`infer` asks for `n` prompts, and `n = 0` is what a later server of a client with several
servers is asked for. `asyncio` engines are the case `DP = 1`.

### `RolloutService` — what a trainer may rely on

The abstract specification: one version of the weights; a trainer publishes a new one
or asks for a rollout, which is refused or answered as if generated at one instant with
the version published last, in the order it was asked for. `RolloutServer`
implements it under the mapping at the end of that module (`ImplementsService`):
`pushed` is the version, a pending `infer` request the question, its response the
reply.

### `AsyncGenerate` — two threads and two queues

| Model | Code |
|---|---|
| `pc`, `ret`, `mode`, `step`, `globalStep`, `resamples`, `evalDone` | the main thread: the Hugging Face loop, `_prepare_inputs`, `_generate_and_score_completions`, `_dynamic_sampling`, `evaluation_loop` |
| `shouldEvaluate`, `evalFlag`, `lastLoaded` | `control.should_evaluate`, `eval_flag`, `_last_loaded_step` |
| `trainQ`, `evalQ` | the two `Queue()` objects; `CurrentQueue` is the property `_queue` |
| `tasks`, `seen`, `failed` | the executor's work list; the weights the running rollout has met; history |
| `engine[b]` | per bucket, the global step it was pushed at |
| `spSize`, `saved` | `sequence_parallel.world_size` and what the two open `_disable_sp_context` will restore |

The move of the weights is one action per bucket, so that a rollout running meanwhile
would see a mixture. The vLLM server is seen through its requests only: that each of
them is atomic and answered is what `RolloutService` promises. `Configs` is a set of
training arguments (`generate_every`, accumulation, evaluation period and length,
`eval_on_start`, sequence parallelism); the initial state picks one.

### `AnswerService` — what an inference front end promises

The abstract specification of both batching modules: a request that was put is answered
once, with a result computed for it or with an error, and its caller may then ask again.

### `EngineBatching` — request queue, task pool and worker thread

| Model | Code |
|---|---|
| `status[r]` | where the coroutine `infer_async` of caller `r` is |
| `queue`, `pool` | `_queue`; `_task_pool`, the groups in insertion order |
| `worker`, `batch` | `_task_thread`; what `_infer` works on: the requests `reqs`, those encoded (`good`), the positions of those that cannot be (`errs`), the rows of a stream so far, the row under way and the errors still to be inserted into it (`left`) |
| `inbox[r]`, `got[r]` | the `asyncio.Queue` of the request and what its caller has read |

Between the put and the start of the worker there is a step, so the worker drains, groups
and cuts while others join. The three loops of the worker are loops of the model, one round a
step: `Drain` moves one request from `_queue` to the pool, `Encode` encodes one or notes its
position, `AddError` inserts one exception into the row before `Send` hands it out; only the drain can
see others come. A row of a stream holds text or `None` per request. An
exception in `_infer` ends the worker thread (`strict`, or generation itself), which the
next caller's `_start_infer_worker` does not repair: the thread object still exists.

### `EvalBatching` — a global thread without a lock

Callers are threads: the test of `batch_thread`, the creation and the start are three
steps, so two threads may come to serve one queue. A batch thread collects (the timeout of
two seconds may fire whenever the queue is empty), infers slice by slice of the engine's
`max_batch_size` (`results` counts the completions there are) and resolves the futures one at
a time; an exception before or in the middle goes to all of them, and raises again in
`set_exception` when one is resolved already, which ends the thread.

### `Lists` — what loops over a list leave

`Joined`, `Chosen`, `Without` and `Times` are the loops of `Sampling` and `Packing` that extend a
list or keep what passes a test. They are recursive functions, which the proofs can unfold one
element at a time.

### `Packing` and `DataLoading` — from samples to collective steps

`Packing` has both data sets: worker processes that pack their share chunk by chunk over one
shared queue, and the interval loop of a stream with its encoding processes.
`binpacking` is external: a bin is any set of at most `Capacity` samples. `DataLoading`
extends it with the batch sampler (each rank computes the order and takes its slice) and
the dispatcher (rank 0 reads and scatters); `TrainStep` is the collective.

### `ActivationOffload` — three streams and two commits

The state is the handler's dictionaries and counters, and a vector clock per stream. A copy,
a computation and a release are operations of a stream; `wait_stream` joins clocks. A pair of
conflicting accesses that the clocks do not order sets `raced`.

### `Sampling` — files, checkpoint and kills

Each write of `run` is an action (rows appended, file copied, index written, file renamed),
and a process may be killed before, after or in the middle of the append, the copy and the
index (`Crash`). A run may be started again with `--resume` or without, and pieces of one data set share the checkpoint.
A kill cuts a file between two rows. In the code `writelines` (`sampling.py:91`) may also leave half of a
row's JSON line; a resumed process that appends to such a file (`sampling.py:82`) joins the
half line to its first row, which is not modelled. Nor is a data set that holds the
same messages twice: `do_sample` appends the ground truth to the list of choices it got from the cache
(`vanilla_sampler.py:200`), so a second look at the same entry finds one choice more and asks the engine again.

### `MultiTurn` — one rollout of several turns on every rank

| Model | Code |
|---|---|
| `pc[r]`, `pending[r]`, `replies[r]` | rank `r` in the loop: before the gather of flags, in the turn, before the rollout; `index_to_infer`; `outputs` |
| `dialogue[s]` | `requests[index].messages`, `response_token_ids`, `response_loss_mask`, `rollout_logprobs`, the turn; on a server the local variables of `run()` |
| `merged[r]`, `trained[r]` | the samples after `_postprocess_rollout_outputs`; the mini-batches with advantages |

`Loop` is the code both implementations share: `Heard`, `Finished`, then `Finish` or `Step`.
`Rollout` and `CheckFlags` are collectives of all ranks, `Turn` is local. On a server every
dialogue is a coroutine (`Run`), and `Deliver` is `_server_rollout` after the answer: slices by
position, or, when there are more outputs than requests, the even shares and the merge by
request id. `Score` shares the advantages. Whether a dialogue ends is the scheduler's choice.

A message has a text and, apart from it, token ids. A token decodes to two
characters (`Width`), the least with which a tag can begin inside a token, and characters are named by their token, so a
property can say which of them a text has. `MathTipsScheduler.step` cuts the text at the character where
`<answer>` or `</think>` begins (`KeptText`), and the ids, mask and log-probabilities after the first
token, of at least one, with which the ids decode to at least that many characters (`KeptIds`).
`Cuts` lets the tag begin at every character, the first one included.
The other schedulers cut nothing. Special tokens inside a response, which would
make the decoding longer than the text, responses without text, and a scheduler without tokenizer, which
returns the ids uncut, are left out.

`Aligned` restates `replace_assistant_response_with_ids` and the labels of the template over
this state. Ids and text agree but for the cut: the token before a tip may decode to characters
the text does not have, to none it has only if it is the response's first token; every other
token is in the text in whole, in order. The mask and the log-probabilities follow the
ids exactly.

### `MC*` and `*Proofs`

The `MC` modules only give names to values for the `.cfg` files. The theorems are in
`RolloutServerProofs`, `AsyncGenerateProofs`, `EngineBatchingProofs`, `EvalBatchingProofs`,
`ActivationOffloadProofs`, `SamplingProofs` and `DataLoadingProofs`; `SequenceFacts` has the
lemmas on lists that several of them cite. Operators whose comment
begins with "Mutant of" are plausible bugs in the definition below them; no
specification uses them. Each property of a passing run is violated when its mutant
(`PROJECT.json`, `mutants`) takes the place of the original.

## 3. Runs

| Run | Instance | Shows |
|---|---|---|
| `server_safety` | 2 workers, 2 trainers, 6 requests, rollouts of 0..3 prompts, all faults | `TypeOK`, `ReplyMatch`, `FreshWeights`, `NoStalePrefix`, `InOrder`, `HeaderMatch`, `GroupAgreement` |
| `server_service` | the same with rollouts of 0..2 prompts; workers die and `infer` raises | under fairness: `Responsive`, `Progress`; the refinement `ImplementsService` |
| `async_generate` | 108 trainings of 8 microsteps, 2 buckets, 1 resampling round, failing requests | `TypeOK`, `ClientExclusive`, `WholeRollout`, `OneBehind`; under fairness `Finishes` |
| `async_eval_on_start` | one training with `eval_on_start` | **violates** `Finishes` |
| `async_sequence_parallel` | one training with sequence parallel size 2 | **violates** `SequenceParallelKept` |
| `engine_batching` | 3 callers that ask again and again, 13 engines: two configs or one, limits none, 1 and 2, strict or not, streams; generation may raise | `TypeOK`, `NoneLost`, `OneConfig`; the refinement `ImplementsAnswers`; under fairness `Answered`, `Busy` |
| `engine_stream` | 2 streams in one batch | **violates** `WholeStream` |
| `eval_batching` | 3 callers, equal and mixed batch sizes, exceptions | `TypeOK`, `NoneLost`, `BatchBound`; the refinement `ImplementsAnswers`; under fairness `Answered` |
| `train_data` | 2 ranks, 2 processes; data sets of 0, 4 and 5 samples in all orders, streams with dropped and malformed samples, resumes | `TypeOK`, `Conserved`, `Reproducible`, `TailOnly`; under fairness `AllEnd` |
| `activation_offload` | 3, 4 and 5 layers with up to 2 tensors each, 2 passes | `NoRace`, `TwoGroups`, `Balanced` |
| `sampling` | up to 5 samples, 2 pieces, caches, failed answers, 2 kills, one repeated run | `Complete`, `OwnChoices`; under fairness `Finishes` |
| `multi_turn` | 2 ranks of 1 or 2 prompts, up to 3 turns and 2 tokens of 2 characters, five schedulers, tags at every character, both loss scales | `Aligned`, `OwnOutput`; under fairness `AllLeave` |

**Bounds, and why they are enough.** Two workers are the least number with an order
between connections, a worker that dies before the other is read, and a chunk that is
empty beside one that is not; three prompts make uneven chunks on two workers. Six
requests are what it takes to init, update, reset and roll out and leave two for a
second trainer, a second update or a second rollout; two trainers are one that goes away
and one that comes. The proofs of section 4 have none of these bounds. In
`AsyncGenerate` eight microsteps hold two generations at the longest period and several
evaluations; two buckets are the least for a move that can be interrupted; one
resampling round submits a second rollout in one microstep, which is all a round does.
Three callers are the least that leave one in the pool while a batch of two runs and fill a
batch beyond a size of two; they repeat, so histories are not bounded. Five samples with
chunks, intervals and bins of two make an uneven last chunk, a carried bin and a tail on two
ranks. Five layers have more offload windows than buffers, and a second pass starts from
what the first left. Two kills hit one batch twice, or two places of the protocol; four
samples make two batches, so that one is done when the process dies. Three turns are a first,
a middle and a last one, which are the three branches of the bookkeeping; two prompts on each
of two ranks let one rank end before the other and one dialogue before its neighbour.
Every run has `CHECK_DEADLOCK FALSE`: a server nobody asks anything, a failed start-up,
a worker thread that has died and a training that is over stop, and so does whatever has used up
its bound. What must not stop is stated as liveness instead.

**Fairness, and why the code justifies it.** `RolloutServer`: the event loop, each
worker's `while True: recv` loop and NCCL make progress, and a trainer goes on when it
has a response. Which request it posts next, when it exits and what fails is not
promised. `AsyncGenerate`: both threads are scheduled and vLLM answers
(`Responsive`). Weak fairness is enough: the polls sleep and look again, and a queue
that is filled stays filled until the polling thread itself takes from it.
`EngineBatching`, `EvalBatching`: started threads and coroutines with something to read are
scheduled; that a caller asks is not promised. `DataLoading`, `Sampling`, `MultiTurn`: every
process goes on when it can, a collective ends when all ranks are in it, and an engine answers;
kills are not promised and are bounded.

**What some properties leave out, because the code does not promise it.** `Answered` of
`EngineBatching` is about batches without a limit or a single config: with a limit, a group that
is refilled keeps the groups behind it waiting (`Busy` holds for every setting). `Answered` and
`Busy` end with the worker thread: `strict`, or a model that raises, kills it, and no later
request is answered. `AllEnd` is excused by an encoding process that died on a malformed
sample in strict mode, and by a resume that skips more than there is. `Balanced` and `TwoGroups`
are about forward passes in training mode that have a backward pass. `Complete` and `Finishes` of `Sampling` (`Own`) are about
resumed processes that have the directory to themselves and were not killed while a record was half written. `Aligned` lets the token before a tip
decode to more than the text (section 2, `MultiTurn`), and on a server is about the schedulers of the
repository; see the next paragraph.

**Findings.** (1) With `eval_on_start` the first evaluation runs while
`control.should_evaluate` is false. It therefore works on the training queue and leaves
its last rollout there, sets `eval_flag`, and the first `training_step` then polls
`eval_queue` for ever. (2) `_disable_sp_context` assigns a process-wide variable, and the
rollout thread enters it while the main thread may be in a forward pass, which then
runs without sequence parallelism. (3) The reader of a stream in `infer_async` takes `None` for
the end, and a batched row has `None` for every request without new text: two streams in
one batch cut each other off.

**Observed while modelling, without a run.**

* `MultiTurnScheduler.run` (`multi_turn.py:266`) lacks the last branch of the trainer's loop
  (`rollout_mixin.py:816`). For a scheduler whose `step` returns `response_token_ids` and adds a
  user message, the ids of the turn before the last are put on the last message. No scheduler of
  the repository is of this kind, but the documentation of `step` allows it, so `"ids"` is only checked in mode
  `"trainer"`: adding it to the server's settings violates `Aligned`.
* The two cuts of `MathTipsScheduler.step` (`multi_turn.py:630` and `:634`) need not agree. When
  `<answer>` or `</think>` begins inside a token, the ids keep that token with the beginning of the
  tag; when it begins the response, they keep the first token and the text keeps nothing. The
  mask of that token is 1, so it is trained on, while the second turn was generated after the
  text without it. Ids that decode to exactly the text, without the exception for the token before a tip, are not an
  invariant of the model. No comment or doc of the repository promises
  that they are; `Aligned` says how far they differ.
* A response of special tokens only has an empty text. `MathTipsScheduler.step` then takes the
  message just added for the dummy of a continuation, removes it and writes the tip over the message
  before it, the user's (`multi_turn.py:663`).
* A `step` that returns ids without a mask, for a dialogue that is not continued, leaves one
  mask for several turns, and `replace_assistant_response_with_ids` raises.
* `GYMScheduler.run` appends the next observation also after the last turn that `max_turns`
  allows. With `last_round` no token of such a sample has a label.
* `ThinkingModelTipsScheduler._build_messages` (`multi_turn.py:575`) appends a string instead of
  a message for templates that do not think; the model has thinking templates.
* `_dynamic_sampling` does not look at the last batch it generates, and prompt ids start
  again in every round (`grpo_trainer.py:696`).

Further behaviours are recorded as hazards because nothing in the
repository promises otherwise: after a killed trainer the workers refuse the next
`init_communicator` without telling it; a failed asynchronous rollout is only logged,
and the training then waits for it; an evaluation begins with the rollout the previous one
left.

## 4. What is proved

With TLAPS, for every value of the constants that satisfies the assumptions named in the
modules: any number of workers, prompts, requests and trainers and every set of faults; every
set of training arguments, any number of buckets and microsteps; any number of callers, request
configs, batch limits and rows; any number of calling threads and batch sizes; any number of layers,
tensors and passes; any number of ranks and processes, data sets of any length and quality, any
chunk, interval and bin size, prefetch, batch size and resume; any number of samples, pieces,
answers, kills and runs of a sampling.

The assumptions are only on the constants: numbers are natural, and not zero where the code
divides by them or starts that many processes (`DPAssumption`, `BoundsAssumption`,
`BucketsAssumption`, `ProcsAssumption`, `SizesAssumption`, `RanksAssumption`), sets of callers are
finite and settings are of their type (`SettingsAssumption`, `ConfigsAssumption`,
`FaultsAssumption`). Two theorems have one hypothesis more, which the table names.

| Theorem | Module | States |
|---|---|---|
| `TypeCorrect` | `RolloutServerProofs` | `Spec => []TypeOK` |
| `RepliesMatch` | `RolloutServerProofs` | `Spec => []ReplyMatch` |
| `RolloutsFresh` | `RolloutServerProofs` | `Spec => []FreshWeights` |
| `RolloutsClean` | `RolloutServerProofs` | `Spec => []NoStalePrefix` |
| `GroupsAgree` | `RolloutServerProofs` | `Spec => []GroupAgreement` |
| `HeadersMatch` | `RolloutServerProofs` | `Spec => []HeaderMatch` |
| `ChunksPartition`, `EveryWorkerHasPrompts` | `RolloutServerProofs` | `chunk_list` loses nothing, repeats nothing, keeps the order and is even; nobody is sent an empty list |
| `ServerChunksPartition` | `RolloutServerProofs` | the same for the client's ceiling chunks |
| `AssembleWhole` | `RolloutServerProofs` | the results of the workers, without those for placeholders, are the prompts in the caller's order |
| `RolloutsInOrder` | `RolloutServerProofs` | `Spec => []InOrder` |
| `ServerImplements` | `RolloutServerProofs` | `Spec => ImplementsService` when no load raises: `"load" \notin Faults` |
| `AsyncTypeCorrect` | `AsyncGenerateProofs` | `Spec => []TypeOK` |
| `ClientIsExclusive` | `AsyncGenerateProofs` | `Spec => []ClientExclusive` |
| `RolloutsWhole` | `AsyncGenerateProofs` | `Spec => []WholeRollout` |
| `GenerationsOneBehind` | `AsyncGenerateProofs` | `Spec => [](~conf.evalOnStart => OneBehind)` |
| `EngineTypeCorrect` | `EngineBatchingProofs` | `Spec => []TypeOK` |
| `EngineNoneLost` | `EngineBatchingProofs` | `Spec => []NoneLost` |
| `EngineOneConfig` | `EngineBatchingProofs` | `Spec => []OneConfig` |
| `EngineImplements` | `EngineBatchingProofs` | `Spec => ImplementsAnswers` for engines that do not batch streams: `streams = {}` or `maxBatch = 1` |
| `EvalTypeCorrect` | `EvalBatchingProofs` | `Spec => []TypeOK` |
| `EvalNoneLost` | `EvalBatchingProofs` | `Spec => []NoneLost` |
| `EvalBatchBound` | `EvalBatchingProofs` | `Spec => []BatchBound` |
| `EvalImplements` | `EvalBatchingProofs` | `Spec => ImplementsAnswers`: initial states map to initial states, every step to a step of `AnswerService` or a stutter |
| `NoAccessRaces` | `ActivationOffloadProofs` | `Spec => []NoRace` |
| `TwoGroupsAtMost` | `ActivationOffloadProofs` | `Spec => []TwoGroups` |
| `PassesBalanced` | `ActivationOffloadProofs` | `Spec => []Balanced` |
| `SamplingTypes` | `SamplingProofs` | types of all variables; a process in its loop is at a batch that exists |
| `RowsAreOwn` | `SamplingProofs` | `Spec => []OwnChoices` |
| `FilesSpec` | `SamplingProofs` | what each file and the index hold at every step and after every kill |
| `SamplesComplete` | `SamplingProofs` | `Spec => []Complete` |
| `DataTypes` | `DataLoadingProofs` | `Spec => []TypeOK` |
| `PackedInOrder` | `DataLoadingProofs` | `Spec => []Reproducible` |
| `NoSampleLost` | `DataLoadingProofs` | `Spec => []Conserved` |
| `OnlyTheTail` | `DataLoadingProofs` | `Spec => []TailOnly` |

None of these properties is inductive. What follows is why each of them holds; the inductive
invariants are checked by TLC too, on the instances of the runs.

**Replies, weights and caches of the rollout server.** That a handler reads its own
result depends on what is on the pipes when it starts. The inductive invariant `IInv` of
`RolloutServerProofs` has five parts.

* `TypeOK`.
* `PipeInv`. A handler sends calls only when no worker is dead and returns normally only
  after it has read every answer. So while results can be read at all (a handler is
  reading, or no worker is dead and one may start to) a pipe holds at most one call or
  one result, it is the last command on its pipe, and it belongs to the request being
  handled. After a death the handler that is reading may leave results behind, but no
  later one ever reads: its sends raise first. Requests have their own numbers, so the
  request being handled under the trainer's number is the trainer's request.
* `WeightsFresh`. A worker that is not between barrier and load has the weights pushed
  last, or has logged why not. The only step that changes `pushed` is the broadcast, and
  it takes every worker into the load.
* `CachesInv`. A trainer that is `synced` has had its reset answered; a worker answers the
  reset after the load, because commands are taken in order and a worker in a load takes
  none; so every live worker has an empty cache, or one of its own weights, and is not in
  a load. This stays so until the next broadcast, which ends `synced`.
* `ResultsInv`. Results of the trainer's rollout, on a pipe, read or answered, are good: they
  were computed by a worker in its loop (`WeightsFresh`) with a clean cache (`CachesInv`).

`PipeInv` is inductive with `TypeOK` alone; the others need it.

**Order of a rollout, and the atomic service.** The pieces of the rollout that is being handled are
on their way whole: in the command of each worker, in its result and in what has been read
(`PromptsSent`). `AssembleWhole` then joins them: what is put together from the first `w` workers is
the slice of the prompts up to the end of chunk `w`, so the answer is all of them
(`AnswerWhole`, from which `RolloutsInOrder`). For `ServerImplements` a request is served once and
updates are published in the order of their requests (`ServiceInv`); everything between a request
and its response is a stutter of `RolloutService`, and the response is a reply because its
pieces are good (`AnswerGood`) and whole (`AnswerWhole`). A load that raised leaves a worker with
older weights while the trainer goes on, which is no behaviour of the service. The theorem therefore excludes
the fault `"load"`, and only that one; the run leaves it out too.

**Groups and headers of the rollout server.** The hazard is what an earlier trainer has left
on the pipes. Of its commands only a `close` can take a worker out of its group, and only an
update can take a worker into a broadcast. A group forms only when every worker has no
communicator, so at that moment no `close` of an earlier group and no update that could still
be executed in one is on its way: a trainer posts one `close` per group, and it is the last
thing it posts, while an update that a killed trainer left behind belongs to workers that keep
their communicator, so that no new group forms at all. From the group on, everything ahead of
the trainer's own request on a pipe is harmless, requests are taken in the order of their
numbers, and a broadcast that goes through finds at the head of every pipe the one update the
trainer has posted.

**Asynchronous generation.** Of each of the two streams (training, evaluation) at most one
rollout is asked for and not taken, and two inside a generation, where the next one is submitted
before the last one is taken. The queue the main thread looks at has a result only when nothing of that
stream is in flight, so by the time the weights move the executor has nothing to do
(`ClientExclusive`). Between moves all buckets are those of `lastLoaded`, and at every submit
the global step is `lastLoaded`; a rollout that no move interrupts has therefore met one version
(`WholeRollout`), which is the one of the generation before when it is consumed (`OneBehind`).
`GenerationsOneBehind` leaves `eval_on_start` out: there the first evaluation works on the training
queue, which is the first of the findings. A rollout that failed excuses what comes after it, as
`OneBehind` itself says.

**Request batching.** `PlaceInv`: a request without an answer is in one place, the queue, one
group of the pool or the batch, and no list repeats one; the groups have different configs, and a
batch is the beginning of one group (`NoneLost`, `OneConfig`). `BatchInv` says what the insertions of
`_add_error_list` do, without an induction over them. The positions of the errors that are not
yet inserted ascend and leave room for each other (`Ascending`), and in the row
without them what belongs at position `p` stands at `p - s`, where `s` of them come before `p`
(`Fits`). Inserting the first of them at its position keeps this with one error less
(`FitsInsert`), and with none left every result is at the position of its request (`FitsAll`), which
is where `zip` looks for its queue. `AnswerInv` follows the results of a request through its
asyncio queue to its reader: they are its own, none of them is a `None` before the end, and the
last one before the end is final. For a stream in a batch of several this is false, since a row has
`None` for a request without new text; the hypothesis of `EngineImplements` is what the
third finding asks for.

**Evaluation batching.** Each waiting call is in exactly one place: the queue, or the open
part of one batch; no future is in two batches although two batch threads may share the queue,
because `get` removes. The completions a batch has are those of its first inputs in their order,
slice after slice, so that the position of a future is that of its completion. Once
`batch_thread` is set it stays set, and the caller that put its input has seen it set.
`EvalImplements` maps a call to its answer; taking, slicing, inferring and the threads are stutters.

**Activation offload.** With three layers or more, one of them not offloaded, the window
map is the successor function: window `i` ends with layer `i + 1` (`Windows`). In the forward
pass every layer before the one that runs has been copied and the buffers are those of this
layer and of the one before; in the backward pass the layer that runs is back, the one below it
is coming back, and the rest is on the CPU. The clocks carry the order: what is freed was
copied before the wait of the commit, what is copied was computed before it, what comes back
comes after its copy and after the last use of what it may overwrite. A pass without gradients
uses up the windows, so that the next commit raises; this is why `Balanced` and `TwoGroups` are
about passes that have their backward pass, and the invariant follows the other case to the
exception, where `NoRace` still holds.

**Sampling.** `RowsAreOwn` is about positions: the responses of a batch stand where the requests
without a cached choice do, and the counter of `generate` is how many of those come before
(`RespList`, `Cur`). `FilesInv` says for each piece how many batches each file has (`FilesOf`) and
what a process will find that is started after a kill (`LeftBy`). A file *has* `n` batches
if its rows are those of the first `n`, none more often than once and once more per kill
(`Has`). A batch that was appended or copied but not indexed is appended again, which is the one
repetition a kill accounts for.

**Packing and loading.** `TypeInv` has the types. They are not inductive alone: that the
order of an epoch numbers the packed groups needs the other parts.

* `ReaderInv`. Which sample of an interval a message in a queue, in a process or in the results is
  about follows from its number, and results are stored under that number. So what is packed is in
  the order of the stream whoever is faster (`PackedInOrder`).
* `MapInv` and `StreamInv` count how often a sample is in each place it can be in; the sum is one
  for each sample of a share and for each that was read from a stream and can be encoded, and never more than one. Each
  step moves samples from one place to the next, and `calculate_matched_group` divides what it is given
  into groups and rest (`Matched`). Hence `NoSampleLost`; and when all processes have ended, the packed groups
  are a partition, which `DataTypes` needs.
* `HandsInv` and `RanksInv`. A rank has trained on exactly the next part of its slice (`Part`), a slice
  has the places of the order that are the rank modulo the number of ranks, and it ends when the slice does. With a
  stream, a rank ends only when nothing is left to pull or to scatter. Slices are apart and together
  everything, so `OnlyTheTail` is arithmetic on what their ends leave.

**Lists.** Several of these proofs need what `FlattenSeq`, `Joined`, `Chosen` and `Without` return for
lists of any length. `SequenceFacts` proves it by induction, for one property of numbers at a time, given as a
set: `Induction` says that a set of numbers with 0 and with `n + 1` for every `n` has all of
them. How often an element is in a list (`Times`) is additive over all the operators, which is what
the counting above rests on.

**Only model-checked.**

* `Responsive`, `Progress`, `Finishes`, `Answered`, `Busy`, `AllEnd` and `AllLeave` are liveness
  under fairness.
* `Aligned` and `OwnOutput` of `MultiTurn` have no proof. `Aligned` compares a
  sample with its whole dialogue, for five schedulers and two ways to run them; the proof needs an
  invariant that says for each of these what the ids, masks and log-probabilities of any number of turns
  look like. `OwnOutput` follows the samples through gathers, slices, the merge by
  request id and even shares, which needs one more invariant for each of these ways.
* That the runs marked **violates** are violated is shown by TLC's counterexamples.

## 5. What is not modelled, and why

* Tensors: what a template, a model, a tuner or a loss computes; sequence-parallel
  layouts; LoRA merging. There is no protocol state in them. This is most of the source:
  registries, model definitions, templates and command lines.
* The engines (vLLM, transformers): taken from how the code uses them. A request is
  answered or raises; a prefix block is reused only for the weights in the cache's set.
* Colocate mode beyond its collectives: the trainer and its engine are one process; sleep levels
  need the engine.
* A client with several servers: the threads of `VLLMClient` and the sum of their errors.
* Which groups `_dynamic_sampling` keeps, and how rewards become advantages: floating-point
  statistics; that they are shared with their samples is in `MultiTurn`.
* `IndexedDataset`: nothing in the repository constructs it; the packing data sets keep
  their groups in memory.
* UI, CLI, hub, argument parsing, deployment front end: no shared state.
* The JSONL writer and the shutdown manager: one queue, of which the end is lost with the process,
  and one flag.

`PROJECT.json` (`components`) lists every part with its status and the reason.

## 6. Plan

The modules of the plan are written, and every safety property of the runs is proved but those of
`MultiTurn`. What is left is their proof, one scheduler at a time, beginning with trainer mode and a
scheduler that only appends a user message; then the server with several outputs per request.

Runs stay small enough for a laptop: two or three workers, threads or ranks, three to
six items.
