--------------------------- MODULE EngineBatching ---------------------------
(***************************************************************************)
(* Request batching of TransformersEngine.                                 *)
(*                                                                         *)
(* Coroutines of one event loop call infer_async: each puts its request    *)
(* with an asyncio queue of its own into _queue, starts the worker thread  *)
(* if there is none, and waits on its queue.  The worker drains _queue     *)
(* into _task_pool, which groups the requests by request config, takes up  *)
(* to max_batch_size requests of the oldest group and runs them; results   *)
(* go to the asyncio queues by position.  With stream the model yields a   *)
(* row of chunks at a time, with None for a request that has no new text,  *)
(* and the reader of a stream takes None for its end.                      *)
(*                                                                         *)
(* A request that was answered may be put again: callers are loops.        *)
(***************************************************************************)
EXTENDS Integers, Sequences, FiniteSets, SequencesExt

CONSTANTS
    Requests,   \* requests in flight at most (bound)
    Settings,   \* the engines to try, see Setting
    Rows,       \* rows of chunks before the final one (bound)
    MayRaise    \* whether generation itself may raise

None == "none"    \* Python's None

Setting == [
    maxBatch : Int,                 \* max_batch_size
    config : [Requests -> STRING],  \* the request config each caller uses
    streams : SUBSET STRING,        \* configs with stream = True
    strict : BOOLEAN]               \* engine.strict

ASSUME RequestsAssumption == IsFiniteSet(Requests) /\ Requests # {} /\ None \notin Requests
ASSUME SettingsAssumption == Settings \subseteq Setting
ASSUME RowsAssumption == Rows \in Nat
ASSUME MayRaiseAssumption == MayRaise \in BOOLEAN

VARIABLES
    conf,      \* the engine
    status,    \* status[r]: "new", "put", "waiting" or "done"
    queue,     \* _queue
    pool,      \* _task_pool: an ordered dict, the groups in insertion order
    worker,    \* _task_thread: "absent", "running", or "dead" after an exception
    batch,     \* what _infer works on, or NoBatch
    inbox,     \* the asyncio queue of each request
    got        \* what the caller has read from it

vars == <<conf, status, queue, pool, worker, batch, inbox, got>>

Group == [config : STRING, data : Seq(Requests)]
Kinds == {"full", "text", "final", "error", None}
Item == [of : Requests \cup {None}, kind : Kinds]
End == [of |-> None, kind |-> None]

\* reqs: the requests; good: those that are encoded; errs: the positions of those that
\* cannot be; rows: rows of a stream so far; row: the row under way; left: the errors
\* that are still to be inserted into it.
NoBatch == [reqs |-> <<>>, good |-> <<>>, errs |-> <<>>, phase |-> "empty",
            rows |-> 0, row |-> <<>>, left |-> <<>>]

IsStream(r) == conf.config[r] \in conf.streams

Init ==
    /\ conf \in Settings
    /\ status = [r \in Requests |-> "new"]
    /\ queue = <<>>
    /\ pool = <<>>
    /\ worker = "absent"
    /\ batch = NoBatch
    /\ inbox = [r \in Requests |-> <<>>]
    /\ got = [r \in Requests |-> <<>>]

-----------------------------------------------------------------------------
(* infer_async *)

\* infer_async up to its first await: the request is queued.
Put(r) ==
    /\ status[r] = "new"
    /\ status' = [status EXCEPT ![r] = "put"]
    /\ queue' = Append(queue, r)
    /\ UNCHANGED <<conf, pool, worker, batch, inbox, got>>

\* After asyncio.sleep(0): start the worker thread if there is none.  No await
\* comes between the test and the start, so one loop starts one worker.
Start(r) ==
    /\ status[r] = "put"
    /\ status' = [status EXCEPT ![r] = "waiting"]
    /\ worker' = IF worker = "absent" THEN "running" ELSE worker
    /\ UNCHANGED <<conf, queue, pool, batch, inbox, got>>

\* queue.get(): the answer, or one chunk; None ends a stream.
Take(r) ==
    /\ status[r] = "waiting"
    /\ inbox[r] # <<>>
    /\ LET item == Head(inbox[r])
           ends == ~IsStream(r) \/ item.kind = None
       IN /\ status' = IF ends THEN [status EXCEPT ![r] = "done"] ELSE status
          /\ got' = IF IsStream(r) /\ item.kind = None
                    THEN got ELSE [got EXCEPT ![r] = Append(@, item)]
    /\ inbox' = [inbox EXCEPT ![r] = Tail(@)]
    /\ UNCHANGED <<conf, queue, pool, worker, batch>>

\* The caller goes on with another request (a new object with a new queue).
Renew(r) ==
    /\ status[r] = "done"
    /\ r \notin ToSet(batch.reqs)
    /\ status' = [status EXCEPT ![r] = "new"]
    /\ inbox' = [inbox EXCEPT ![r] = <<>>]
    /\ got' = [got EXCEPT ![r] = <<>>]
    /\ UNCHANGED <<conf, queue, pool, worker, batch>>

-----------------------------------------------------------------------------
(* _fetch_infer_requests *)

\* Mutant of AddToPool: the request joins the newest group.
AddToPool_Last(groups, r) ==
    IF groups = <<>> THEN << [config |-> conf.config[r], data |-> <<r>>] >>
    ELSE [groups EXCEPT ![Len(groups)].data = Append(@, r)]

\* One request enters the pool: at the end of its group, or as a new last group.
AddToPool(groups, r) ==
    LET c == conf.config[r]
    IN IF \E g \in DOMAIN groups : groups[g].config = c
       THEN [g \in DOMAIN groups |->
                IF groups[g].config = c
                THEN [groups[g] EXCEPT !.data = Append(@, r)] ELSE groups[g]]
       ELSE Append(groups, [config |-> c, data |-> <<r>>])

\* The loop over _queue, one request at a time.
Drain ==
    /\ worker = "running"
    /\ batch = NoBatch
    /\ queue # <<>>
    /\ pool' = AddToPool(pool, Head(queue))
    /\ queue' = Tail(queue)
    /\ UNCHANGED <<conf, status, worker, batch, inbox, got>>

BatchLength(data) ==
    IF conf.maxBatch <= 0 \/ conf.maxBatch > Len(data) THEN Len(data) ELSE conf.maxBatch

\* Mutant of Remaining: the slice of the rest begins one too late.
Remaining_Skip(groups, n) ==
    LET first == groups[1]
    IN IF n < Len(first.data)
       THEN [groups EXCEPT ![1].data = SubSeq(@, n + 2, Len(@))]
       ELSE Tail(groups)

\* What stays of the pool when n requests of its first group are taken.
Remaining(groups, n) ==
    LET first == groups[1]
    IN IF n < Len(first.data)
       THEN [groups EXCEPT ![1].data = SubSeq(@, n + 1, Len(@))]
       ELSE Tail(groups)

\* Mutant of Fetch: the requests that came last are taken first.
Fetch_Newest ==
    /\ worker = "running"
    /\ batch = NoBatch
    /\ queue = <<>> /\ pool # <<>>
    /\ LET data == pool[1].data
           n == BatchLength(data)
           rest == SubSeq(data, 1, Len(data) - n)
       IN /\ batch' = [NoBatch EXCEPT !.reqs = SubSeq(data, Len(data) - n + 1, Len(data)),
                                      !.phase = "fetched"]
          /\ pool' = IF rest = <<>> THEN Tail(pool) ELSE [pool EXCEPT ![1].data = rest]
    /\ UNCHANGED <<conf, status, queue, worker, inbox, got>>

\* Mutant of Fetch: only what came just now makes it look into the pool.
Fetch_QueueOnly ==
    /\ worker = "running"
    /\ batch = NoBatch
    /\ queue # <<>> /\ pool # <<>>
    /\ LET data == pool[1].data
           n == BatchLength(data)
       IN /\ batch' = [NoBatch EXCEPT !.reqs = SubSeq(data, 1, n), !.phase = "fetched"]
          /\ pool' = Remaining(pool, n)
    /\ UNCHANGED <<conf, status, queue, worker, inbox, got>>

\* The loop over _queue has ended: up to max_batch_size requests of the oldest group.
Fetch ==
    /\ worker = "running"
    /\ batch = NoBatch
    /\ queue = <<>> /\ pool # <<>>
    /\ LET data == pool[1].data
           n == BatchLength(data)
       IN /\ batch' = [NoBatch EXCEPT !.reqs = SubSeq(data, 1, n), !.phase = "fetched"]
          /\ pool' = Remaining(pool, n)
    /\ UNCHANGED <<conf, status, queue, worker, inbox, got>>

-----------------------------------------------------------------------------
(* _infer *)

\* An exception leaves the loop of the worker thread; nobody starts another one.
Die ==
    /\ worker' = "dead"
    /\ UNCHANGED <<conf, status, queue, pool, batch, inbox, got>>

NextInput == Len(batch.good) + Len(batch.errs) + 1
Encoded == NextInput > Len(batch.reqs)

\* _batch_encode: the request is encoded, or its exception is kept with its position.
Encode ==
    /\ worker = "running"
    /\ batch.phase = "fetched"
    /\ ~Encoded
    /\ \/ batch' = [batch EXCEPT !.good = Append(@, batch.reqs[NextInput])]
       \/ ~conf.strict /\ batch' = [batch EXCEPT !.errs = Append(@, NextInput)]
    /\ UNCHANGED <<conf, status, queue, pool, worker, inbox, got>>

\* _batch_encode raises in strict mode; generation may raise in any mode.
Raise ==
    /\ worker = "running"
    /\ batch # NoBatch
    /\ MayRaise \/ (conf.strict /\ ~Encoded)
    /\ Die

Streaming == IsStream(batch.reqs[1])

\* A row with a result of kind[r] for each request that was encoded; None is no text.
Generate(phase, kind) ==
    /\ worker = "running"
    /\ Encoded
    /\ batch' = [batch EXCEPT
           !.phase = phase, !.left = batch.errs,
           !.row = [k \in DOMAIN batch.good |->
                       LET r == batch.good[k]
                       IN IF kind[r] = None THEN End ELSE [of |-> r, kind |-> kind[r]]]]
    /\ UNCHANGED <<conf, status, queue, pool, worker, inbox, got>>

InferFull ==
    /\ batch.phase = "fetched"
    /\ ~Streaming
    /\ Generate("full", [r \in Requests |-> "full"])

\* _infer_stream yields a row as soon as some request has printable text.
StreamRow ==
    /\ batch.phase \in {"fetched", "streaming"}
    /\ Streaming
    /\ batch.rows < Rows
    /\ \E T \in (SUBSET ToSet(batch.good)) \ {{}} :
           Generate("text", [r \in Requests |-> IF r \in T THEN "text" ELSE None])

\* The last row flushes the rest of every request, or has the exceptions alone.
LastRow ==
    /\ batch.phase \in {"fetched", "streaming"}
    /\ Streaming
    /\ Generate("final", [r \in Requests |-> "final"])

RowPhases == {"full", "text", "final"}

\* Mutant of AddError: the exceptions are appended.
AddError_Append ==
    /\ worker = "running"
    /\ batch.phase \in RowPhases
    /\ batch.left # <<>>
    /\ LET i == Head(batch.left)
       IN batch' = [batch EXCEPT !.row = Append(@, [of |-> batch.reqs[i], kind |-> "error"]),
                                 !.left = Tail(@)]
    /\ UNCHANGED <<conf, status, queue, pool, worker, inbox, got>>

\* _add_error_list: the exceptions are inserted at their positions, in ascending order.
AddError ==
    /\ worker = "running"
    /\ batch.phase \in RowPhases
    /\ batch.left # <<>>
    /\ LET i == Head(batch.left)
       IN batch' = [batch EXCEPT !.row = InsertAt(@, i, [of |-> batch.reqs[i], kind |-> "error"]),
                                 !.left = Tail(@)]
    /\ UNCHANGED <<conf, status, queue, pool, worker, inbox, got>>

\* zip(queue_list, res_list): every result to the queue at its position.
Deliver(row) ==
    inbox' = [r \in Requests |->
                 IF \E i \in DOMAIN row \cap DOMAIN batch.reqs : batch.reqs[i] = r
                 THEN Append(inbox[r], row[CHOOSE i \in DOMAIN batch.reqs : batch.reqs[i] = r])
                 ELSE inbox[r]]

\* The row is complete; after a text row the generator is asked for the next one.
Send ==
    /\ worker = "running"
    /\ batch.phase \in RowPhases
    /\ batch.left = <<>>
    /\ Deliver(batch.row)
    /\ batch' = CASE batch.phase = "full" -> NoBatch
                [] batch.phase = "text" -> [batch EXCEPT !.phase = "streaming", !.rows = @ + 1, !.row = <<>>]
                [] batch.phase = "final" -> [batch EXCEPT !.phase = "ending", !.row = <<>>]
    /\ UNCHANGED <<conf, status, queue, pool, worker, got>>

\* Mutant of EndStream: the errors of the batch are kept for the next one.
EndStream_KeepErrs ==
    /\ worker = "running"
    /\ batch.phase = "ending"
    /\ Deliver([i \in DOMAIN batch.reqs |-> End])
    /\ batch' = [NoBatch EXCEPT !.errs = batch.errs]
    /\ UNCHANGED <<conf, status, queue, pool, worker, got>>

\* StopIteration: a row of None.
EndStream ==
    /\ worker = "running"
    /\ batch.phase = "ending"
    /\ Deliver([i \in DOMAIN batch.reqs |-> End])
    /\ batch' = NoBatch
    /\ UNCHANGED <<conf, status, queue, pool, worker, got>>

Caller(r) == Start(r) \/ Take(r)
Infer == Encode \/ InferFull \/ StreamRow \/ LastRow \/ AddError \/ Send \/ EndStream
Worker == Drain \/ Fetch \/ Infer

Next == \/ \E r \in Requests : Put(r) \/ Start(r) \/ Take(r) \/ Renew(r)
        \/ Worker
        \/ Raise

Spec == Init /\ [][Next]_vars

\* The event loop and the worker thread run; what callers ask next, and what
\* raises, is not promised.
FairSpec ==
    /\ Spec
    /\ \A r \in Requests : WF_vars(Caller(r))
    /\ WF_vars(Worker)

-----------------------------------------------------------------------------
(* Properties *)

\* Type invariant.
TypeOK ==
    /\ conf \in Settings
    /\ status \in [Requests -> {"new", "put", "waiting", "done"}]
    /\ queue \in Seq(Requests)
    /\ pool \in Seq(Group)
    /\ worker \in {"absent", "running", "dead"}
    /\ batch.reqs \in Seq(Requests)
    /\ batch.good \in Seq(Requests)
    /\ batch.errs \in Seq(DOMAIN batch.reqs) /\ batch.left \in Seq(DOMAIN batch.reqs)
    /\ batch.phase \in {"empty", "fetched", "streaming", "ending"} \cup RowPhases
    /\ batch.rows \in 0 .. Rows
    /\ batch.row \in Seq(Item)
    /\ inbox \in [Requests -> Seq(Item)]
    /\ got \in [Requests -> Seq(Item)]

Places(r) ==
    Cardinality({i \in DOMAIN queue : queue[i] = r})
    + Cardinality({at \in (1 .. Len(pool)) \X (1 .. Cardinality(Requests)) :
                       at[2] \in DOMAIN pool[at[1]].data /\ pool[at[1]].data[at[2]] = r})
    + Cardinality({i \in DOMAIN batch.reqs : batch.reqs[i] = r})

\* NoneLost: a request that is waited for and has no answer yet is in exactly one
\* place: the queue, the task pool or the batch (also the batch of a worker that
\* died); slices, groups and the drain lose none and repeat none.
NoneLost ==
    \A r \in Requests :
        /\ Places(r) <= 1
        /\ status[r] \in {"put", "waiting"} /\ inbox[r] = <<>> => Places(r) = 1
        /\ status[r] = "new" => Places(r) = 0

\* OneConfig: no batch mixes request configs and no two groups share one, so every
\* request is run with the config it was sent with.
OneConfig ==
    /\ \A i, j \in DOMAIN batch.reqs : conf.config[batch.reqs[i]] = conf.config[batch.reqs[j]]
    /\ \A g \in DOMAIN pool :
           /\ \A i \in DOMAIN pool[g].data : conf.config[pool[g].data[i]] = pool[g].config
           /\ \A h \in DOMAIN pool : pool[g].config = pool[h].config => g = h

\* What a caller that has read to the end can tell.
Outcome(r) ==
    IF got[r] = <<>> \/ (\E i \in DOMAIN got[r] : got[r][i].of # r) THEN "wrong"
    ELSE CASE Last(got[r]).kind \in {"full", "final"} -> "answered"
           [] Last(got[r]).kind = "error" -> "failed"
           [] OTHER -> "cut"

\* Where a request is, seen from its caller.
Stage == [r \in Requests |->
             CASE status[r] = "new" -> "new"
               [] status[r] \in {"put", "waiting"} -> "asked"
               [] OTHER -> Outcome(r)]

Service == INSTANCE AnswerService WITH state <- Stage

\* ImplementsAnswers: queue, pool, batches, streams and errors together are the
\* AnswerService: a caller gets results of its own request only, complete ones, and
\* is answered once for every request.
ImplementsAnswers == Service!Spec

\* WholeStream: a stream ends after its final chunk or with an error.  The tests and
\* the docs skip None and read on; the reader of the queue takes it for the end.
WholeStream ==
    \A r \in Requests : status[r] = "done" /\ IsStream(r) => Outcome(r) # "cut" /\ got[r] # <<>>

\* Answered: while the worker lives every request is answered, if batches take a whole
\* group or all requests share one config.  (With a limit, a group that is refilled
\* while it is worked on keeps the others waiting.)
Answered ==
    (conf.maxBatch <= 0 \/ \A q, r \in Requests : conf.config[q] = conf.config[r])
        => \A r \in Requests : status[r] = "put" ~> (status[r] = "done" \/ worker = "dead")

\* Busy: while the worker lives, somebody who waits is answered: no mix of configs,
\* limits, streams and errors brings the worker to a stop.
Busy ==
    (\E r \in Requests : status[r] = "waiting")
        ~> ((\E r \in Requests : status[r] = "done") \/ worker = "dead")

=============================================================================
