---------------------------- MODULE RolloutServer ----------------------------
(***************************************************************************)
(* The rollout server of GRPO training and the trainer's client of it.     *)
(*                                                                         *)
(* A FastAPI process (SwiftRolloutDeploy) owns one duplex pipe per         *)
(* data-parallel worker process (llm_worker).  Its handlers are coroutines *)
(* that never await, so the process serves one HTTP request at a time:     *)
(*   - init_communicator, the update_* endpoints and close_communicator    *)
(*     put a fire_and_forget command on every pipe and answer at once;     *)
(*   - reset_prefix_cache and infer put a call command on every pipe and   *)
(*     then read one result from every pipe, in connection order.          *)
(* A worker takes its commands one by one; an exception in a method is     *)
(* logged and becomes the result None.  A send to, or a receive from, the  *)
(* pipe of a dead worker raises in the handler, which answers 500.         *)
(*                                                                         *)
(* Beside HTTP the trainer (VLLMClient) and the workers share an NCCL      *)
(* group: it is formed by a rendezvous after init_communicator, and every  *)
(* weight update is a header over HTTP followed by a collective broadcast  *)
(* and a barrier.  The trainer goes on after the barrier, before the       *)
(* workers have loaded what they received.                                 *)
(*                                                                         *)
(* A trainer can exit (posting close_communicator from atexit), fail on a  *)
(* 500, or be killed; another one may then connect to the same server.     *)
(***************************************************************************)
EXTENDS Integers, Sequences, FiniteSets, ChunkList

CONSTANTS
    DP,          \* num_connections: pipes, one worker process behind each
    MaxCalls,    \* bound: HTTP requests over the whole behaviour
    MaxPrompts,  \* bound: prompts in one infer request
    MaxClients,  \* bound: trainer processes, one after another
    Faults       \* which of the faults below may happen

\* What can go wrong: a method of a worker raises ("infer", "load", "reset"),
\* a rendezvous times out ("join"), a worker process dies ("worker"), the
\* trainer is killed ("client").
FaultKinds == {"infer", "load", "reset", "join", "worker", "client"}

ASSUME DPAssumption == DP \in Nat \ {0}
ASSUME BoundsAssumption ==
    /\ MaxCalls \in Nat
    /\ MaxPrompts \in Nat
    /\ MaxClients \in Nat
ASSUME FaultsAssumption == Faults \subseteq FaultKinds

Workers == 1 .. DP
CallOps == {"reset", "infer"}
FireAndForgetOps == {"init", "update", "close"}
Ops == CallOps \union FireAndForgetOps

VARIABLES
    (* trainer *)
    incarnation, \* how many trainer processes were started
    cpc,         \* where the trainer is
    creq,        \* the request it posted last
    cgroup,      \* its NCCL group (the id of an init request), or 0
    sync,        \* "unsynced", "pushed" (cache not reset yet) or "synced"
    pushed,      \* the update whose broadcast completed last, or 0
    answer,      \* the response that waits for the trainer, or NoAnswer
    calls,       \* HTTP requests posted so far
    (* server process *)
    http,        \* requests that reached the server and are not handled yet
    handler,     \* the request whose handler reads results, if any
    got,         \* the results it has read, in connection order
    (* workers *)
    chan,        \* chan[w]: commands in the pipe to worker w, first = taken
    repl,        \* repl[w]: results in the pipe from worker w
    wk,          \* wk[w]: where worker w is
    comm,        \* comm[w]: its communicator (group id), or 0 for None
    weights,     \* weights[w]: the update loaded last, 0 for dummy weights
    cache,       \* cache[w]: the weights its prefix-cache blocks come from
    lost         \* lost[w]: exceptions of "load" and "reset" logged by w

clientVars == <<incarnation, cpc, creq, cgroup, sync, pushed, answer, calls>>
serverVars == <<http, handler, got>>
workerVars == <<chan, repl, wk, comm, weights, cache, lost>>
vars == <<clientVars, serverVars, workerVars>>

Request == [id : Nat, op : Ops, n : Nat]
NoRequest == [id |-> 0, op |-> "close", n |-> 0]
NoAnswer == [st |-> "none"]
Idle == [id |-> 0, op |-> "idle", n |-> 0]
Booting == [id |-> 0, op |-> "boot", n |-> 0]
Failed == [id |-> 0, op |-> "failed", n |-> 0]

Dead == {w \in Workers : wk[w] = "dead"}
Receiving == handler.op \in CallOps \union {"boot"}

-----------------------------------------------------------------------------
Init ==
    /\ incarnation = 0 /\ cpc = "down" /\ creq = NoRequest /\ cgroup = 0
    /\ sync = "unsynced" /\ pushed = 0 /\ answer = NoAnswer /\ calls = 0
    /\ http = {} /\ handler = Booting /\ got = <<>>
    /\ chan = [w \in Workers |-> <<>>]
    /\ repl = [w \in Workers |-> <<>>]
    /\ wk = [w \in Workers |-> "boot"]
    /\ comm = [w \in Workers |-> 0]
    /\ weights = [w \in Workers |-> 0]
    /\ cache = [w \in Workers |-> {}]
    /\ lost = [w \in Workers |-> {}]

-----------------------------------------------------------------------------
(* The trainer's side.                                                     *)

\* A new trainer process; VLLMClient.check_server waits for /health/.
ClientStart ==
    /\ cpc = "down" /\ incarnation < MaxClients
    /\ handler = Idle
    /\ incarnation' = incarnation + 1
    /\ cpc' = "new" /\ cgroup' = 0 /\ sync' = "unsynced" /\ creq' = NoRequest
    /\ UNCHANGED <<pushed, answer, calls, serverVars, workerVars>>

\* session.post(...): blocks the caller until the response arrives.
Post(op, n) ==
    /\ calls < MaxCalls
    /\ calls' = calls + 1
    /\ creq' = [id |-> calls + 1, op |-> op, n |-> n]
    /\ http' = http \union {creq'}
    /\ cpc' = "http"
    /\ UNCHANGED <<incarnation, cgroup, sync, pushed, answer, handler, got, workerVars>>

PostInit == cpc = "new" /\ Post("init", 0)

\* The header of one tensor, bucket or adapter; _move_model_to_vllm sends
\* these one after the other.
PostUpdate == cpc = "idle" /\ Post("update", 0)

\* The last step of _move_model_to_vllm.
PostReset == cpc = "idle" /\ sync = "pushed" /\ Post("reset", 0)

\* Mutant of PostInfer: the rollout does not wait for the cache reset.
PostInfer_NoReset(n) == cpc = "idle" /\ sync # "unsynced" /\ Post("infer", n)

\* A new trainer has _last_loaded_step = -1, so it moves the weights (and
\* resets the cache) before its first rollout.  VLLMClient.infer raises for an
\* empty batch, but with several servers the later ones can be asked for n = 0.
PostInfer(n) == cpc = "idle" /\ sync = "synced" /\ Post("infer", n)

\* The process ends: normally, or by an exception ("exit" is set by Receive).
\* close_communicator is registered with atexit once init_communicator is done.
BeginExit ==
    /\ cpc = "idle"
    /\ cpc' = "exit"
    /\ UNCHANGED <<incarnation, creq, cgroup, sync, pushed, answer, calls, serverVars, workerVars>>

PostClose == cpc = "exit" /\ cgroup # 0 /\ Post("close", 0)

ExitUnregistered ==
    /\ cpc = "exit" /\ cgroup = 0
    /\ cpc' = "down"
    /\ UNCHANGED <<incarnation, creq, cgroup, sync, pushed, answer, calls, serverVars, workerVars>>

\* Where the trainer goes on when the response to a request of this kind
\* arrives; anything but 200 raises, and close only warns.
After(op, st) ==
    CASE op = "close" -> "down"
      [] op # "close" /\ st # "ok" -> "exit"
      [] op = "init" /\ st = "ok" -> "join"
      [] op = "update" /\ st = "ok" -> "bcast"
      [] op \in CallOps /\ st = "ok" -> "idle"

\* Mutant of Receive: the response is still there for the next request.
Receive_Keep ==
    /\ cpc = "http" /\ answer # NoAnswer
    /\ cpc' = After(creq.op, answer.st)
    /\ sync' = IF creq.op = "reset" /\ answer.st = "ok" THEN "synced" ELSE sync
    /\ UNCHANGED <<incarnation, creq, cgroup, pushed, answer, calls, serverVars, workerVars>>

\* The response arrives.
Receive ==
    /\ cpc = "http" /\ answer # NoAnswer
    /\ cpc' = After(creq.op, answer.st)
    /\ sync' = IF creq.op = "reset" /\ answer.st = "ok" THEN "synced" ELSE sync
    /\ answer' = NoAnswer
    /\ UNCHANGED <<incarnation, creq, cgroup, pushed, calls, serverVars, workerVars>>

\* SIGKILL: no atexit, and a request already posted is still served.
ClientKill ==
    /\ "client" \in Faults
    /\ cpc # "down"
    /\ cpc' = "down" /\ answer' = NoAnswer
    /\ UNCHANGED <<incarnation, creq, cgroup, sync, pushed, calls, serverVars, workerVars>>

-----------------------------------------------------------------------------
(* The NCCL group.  StatelessProcessGroup.create meets at a host and port, *)
(* not at a request: any trainer and any init command can meet.            *)

GroupForm ==
    /\ cpc = "join"
    /\ \A w \in Workers : wk[w] = "join"
    /\ cgroup' = creq.id
    /\ comm' = [w \in Workers |-> creq.id]
    /\ cpc' = "idle"
    /\ wk' = [w \in Workers |-> "idle"]
    /\ chan' = [w \in Workers |-> Tail(chan[w])]
    /\ UNCHANGED <<incarnation, creq, sync, pushed, answer, calls, serverVars,
                   repl, weights, cache, lost>>

\* The store's timeout: the trainer raises, a worker logs and goes on.
ClientJoinTimeout ==
    /\ "join" \in Faults
    /\ cpc = "join"
    /\ cpc' = "exit"
    /\ UNCHANGED <<incarnation, creq, cgroup, sync, pushed, answer, calls, serverVars, workerVars>>

WorkerJoinTimeout(w) ==
    /\ "join" \in Faults
    /\ wk[w] = "join"
    /\ wk' = [wk EXCEPT ![w] = "idle"]
    /\ chan' = [chan EXCEPT ![w] = Tail(@)]
    /\ UNCHANGED <<clientVars, serverVars, repl, comm, weights, cache, lost>>

\* Mutant of Broadcast: the barrier is gone, so the trainer goes on while
\* the workers are still on their way to the broadcast.
Broadcast_NoBarrier ==
    /\ cpc = "bcast"
    /\ \A w \in Workers : comm[w] = cgroup
    /\ pushed' = creq.id
    /\ sync' = "pushed"
    /\ cpc' = "idle"
    /\ wk' = [w \in Workers |-> IF wk[w] = "bcast" THEN "load" ELSE wk[w]]
    /\ UNCHANGED <<incarnation, creq, cgroup, answer, calls, serverVars,
                   chan, repl, comm, weights, cache, lost>>

\* broadcast and barrier: they end when every member of the group is in them.
Broadcast ==
    /\ cpc = "bcast"
    /\ \A w \in Workers : wk[w] = "bcast" /\ comm[w] = cgroup
    /\ pushed' = creq.id
    /\ sync' = "pushed"
    /\ cpc' = "idle"
    /\ wk' = [w \in Workers |-> "load"]
    /\ UNCHANGED <<incarnation, creq, cgroup, answer, calls, serverVars,
                   chan, repl, comm, weights, cache, lost>>

-----------------------------------------------------------------------------
(* The server process.                                                     *)

Command(req, w) ==
    [id |-> req.id, op |-> req.op,
     prompts |-> IF req.op = "infer" THEN PromptsFor(req.n, DP, w) ELSE <<>>]

\* for connection in self.connections: connection.send(...); the first dead
\* worker's pipe raises and ends the loop.
SendAll(req) ==
    chan' = [w \in Workers |-> IF \A d \in Dead : w < d
                               THEN Append(chan[w], Command(req, w))
                               ELSE chan[w]]

\* The response reaches the trainer that waits for it, if that still lives.
Respond(req, response) ==
    answer' = IF cpc = "http" /\ creq.id = req.id THEN response ELSE answer

Response(st) == [st |-> st]

HandleFireAndForget(req) ==
    /\ handler = Idle
    /\ req \in http /\ req.op \in FireAndForgetOps
    /\ http' = http \ {req}
    /\ SendAll(req)
    /\ Respond(req, Response(IF Dead = {} THEN "ok" ELSE "error"))
    /\ UNCHANGED <<incarnation, cpc, creq, cgroup, sync, pushed, calls, handler, got,
                   repl, wk, comm, weights, cache, lost>>

\* Mutant of HandleCall: reset_prefix_cache does not read what its call
\* commands are answered with.
HandleCall_ForgetReset(req) ==
    /\ handler = Idle
    /\ req \in http /\ req.op \in CallOps
    /\ http' = http \ {req}
    /\ SendAll(req)
    /\ IF Dead = {} /\ req.op = "infer"
       THEN handler' = req /\ got' = <<>> /\ UNCHANGED answer
       ELSE Respond(req, Response(IF Dead = {} THEN "ok" ELSE "error"))
            /\ UNCHANGED <<handler, got>>
    /\ UNCHANGED <<incarnation, cpc, creq, cgroup, sync, pushed, calls,
                   repl, wk, comm, weights, cache, lost>>

HandleCall(req) ==
    /\ handler = Idle
    /\ req \in http /\ req.op \in CallOps
    /\ http' = http \ {req}
    /\ SendAll(req)
    /\ IF Dead = {}
       THEN handler' = req /\ got' = <<>> /\ UNCHANGED answer
       ELSE Respond(req, Response("error")) /\ UNCHANGED <<handler, got>>
    /\ UNCHANGED <<incarnation, cpc, creq, cgroup, sync, pushed, calls,
                   repl, wk, comm, weights, cache, lost>>

NextConnection == Len(got) + 1

\* connection.recv() of the next connection.
Recv ==
    /\ Receiving /\ NextConnection <= DP
    /\ repl[NextConnection] # <<>>
    /\ repl' = [repl EXCEPT ![NextConnection] = Tail(@)]
    /\ got' = Append(got, Head(repl[NextConnection]))
    /\ UNCHANGED <<clientVars, http, handler, chan, wk, comm, weights, cache, lost>>

\* ... which raises EOFError when that worker is dead: a request fails with
\* 500, and in the lifespan handler the server does not come up.
RecvEOF ==
    /\ Receiving /\ NextConnection <= DP
    /\ repl[NextConnection] = <<>> /\ wk[NextConnection] = "dead"
    /\ handler' = IF handler.op = "boot" THEN Failed ELSE Idle
    /\ got' = <<>>
    /\ IF handler.op = "boot" THEN UNCHANGED answer
                              ELSE Respond(handler, Response("error"))
    /\ UNCHANGED <<incarnation, cpc, creq, cgroup, sync, pushed, calls, http, workerVars>>

\* The workers whose answers to infer are kept; a None among them makes
\* chain.from_iterable raise.  reset_prefix_cache answers 200 in any case.
InferResponse ==
    LET kept == Kept(handler.n, DP)
    IN  IF \A w \in kept : got[w].ok
        THEN [st |-> "ok",
              outputs |-> Assemble(handler.n, DP, [w \in Workers |-> got[w].prompts]),
              by |-> [w \in kept |-> got[w]]]
        ELSE Response("error")

Finish ==
    /\ Receiving /\ Len(got) = DP
    /\ handler' = Idle /\ got' = <<>>
    /\ CASE handler.op = "boot"  -> UNCHANGED answer
         [] handler.op = "reset" -> Respond(handler, Response("ok"))
         [] handler.op = "infer" -> Respond(handler, InferResponse)
    /\ UNCHANGED <<incarnation, cpc, creq, cgroup, sync, pushed, calls, http, workerVars>>

-----------------------------------------------------------------------------
(* A worker process.  The command it works on stays at the head of its     *)
(* pipe until it is done.                                                  *)

Taking(w, op) == wk[w] = "idle" /\ chan[w] # <<>> /\ Head(chan[w]).op = op

Done(w) == chan' = [chan EXCEPT ![w] = Tail(@)]

\* connection.send(result): what the engine computed and, for the checks,
\* the weights it used and whether it reused prefix blocks of other weights.
Result(w, ok) ==
    [id |-> Head(chan[w]).id, ok |-> ok, prompts |-> Head(chan[w]).prompts,
     ver |-> weights[w], stale |-> cache[w] \ {weights[w]} # {}]

WorkerReady(w) ==
    /\ wk[w] = "boot"
    /\ wk' = [wk EXCEPT ![w] = "idle"]
    /\ repl' = [repl EXCEPT ![w] =
                  Append(@, [id |-> 0, ok |-> TRUE, prompts |-> <<>>, ver |-> 0, stale |-> FALSE])]
    /\ UNCHANGED <<clientVars, serverVars, chan, comm, weights, cache, lost>>

\* Mutant of TakeInit: an open communicator is silently replaced.
TakeInit_Reopen(w) ==
    /\ Taking(w, "init")
    /\ wk' = [wk EXCEPT ![w] = "join"]
    /\ UNCHANGED <<clientVars, serverVars, chan, repl, comm, weights, cache, lost>>

\* init_communicator: raises if there is a communicator, else meets the others.
TakeInit(w) ==
    /\ Taking(w, "init")
    /\ IF comm[w] # 0
       THEN Done(w) /\ UNCHANGED wk
       ELSE wk' = [wk EXCEPT ![w] = "join"] /\ UNCHANGED chan
    /\ UNCHANGED <<clientVars, serverVars, repl, comm, weights, cache, lost>>

\* update_*: raises if there is no communicator, else enters the broadcast.
TakeUpdate(w) ==
    /\ Taking(w, "update")
    /\ IF comm[w] = 0
       THEN Done(w) /\ UNCHANGED wk
       ELSE wk' = [wk EXCEPT ![w] = "bcast"] /\ UNCHANGED chan
    /\ UNCHANGED <<clientVars, serverVars, repl, comm, weights, cache, lost>>

\* Mutant of Load: only the first data-parallel rank loads the tensor.
Load_FirstRank(w) ==
    /\ wk[w] = "load"
    /\ weights' = [weights EXCEPT ![w] = IF w = 1 THEN pushed ELSE @]
    /\ wk' = [wk EXCEPT ![w] = "idle"]
    /\ Done(w)
    /\ UNCHANGED <<clientVars, serverVars, repl, comm, cache, lost>>

\* load_weights (or add_lora) of the tensor the last broadcast delivered; no
\* other broadcast can end before this worker is back in one.
Load(w) ==
    /\ wk[w] = "load"
    /\ \/ weights' = [weights EXCEPT ![w] = pushed] /\ UNCHANGED lost
       \/ /\ "load" \in Faults
          /\ lost' = [lost EXCEPT ![w] = @ \union {"load"}]
          /\ UNCHANGED weights
    /\ wk' = [wk EXCEPT ![w] = "idle"]
    /\ Done(w)
    /\ UNCHANGED <<clientVars, serverVars, repl, comm, cache>>

TakeClose(w) ==
    /\ Taking(w, "close")
    /\ comm' = [comm EXCEPT ![w] = 0]
    /\ Done(w)
    /\ UNCHANGED <<clientVars, serverVars, repl, wk, weights, cache, lost>>

TakeReset(w) ==
    /\ Taking(w, "reset")
    /\ \/ /\ cache' = [cache EXCEPT ![w] = {}]
          /\ repl' = [repl EXCEPT ![w] = Append(@, Result(w, TRUE))]
          /\ UNCHANGED lost
       \/ /\ "reset" \in Faults
          /\ lost' = [lost EXCEPT ![w] = @ \union {"reset"}]
          /\ repl' = [repl EXCEPT ![w] = Append(@, Result(w, FALSE))]
          /\ UNCHANGED cache
    /\ Done(w)
    /\ UNCHANGED <<clientVars, serverVars, wk, comm, weights>>

\* Mutant of TakeInfer: an exception leaves the call without a result.
TakeInfer_NoResult(w) ==
    /\ Taking(w, "infer")
    /\ \/ repl' = [repl EXCEPT ![w] = Append(@, Result(w, TRUE))]
       \/ "infer" \in Faults /\ UNCHANGED repl
    /\ cache' = [cache EXCEPT ![w] = @ \union {weights[w]}]
    /\ Done(w)
    /\ UNCHANGED <<clientVars, serverVars, wk, comm, weights, lost>>

TakeInfer(w) ==
    /\ Taking(w, "infer")
    /\ \E ok \in IF "infer" \in Faults THEN BOOLEAN ELSE {TRUE} :
         repl' = [repl EXCEPT ![w] = Append(@, Result(w, ok))]
    /\ cache' = [cache EXCEPT ![w] = @ \union {weights[w]}]
    /\ Done(w)
    /\ UNCHANGED <<clientVars, serverVars, wk, comm, weights, lost>>

\* The process is killed or its engine takes it down; results already in
\* the pipe can still be read.
WorkerDie(w) ==
    /\ "worker" \in Faults
    /\ wk[w] # "dead"
    /\ wk' = [wk EXCEPT ![w] = "dead"]
    /\ chan' = [chan EXCEPT ![w] = <<>>]
    /\ UNCHANGED <<clientVars, serverVars, repl, comm, weights, cache, lost>>

-----------------------------------------------------------------------------
ClientStep ==
    \/ PostInit \/ PostReset \/ PostClose \/ ExitUnregistered \/ Receive

Trainer ==
    \/ ClientStart \/ ClientStep \/ PostUpdate \/ BeginExit
    \/ \E n \in 0 .. MaxPrompts : PostInfer(n)

Server ==
    \/ \E req \in http : HandleFireAndForget(req) \/ HandleCall(req)
    \/ Recv \/ RecvEOF \/ Finish

Worker(w) ==
    \/ WorkerReady(w) \/ TakeInit(w) \/ TakeUpdate(w) \/ Load(w)
    \/ TakeClose(w) \/ TakeReset(w) \/ TakeInfer(w)

Group == GroupForm \/ Broadcast

Fault ==
    \/ ClientKill \/ ClientJoinTimeout
    \/ \E w \in Workers : WorkerJoinTimeout(w) \/ WorkerDie(w)

Next == Trainer \/ Server \/ Group \/ (\E w \in Workers : Worker(w)) \/ Fault

Spec == Init /\ [][Next]_vars

\* The event loop, the worker loops and NCCL make progress, and a trainer
\* that got a response goes on.  Which request a trainer posts next, when it
\* exits and what fails is not promised.
Fairness ==
    /\ WF_vars(Server) /\ WF_vars(Group) /\ WF_vars(Receive)
    /\ \A w \in Workers : WF_vars(Worker(w))

FairSpec == Spec /\ Fairness

-----------------------------------------------------------------------------
(* Types.                                                                  *)

Commands == [id : Nat, op : Ops, prompts : Seq(Nat)]
Results == [id : Nat, ok : BOOLEAN, prompts : Seq(Nat), ver : Nat, stale : BOOLEAN]

\* Every variable has its type, a response waits only for a trainer that is
\* blocked in a request, no more results are read than there are pipes, and a
\* worker in a rendezvous, a broadcast or a load has a command at hand
\* (self.connections, the HTTP session and the loops of rollout.py).
TypeOK ==
    /\ incarnation \in Nat /\ calls \in Nat /\ pushed \in Nat /\ cgroup \in Nat
    /\ cpc \in {"down", "new", "http", "join", "idle", "bcast", "exit"}
    /\ creq \in Request
    /\ sync \in {"unsynced", "pushed", "synced"}
    /\ answer.st \in {"none", "ok", "error"}
    /\ answer # NoAnswer => cpc = "http"
    /\ http \in SUBSET Request
    /\ handler \in [id : Nat, op : CallOps \union {"idle", "boot", "failed"}, n : Nat]
    /\ got \in Seq(Results) /\ Len(got) <= DP
    /\ chan \in [Workers -> Seq(Commands)]
    /\ repl \in [Workers -> Seq(Results)]
    /\ wk \in [Workers -> {"boot", "idle", "join", "bcast", "load", "dead"}]
    /\ comm \in [Workers -> Nat]
    /\ weights \in [Workers -> Nat]
    /\ cache \in [Workers -> SUBSET Nat]
    /\ lost \in [Workers -> SUBSET {"load", "reset"}]
    /\ \A w \in Workers : wk[w] \in {"join", "bcast", "load"} => chan[w] # <<>>

-----------------------------------------------------------------------------
(* Safety.                                                                 *)

\* Whatever failed before, a handler never takes the result of another call
\* for its own: everything infer and reset_prefix_cache read from the pipes
\* was computed for the request they serve.
ReplyMatch == \A k \in 1 .. Len(got) : got[k].id = handler.id

RolloutAnswered == cpc = "http" /\ creq.op = "infer" /\ answer.st = "ok"

\* The trainer goes on after the barrier, before the workers have loaded the
\* tensor; all the same, a rollout it posts afterwards is generated by every
\* worker with the weights pushed last, unless loading them raised there.
FreshWeights ==
    RolloutAnswered =>
      \A w \in DOMAIN answer.by : "load" \notin lost[w] => answer.by[w].ver = pushed

\* No rollout reuses prefix-cache blocks computed with other weights, unless
\* a reset of that worker's cache raised: the reset overtakes no load.
NoStalePrefix ==
    RolloutAnswered =>
      \A w \in DOMAIN answer.by : "reset" \notin lost[w] => ~answer.by[w].stale

\* infer answers every prompt once, in the order of the request, without
\* what the workers answered to placeholders.
InOrder == RolloutAnswered => answer.outputs = [i \in 1 .. creq.n |-> i]

\* When a broadcast goes through, every worker is in the update whose header
\* the trainer posted: no worker takes a tensor for another one.
HeaderMatch ==
    /\ cpc = "bcast"
    /\ \A w \in Workers : wk[w] = "bcast" /\ comm[w] = cgroup
    => \A w \in Workers : Head(chan[w]).id = creq.id

\* While a trainer works with its group, no live worker is in another one:
\* the close_communicator of an earlier trainer can not hit it.
GroupAgreement ==
    cgroup # 0 /\ (cpc \in {"idle", "bcast"} \/ (cpc = "http" /\ creq.op # "close"))
    => \A w \in Workers : wk[w] # "dead" => comm[w] = cgroup

-----------------------------------------------------------------------------
(* Liveness.                                                               *)

\* Every HTTP request is answered, also when workers die or raise: the
\* handler is not left waiting in recv.
Responsive == cpc = "http" ~> cpc # "http"

\* A trainer that started something gets through with it, unless a worker
\* dies: the rendezvous, the broadcast and every call come to an end, for no
\* party waits for another one that waits for it.
Progress ==
    cpc \in {"http", "join", "bcast"} ~> cpc \in {"idle", "exit", "down"} \/ Dead # {}

-----------------------------------------------------------------------------
(* Refinement.                                                             *)

Asking == cpc = "http" /\ creq.op = "infer"

ServiceReply ==
    IF Asking /\ answer.st = "ok"
    THEN [st |-> "ok", outputs |-> answer.outputs,
          versions |-> {answer.by[w].ver : w \in DOMAIN answer.by}]
    ELSE IF Asking THEN answer ELSE [st |-> "none"]

Service == INSTANCE RolloutService
    WITH version <- pushed,
         asked <- IF Asking THEN creq.n ELSE -1,
         reply <- ServiceReply

\* Pipes, handlers, workers and broadcasts together are the atomic service of
\* RolloutService, as long as no worker drops a tensor it received.
ImplementsService == Service!Spec

=============================================================================
