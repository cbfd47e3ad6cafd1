-------------------------- MODULE AsyncGenerateProofs --------------------------
(***************************************************************************)
(* Safety of AsyncGenerate for every set of training arguments, every      *)
(* number of buckets and of resampling rounds, with and without failing    *)
(* requests.                                                               *)
(***************************************************************************)
EXTENDS AsyncGenerate, SequenceTheorems, TLAPS

-----------------------------------------------------------------------------
(* The inductive invariant.                                                *)

\* The places of the main thread at which it fills a queue for the first time.
Prefetching == pc \in {"prefetch", "sync", "syncInfer"} \/ (pc = "move" /\ ret # "submit")

QueueOf(s) == IF s = "train" THEN trainQ ELSE evalQ

\* The rollouts of one stream that are in flight.
InFlight(s) == IF tasks # <<>> /\ tasks[1].queue = s THEN Len(tasks) ELSE 0

\* The rollouts a stream may have asked for and not taken.
Room(s) == IF pc \in {"register", "get"} /\ s = CurrentQueue THEN 2 ELSE 1

\* The places at which a rollout in flight is one for the current queue.
Inner == {"generate", "submit", "register", "get", "score", "reward", "forward", "evalBatch"}

\* The executor works on one rollout after the other, for one queue at a time; the
\* last one has no callback exactly while the main thread is about to add it.
TasksInv ==
    /\ \A k \in 1 .. Len(tasks) : tasks[k].queue = tasks[1].queue
    /\ \A k \in 1 .. Len(tasks) : k # 1 => tasks[k].st = "queued"
    /\ \A k \in 1 .. Len(tasks) : tasks[k].callback = ~(pc = "register" /\ k = Len(tasks))
    /\ pc = "register" => tasks # <<>>

\* What the waits on the queues achieve: at most one rollout of a stream is asked for
\* and not taken (two inside a generation), so a result in the queue says that
\* no rollout for that queue is in flight.
BoundInv == \A s \in Streams : Len(QueueOf(s)) + InFlight(s) <= Room(s)

\* For which queue a rollout may be in flight at which place, and what the places say
\* of the flags.
PlaceInv ==
    /\ tasks # <<>> => /\ pc \in Inner \union {"evaluate", "step", "done"}
                       /\ pc \in Inner => tasks[1].queue = CurrentQueue
                       /\ pc = "evaluate" => tasks[1].queue = "train"
                       /\ pc = "step" /\ ~evalFlag => tasks[1].queue = "train"
    /\ Prefetching => Queue = <<>>
    /\ pc \in {"prefetch", "sync", "syncInfer"} => ret # "submit"
    /\ pc \in {"step", "start", "forward"} \/ (Prefetching /\ ret = "start") => ~shouldEvaluate
    /\ pc # "evaluate" /\ mode = "train" => ~shouldEvaluate

FlowInv == TypeOK /\ TasksInv /\ BoundInv /\ PlaceInv

\* The weights in vLLM: between two moves all buckets are of the step loaded last, and
\* that is the current step when a rollout is asked for.
EngineInv ==
    /\ pc = "move" => moved <= Buckets /\ \A b \in 1 .. moved : engine[b] = globalStep
    /\ pc \notin {"move", "raised"} => moved = 0 /\ \A b \in 1 .. Buckets : engine[b] = lastLoaded
    /\ pc \in {"submit", "sync", "syncInfer"} => globalStep = lastLoaded

\* What the rollouts in flight were asked for and generated with.
FlightInv ==
    /\ seen = IF Running THEN {lastLoaded} ELSE {}
    /\ \A k \in 1 .. Len(tasks) : tasks[k].result.at = lastLoaded
    /\ tasks # <<>> /\ tasks[1].st = "over" => tasks[1].result.vers = {lastLoaded}

\* The same of the results that were put into a queue or taken.
StoredInv ==
    /\ taken # NoResult => taken.vers = {taken.at}
    /\ \A s \in Streams : \A k \in 1 .. Len(QueueOf(s)) :
         QueueOf(s)[k].vers = {QueueOf(s)[k].at}

VersionsInv == EngineInv /\ FlightInv /\ StoredInv

\* What a stream has asked for and not taken are the last serial numbers, in order.
StreamInv(s) ==
    LET open == Len(QueueOf(s)) + InFlight(s)
    IN /\ open = IF asked[s] = 0 THEN 0 ELSE Room(s)
       /\ \A k \in 1 .. Len(QueueOf(s)) : /\ QueueOf(s)[k].stream = s
                                          /\ QueueOf(s)[k].serial = asked[s] - open + k
       /\ \A k \in 1 .. InFlight(s) : /\ tasks[k].result.stream = s
                                      /\ tasks[k].result.serial = asked[s] - InFlight(s) + k

\* The model is in the mode of the queue, except on the way into an evaluation.
ModeInv ==
    /\ pc # "evaluate" => mode = CurrentQueue
    /\ pc = "evaluate" => mode = "train" /\ shouldEvaluate

\* Both streams are one rollout ahead, once they have been prefetched.
AskedInv ==
    /\ pc # "evaluate" /\ ~Prefetching /\ pc # "raised" => asked[CurrentQueue] > 0
    /\ (~Prefetching /\ pc # "raised") \/ ret # "start" => asked["train"] > 0

OrderInv ==
    /\ \A k \in 1 .. Len(tasks) : tasks[k].ok
    /\ ModeInv
    /\ AskedInv
    /\ \A s \in Streams : StreamInv(s)
    /\ pc = "score" => taken.stream = mode /\ taken.serial = asked[mode] - 1

\* Without a failed rollout, and without the evaluation that eval_on_start begins with
\* should_evaluate unset.
CleanOrder == ~failed /\ ~conf.evalOnStart => OrderInv

-----------------------------------------------------------------------------
(* Flow.                                                                   *)

LEMMA FlowInit == Init => FlowInv
<1> SUFFICES ASSUME Init PROVE FlowInv
  OBVIOUS
<1>1. conf.sp \in Nat
  BY ConfigsAssumption DEF Init, Config
<1>2. <<>> \in Seq(Results) /\ <<>> \in Seq(Tasks) /\ Len(<<>>) = 0
  BY EmptySeq
<1>3. NoResult \in Results
  BY DEF NoResult, Results, Streams
<1>4. TypeOK
  <2>1. engine \in [1 .. Buckets -> Int] /\ saved \in [{"main", "executor"} -> Nat]
        /\ asked \in [Streams -> Nat]
    BY <1>1 DEF Init
  <2>2. <<evalDone, resamples, step, globalStep, moved>> = <<0, 0, 0, 0, 0>>
    BY DEF Init
  <2>3. spSize \in Nat /\ lastLoaded = -1 /\ seen = {} /\ taken \in Results
    BY <1>1, <1>3 DEF Init
  <2>4. /\ {evalDone, resamples, step, globalStep, moved} \subseteq Nat
        /\ {shouldEvaluate, evalFlag, failed} \subseteq BOOLEAN
    <3>1. {evalDone, resamples, step, globalStep, moved} \subseteq Nat
      BY <2>2
    <3>2. {shouldEvaluate, evalFlag, failed} \subseteq BOOLEAN
      BY DEF Init
    <3>3. QED
      BY <3>1, <3>2
  <2>5. /\ trainQ \in Seq(Results) /\ Len(trainQ) <= 2 /\ evalQ \in Seq(Results)
        /\ Len(evalQ) <= 2 /\ tasks \in Seq(Tasks) /\ Len(tasks) <= 2
    BY <1>2 DEF Init
  <2>6. QED
    BY <2>1, <2>3, <2>4, <2>5 DEF Init, TypeOK, Streams
<1>5. QED
  BY <1>4 DEF Init, FlowInv, TasksInv, BoundInv, PlaceInv, Prefetching, Inner, QueueOf, InFlight, Room, Queue, Streams

\* A put appends to one of the two queues.
LEMMA PutFacts ==
    ASSUME TypeOK, NEW q \in Streams, NEW r \in Results, Put(q, r)
    PROVE  /\ trainQ' \in Seq(Results) /\ evalQ' \in Seq(Results)
           /\ \A s \in Streams :
                /\ s # q => QueueOf(s)' = QueueOf(s)
                /\ s = q => /\ Len(QueueOf(s)') = Len(QueueOf(s)) + 1
                            /\ \A k \in 1 .. Len(QueueOf(s)) : QueueOf(s)'[k] = QueueOf(s)[k]
                            /\ QueueOf(s)'[Len(QueueOf(s)) + 1] = r
<1>1. \A s \in Streams : QueueOf(s) \in Seq(Results)
  BY DEF TypeOK, QueueOf
<1>2. \A s \in Streams : QueueOf(s)' = IF s = q THEN Append(QueueOf(s), r) ELSE QueueOf(s)
  BY DEF Put, QueueOf, Streams
<1>3. \A s \in Streams : QueueOf(s)' \in Seq(Results)
  BY <1>1, <1>2, AppendProperties
<1>4. trainQ' \in Seq(Results) /\ evalQ' \in Seq(Results)
  BY <1>3 DEF QueueOf, Streams
<1>5. ASSUME NEW s \in Streams, s = q
      PROVE  /\ Len(QueueOf(s)') = Len(QueueOf(s)) + 1
             /\ \A k \in 1 .. Len(QueueOf(s)) : QueueOf(s)'[k] = QueueOf(s)[k]
             /\ QueueOf(s)'[Len(QueueOf(s)) + 1] = r
  <2>1. QueueOf(s)' = Append(QueueOf(s), r) /\ QueueOf(s) \in Seq(Results)
    BY <1>1, <1>2, <1>5
  <2>2. QED
    BY <2>1, AppendProperties
<1>6. QED
  BY <1>2, <1>4, <1>5

\* What the prefetch puts.
LEMMA SyncFacts ==
    ASSUME TypeOK, EndSyncInfer
    PROVE  /\ asked' = [asked EXCEPT ![mode] = @ + 1] /\ asked' \in [Streams -> Nat]
           /\ asked'[mode] = asked[mode] + 1
           /\ \E r \in Results :
                /\ Put(CurrentQueue, r)
                /\ r.stream = mode /\ r.serial = asked[mode] + 1 /\ r.at = globalStep
                /\ r.vers = {engine[b] : b \in 1 .. Buckets}
<1> DEFINE r == [stream |-> mode, serial |-> asked[mode] + 1, at |-> globalStep,
                  vers |-> {engine[b] : b \in 1 .. Buckets}]
<1>1. /\ asked' = [asked EXCEPT ![mode] = @ + 1] /\ asked' \in [Streams -> Nat]
      /\ asked'[mode] = asked[mode] + 1
  BY DEF EndSyncInfer, TypeOK
<1>2. r \in Results
  <2>1. mode \in Streams /\ asked[mode] \in Nat /\ globalStep \in Nat
    BY DEF TypeOK
  <2>2. {engine[b] : b \in 1 .. Buckets} \in SUBSET Int
    BY DEF TypeOK
  <2>3. QED
    BY <2>1, <2>2 DEF Results
<1>3. Put(CurrentQueue, r)
  BY <1>1 DEF EndSyncInfer
<1>4. QED
  BY <1>1, <1>2, <1>3

\* A generation takes the first result of the current queue.
LEMMA GetFacts ==
    ASSUME TypeOK, Get
    PROVE  /\ trainQ' \in Seq(Results) /\ evalQ' \in Seq(Results)
           /\ taken' \in Results /\ taken' = Queue[1]
           /\ \A s \in Streams :
                /\ s # CurrentQueue => QueueOf(s)' = QueueOf(s)
                /\ s = CurrentQueue =>
                     /\ QueueOf(s) = Queue /\ Len(QueueOf(s)) \in Nat \ {0}
                     /\ Len(QueueOf(s)') = Len(QueueOf(s)) - 1
                     /\ \A k \in 1 .. Len(QueueOf(s)') : QueueOf(s)'[k] = QueueOf(s)[k + 1]
<1>1. /\ CurrentQueue \in Streams /\ Queue = QueueOf(CurrentQueue) /\ Queue # <<>>
      /\ \A s \in Streams : QueueOf(s) \in Seq(Results)
  BY DEF TypeOK, QueueOf, CurrentQueue, Queue, Streams, Get
<1>2. \A s \in Streams : QueueOf(s)' = IF s = CurrentQueue THEN Tail(QueueOf(s)) ELSE QueueOf(s)
  BY DEF Get, QueueOf, CurrentQueue, Queue, Streams
<1>3. \A s \in Streams : QueueOf(s)' \in Seq(Results)
  BY <1>1, <1>2, HeadTailProperties
<1>4. trainQ' \in Seq(Results) /\ evalQ' \in Seq(Results)
  BY <1>3 DEF QueueOf, Streams
<1>5. taken' \in Results /\ taken' = Queue[1]
  BY <1>1, HeadTailProperties DEF Get
<1>6. Len(Queue) \in Nat \ {0}
  BY <1>1, EmptySeq
<1>7. QED
  BY <1>1, <1>2, <1>4, <1>5, <1>6, HeadTailProperties

\* What a submitted rollout is.
LEMMA SubmitFacts ==
    ASSUME TypeOK, Submit
    PROVE  /\ tasks' \in Seq(Tasks) /\ Len(tasks') = Len(tasks) + 1
           /\ \A k \in 1 .. Len(tasks) : tasks'[k] = tasks[k]
           /\ tasks'[Len(tasks) + 1] =
                [queue |-> CurrentQueue, st |-> "queued", callback |-> FALSE, ok |-> TRUE,
                 result |-> [stream |-> mode, serial |-> asked[mode] + 1,
                             at |-> globalStep, vers |-> {}]]
           /\ asked' = [asked EXCEPT ![mode] = @ + 1] /\ asked' \in [Streams -> Nat]
<1> DEFINE t == [queue |-> CurrentQueue, st |-> "queued", callback |-> FALSE, ok |-> TRUE,
                 result |-> [stream |-> mode, serial |-> asked[mode] + 1,
                             at |-> globalStep, vers |-> {}]]
<1>1. asked'[mode] = asked[mode] + 1 /\ asked' \in [Streams -> Nat]
  BY DEF Submit, TypeOK
<1>2. t \in Tasks
  BY DEF Tasks, Results, TypeOK, CurrentQueue, Streams
<1>3. tasks' = Append(tasks, t)
  BY <1>1 DEF Submit
<1>4. tasks \in Seq(Tasks)
  BY DEF TypeOK
<1> HIDE DEF t
<1>5. /\ tasks' \in Seq(Tasks) /\ Len(tasks') = Len(tasks) + 1
      /\ \A k \in 1 .. Len(tasks) : tasks'[k] = tasks[k]
      /\ tasks'[Len(tasks) + 1] = t
  BY <1>2, <1>3, <1>4, AppendProperties
<1>6. QED
  BY <1>1, <1>5 DEF t, Submit

\* A step of the executor, or the registration of a callback, that changes one task.
LEMMA ChangeFacts ==
    ASSUME TypeOK, NEW i \in 1 .. Len(tasks), NEW t \in Tasks, tasks' = [tasks EXCEPT ![i] = t]
    PROVE  /\ tasks' \in Seq(Tasks) /\ Len(tasks') = Len(tasks) /\ tasks' # <<>>
           /\ tasks'[i] = t
           /\ \A k \in 1 .. Len(tasks) : k # i => tasks'[k] = tasks[k]
<1>1. tasks \in Seq(Tasks)
  BY DEF TypeOK
<1>2. QED
  BY <1>1, ExceptSeq

\* Where the last task is, and what registering its callback does.
LEMMA RegisterFacts ==
    ASSUME FlowInv, Register
    PROVE  /\ Len(tasks) \in Nat \ {0} /\ Last = tasks[Len(tasks)] /\ Last \in Tasks
           /\ Last.st = "over" =>
                 /\ Len(tasks) = 1 /\ tasks' = <<>>
                 /\ Last.ok => Put(CurrentQueue, Last.result)
                 /\ ~Last.ok => UNCHANGED queueVars
           /\ Last.st # "over" =>
                 /\ tasks' = [tasks EXCEPT ![Len(tasks)] = [Last EXCEPT !.callback = TRUE]]
                 /\ [Last EXCEPT !.callback = TRUE] \in Tasks
                 /\ UNCHANGED queueVars
<1>1. tasks \in Seq(Tasks) /\ tasks # <<>> /\ pc = "register"
  BY DEF FlowInv, TypeOK, TasksInv, Register
<1>2. Len(tasks) \in Nat \ {0} /\ Last = tasks[Len(tasks)] /\ Last \in Tasks
  BY <1>1, EmptySeq, ElementOfSeq DEF Last
<1>3. CASE Last.st = "over"
  <2>1. Len(tasks) = 1
    <3>1. \A k \in 1 .. Len(tasks) : k # 1 => tasks[k].st = "queued"
      BY DEF FlowInv, TasksInv
    <3>2. Len(tasks) \in 1 .. Len(tasks)
      BY <1>2
    <3>3. Len(tasks) # 1 => Last.st = "queued"
      BY <1>2, <3>1, <3>2
    <3>4. QED
      BY <1>3, <3>3
  <2>2. tasks' = <<>>
    BY <1>1, <1>3, <2>1, SubSeqEmpty DEF Register
  <2>3. Last.queue = CurrentQueue
    BY <1>1, <1>2, <2>1 DEF FlowInv, PlaceInv, Inner
  <2>4. QED
    BY <1>2, <1>3, <2>1, <2>2, <2>3 DEF Register
<1>4. CASE Last.st # "over"
  BY <1>2, <1>4 DEF Register, Last, Tasks
<1>5. QED
  BY <1>2, <1>3, <1>4

\* The executor takes a task up ...
LEMMA BeginFacts ==
    ASSUME TypeOK, TaskBegin
    PROVE  /\ Len(tasks) \in Nat \ {0} /\ tasks[1] \in Tasks /\ tasks[1].st = "queued"
           /\ [tasks[1] EXCEPT !.st = "running"] \in Tasks
           /\ tasks' = [tasks EXCEPT ![1] = [tasks[1] EXCEPT !.st = "running"]]
<1>1. tasks \in Seq(Tasks) /\ tasks # <<>> /\ tasks[1].st = "queued"
  BY DEF TypeOK, TaskBegin
<1>2. Len(tasks) \in Nat \ {0} /\ tasks[1] \in Tasks
  BY <1>1, EmptySeq, ElementOfSeq
<1>3. QED
  BY <1>1, <1>2 DEF TaskBegin, Tasks

\* ... ends it ...
LEMMA EndFacts ==
    ASSUME TypeOK, TaskEnd
    PROVE  /\ Len(tasks) \in Nat \ {0} /\ tasks[1] \in Tasks /\ Running
           /\ \E ok \in BOOLEAN, t \in Tasks :
                /\ t = [tasks[1] EXCEPT !.st = "over", !.ok = ok, !.result.vers = seen]
                /\ tasks' = [tasks EXCEPT ![1] = t]
                /\ failed' = (failed \/ ~ok)
<1>1. tasks \in Seq(Tasks) /\ tasks # <<>> /\ Running /\ seen \in SUBSET Int
  BY DEF TypeOK, TaskEnd, Running
<1>2. Len(tasks) \in Nat \ {0} /\ tasks[1] \in Tasks
  BY <1>1, EmptySeq, ElementOfSeq
<1>3. PICK ok \in BOOLEAN :
        /\ tasks' = [tasks EXCEPT ![1].st = "over", ![1].ok = ok, ![1].result.vers = seen]
        /\ failed' = (failed \/ ~ok)
  BY DEF TaskEnd
<1>4. [tasks[1] EXCEPT !.st = "over", !.ok = ok, !.result.vers = seen] \in Tasks
  BY <1>1, <1>2 DEF Tasks, Results
<1>5. tasks' = [tasks EXCEPT ![1] = [tasks[1] EXCEPT !.st = "over", !.ok = ok, !.result.vers = seen]]
  BY <1>1, <1>2, <1>3
<1>6. QED
  BY <1>1, <1>2, <1>3, <1>4, <1>5

\* ... and runs its callback.
LEMMA CallbackFacts ==
    ASSUME TypeOK, Callback
    PROVE  /\ Len(tasks) \in Nat \ {0} /\ tasks[1] \in Tasks
           /\ tasks[1].st = "over" /\ tasks[1].callback
           /\ tasks' \in Seq(Tasks) /\ Len(tasks') = Len(tasks) - 1
           /\ \A k \in 1 .. Len(tasks') : tasks'[k] = tasks[k + 1]
           /\ tasks[1].ok => Put(tasks[1].queue, tasks[1].result)
           /\ ~tasks[1].ok => UNCHANGED queueVars
<1>1. tasks \in Seq(Tasks) /\ tasks # <<>> /\ tasks' = Tail(tasks)
  BY DEF TypeOK, Callback
<1>2. Len(tasks) \in Nat \ {0} /\ tasks[1] \in Tasks
  BY <1>1, EmptySeq, ElementOfSeq
<1>3. QED
  BY <1>1, <1>2, HeadTailProperties DEF Callback

\* What is in memory follows from the bounds.
LEMMA MemoryBound ==
    ASSUME trainQ' \in Seq(Results), evalQ' \in Seq(Results), tasks' \in Seq(Tasks), BoundInv'
    PROVE  Len(trainQ') <= 2 /\ Len(evalQ') <= 2 /\ Len(tasks') <= 2
<1>1. Len(trainQ') \in Nat /\ Len(evalQ') \in Nat /\ Len(tasks') \in Nat
  OBVIOUS
<1>2. \A s \in Streams : Room(s)' <= 2 /\ Room(s)' \in Nat
  BY DEF Room
<1>3. \A s \in Streams : InFlight(s)' \in Nat
  BY <1>1 DEF InFlight
<1>4. Len(trainQ') + InFlight("train")' <= 2 /\ Len(evalQ') + InFlight("eval")' <= 2
  BY <1>1, <1>2, <1>3 DEF BoundInv, QueueOf, Streams
<1>5. Len(trainQ') <= 2 /\ Len(evalQ') <= 2
  BY <1>1, <1>3, <1>4 DEF Streams
<1>6. CASE tasks' = <<>>
  BY <1>5, <1>6, EmptySeq
<1>7. CASE tasks' # <<>>
  <2>1. Len(tasks') \in Nat \ {0}
    BY <1>7, EmptySeq
  <2>2. tasks'[1] \in Tasks
    BY <2>1, ElementOfSeq
  <2>3. Len(tasks') = InFlight("train")' \/ Len(tasks') = InFlight("eval")'
    BY <1>7, <2>2 DEF Tasks, Streams, InFlight
  <2>4. QED
    BY <1>1, <1>3, <1>4, <1>5, <2>3 DEF Streams
<1>8. QED
  BY <1>6, <1>7

\* The bounds, spelled out.
LEMMA BoundFacts ==
    ASSUME FlowInv
    PROVE  /\ trainQ \in Seq(Results) /\ evalQ \in Seq(Results) /\ tasks \in Seq(Tasks)
           /\ Len(trainQ) \in Nat /\ (trainQ # <<>> => Len(trainQ) > 0)
           /\ Len(evalQ) \in Nat /\ (evalQ # <<>> => Len(evalQ) > 0)
           /\ Len(tasks) \in Nat
           /\ tasks # <<>> => /\ Len(tasks) > 0 /\ tasks[1] \in Tasks
                              /\ tasks[1].queue \in Streams
           /\ Len(trainQ) + InFlight("train") <= Room("train")
           /\ Len(evalQ) + InFlight("eval") <= Room("eval")
           /\ CurrentQueue \in Streams /\ Queue = QueueOf(CurrentQueue)
<1>1. /\ trainQ \in Seq(Results) /\ evalQ \in Seq(Results) /\ tasks \in Seq(Tasks)
  BY DEF FlowInv, TypeOK
<1>2. /\ Len(trainQ) \in Nat /\ (trainQ # <<>> => Len(trainQ) > 0)
      /\ Len(evalQ) \in Nat /\ (evalQ # <<>> => Len(evalQ) > 0)
      /\ Len(tasks) \in Nat /\ (tasks # <<>> => Len(tasks) > 0)
  BY <1>1, EmptySeq
<1>3. tasks # <<>> => tasks[1] \in Tasks /\ tasks[1].queue \in Streams
  <2>1. ASSUME tasks # <<>> PROVE tasks[1] \in Tasks /\ tasks[1].queue \in Streams
    <3>1. 1 \in 1 .. Len(tasks)
      BY <1>2, <2>1
    <3>2. tasks[1] \in Tasks
      BY <1>1, <3>1, ElementOfSeq
    <3>3. QED
      BY <3>2 DEF Tasks
  <2>2. QED
    BY <2>1
<1>4. CurrentQueue \in Streams /\ Queue = QueueOf(CurrentQueue)
  BY DEF CurrentQueue, Queue, QueueOf, Streams
<1>5. QED
  BY <1>1, <1>2, <1>3, <1>4 DEF FlowInv, BoundInv, QueueOf, Streams

\* A result in a queue says that no rollout for that queue is in flight.
LEMMA ResultMeansIdle ==
    ASSUME FlowInv, pc \notin {"register", "get"}, tasks # <<>>, NEW s \in Streams,
           QueueOf(s) # <<>>
    PROVE  tasks[1].queue # s
<1>1. Len(QueueOf(s)) > 0 /\ Len(QueueOf(s)) \in Nat
  BY BoundFacts DEF QueueOf
<1>2. Len(QueueOf(s)) + InFlight(s) <= 1
  BY DEF FlowInv, BoundInv, Room
<1>3. Len(tasks) > 0 /\ Len(tasks) \in Nat
  BY BoundFacts
<1>4. QED
  BY <1>1, <1>2, <1>3 DEF InFlight

\* Most steps of the main thread touch neither the queues nor the tasks.
LEMMA QuietStep ==
    ASSUME FlowInv, UNCHANGED <<queueVars, tasks>>,
           pc \notin {"register", "get"}, pc' # "register"
    PROVE  TasksInv' /\ BoundInv'
<1>1. TasksInv'
  BY DEF FlowInv, TasksInv
<1>2. BoundInv'
  <2>1. \A s \in Streams : InFlight(s)' = InFlight(s) /\ QueueOf(s)' = QueueOf(s)
    BY DEF InFlight, QueueOf, queueVars
  <2>2. \A s \in Streams : Len(QueueOf(s)) \in Nat /\ InFlight(s) \in Nat
    BY BoundFacts DEF QueueOf, InFlight
  <2>3. \A s \in Streams : Room(s) = 1 /\ Room(s)' \in {1, 2}
    BY DEF Room
  <2>4. QED
    BY <2>1, <2>2, <2>3 DEF FlowInv, BoundInv
<1>3. QED
  BY <1>1, <1>2

\* The executor's own steps on its first task leave the places as they are.
LEMMA FirstTaskStep ==
    ASSUME FlowInv, NEW t \in Tasks, tasks # <<>>, tasks' = [tasks EXCEPT ![1] = t],
           t.queue = tasks[1].queue, t.callback = tasks[1].callback,
           UNCHANGED <<pc, ret, mode, shouldEvaluate, evalFlag, queueVars>>
    PROVE  tasks' \in Seq(Tasks) /\ Len(tasks') <= 2 /\ TasksInv' /\ BoundInv' /\ PlaceInv'
<1>1. 1 \in 1 .. Len(tasks)
  BY BoundFacts
<1>2. /\ tasks' \in Seq(Tasks) /\ Len(tasks') = Len(tasks) /\ tasks' # <<>>
      /\ tasks'[1] = t
      /\ \A k \in 1 .. Len(tasks) : k # 1 => tasks'[k] = tasks[k]
  BY <1>1, ChangeFacts DEF FlowInv
<1>3. \A k \in 1 .. Len(tasks) : tasks'[k].queue = tasks[k].queue /\ tasks'[k].callback = tasks[k].callback
  BY <1>2
<1>4. TasksInv'
  <2>1. \A k \in 1 .. Len(tasks') : tasks'[k].queue = tasks'[1].queue
    BY <1>1, <1>2, <1>3 DEF FlowInv, TasksInv
  <2>2. \A k \in 1 .. Len(tasks') : k # 1 => tasks'[k].st = "queued"
    BY <1>2 DEF FlowInv, TasksInv
  <2>3. \A k \in 1 .. Len(tasks') : tasks'[k].callback = ~(pc' = "register" /\ k = Len(tasks'))
    BY <1>2, <1>3 DEF FlowInv, TasksInv
  <2>4. QED
    BY <1>2, <2>1, <2>2, <2>3 DEF TasksInv
<1>5. BoundInv'
  <2>1. \A s \in Streams : InFlight(s)' = InFlight(s)
    BY <1>1, <1>2, <1>3 DEF InFlight
  <2>2. \A s \in Streams : QueueOf(s)' = QueueOf(s) /\ Room(s)' = Room(s)
    BY DEF QueueOf, Room, CurrentQueue, queueVars
  <2>3. QED
    BY <2>1, <2>2 DEF FlowInv, BoundInv
<1>6. PlaceInv'
  <2>1. tasks'[1].queue = tasks[1].queue
    BY <1>1, <1>3
  <2>2. Queue' = Queue /\ CurrentQueue' = CurrentQueue /\ Prefetching' = Prefetching
    BY DEF Queue, CurrentQueue, Prefetching, queueVars
  <2>3. QED
    BY <2>1, <2>2 DEF FlowInv, PlaceInv
<1>7. QED
  BY <1>2, <1>4, <1>5, <1>6 DEF FlowInv, TypeOK

LEMMA FlowStep == FlowInv /\ [Next]_vars => FlowInv'
<1> SUFFICES ASSUME FlowInv, [Next]_vars PROVE FlowInv'
  OBVIOUS
<1> USE DEF mainVars, spVars, queueVars, taskVars
<1>1. CASE Prefetch
  <2>1. TypeOK'
    BY <1>1 DEF Prefetch, FlowInv, TypeOK, DisableSP, RestoreSP, Streams
  <2>2. TasksInv' /\ BoundInv'
    BY <1>1, QuietStep DEF Prefetch
  <2>3. PlaceInv'
    BY <1>1 DEF Prefetch, FlowInv, PlaceInv, Prefetching, Inner, Queue, CurrentQueue
  <2>4. QED
    BY <2>1, <2>2, <2>3 DEF FlowInv
<1>2. CASE PushBucket
  <2>1. TypeOK'
    <3>1. globalStep \in Int /\ moved \in Nat /\ seen \in SUBSET Int
      BY DEF FlowInv, TypeOK
    <3>2. engine' \in [1 .. Buckets -> Int]
      BY <1>2, <3>1 DEF PushBucket, FlowInv, TypeOK
    <3>3. seen' \in SUBSET Int /\ moved' \in Nat
      <4>1. seen' \in {seen, seen \union {globalStep}}
        BY <1>2 DEF PushBucket
      <4>2. QED
        BY <1>2, <3>1, <4>1 DEF PushBucket
    <3>4. QED
      BY <1>2, <3>2, <3>3 DEF PushBucket, FlowInv, TypeOK
  <2>2. TasksInv' /\ BoundInv'
    BY <1>2, QuietStep DEF PushBucket
  <2>3. PlaceInv'
    BY <1>2 DEF PushBucket, FlowInv, PlaceInv, Prefetching, Inner, Queue, CurrentQueue
  <2>4. QED
    BY <2>1, <2>2, <2>3 DEF FlowInv
<1>3. CASE EndMove
  <2>1. TypeOK'
    BY <1>3 DEF EndMove, FlowInv, TypeOK, DisableSP, RestoreSP, Streams
  <2>2. TasksInv' /\ BoundInv'
    BY <1>3, QuietStep DEF EndMove, FlowInv, TypeOK
  <2>3. PlaceInv'
    BY <1>3 DEF EndMove, FlowInv, PlaceInv, Prefetching, Inner, Queue, CurrentQueue, TypeOK
  <2>4. QED
    BY <2>1, <2>2, <2>3 DEF FlowInv
<1>4. CASE SyncInfer
  <2>1. TypeOK'
    BY <1>4 DEF SyncInfer, FlowInv, TypeOK, DisableSP, RestoreSP, Streams
  <2>2. TasksInv' /\ BoundInv'
    BY <1>4, QuietStep DEF SyncInfer
  <2>3. PlaceInv'
    BY <1>4 DEF SyncInfer, FlowInv, PlaceInv, Prefetching, Inner, Queue, CurrentQueue
  <2>4. QED
    BY <2>1, <2>2, <2>3 DEF FlowInv
<1>5. CASE Generate
  <2>1. TypeOK'
    BY <1>5 DEF Generate, FlowInv, TypeOK, DisableSP, RestoreSP, Streams
  <2>2. TasksInv' /\ BoundInv'
    BY <1>5, QuietStep DEF Generate
  <2>3. PlaceInv'
    <3>1. pc' = "move" => tasks = <<>>
      BY <1>5, ResultMeansIdle, BoundFacts DEF Generate, FlowInv, PlaceInv, Inner
    <3>2. QED
      BY <1>5, <3>1 DEF Generate, FlowInv, PlaceInv, Prefetching, Inner, Queue, CurrentQueue
  <2>4. QED
    BY <2>1, <2>2, <2>3 DEF FlowInv
<1>6. CASE Score
  <2>1. TypeOK'
    BY <1>6 DEF Score, FlowInv, TypeOK, DisableSP, RestoreSP, Streams
  <2>2. TasksInv' /\ BoundInv'
    BY <1>6, QuietStep DEF Score
  <2>3. PlaceInv'
    BY <1>6 DEF Score, FlowInv, PlaceInv, Prefetching, Inner, Queue, CurrentQueue
  <2>4. QED
    BY <2>1, <2>2, <2>3 DEF FlowInv
<1>7. CASE EndScore
  <2>1. TypeOK'
    BY <1>7 DEF EndScore, FlowInv, TypeOK, DisableSP, RestoreSP, Streams
  <2>2. TasksInv' /\ BoundInv'
    BY <1>7, QuietStep DEF EndScore
  <2>3. PlaceInv'
    BY <1>7 DEF EndScore, FlowInv, PlaceInv, Prefetching, Inner, Queue, CurrentQueue, TypeOK
  <2>4. QED
    BY <2>1, <2>2, <2>3 DEF FlowInv
<1>8. CASE Start
  <2>1. TypeOK'
    BY <1>8 DEF Start, FlowInv, TypeOK, DisableSP, RestoreSP, Streams
  <2>2. TasksInv' /\ BoundInv'
    BY <1>8, QuietStep DEF Start
  <2>3. PlaceInv'
    BY <1>8 DEF Start, FlowInv, PlaceInv, Prefetching, Inner, Queue, CurrentQueue
  <2>4. QED
    BY <2>1, <2>2, <2>3 DEF FlowInv
<1>9. CASE TrainingStep
  <2>1. TypeOK'
    BY <1>9 DEF TrainingStep, FlowInv, TypeOK, DisableSP, RestoreSP, Streams
  <2>2. TasksInv' /\ BoundInv'
    BY <1>9, QuietStep DEF TrainingStep
  <2>3. PlaceInv'
    <3>1. tasks # <<>> => tasks[1].queue = "train"
      <4>1. CASE evalFlag
        <5>1. evalQ # <<>>
          BY <1>9, <4>1 DEF TrainingStep
        <5>2. QED
          BY <1>9, <5>1, ResultMeansIdle, BoundFacts DEF TrainingStep, QueueOf, Streams
      <4>2. CASE ~evalFlag
        BY <1>9, <4>2 DEF TrainingStep, FlowInv, PlaceInv
      <4>3. QED
        BY <4>1, <4>2
    <3>2. QED
      BY <1>9, <3>1 DEF TrainingStep, FlowInv, PlaceInv, Prefetching, Inner, Queue, CurrentQueue
  <2>4. QED
    BY <2>1, <2>2, <2>3 DEF FlowInv
<1>10. CASE Forward
  <2>1. TypeOK'
    <3>1. step' \in Nat /\ globalStep' \in Nat
      BY <1>10 DEF Forward, FlowInv, TypeOK
    <3>2. shouldEvaluate' \in BOOLEAN
      BY <1>10 DEF Forward
    <3>3. pc' \in {"evaluate", "done", "step"}
      BY <1>10 DEF Forward
    <3>4. QED
      BY <1>10, <3>1, <3>2, <3>3 DEF Forward, FlowInv, TypeOK
  <2>2. TasksInv' /\ BoundInv'
    BY <1>10, QuietStep DEF Forward
  <2>3. PlaceInv'
    BY <1>10 DEF Forward, FlowInv, PlaceInv, Prefetching, Inner, Queue, CurrentQueue
  <2>4. QED
    BY <2>1, <2>2, <2>3 DEF FlowInv
<1>11. CASE Evaluate
  <2>1. TypeOK'
    BY <1>11 DEF Evaluate, FlowInv, TypeOK, DisableSP, RestoreSP, Streams
  <2>2. TasksInv' /\ BoundInv'
    BY <1>11, QuietStep DEF Evaluate
  <2>3. PlaceInv'
    <3>1. tasks = <<>>
      BY <1>11, ResultMeansIdle DEF Evaluate, FlowInv, PlaceInv, QueueOf, Streams
    <3>2. QED
      BY <1>11, <3>1 DEF Evaluate, FlowInv, PlaceInv, Prefetching, Inner, Queue, CurrentQueue
  <2>4. QED
    BY <2>1, <2>2, <2>3 DEF FlowInv
<1>12. CASE EvalBatch
  <2>1. TypeOK'
    BY <1>12 DEF EvalBatch, FlowInv, TypeOK, DisableSP, RestoreSP, Streams
  <2>2. TasksInv' /\ BoundInv'
    BY <1>12, QuietStep DEF EvalBatch
  <2>3. PlaceInv'
    BY <1>12 DEF EvalBatch, FlowInv, PlaceInv, Prefetching, Inner, Queue, CurrentQueue, TypeOK
  <2>4. QED
    BY <2>1, <2>2, <2>3 DEF FlowInv
<1>13. CASE Raise
  <2>1. TypeOK'
    BY <1>13 DEF Raise, FlowInv, TypeOK, DisableSP, RestoreSP, Streams
  <2>2. TasksInv' /\ BoundInv'
    BY <1>13, QuietStep DEF Raise
  <2>3. PlaceInv'
    BY <1>13 DEF Raise, FlowInv, PlaceInv, Prefetching, Inner, Queue, CurrentQueue
  <2>4. QED
    BY <2>1, <2>2, <2>3 DEF FlowInv
<1>14. CASE EndSyncInfer
  <2>1. asked' \in [Streams -> Nat]
    BY <1>14, SyncFacts DEF FlowInv
  <2>2. PICK r \in Results : Put(CurrentQueue, r)
    BY <1>14, SyncFacts DEF FlowInv
  <2>3. /\ trainQ' \in Seq(Results) /\ evalQ' \in Seq(Results)
        /\ \A s \in Streams : /\ s = CurrentQueue => Len(QueueOf(s)') = Len(QueueOf(s)) + 1
                              /\ s # CurrentQueue => QueueOf(s)' = QueueOf(s)
    BY <2>2, PutFacts, BoundFacts DEF FlowInv
  <2>4. /\ tasks = <<>> /\ Queue = <<>> /\ pc' \in {"start", "evalBatch"} /\ pc' = ret
        /\ UNCHANGED <<ret, mode, shouldEvaluate, tasks>>
    BY <1>14 DEF EndSyncInfer, FlowInv, PlaceInv, Prefetching, TypeOK, Inner
  <2>5. TasksInv'
    BY <1>14, <2>4, EmptySeq DEF FlowInv, TasksInv
  <2>6. BoundInv'
    <3>1. \A s \in Streams : Len(QueueOf(s)) <= 1 /\ Len(QueueOf(s)) \in Nat /\ InFlight(s)' = 0 /\ Room(s)' = 1
      BY <1>14, <2>4, BoundFacts DEF EndSyncInfer, FlowInv, BoundInv, QueueOf, InFlight, Room, Streams
    <3>2. Len(QueueOf(CurrentQueue)) = 0
      BY <2>4, BoundFacts, EmptySeq
    <3>3. QED
      BY <2>3, <3>1, <3>2 DEF BoundInv
  <2>7. PlaceInv'
    BY <1>14, <2>4 DEF EndSyncInfer, FlowInv, PlaceInv, Prefetching, TypeOK
  <2>8. TypeOK'
    <3>1. spSize' \in Nat
      BY <1>14 DEF EndSyncInfer, RestoreSP, FlowInv, TypeOK
    <3>2. QED
      BY <1>14, <2>1, <2>3, <2>4, <2>6, <3>1, MemoryBound
         DEF EndSyncInfer, RestoreSP, FlowInv, TypeOK
  <2>9. QED
    BY <2>5, <2>6, <2>7, <2>8 DEF FlowInv
<1>15. CASE Submit
  <2>1. /\ Len(tasks) \in Nat /\ tasks' \in Seq(Tasks) /\ Len(tasks') = Len(tasks) + 1
        /\ tasks' # <<>>
        /\ \A k \in 1 .. Len(tasks) : tasks'[k] = tasks[k]
    BY <1>15, SubmitFacts, BoundFacts, EmptySeq DEF FlowInv
  <2>2. /\ tasks'[Len(tasks) + 1].queue = CurrentQueue /\ tasks'[Len(tasks) + 1].st = "queued"
        /\ tasks'[Len(tasks) + 1].callback = FALSE
    BY <1>15, SubmitFacts DEF FlowInv
  <2>3. pc = "submit" /\ pc' = "register"
        /\ UNCHANGED <<ret, mode, shouldEvaluate, evalFlag, queueVars>>
    BY <1>15 DEF Submit
  <2>4. \A k \in 1 .. Len(tasks) : /\ tasks[k].queue = CurrentQueue
                                   /\ tasks[k].callback = TRUE
    <3>1. tasks # <<>> => tasks[1].queue = CurrentQueue
      BY <2>3 DEF FlowInv, PlaceInv, Inner
    <3>2. \A k \in 1 .. Len(tasks) : tasks[k].queue = CurrentQueue
      BY <2>1, <3>1, EmptySeq DEF FlowInv, TasksInv
    <3>3. \A k \in 1 .. Len(tasks) : tasks[k].callback = TRUE
      BY <2>3 DEF FlowInv, TasksInv
    <3>4. QED
      BY <3>2, <3>3
  <2>5. \A k \in 1 .. Len(tasks') : k \in 1 .. Len(tasks) \/ k = Len(tasks) + 1
    BY <2>1
  <2>6. \A k \in 1 .. Len(tasks') : tasks'[k].queue = CurrentQueue
    BY <2>1, <2>2, <2>4, <2>5
  <2>7. tasks'[1].queue = CurrentQueue
    BY <2>1, <2>6
  <2>8. TasksInv'
    <3>1. \A k \in 1 .. Len(tasks') : k # 1 => tasks'[k].st = "queued"
      BY <2>1, <2>2, <2>5 DEF FlowInv, TasksInv
    <3>2. \A k \in 1 .. Len(tasks') : tasks'[k].callback = ~(pc' = "register" /\ k = Len(tasks'))
      BY <2>1, <2>2, <2>3, <2>4, <2>5
    <3>3. QED
      BY <2>1, <2>6, <2>7, <3>1, <3>2 DEF TasksInv
  <2>9. BoundInv'
    <3>1. ASSUME NEW s \in Streams
          PROVE  Len(QueueOf(s)') + InFlight(s)' <= Room(s)'
      <4>1. QueueOf(s)' = QueueOf(s) /\ Len(QueueOf(s)) \in Nat /\ InFlight(s) \in Nat
        BY <2>1, <2>3, BoundFacts DEF QueueOf, InFlight
      <4>2. Len(QueueOf(s)) + InFlight(s) <= 1
        BY <2>3 DEF FlowInv, BoundInv, Room
      <4>3. CASE s = CurrentQueue
        <5>1. InFlight(s)' = InFlight(s) + 1
          BY <2>1, <2>4, <2>7, <4>3, EmptySeq DEF InFlight
        <5>2. Room(s)' = 2
          BY <2>3, <4>3 DEF Room, CurrentQueue
        <5>3. QED
          BY <4>1, <4>2, <5>1, <5>2
      <4>4. CASE s # CurrentQueue
        <5>1. InFlight(s)' = 0 /\ Room(s)' = 1
          BY <2>3, <2>7, <4>4 DEF InFlight, Room, CurrentQueue
        <5>2. QED
          BY <4>1, <4>2, <5>1
      <4>5. QED
        BY <4>3, <4>4
    <3>2. QED
      BY <3>1 DEF BoundInv
  <2>10. PlaceInv'
    BY <2>3, <2>7 DEF FlowInv, PlaceInv, Prefetching, Inner, CurrentQueue
  <2>11. TypeOK'
    BY <1>15, <2>1, <2>3, <2>9, SubmitFacts, MemoryBound DEF Submit, FlowInv, TypeOK
  <2>12. QED
    BY <2>8, <2>9, <2>10, <2>11 DEF FlowInv
<1>16. CASE Get
  <2>1. /\ trainQ' \in Seq(Results) /\ evalQ' \in Seq(Results) /\ taken' \in Results
        /\ \A s \in Streams : s # CurrentQueue => QueueOf(s)' = QueueOf(s)
        /\ \A s \in Streams : s = CurrentQueue =>
             Len(QueueOf(s)) \in Nat \ {0} /\ Len(QueueOf(s)') = Len(QueueOf(s)) - 1
    BY <1>16, GetFacts DEF FlowInv
  <2>2. pc = "get" /\ pc' = "score"
        /\ UNCHANGED <<ret, mode, shouldEvaluate, evalFlag, tasks>>
    BY <1>16 DEF Get
  <2>3. TasksInv'
    BY <2>2 DEF FlowInv, TasksInv
  <2>4. BoundInv'
    <3>1. ASSUME NEW s \in Streams
          PROVE  Len(QueueOf(s)') + InFlight(s)' <= Room(s)'
      <4>1. InFlight(s)' = InFlight(s) /\ Len(QueueOf(s)) \in Nat /\ InFlight(s) \in Nat
        BY <2>2, BoundFacts DEF QueueOf, InFlight
      <4>2. Room(s)' = 1 /\ Len(QueueOf(s)) + InFlight(s) <= Room(s)
        BY <2>2 DEF FlowInv, BoundInv, Room
      <4>3. CASE s = CurrentQueue
        BY <2>1, <4>1, <4>2, <4>3 DEF Room
      <4>4. CASE s # CurrentQueue
        BY <2>1, <4>1, <4>2, <4>4 DEF Room
      <4>5. QED
        BY <4>3, <4>4
    <3>2. QED
      BY <3>1 DEF BoundInv
  <2>5. PlaceInv'
    BY <2>2 DEF FlowInv, PlaceInv, Prefetching, Inner, CurrentQueue
  <2>6. TypeOK'
    BY <1>16, <2>1, <2>2, <2>4, MemoryBound DEF Get, FlowInv, TypeOK
  <2>7. QED
    BY <2>3, <2>4, <2>5, <2>6 DEF FlowInv
<1>17. CASE TaskBegin
  <2>1. /\ tasks # <<>>
        /\ [tasks[1] EXCEPT !.st = "running"] \in Tasks
        /\ tasks' = [tasks EXCEPT ![1] = [tasks[1] EXCEPT !.st = "running"]]
        /\ [tasks[1] EXCEPT !.st = "running"].queue = tasks[1].queue
        /\ [tasks[1] EXCEPT !.st = "running"].callback = tasks[1].callback
    BY <1>17, BeginFacts DEF FlowInv, TaskBegin, Tasks
  <2>2. UNCHANGED <<pc, ret, mode, shouldEvaluate, evalFlag, queueVars>>
    BY <1>17 DEF TaskBegin
  <2>3. tasks' \in Seq(Tasks) /\ Len(tasks') <= 2 /\ TasksInv' /\ BoundInv' /\ PlaceInv'
    BY <2>1, <2>2, FirstTaskStep
  <2>4. seen' \in SUBSET Int /\ saved' \in [{"main", "executor"} -> Nat] /\ spSize' \in Nat
    BY <1>17 DEF TaskBegin, FlowInv, TypeOK
  <2>5. TypeOK'
    BY <1>17, <2>3, <2>4 DEF TaskBegin, FlowInv, TypeOK
  <2>6. QED
    BY <2>3, <2>5 DEF FlowInv
<1>18. CASE TaskEnd
  <2>1. PICK ok \in BOOLEAN, t \in Tasks :
          /\ t = [tasks[1] EXCEPT !.st = "over", !.ok = ok, !.result.vers = seen]
          /\ tasks' = [tasks EXCEPT ![1] = t]
          /\ failed' = (failed \/ ~ok)
    BY <1>18, EndFacts DEF FlowInv
  <2>2. tasks # <<>> /\ t.queue = tasks[1].queue /\ t.callback = tasks[1].callback
    BY <1>18, <2>1, EndFacts DEF FlowInv, TaskEnd, Running, Tasks
  <2>3. UNCHANGED <<pc, ret, mode, shouldEvaluate, evalFlag, queueVars>>
    BY <1>18 DEF TaskEnd
  <2>4. tasks' \in Seq(Tasks) /\ Len(tasks') <= 2 /\ TasksInv' /\ BoundInv' /\ PlaceInv'
    BY <2>1, <2>2, <2>3, FirstTaskStep
  <2>5. seen' = {} /\ spSize' \in Nat /\ failed' \in BOOLEAN /\ UNCHANGED saved
    BY <1>18, <2>1 DEF TaskEnd, RestoreSP, FlowInv, TypeOK
  <2>6. TypeOK'
    BY <1>18, <2>4, <2>5 DEF TaskEnd, FlowInv, TypeOK
  <2>7. QED
    BY <2>4, <2>6 DEF FlowInv
<1>19. CASE Register
  <2>1. /\ pc = "register" /\ pc' = "get" /\ tasks # <<>>
        /\ UNCHANGED <<ret, mode, shouldEvaluate, evalFlag>>
    BY <1>19 DEF Register, FlowInv, TasksInv
  <2>2. tasks[1].queue = CurrentQueue
    BY <2>1 DEF FlowInv, PlaceInv, Inner
  <2>3. /\ CurrentQueue' = CurrentQueue /\ ~Prefetching'
        /\ \A s \in Streams : Room(s)' = Room(s)
    BY <2>1 DEF CurrentQueue, Prefetching, Room
  <2>4. CASE Last.st = "over"
    <3>1. /\ Len(tasks) = 1 /\ tasks' = <<>> /\ Last \in Tasks
          /\ Put(CurrentQueue, Last.result) \/ UNCHANGED queueVars
      BY <1>19, <2>4, RegisterFacts
    <3>2. Last.result \in Results /\ CurrentQueue \in Streams
      BY <3>1, BoundFacts DEF Tasks
    <3>3. /\ trainQ' \in Seq(Results) /\ evalQ' \in Seq(Results)
          /\ \A s \in Streams : /\ Len(QueueOf(s)) \in Nat
                                /\ s # CurrentQueue => QueueOf(s)' = QueueOf(s)
                                /\ s = CurrentQueue => \/ Len(QueueOf(s)') = Len(QueueOf(s)) + 1
                                                       \/ QueueOf(s)' = QueueOf(s)
      <4>1. \A s \in Streams : Len(QueueOf(s)) \in Nat
        BY BoundFacts DEF QueueOf
      <4>2. CASE UNCHANGED queueVars
        BY <4>1, <4>2, BoundFacts DEF QueueOf
      <4>3. CASE Put(CurrentQueue, Last.result)
        BY <3>2, <4>1, <4>3, PutFacts DEF FlowInv
      <4>4. QED
        BY <3>1, <4>2, <4>3
    <3>4. TasksInv'
      BY <2>1, <3>1, EmptySeq DEF TasksInv
    <3>5. BoundInv'
      <4>1. \A s \in Streams : InFlight(s)' = 0 /\ InFlight(s) = IF s = CurrentQueue THEN 1 ELSE 0
        BY <2>1, <2>2, <3>1 DEF InFlight
      <4>2. \A s \in Streams : Room(s) \in Nat
        BY DEF Room
      <4>3. QED
        BY <2>3, <3>3, <4>1, <4>2 DEF FlowInv, BoundInv
    <3>6. PlaceInv'
      BY <2>1, <2>3, <3>1 DEF FlowInv, PlaceInv
    <3>7. TypeOK'
      <4>1. tasks' \in Seq(Tasks)
        BY <3>1, EmptySeq
      <4>2. QED
        BY <1>19, <3>3, <3>5, <4>1, MemoryBound DEF Register, FlowInv, TypeOK
    <3>8. QED
      BY <3>4, <3>5, <3>6, <3>7 DEF FlowInv
  <2>5. CASE Last.st # "over"
    <3>1. PICK t \in Tasks : /\ t = [Last EXCEPT !.callback = TRUE]
                             /\ tasks' = [tasks EXCEPT ![Len(tasks)] = t]
                             /\ UNCHANGED queueVars
      BY <1>19, <2>5, RegisterFacts
    <3>2. Len(tasks) \in 1 .. Len(tasks) /\ Len(tasks) \in Nat \ {0} /\ Last = tasks[Len(tasks)] /\ Last \in Tasks
      BY <1>19, RegisterFacts
    <3>3. t.queue = Last.queue /\ t.st = Last.st /\ t.callback = TRUE
      BY <3>1, <3>2 DEF Tasks
    <3>4. /\ tasks' \in Seq(Tasks) /\ Len(tasks') = Len(tasks) /\ tasks' # <<>>
          /\ tasks'[Len(tasks)] = t
          /\ \A k \in 1 .. Len(tasks) : k # Len(tasks) => tasks'[k] = tasks[k]
      BY <3>1, <3>2, ChangeFacts DEF FlowInv
    <3>5. \A k \in 1 .. Len(tasks) : tasks'[k].queue = tasks[k].queue /\ tasks'[k].st = tasks[k].st
      BY <3>2, <3>3, <3>4
    <3>6. \A k \in 1 .. Len(tasks) : tasks'[k].callback = TRUE
      BY <2>1, <3>2, <3>3, <3>4 DEF FlowInv, TasksInv
    <3>7. 1 \in 1 .. Len(tasks) /\ tasks'[1].queue = CurrentQueue
      BY <2>2, <3>2, <3>5
    <3>8. TasksInv'
      <4>1. \A k \in 1 .. Len(tasks') : tasks'[k].queue = tasks'[1].queue
        BY <3>4, <3>5, <3>7 DEF FlowInv, TasksInv
      <4>2. \A k \in 1 .. Len(tasks') : k # 1 => tasks'[k].st = "queued"
        BY <3>4, <3>5 DEF FlowInv, TasksInv
      <4>3. QED
        BY <2>1, <3>4, <3>6, <4>1, <4>2 DEF TasksInv
    <3>9. BoundInv'
      <4>1. \A s \in Streams : InFlight(s)' = InFlight(s) /\ QueueOf(s)' = QueueOf(s)
        BY <2>1, <2>2, <3>1, <3>4, <3>7 DEF InFlight, QueueOf, queueVars
      <4>2. QED
        BY <2>3, <4>1 DEF FlowInv, BoundInv
    <3>10. PlaceInv'
      BY <2>1, <2>3, <3>4, <3>7 DEF FlowInv, PlaceInv, Inner
    <3>11. TypeOK'
      BY <1>19, <3>1, <3>4, <3>9, MemoryBound DEF Register, FlowInv, TypeOK
    <3>12. QED
      BY <3>8, <3>9, <3>10, <3>11 DEF FlowInv
  <2>6. QED
    BY <2>4, <2>5
<1>20. CASE Callback
  <2>1. /\ Len(tasks) \in Nat \ {0} /\ tasks[1] \in Tasks /\ tasks[1].callback
        /\ tasks' \in Seq(Tasks) /\ Len(tasks') = Len(tasks) - 1
        /\ \A k \in 1 .. Len(tasks') : tasks'[k] = tasks[k + 1]
        /\ Put(tasks[1].queue, tasks[1].result) \/ UNCHANGED queueVars
    BY <1>20, CallbackFacts DEF FlowInv
  <2>2. UNCHANGED <<pc, ret, mode, shouldEvaluate, evalFlag>>
    BY <1>20 DEF Callback
  <2>3. tasks[1].queue \in Streams /\ tasks[1].result \in Results
    BY <2>1 DEF Tasks
  <2>4. /\ trainQ' \in Seq(Results) /\ evalQ' \in Seq(Results)
        /\ \A s \in Streams : /\ Len(QueueOf(s)) \in Nat
                              /\ s # tasks[1].queue => QueueOf(s)' = QueueOf(s)
                              /\ s = tasks[1].queue => \/ Len(QueueOf(s)') = Len(QueueOf(s)) + 1
                                                       \/ QueueOf(s)' = QueueOf(s)
    <3>1. \A s \in Streams : Len(QueueOf(s)) \in Nat
      BY BoundFacts DEF QueueOf
    <3>2. CASE UNCHANGED queueVars
      BY <3>1, <3>2, BoundFacts DEF QueueOf
    <3>3. CASE Put(tasks[1].queue, tasks[1].result)
      BY <2>3, <3>1, <3>3, PutFacts DEF FlowInv
    <3>4. QED
      BY <2>1, <3>2, <3>3
  <2>5. \A k \in 1 .. Len(tasks') : k + 1 \in 1 .. Len(tasks) /\ k + 1 # 1
    BY <2>1
  <2>6. \A k \in 1 .. Len(tasks') : tasks'[k].queue = tasks[1].queue
    BY <2>1, <2>5 DEF FlowInv, TasksInv
  <2>7. tasks' # <<>> => 1 \in 1 .. Len(tasks') /\ tasks'[1].queue = tasks[1].queue
    BY <2>1, <2>6, EmptySeq
  <2>8. TasksInv'
    <3>1. \A k \in 1 .. Len(tasks') : k # 1 => tasks'[k].st = "queued"
      BY <2>1, <2>5 DEF FlowInv, TasksInv
    <3>2. \A k \in 1 .. Len(tasks') : tasks'[k].callback = ~(pc' = "register" /\ k = Len(tasks'))
      BY <2>1, <2>2, <2>5 DEF FlowInv, TasksInv
    <3>3. pc' = "register" => Len(tasks') # 0
      <4>1. 1 \in 1 .. Len(tasks)
        BY <2>1
      <4>2. ~(pc = "register" /\ 1 = Len(tasks))
        BY <2>1, <4>1 DEF FlowInv, TasksInv
      <4>3. QED
        BY <2>1, <2>2, <4>2
    <3>4. \A k \in 1 .. Len(tasks') : tasks'[k].queue = tasks'[1].queue
      BY <2>1, <2>6, <2>7, EmptySeq
    <3>5. pc' = "register" => tasks' # <<>>
      BY <3>3, EmptySeq
    <3>6. QED
      BY <3>1, <3>2, <3>4, <3>5 DEF TasksInv
  <2>9. BoundInv'
    <3>1. ASSUME NEW s \in Streams
          PROVE  Len(QueueOf(s)') + InFlight(s)' <= Room(s)'
      <4>1. Room(s)' = Room(s) /\ Room(s) \in Nat /\ Len(QueueOf(s)) \in Nat
        BY <2>2, <2>4 DEF Room, CurrentQueue
      <4>2. Len(QueueOf(s)) + InFlight(s) <= Room(s)
        BY DEF FlowInv, BoundInv
      <4>3. tasks # <<>>
        BY <2>1, EmptySeq
      <4>4. CASE s = tasks[1].queue
        <5>1. InFlight(s) = Len(tasks) /\ InFlight(s)' = Len(tasks) - 1
          BY <2>1, <2>7, <4>3, <4>4, EmptySeq DEF InFlight
        <5>2. QED
          BY <2>1, <2>4, <4>1, <4>2, <4>4, <5>1
      <4>5. CASE s # tasks[1].queue
        <5>1. InFlight(s) = 0 /\ InFlight(s)' = 0
          BY <2>7, <4>5 DEF InFlight
        <5>2. QED
          BY <2>4, <4>1, <4>2, <4>5, <5>1
      <4>6. QED
        BY <4>4, <4>5
    <3>2. QED
      BY <3>1 DEF BoundInv
  <2>10. PlaceInv'
    <3>1. CurrentQueue' = CurrentQueue /\ Prefetching' = Prefetching /\ tasks # <<>>
      BY <2>1, <2>2, EmptySeq DEF CurrentQueue, Prefetching
    <3>2. ~Prefetching
      BY <3>1 DEF FlowInv, PlaceInv, Prefetching, Inner
    <3>3. QED
      BY <2>2, <2>7, <3>1, <3>2 DEF FlowInv, PlaceInv
  <2>11. TypeOK'
    BY <1>20, <2>1, <2>2, <2>4, <2>9, MemoryBound DEF Callback, FlowInv, TypeOK
  <2>12. QED
    BY <2>8, <2>9, <2>10, <2>11 DEF FlowInv
<1>21. CASE UNCHANGED vars
  <2>1. TypeOK' /\ TasksInv'
    BY <1>21 DEF vars, FlowInv, TypeOK, TasksInv
  <2>2. BoundInv'
    BY <1>21 DEF vars, FlowInv, BoundInv, QueueOf, InFlight, Room, CurrentQueue
  <2>3. PlaceInv'
    BY <1>21 DEF vars, FlowInv, PlaceInv, Prefetching, Queue, CurrentQueue
  <2>4. QED
    BY <2>1, <2>2, <2>3 DEF FlowInv
<1>22. QED
  BY <1>1, <1>2, <1>3, <1>4, <1>5, <1>6, <1>7, <1>8, <1>9, <1>10, <1>11, <1>12, <1>13, <1>14, <1>15, <1>16, <1>17, <1>18, <1>19, <1>20, <1>21 DEF Next, Main, Executor

-----------------------------------------------------------------------------
(* Versions.                                                               *)

LEMMA VersionsInit == Init => VersionsInv
<1> SUFFICES ASSUME Init PROVE VersionsInv
  OBVIOUS
<1>1. EngineInv /\ FlightInv
  BY EmptySeq DEF Init, EngineInv, FlightInv, Running
<1>2. StoredInv
  BY EmptySeq DEF Init, StoredInv, QueueOf
<1>3. QED
  BY <1>1, <1>2 DEF VersionsInv

LEMMA EngineStep ==
    ASSUME FlowInv, EngineInv, [Next]_vars
    PROVE  EngineInv'
<1> USE DEF mainVars
<1>0. moved \in Nat /\ Buckets \in Nat \ {0} /\ engine \in [1 .. Buckets -> Int]
  BY BucketsAssumption DEF FlowInv, TypeOK
<1>1. CASE Prefetch
  BY <1>0, <1>1 DEF Prefetch, EngineInv
<1>2. CASE PushBucket
  BY <1>0, <1>2 DEF PushBucket, EngineInv
<1>3. CASE EndMove
  BY <1>0, <1>3 DEF EndMove, EngineInv
<1>4. CASE SyncInfer
  BY <1>0, <1>4 DEF SyncInfer, EngineInv
<1>5. CASE EndSyncInfer
  BY <1>0, <1>5 DEF EndSyncInfer, EngineInv
<1>6. CASE Generate
  BY <1>0, <1>6 DEF Generate, EngineInv
<1>7. CASE Submit
  BY <1>0, <1>7 DEF Submit, EngineInv
<1>8. CASE Register
  BY <1>0, <1>8 DEF Register, EngineInv
<1>9. CASE Get
  BY <1>0, <1>9 DEF Get, EngineInv
<1>10. CASE Score
  BY <1>0, <1>10 DEF Score, EngineInv
<1>11. CASE EndScore
  BY <1>0, <1>11 DEF EndScore, EngineInv
<1>12. CASE Start
  BY <1>0, <1>12 DEF Start, EngineInv
<1>13. CASE TrainingStep
  BY <1>0, <1>13 DEF TrainingStep, EngineInv
<1>14. CASE Forward
  BY <1>0, <1>14 DEF Forward, EngineInv
<1>15. CASE Evaluate
  BY <1>0, <1>15 DEF Evaluate, EngineInv
<1>16. CASE EvalBatch
  BY <1>0, <1>16 DEF EvalBatch, EngineInv
<1>17. CASE TaskBegin
  BY <1>0, <1>17 DEF TaskBegin, EngineInv
<1>18. CASE TaskEnd
  BY <1>0, <1>18 DEF TaskEnd, EngineInv
<1>19. CASE Callback
  BY <1>0, <1>19 DEF Callback, EngineInv
<1>20. CASE Raise
  BY <1>0, <1>20 DEF Raise, EngineInv
<1>21. CASE UNCHANGED vars
  BY <1>21 DEF vars, EngineInv
<1>22. QED
  BY <1>1, <1>2, <1>3, <1>4, <1>5, <1>6, <1>7, <1>8, <1>9, <1>10, <1>11, <1>12, <1>13, <1>14, <1>15, <1>16, <1>17, <1>18, <1>19, <1>20, <1>21 DEF Next, Main, Executor

LEMMA FlightStep ==
    ASSUME FlowInv, EngineInv, FlightInv, [Next]_vars
    PROVE  FlightInv'
<1> USE DEF mainVars, taskVars
<1>1. CASE UNCHANGED <<tasks, seen, lastLoaded>>
  BY <1>1 DEF FlightInv, Running
<1>2. CASE PushBucket
  <2>1. tasks = <<>>
    BY <1>2 DEF PushBucket, FlowInv, PlaceInv, Inner
  <2>2. seen = {}
    BY <2>1 DEF FlightInv, Running
  <2>3. seen' = seen
    BY <1>2, <2>2 DEF PushBucket
  <2>4. QED
    BY <1>2, <2>3 DEF PushBucket, FlightInv, Running
<1>3. CASE EndMove
  <2>1. tasks = <<>>
    BY <1>3 DEF EndMove, FlowInv, PlaceInv, Inner
  <2>2. QED
    BY <1>3, <2>1, EmptySeq DEF EndMove, FlightInv, Running
<1>4. CASE Submit
  <2>1. /\ Len(tasks) \in Nat /\ Len(tasks') = Len(tasks) + 1 /\ tasks' \in Seq(Tasks)
        /\ \A k \in 1 .. Len(tasks) : tasks'[k] = tasks[k]
        /\ tasks # <<>> => Len(tasks) > 0
    BY <1>4, SubmitFacts, BoundFacts DEF FlowInv
  <2>2. /\ tasks'[Len(tasks) + 1].st = "queued"
        /\ tasks'[Len(tasks) + 1].result.at = globalStep
    BY <1>4, SubmitFacts DEF FlowInv
  <2>3. globalStep = lastLoaded /\ UNCHANGED <<seen, lastLoaded>>
    BY <1>4 DEF Submit, EngineInv
  <2>4. \A k \in 1 .. Len(tasks') : tasks'[k].result.at = lastLoaded'
    <3>1. \A k \in 1 .. Len(tasks') : k \in 1 .. Len(tasks) \/ k = Len(tasks) + 1
      BY <2>1
    <3>2. QED
      BY <2>1, <2>2, <2>3, <3>1 DEF FlightInv
  <2>5. IF tasks = <<>> THEN tasks'[1].st = "queued" ELSE tasks'[1] = tasks[1]
    BY <2>1, <2>2, EmptySeq
  <2>6. tasks' # <<>>
    BY <2>1, EmptySeq
  <2>7. QED
    BY <2>3, <2>4, <2>5, <2>6 DEF FlightInv, Running
<1>5. CASE Register
  <2>1. Len(tasks) \in Nat \ {0} /\ Last = tasks[Len(tasks)] /\ Last \in Tasks /\ tasks # <<>>
    BY <1>5, RegisterFacts, EmptySeq
  <2>2. UNCHANGED <<seen, lastLoaded>>
    BY <1>5 DEF Register
  <2>3. CASE Last.st = "over"
    <3>1. Len(tasks) = 1 /\ tasks' = <<>>
      BY <1>5, <2>3, RegisterFacts
    <3>2. ~Running /\ ~Running'
      BY <2>1, <2>3, <3>1 DEF Running
    <3>3. QED
      BY <2>2, <3>1, <3>2, EmptySeq DEF FlightInv
  <2>4. CASE Last.st # "over"
    <3>1. PICK t \in Tasks : /\ t = [Last EXCEPT !.callback = TRUE]
                             /\ tasks' = [tasks EXCEPT ![Len(tasks)] = t]
      BY <1>5, <2>4, RegisterFacts
    <3>2. Len(tasks) \in 1 .. Len(tasks) /\ 1 \in 1 .. Len(tasks)
      BY <2>1
    <3>3. t.st = Last.st /\ t.result = Last.result
      BY <2>1, <3>1 DEF Tasks
    <3>4. /\ Len(tasks') = Len(tasks) /\ tasks' # <<>> /\ tasks'[Len(tasks)] = t
          /\ \A k \in 1 .. Len(tasks) : k # Len(tasks) => tasks'[k] = tasks[k]
      BY <3>1, <3>2, ChangeFacts DEF FlowInv
    <3>5. \A k \in 1 .. Len(tasks) : tasks'[k].st = tasks[k].st /\ tasks'[k].result = tasks[k].result
      BY <2>1, <3>3, <3>4
    <3>6. QED
      BY <2>1, <2>2, <3>2, <3>4, <3>5 DEF FlightInv, Running
  <2>5. QED
    BY <2>3, <2>4
<1>6. CASE TaskBegin
  <2>1. /\ 1 \in 1 .. Len(tasks) /\ tasks[1].st = "queued" /\ tasks[1] \in Tasks
        /\ [tasks[1] EXCEPT !.st = "running"] \in Tasks
        /\ tasks' = [tasks EXCEPT ![1] = [tasks[1] EXCEPT !.st = "running"]]
    BY <1>6, BeginFacts DEF FlowInv
  <2>2. /\ [tasks[1] EXCEPT !.st = "running"].st = "running"
        /\ [tasks[1] EXCEPT !.st = "running"].result = tasks[1].result
    BY <2>1 DEF Tasks
  <2>3. /\ Len(tasks') = Len(tasks) /\ tasks' # <<>>
        /\ tasks'[1] = [tasks[1] EXCEPT !.st = "running"]
        /\ \A k \in 1 .. Len(tasks) : k # 1 => tasks'[k] = tasks[k]
    BY <2>1, ChangeFacts DEF FlowInv
  <2>4. \A k \in 1 .. Len(tasks) : tasks'[k].result = tasks[k].result
    BY <2>2, <2>3
  <2>5. pc \notin {"move", "raised"}
    BY <1>6 DEF TaskBegin, FlowInv, PlaceInv, Inner
  <2>6. {engine[b] : b \in 1 .. Buckets} = {lastLoaded}
    BY <2>5, BucketsAssumption DEF EngineInv
  <2>7. seen' = {lastLoaded'} /\ lastLoaded' = lastLoaded
    BY <1>6, <2>6 DEF TaskBegin
  <2>8. Running' /\ tasks'[1].st # "over"
    BY <2>2, <2>3 DEF Running
  <2>9. QED
    BY <2>3, <2>4, <2>7, <2>8 DEF FlightInv
<1>7. CASE TaskEnd
  BY <1>7 DEF TaskEnd, FlightInv, Running
<1>8. CASE Callback
  <2>1. /\ Len(tasks) \in Nat \ {0} /\ tasks[1].st = "over"
        /\ tasks' \in Seq(Tasks) /\ Len(tasks') = Len(tasks) - 1
        /\ \A k \in 1 .. Len(tasks') : tasks'[k] = tasks[k + 1]
    BY <1>8, CallbackFacts DEF FlowInv
  <2>2. \A k \in 1 .. Len(tasks') : k + 1 \in 1 .. Len(tasks) /\ k + 1 # 1
    BY <2>1
  <2>3. \A k \in 1 .. Len(tasks') : tasks'[k].result.at = lastLoaded /\ tasks'[k].st = "queued"
    BY <2>1, <2>2 DEF FlightInv, FlowInv, TasksInv
  <2>4. tasks' # <<>> => tasks'[1].st = "queued"
    BY <2>1, <2>3, EmptySeq
  <2>5. ~Running /\ ~Running' /\ UNCHANGED <<seen, lastLoaded>>
    BY <1>8, <2>1, <2>4 DEF Callback, Running
  <2>6. QED
    BY <2>3, <2>4, <2>5 DEF FlightInv
<1>9. QED
  BY <1>1, <1>2, <1>3, <1>4, <1>5, <1>6, <1>7, <1>8
     DEF Next, Main, Executor, vars, Prefetch, SyncInfer, EndSyncInfer, Generate, Get, Score,
         EndScore, Start, TrainingStep, Forward, Evaluate, EvalBatch, Raise

\* A put of a result of one version keeps the queues so.
LEMMA StoredPut ==
    ASSUME FlowInv, StoredInv, NEW q \in Streams, NEW r \in Results, Put(q, r),
           r.vers = {r.at}, UNCHANGED taken
    PROVE  StoredInv'
<1>1. ASSUME NEW s \in Streams, NEW k \in 1 .. Len(QueueOf(s)')
      PROVE  QueueOf(s)'[k].vers = {QueueOf(s)'[k].at}
  <2>1. Len(QueueOf(s)) \in Nat
    BY BoundFacts DEF QueueOf
  <2>2. CASE s # q
    <3>1. QueueOf(s)' = QueueOf(s)
      BY <2>2, PutFacts DEF FlowInv
    <3>2. QED
      BY <1>1, <3>1 DEF StoredInv
  <2>3. CASE s = q
    <3>1. /\ Len(QueueOf(s)') = Len(QueueOf(s)) + 1
          /\ \A j \in 1 .. Len(QueueOf(s)) : QueueOf(s)'[j] = QueueOf(s)[j]
          /\ QueueOf(s)'[Len(QueueOf(s)) + 1] = r
      BY <2>3, PutFacts DEF FlowInv
    <3>2. k \in 1 .. Len(QueueOf(s)) \/ k = Len(QueueOf(s)) + 1
      BY <1>1, <2>1, <3>1
    <3>3. QED
      BY <3>1, <3>2 DEF StoredInv
  <2>4. QED
    BY <2>2, <2>3
<1>2. QED
  BY <1>1 DEF StoredInv

LEMMA StoredStep ==
    ASSUME FlowInv, EngineInv, FlightInv, StoredInv, [Next]_vars
    PROVE  StoredInv'
<1> USE DEF mainVars, queueVars
<1>1. CASE UNCHANGED <<taken, trainQ, evalQ>>
  BY <1>1 DEF StoredInv, QueueOf
<1>2. CASE EndSyncInfer
  <2>1. PICK r \in Results : /\ Put(CurrentQueue, r) /\ r.at = globalStep
                             /\ r.vers = {engine[b] : b \in 1 .. Buckets}
    BY <1>2, SyncFacts DEF FlowInv
  <2>2. r.vers = {r.at} /\ UNCHANGED taken
    BY <1>2, <2>1, BucketsAssumption DEF EndSyncInfer, EngineInv
  <2>3. QED
    BY <2>1, <2>2, StoredPut, BoundFacts
<1>3. CASE Register
  <2>1. Len(tasks) \in Nat \ {0} /\ Last = tasks[Len(tasks)] /\ Last \in Tasks /\ UNCHANGED taken
    BY <1>3, RegisterFacts DEF Register
  <2>2. CASE Last.st = "over" /\ Last.ok
    <3>1. Len(tasks) = 1 /\ Put(CurrentQueue, Last.result)
      BY <1>3, <2>2, RegisterFacts
    <3>2. Last.result.at = lastLoaded /\ Last.result.vers = {lastLoaded} /\ Last.result \in Results
      <4>1. tasks # <<>> /\ Last = tasks[1] /\ 1 \in 1 .. Len(tasks)
        BY <2>1, <3>1, EmptySeq
      <4>2. QED
        BY <2>1, <2>2, <4>1 DEF FlightInv, Tasks
    <3>3. QED
      BY <2>1, <3>1, <3>2, StoredPut, BoundFacts
  <2>3. CASE ~(Last.st = "over" /\ Last.ok)
    BY <1>1, <1>3, <2>1, <2>3, RegisterFacts
  <2>4. QED
    BY <2>2, <2>3
<1>4. CASE Get
  <2>1. ASSUME NEW s \in Streams, NEW k \in 1 .. Len(QueueOf(s)')
        PROVE  QueueOf(s)'[k].vers = {QueueOf(s)'[k].at}
    <3>1. CASE s # CurrentQueue
      <4>1. QueueOf(s)' = QueueOf(s)
        BY <1>4, <3>1, GetFacts DEF FlowInv
      <4>2. QED
        BY <2>1, <4>1 DEF StoredInv
    <3>2. CASE s = CurrentQueue
      <4>1. /\ Len(QueueOf(s)) \in Nat \ {0} /\ Len(QueueOf(s)') = Len(QueueOf(s)) - 1
            /\ QueueOf(s)'[k] = QueueOf(s)[k + 1]
        BY <1>4, <2>1, <3>2, GetFacts DEF FlowInv
      <4>2. k + 1 \in 1 .. Len(QueueOf(s))
        BY <2>1, <4>1
      <4>3. QED
        BY <4>1, <4>2 DEF StoredInv
    <3>3. QED
      BY <3>1, <3>2
  <2>2. taken'.vers = {taken'.at}
    <3>1. taken' = QueueOf(CurrentQueue)[1] /\ Len(QueueOf(CurrentQueue)) \in Nat \ {0}
      BY <1>4, GetFacts, BoundFacts DEF FlowInv
    <3>2. 1 \in 1 .. Len(QueueOf(CurrentQueue))
      BY <3>1
    <3>3. QED
      BY <3>1, <3>2, BoundFacts DEF StoredInv
  <2>3. QED
    BY <2>1, <2>2 DEF StoredInv
<1>5. CASE Callback
  <2>1. /\ Len(tasks) \in Nat \ {0} /\ tasks[1] \in Tasks /\ tasks[1].st = "over"
        /\ tasks[1].ok => Put(tasks[1].queue, tasks[1].result)
        /\ ~tasks[1].ok => UNCHANGED queueVars
        /\ UNCHANGED taken
    BY <1>5, CallbackFacts DEF FlowInv, Callback
  <2>2. CASE tasks[1].ok
    <3>1. /\ tasks[1].result.at = lastLoaded /\ tasks[1].result.vers = {lastLoaded}
          /\ tasks[1].result \in Results /\ tasks[1].queue \in Streams
      <4>1. tasks # <<>> /\ 1 \in 1 .. Len(tasks)
        BY <2>1, EmptySeq
      <4>2. QED
        BY <2>1, <4>1 DEF FlightInv, Tasks
    <3>2. QED
      BY <2>1, <2>2, <3>1, StoredPut
  <2>3. CASE ~tasks[1].ok
    BY <1>1, <2>1, <2>3
  <2>4. QED
    BY <2>2, <2>3
<1>6. QED
  BY <1>1, <1>2, <1>3, <1>4, <1>5
     DEF Next, Main, Executor, vars, Prefetch, PushBucket, EndMove, SyncInfer, Generate, Submit,
         Score, EndScore, Start, TrainingStep, Forward, Evaluate, EvalBatch, TaskBegin, TaskEnd,
         Raise, taskVars

-----------------------------------------------------------------------------
(* Order.                                                                  *)

LEMMA OrderInit == Init => CleanOrder
<1> SUFFICES ASSUME Init PROVE OrderInv
  BY DEF CleanOrder
<1>1. \A s \in Streams : StreamInv(s)
  BY EmptySeq DEF Init, StreamInv, QueueOf, InFlight, Streams
<1>2. QED
  BY <1>1, EmptySeq DEF Init, OrderInv, ModeInv, AskedInv, CurrentQueue, Prefetching

\* Nothing happens to a stream whose queue, rollouts and counter are as they were.
LEMMA StreamSame ==
    ASSUME TypeOK, UNCHANGED <<trainQ, evalQ, asked>>, NEW s \in Streams, StreamInv(s),
           Room(s)' = Room(s),
           tasks' = <<>> <=> tasks = <<>>, Len(tasks') = Len(tasks),
           \A k \in 1 .. Len(tasks) : /\ tasks'[k].queue = tasks[k].queue
                                      /\ tasks'[k].result.stream = tasks[k].result.stream
                                      /\ tasks'[k].result.serial = tasks[k].result.serial
    PROVE  StreamInv(s)'
<1>1. tasks # <<>> => 1 \in 1 .. Len(tasks)
  BY EmptySeq DEF TypeOK
<1>2. InFlight(s)' = InFlight(s) /\ QueueOf(s)' = QueueOf(s)
  BY <1>1 DEF InFlight, QueueOf
<1>3. \A k \in 1 .. InFlight(s) : k \in 1 .. Len(tasks)
  BY EmptySeq DEF InFlight, TypeOK
<1>4. QED
  BY <1>2, <1>3 DEF StreamInv

\* The serial numbers of a queue followed by the rollouts in flight.
LEMMA Shift ==
    ASSUME NEW a \in Nat, NEW n \in Nat, NEW m \in Nat \ {0}, NEW k \in Nat
    PROVE  a - m + 1 = a - (n + m) + (n + 1) /\ a - m + (k + 1) = a - (m - 1) + k
  OBVIOUS

\* A rollout that leaves the executor's list joins its queue at its place.
LEMMA StreamPut ==
    ASSUME FlowInv, NEW s \in Streams, StreamInv(s), tasks # <<>>, UNCHANGED asked,
           tasks[1].queue \in Streams, Put(tasks[1].queue, tasks[1].result),
           tasks' \in Seq(Tasks), Len(tasks') = Len(tasks) - 1,
           \A k \in 1 .. Len(tasks') : tasks'[k] = tasks[k + 1],
           Room(s)' = Room(s)
    PROVE  StreamInv(s)'
<1>1. /\ Len(QueueOf(s)) \in Nat /\ Len(tasks) \in Nat \ {0} /\ asked[s] \in Nat
      /\ tasks[1].result \in Results /\ tasks[1] \in Tasks
  BY BoundFacts DEF QueueOf, FlowInv, TypeOK, Tasks
<1>2. \A k \in 1 .. Len(tasks') : k + 1 \in 1 .. Len(tasks)
  BY <1>1
<1>3. tasks' # <<>> => tasks'[1].queue = tasks[1].queue
  <2>1. tasks' # <<>> => 1 \in 1 .. Len(tasks')
    BY EmptySeq
  <2>2. QED
    BY <1>2, <2>1 DEF FlowInv, TasksInv
<1>4. CASE s # tasks[1].queue
  <2>1. InFlight(s) = 0 /\ InFlight(s)' = 0 /\ QueueOf(s)' = QueueOf(s)
    BY <1>1, <1>3, <1>4, PutFacts DEF InFlight, FlowInv
  <2>2. QED
    BY <2>1 DEF StreamInv
<1>5. CASE s = tasks[1].queue
  <2>1. InFlight(s) = Len(tasks) /\ InFlight(s)' = Len(tasks) - 1
    BY <1>1, <1>3, <1>5, EmptySeq DEF InFlight
  <2>2. /\ Len(QueueOf(s)') = Len(QueueOf(s)) + 1
        /\ \A k \in 1 .. Len(QueueOf(s)) : QueueOf(s)'[k] = QueueOf(s)[k]
        /\ QueueOf(s)'[Len(QueueOf(s)) + 1] = tasks[1].result
    BY <1>1, <1>5, PutFacts DEF FlowInv
  <2>3. /\ \A k \in 1 .. Len(QueueOf(s)) :
             /\ QueueOf(s)[k].stream = s
             /\ QueueOf(s)[k].serial = asked[s] - (Len(QueueOf(s)) + Len(tasks)) + k
        /\ \A k \in 1 .. Len(tasks) : /\ tasks[k].result.stream = s
                                      /\ tasks[k].result.serial = asked[s] - Len(tasks) + k
        /\ Len(QueueOf(s)) + Len(tasks) = IF asked[s] = 0 THEN 0 ELSE Room(s)
    BY <2>1 DEF StreamInv
  <2>4. Len(QueueOf(s)') + InFlight(s)' = Len(QueueOf(s)) + Len(tasks)
    BY <1>1, <2>1, <2>2
  <2>5. ASSUME NEW k \in 1 .. Len(QueueOf(s)')
        PROVE  /\ QueueOf(s)'[k].stream = s
               /\ QueueOf(s)'[k].serial = asked[s] - (Len(QueueOf(s)) + Len(tasks)) + k
    <3>1. CASE k \in 1 .. Len(QueueOf(s))
      BY <2>2, <2>3, <3>1
    <3>2. CASE k = Len(QueueOf(s)) + 1
      <4>1. 1 \in 1 .. Len(tasks)
        BY <1>1
      <4>2. tasks[1].result.stream = s /\ tasks[1].result.serial = asked[s] - Len(tasks) + 1
        BY <2>3, <4>1
      <4>3. QueueOf(s)'[k] = tasks[1].result
        BY <2>2, <3>2
      <4>4. asked[s] - Len(tasks) + 1 = asked[s] - (Len(QueueOf(s)) + Len(tasks)) + k
        BY <1>1, <3>2, Shift
      <4>5. QED
        BY <4>2, <4>3, <4>4
    <3>3. QED
      BY <1>1, <2>2, <2>5, <3>1, <3>2
  <2>6. ASSUME NEW k \in 1 .. InFlight(s)'
        PROVE  /\ tasks'[k].result.stream = s
               /\ tasks'[k].result.serial = asked[s] - InFlight(s)' + k
    <3>1. k \in 1 .. Len(tasks') /\ k + 1 \in 1 .. Len(tasks) /\ tasks'[k] = tasks[k + 1]
      BY <1>2, <2>1, <2>6
    <3>2. tasks[k + 1].result.stream = s /\ tasks[k + 1].result.serial = asked[s] - Len(tasks) + (k + 1)
      BY <2>3, <3>1
    <3>3. asked[s] - Len(tasks) + (k + 1) = asked[s] - InFlight(s)' + k
      <4>1. k \in Nat
        BY <3>1
      <4>2. QED
        BY <1>1, <2>1, <4>1, Shift
    <3>4. QED
      BY <3>1, <3>2, <3>3
  <2>7. QED
    BY <2>3, <2>4, <2>5, <2>6 DEF StreamInv
<1>6. QED
  BY <1>4, <1>5

\* The prefetch asks for the first rollout of its stream.
LEMMA StreamSync ==
    ASSUME FlowInv, OrderInv, EndSyncInfer, NEW s \in Streams
    PROVE  StreamInv(s)'
<1>1. PICK r \in Results : Put(CurrentQueue, r) /\ r.stream = mode /\ r.serial = asked[mode] + 1
  BY SyncFacts DEF FlowInv
<1>2. /\ mode = CurrentQueue /\ CurrentQueue \in Streams /\ asked' = [asked EXCEPT ![mode] = @ + 1]
      /\ asked \in [Streams -> Nat]
  BY SyncFacts, BoundFacts DEF OrderInv, ModeInv, EndSyncInfer, FlowInv, TypeOK
<1>3. tasks = <<>> /\ tasks' = <<>> /\ Queue = <<>> /\ pc = "syncInfer" /\ pc' \in {"start", "evalBatch"}
  BY DEF EndSyncInfer, FlowInv, PlaceInv, Prefetching, TypeOK, Inner, taskVars
<1>4. InFlight(s) = 0 /\ InFlight(s)' = 0 /\ Room(s) = 1 /\ Room(s)' = 1 /\ Len(QueueOf(s)) \in Nat
  BY <1>3, BoundFacts DEF InFlight, Room, QueueOf
<1>5. CASE s # mode
  <2>1. QueueOf(s)' = QueueOf(s) /\ asked'[s] = asked[s]
    BY <1>1, <1>2, <1>5, PutFacts DEF FlowInv
  <2>2. StreamInv(s)
    BY DEF OrderInv
  <2>3. QED
    BY <1>4, <2>1, <2>2 DEF StreamInv
<1>6. CASE s = mode
  <2>1. Len(QueueOf(s)) = 0
    BY <1>2, <1>3, <1>6, BoundFacts, EmptySeq
  <2>2. asked[s] = 0
    BY <1>2, <1>4, <2>1 DEF StreamInv, OrderInv
  <2>3. Len(QueueOf(s)') = 1 /\ QueueOf(s)'[1] = r /\ asked'[s] = 1
    <3>1. Len(QueueOf(s)') = Len(QueueOf(s)) + 1 /\ QueueOf(s)'[Len(QueueOf(s)) + 1] = r
      BY <1>1, <1>2, <1>6, PutFacts DEF FlowInv
    <3>2. QED
      BY <1>2, <1>6, <2>1, <2>2, <3>1
  <2>4. r.stream = s /\ r.serial = 1
    BY <1>1, <1>6, <2>2
  <2>5. QED
    BY <1>4, <2>3, <2>4 DEF StreamInv
<1>7. QED
  BY <1>5, <1>6

\* A submission is the next rollout of its stream.
LEMMA StreamSubmit ==
    ASSUME FlowInv, OrderInv, Submit, NEW s \in Streams
    PROVE  StreamInv(s)'
<1>1. /\ mode = CurrentQueue /\ CurrentQueue \in Streams /\ asked' = [asked EXCEPT ![mode] = @ + 1]
      /\ asked \in [Streams -> Nat] /\ asked[mode] > 0 /\ StreamInv(s)
  BY SubmitFacts, BoundFacts
     DEF OrderInv, ModeInv, AskedInv, Submit, FlowInv, TypeOK, Prefetching
<1>2. /\ Len(tasks) \in Nat /\ tasks' \in Seq(Tasks) /\ Len(tasks') = Len(tasks) + 1
      /\ tasks' # <<>> /\ UNCHANGED <<trainQ, evalQ>>
      /\ \A k \in 1 .. Len(tasks) : tasks'[k] = tasks[k]
  BY SubmitFacts, BoundFacts, EmptySeq DEF FlowInv, Submit, queueVars
<1>3. /\ tasks'[Len(tasks) + 1].queue = CurrentQueue
      /\ tasks'[Len(tasks) + 1].result.stream = mode
      /\ tasks'[Len(tasks) + 1].result.serial = asked[mode] + 1
  BY SubmitFacts DEF FlowInv
<1>4. tasks # <<>> => tasks[1].queue = CurrentQueue
  BY DEF Submit, FlowInv, PlaceInv, Inner
<1>5. tasks'[1].queue = CurrentQueue
  BY <1>2, <1>3, <1>4, EmptySeq
<1>6. /\ QueueOf(s)' = QueueOf(s) /\ Len(QueueOf(s)) \in Nat
      /\ Room(s) = 1 /\ Room(s)' = IF s = CurrentQueue THEN 2 ELSE 1
  BY <1>2, BoundFacts DEF QueueOf, Room, Submit, CurrentQueue
<1>7. CASE s # CurrentQueue
  <2>1. InFlight(s) = 0 /\ InFlight(s)' = 0 /\ asked'[s] = asked[s]
    BY <1>1, <1>4, <1>5, <1>7 DEF InFlight
  <2>2. QED
    BY <1>1, <1>6, <1>7, <2>1 DEF StreamInv
<1>8. CASE s = CurrentQueue
  <2>1. InFlight(s) = Len(tasks) /\ InFlight(s)' = Len(tasks) + 1
    BY <1>2, <1>4, <1>5, <1>8, EmptySeq DEF InFlight
  <2>2. /\ asked'[s] = asked[s] + 1 /\ asked[s] \in Nat
        /\ Len(QueueOf(s)) + Len(tasks) = 1
        /\ \A k \in 1 .. Len(QueueOf(s)) : /\ QueueOf(s)[k].stream = s
                                           /\ QueueOf(s)[k].serial = asked[s] - 1 + k
        /\ \A k \in 1 .. Len(tasks) : /\ tasks[k].result.stream = s
                                      /\ tasks[k].result.serial = asked[s] - Len(tasks) + k
    BY <1>1, <1>6, <1>8, <2>1 DEF StreamInv
  <2>3. ASSUME NEW k \in 1 .. Len(tasks) + 1
        PROVE  /\ tasks'[k].result.stream = s
               /\ tasks'[k].result.serial = (asked[s] + 1) - (Len(tasks) + 1) + k
    <3>1. CASE k \in 1 .. Len(tasks)
      BY <1>2, <2>2, <3>1
    <3>2. CASE k = Len(tasks) + 1
      BY <1>1, <1>2, <1>3, <1>8, <2>2, <3>2
    <3>3. QED
      BY <1>2, <2>3, <3>1, <3>2
  <2>4. \A k \in 1 .. Len(QueueOf(s)) : QueueOf(s)[k].serial = (asked[s] + 1) - 2 + k
    BY <1>6, <2>2
  <2>5. Len(QueueOf(s)') + InFlight(s)' = 2 /\ asked'[s] # 0 /\ Room(s)' = 2
    BY <1>2, <1>6, <1>8, <2>1, <2>2
  <2>6. QED
    BY <1>6, <2>1, <2>2, <2>3, <2>4, <2>5 DEF StreamInv
<1>9. QED
  BY <1>7, <1>8

\* What a generation takes is the rollout before the one it submitted.
LEMMA StreamGet ==
    ASSUME FlowInv, OrderInv, Get
    PROVE  /\ \A s \in Streams : StreamInv(s)'
           /\ taken'.stream = mode /\ taken'.serial = asked[mode] - 1
<1>1. /\ mode = CurrentQueue /\ CurrentQueue \in Streams /\ asked \in [Streams -> Nat]
      /\ asked[mode] > 0 /\ UNCHANGED <<asked, tasks>>
  BY BoundFacts
     DEF OrderInv, ModeInv, AskedInv, Get, FlowInv, TypeOK, Prefetching, taskVars
<1>2. ASSUME NEW s \in Streams
      PROVE  /\ InFlight(s)' = InFlight(s) /\ InFlight(s) \in Nat /\ Len(QueueOf(s)) \in Nat
             /\ Room(s) = (IF s = CurrentQueue THEN 2 ELSE 1) /\ Room(s)' = 1
  BY <1>1, BoundFacts DEF InFlight, Room, Get, QueueOf
<1>3. ASSUME NEW s \in Streams, s # CurrentQueue PROVE StreamInv(s)'
  <2>1. QueueOf(s)' = QueueOf(s)
    BY <1>3, GetFacts DEF FlowInv
  <2>2. QED
    BY <1>1, <1>2, <1>3, <2>1 DEF StreamInv, OrderInv
<1>4. ASSUME NEW s \in Streams, s = CurrentQueue
      PROVE StreamInv(s)' /\ taken'.stream = mode /\ taken'.serial = asked[mode] - 1
  <2>1. /\ Len(QueueOf(s)) \in Nat \ {0} /\ Len(QueueOf(s)') = Len(QueueOf(s)) - 1
        /\ \A k \in 1 .. Len(QueueOf(s)') : QueueOf(s)'[k] = QueueOf(s)[k + 1]
        /\ taken' = QueueOf(s)[1]
    BY <1>4, GetFacts DEF FlowInv
  <2>2. /\ Len(QueueOf(s)) + InFlight(s) = 2
        /\ \A k \in 1 .. Len(QueueOf(s)) : /\ QueueOf(s)[k].stream = s
                                           /\ QueueOf(s)[k].serial = asked[s] - 2 + k
        /\ \A k \in 1 .. InFlight(s) : /\ tasks[k].result.stream = s
                                       /\ tasks[k].result.serial = asked[s] - InFlight(s) + k
    <3>1. StreamInv(s)
      BY DEF OrderInv
    <3>2. QED
      BY <1>1, <1>2, <1>4, <3>1 DEF StreamInv
  <2>3. 1 \in 1 .. Len(QueueOf(s)) /\ asked[s] \in Nat
    BY <1>1, <2>1
  <2>4. taken'.stream = mode /\ taken'.serial = asked[mode] - 1
    BY <1>1, <1>4, <2>1, <2>2, <2>3
  <2>5. ASSUME NEW k \in 1 .. Len(QueueOf(s)')
        PROVE  /\ QueueOf(s)'[k].stream = s /\ QueueOf(s)'[k].serial = asked[s] - 1 + k
    <3>1. k + 1 \in 1 .. Len(QueueOf(s)) /\ k \in Int /\ QueueOf(s)'[k] = QueueOf(s)[k + 1]
      BY <2>1, <2>5
    <3>2. QED
      BY <2>2, <2>3, <3>1
  <2>6. Len(QueueOf(s)') + InFlight(s)' = 1 /\ Room(s)' = 1 /\ asked'[s] = asked[s] /\ asked[s] # 0
    BY <1>1, <1>2, <1>4, <2>1, <2>2
  <2>7. QED
    BY <1>1, <1>2, <2>2, <2>4, <2>5, <2>6 DEF StreamInv
<1>5. QED
  BY <1>1, <1>3, <1>4

\* No rollout that is in flight has failed.
LEMMA OkStep ==
    ASSUME FlowInv, OrderInv, [Next]_vars, ~failed'
    PROVE  \A k \in 1 .. Len(tasks') : tasks'[k].ok
<1> USE DEF taskVars, mainVars
<1>1. CASE UNCHANGED tasks
  BY <1>1 DEF OrderInv
<1>2. CASE Submit
  <2>1. \A k \in 1 .. Len(tasks') : k \in 1 .. Len(tasks) \/ k = Len(tasks) + 1
    BY <1>2, SubmitFacts, BoundFacts DEF FlowInv
  <2>2. tasks'[Len(tasks) + 1].ok
    BY <1>2, SubmitFacts DEF FlowInv
  <2>3. QED
    BY <1>2, <2>1, <2>2, SubmitFacts DEF OrderInv, FlowInv
<1>3. CASE Register
  <2>1. CASE Last.st = "over"
    BY <1>3, <2>1, RegisterFacts, EmptySeq
  <2>2. CASE Last.st # "over"
    <3>1. PICK t \in Tasks : /\ t = [Last EXCEPT !.callback = TRUE]
                             /\ tasks' = [tasks EXCEPT ![Len(tasks)] = t]
      BY <1>3, <2>2, RegisterFacts
    <3>2. Len(tasks) \in 1 .. Len(tasks) /\ Last = tasks[Len(tasks)] /\ Last \in Tasks
      BY <1>3, RegisterFacts
    <3>3. t.ok = Last.ok
      BY <3>1, <3>2 DEF Tasks
    <3>4. /\ Len(tasks') = Len(tasks) /\ tasks'[Len(tasks)] = t
          /\ \A k \in 1 .. Len(tasks) : k # Len(tasks) => tasks'[k] = tasks[k]
      BY <3>1, <3>2, ChangeFacts DEF FlowInv
    <3>5. QED
      BY <3>2, <3>3, <3>4 DEF OrderInv
  <2>3. QED
    BY <2>1, <2>2
<1>4. CASE TaskBegin
  <2>1. /\ 1 \in 1 .. Len(tasks) /\ tasks[1] \in Tasks
        /\ [tasks[1] EXCEPT !.st = "running"] \in Tasks
        /\ tasks' = [tasks EXCEPT ![1] = [tasks[1] EXCEPT !.st = "running"]]
    BY <1>4, BeginFacts DEF FlowInv
  <2>2. [tasks[1] EXCEPT !.st = "running"].ok = tasks[1].ok
    BY <2>1 DEF Tasks
  <2>3. /\ Len(tasks') = Len(tasks) /\ tasks'[1] = [tasks[1] EXCEPT !.st = "running"]
        /\ \A k \in 1 .. Len(tasks) : k # 1 => tasks'[k] = tasks[k]
    BY <2>1, ChangeFacts DEF FlowInv
  <2>4. QED
    BY <2>1, <2>2, <2>3 DEF OrderInv
<1>5. CASE TaskEnd
  <2>1. PICK ok \in BOOLEAN, t \in Tasks :
          /\ t = [tasks[1] EXCEPT !.st = "over", !.ok = ok, !.result.vers = seen]
          /\ tasks' = [tasks EXCEPT ![1] = t]
          /\ failed' = (failed \/ ~ok)
    BY <1>5, EndFacts DEF FlowInv
  <2>2. 1 \in 1 .. Len(tasks) /\ tasks[1] \in Tasks /\ ok
    <3>1. Len(tasks) \in Nat \ {0} /\ tasks[1] \in Tasks
      BY <1>5, EndFacts DEF FlowInv
    <3>2. ok
      BY <2>1
    <3>3. QED
      BY <3>1, <3>2
  <2>3. t.ok
    BY <2>1, <2>2 DEF Tasks
  <2>4. /\ Len(tasks') = Len(tasks) /\ tasks'[1] = t
        /\ \A k \in 1 .. Len(tasks) : k # 1 => tasks'[k] = tasks[k]
    BY <2>1, <2>2, ChangeFacts DEF FlowInv
  <2>5. QED
    BY <2>2, <2>3, <2>4 DEF OrderInv
<1>6. CASE Callback
  <2>1. \A k \in 1 .. Len(tasks') : k + 1 \in 1 .. Len(tasks) /\ tasks'[k] = tasks[k + 1]
    BY <1>6, CallbackFacts DEF FlowInv
  <2>2. QED
    BY <2>1 DEF OrderInv
<1>7. QED
  BY <1>1, <1>2, <1>3, <1>4, <1>5, <1>6
     DEF Next, Main, Executor, vars, Prefetch, PushBucket, EndMove, SyncInfer, EndSyncInfer,
         Generate, Get, Score, EndScore, Start, TrainingStep, Forward, Evaluate, EvalBatch, Raise

LEMMA StreamStep ==
    ASSUME FlowInv, OrderInv, [Next]_vars
    PROVE  \A s \in Streams : StreamInv(s)'
<1> USE DEF taskVars, mainVars, queueVars
<1>0. \A s \in Streams : StreamInv(s)
  BY DEF OrderInv
<1>1. CASE UNCHANGED <<trainQ, evalQ, tasks, asked>>
           /\ pc \notin {"register", "get"} /\ pc' \notin {"register", "get"}
  <2>1. \A s \in Streams : Room(s)' = Room(s)
    BY <1>1 DEF Room
  <2>2. QED
    BY <1>0, <1>1, <2>1, StreamSame DEF FlowInv
<1>2. CASE UNCHANGED vars
  <2>1. \A s \in Streams : Room(s)' = Room(s)
    BY <1>2 DEF Room, CurrentQueue, vars
  <2>2. UNCHANGED <<trainQ, evalQ, tasks, asked>>
    BY <1>2 DEF vars
  <2>3. QED
    BY <1>0, <2>1, <2>2, StreamSame DEF FlowInv
<1>3. CASE EndSyncInfer
  BY <1>3, StreamSync
<1>4. CASE Submit
  BY <1>4, StreamSubmit
<1>5. CASE Get
  BY <1>5, StreamGet
<1>6. CASE Register
  <2>1. \A s \in Streams : Room(s)' = Room(s)
    BY <1>6 DEF Room, CurrentQueue, Register
  <2>2. Len(tasks) \in Nat \ {0} /\ Last = tasks[Len(tasks)] /\ Last \in Tasks /\ UNCHANGED asked
    BY <1>6, RegisterFacts DEF Register
  <2>3. Len(tasks) \in 1 .. Len(tasks) /\ tasks # <<>>
    BY <2>2, EmptySeq
  <2>4. CASE Last.st = "over"
    <3>1. Len(tasks) = 1 /\ tasks' = <<>> /\ Last = tasks[1]
      BY <1>6, <2>2, <2>4, RegisterFacts
    <3>2. Last.ok
      BY <2>2, <2>3 DEF OrderInv
    <3>3. tasks[1].queue = CurrentQueue
      BY <1>6, <2>3 DEF Register, FlowInv, PlaceInv, Inner
    <3>4. Put(tasks[1].queue, tasks[1].result)
      BY <1>6, <2>4, <3>1, <3>2, <3>3, RegisterFacts
    <3>5. tasks' \in Seq(Tasks) /\ Len(tasks') = Len(tasks) - 1 /\ 1 .. Len(tasks') = {}
      BY <3>1, EmptySeq
    <3>6. QED
      BY <1>0, <2>1, <2>2, <2>3, <3>3, <3>4, <3>5, StreamPut, BoundFacts
  <2>5. CASE Last.st # "over"
    <3>1. PICK t \in Tasks : /\ t = [Last EXCEPT !.callback = TRUE]
                             /\ tasks' = [tasks EXCEPT ![Len(tasks)] = t]
                             /\ UNCHANGED queueVars
      BY <1>6, <2>5, RegisterFacts
    <3>2. t.queue = Last.queue /\ t.result = Last.result
      BY <2>2, <3>1 DEF Tasks
    <3>3. /\ Len(tasks') = Len(tasks) /\ tasks' # <<>> /\ tasks'[Len(tasks)] = t
          /\ \A k \in 1 .. Len(tasks) : k # Len(tasks) => tasks'[k] = tasks[k]
      BY <2>3, <3>1, ChangeFacts DEF FlowInv
    <3>4. \A k \in 1 .. Len(tasks) : tasks'[k].queue = tasks[k].queue /\ tasks'[k].result = tasks[k].result
      BY <2>2, <3>2, <3>3
    <3>5. QED
      BY <1>0, <2>1, <2>2, <2>3, <3>1, <3>3, <3>4, StreamSame DEF FlowInv
  <2>6. QED
    BY <2>4, <2>5
<1>7. CASE TaskBegin
  <2>1. /\ 1 \in 1 .. Len(tasks) /\ tasks[1] \in Tasks /\ tasks # <<>>
        /\ [tasks[1] EXCEPT !.st = "running"] \in Tasks
        /\ tasks' = [tasks EXCEPT ![1] = [tasks[1] EXCEPT !.st = "running"]]
    BY <1>7, BeginFacts, EmptySeq DEF FlowInv
  <2>2. /\ [tasks[1] EXCEPT !.st = "running"].queue = tasks[1].queue
        /\ [tasks[1] EXCEPT !.st = "running"].result = tasks[1].result
    BY <2>1 DEF Tasks
  <2>3. /\ Len(tasks') = Len(tasks) /\ tasks' # <<>>
        /\ tasks'[1] = [tasks[1] EXCEPT !.st = "running"]
        /\ \A k \in 1 .. Len(tasks) : k # 1 => tasks'[k] = tasks[k]
    BY <2>1, ChangeFacts DEF FlowInv
  <2>4. \A k \in 1 .. Len(tasks) : tasks'[k].queue = tasks[k].queue /\ tasks'[k].result = tasks[k].result
    BY <2>2, <2>3
  <2>5. UNCHANGED <<trainQ, evalQ, asked>> /\ \A s \in Streams : Room(s)' = Room(s)
    BY <1>7 DEF TaskBegin, Room, CurrentQueue
  <2>6. QED
    BY <1>0, <2>1, <2>3, <2>4, <2>5, StreamSame DEF FlowInv
<1>8. CASE TaskEnd
  <2>1. PICK ok \in BOOLEAN, t \in Tasks :
          /\ t = [tasks[1] EXCEPT !.st = "over", !.ok = ok, !.result.vers = seen]
          /\ tasks' = [tasks EXCEPT ![1] = t]
    BY <1>8, EndFacts DEF FlowInv
  <2>2. 1 \in 1 .. Len(tasks) /\ tasks[1] \in Tasks /\ tasks # <<>>
    <3>1. Len(tasks) \in Nat \ {0} /\ tasks[1] \in Tasks
      BY <1>8, EndFacts DEF FlowInv
    <3>2. QED
      BY <3>1, EmptySeq
  <2>3. /\ t.queue = tasks[1].queue /\ t.result.stream = tasks[1].result.stream
        /\ t.result.serial = tasks[1].result.serial
    BY <2>1, <2>2 DEF Tasks, Results
  <2>4. /\ Len(tasks') = Len(tasks) /\ tasks' # <<>> /\ tasks'[1] = t
        /\ \A k \in 1 .. Len(tasks) : k # 1 => tasks'[k] = tasks[k]
    BY <2>1, <2>2, ChangeFacts DEF FlowInv
  <2>5. \A k \in 1 .. Len(tasks) : /\ tasks'[k].queue = tasks[k].queue
                                   /\ tasks'[k].result.stream = tasks[k].result.stream
                                   /\ tasks'[k].result.serial = tasks[k].result.serial
    BY <2>3, <2>4
  <2>6. UNCHANGED <<trainQ, evalQ, asked>> /\ \A s \in Streams : Room(s)' = Room(s)
    BY <1>8 DEF TaskEnd, Room, CurrentQueue
  <2>7. QED
    BY <1>0, <2>2, <2>4, <2>5, <2>6, StreamSame DEF FlowInv
<1>9. CASE Callback
  <2>1. /\ Len(tasks) \in Nat \ {0} /\ tasks[1] \in Tasks
        /\ tasks' \in Seq(Tasks) /\ Len(tasks') = Len(tasks) - 1
        /\ \A k \in 1 .. Len(tasks') : tasks'[k] = tasks[k + 1]
        /\ tasks[1].ok => Put(tasks[1].queue, tasks[1].result)
    BY <1>9, CallbackFacts DEF FlowInv
  <2>2. tasks # <<>> /\ 1 \in 1 .. Len(tasks)
    BY <2>1, EmptySeq
  <2>3. tasks[1].ok /\ tasks[1].queue \in Streams
    BY <2>1, <2>2 DEF OrderInv, Tasks
  <2>4. UNCHANGED asked /\ \A s \in Streams : Room(s)' = Room(s)
    BY <1>9 DEF Callback, Room, CurrentQueue
  <2>5. QED
    BY <1>0, <2>1, <2>2, <2>3, <2>4, StreamPut
<1>10. QED
  BY <1>1, <1>2, <1>3, <1>4, <1>5, <1>6, <1>7, <1>8, <1>9
     DEF Next, Main, Executor, Prefetch, PushBucket, EndMove, SyncInfer,
         Generate, Score, EndScore, Start, TrainingStep, Forward, Evaluate, EvalBatch, Raise

\* Modes, flags and counters.
LEMMA ControlStep ==
    ASSUME FlowInv, OrderInv, [Next]_vars, ~conf.evalOnStart
    PROVE  ModeInv' /\ AskedInv'
<1> USE DEF taskVars, mainVars, queueVars, OrderInv, ModeInv, AskedInv, CurrentQueue, Prefetching
<1>0. asked \in [Streams -> Nat] /\ mode \in Streams /\ ret \in {"start", "evalBatch", "submit"}
  BY DEF FlowInv, TypeOK
<1>1. CASE Prefetch
  BY <1>0, <1>1 DEF Prefetch, FlowInv, PlaceInv, Streams
<1>2. CASE PushBucket
  BY <1>0, <1>2 DEF PushBucket, FlowInv, PlaceInv, Streams
<1>3. CASE EndMove
  BY <1>0, <1>3 DEF EndMove, FlowInv, PlaceInv, Streams
<1>4. CASE SyncInfer
  BY <1>0, <1>4 DEF SyncInfer, FlowInv, PlaceInv, Streams
<1>5. CASE EndSyncInfer
  BY <1>0, <1>5 DEF EndSyncInfer, FlowInv, PlaceInv, Streams
<1>6. CASE Generate
  BY <1>0, <1>6 DEF Generate, FlowInv, PlaceInv, Streams
<1>7. CASE Submit
  BY <1>0, <1>7 DEF Submit, FlowInv, PlaceInv, Streams
<1>8. CASE Register
  BY <1>0, <1>8 DEF Register, FlowInv, PlaceInv, Streams
<1>9. CASE Get
  BY <1>0, <1>9 DEF Get, FlowInv, PlaceInv, Streams
<1>10. CASE Score
  BY <1>0, <1>10 DEF Score, FlowInv, PlaceInv, Streams
<1>11. CASE EndScore
  BY <1>0, <1>11 DEF EndScore, FlowInv, PlaceInv, Streams
<1>12. CASE Start
  BY <1>0, <1>12 DEF Start, FlowInv, PlaceInv, Streams
<1>13. CASE TrainingStep
  BY <1>0, <1>13 DEF TrainingStep, FlowInv, PlaceInv, Streams
<1>14. CASE Forward
  BY <1>0, <1>14 DEF Forward, FlowInv, PlaceInv, Streams
<1>15. CASE Evaluate
  <2>1. evalQ # <<>> => asked["eval"] > 0
    <3>1. evalQ # <<>> => Len(evalQ) > 0 /\ Len(evalQ) \in Nat
      BY BoundFacts
    <3>2. InFlight("eval") \in Nat
      BY BoundFacts DEF InFlight
    <3>3. Len(evalQ) + InFlight("eval") = IF asked["eval"] = 0 THEN 0 ELSE Room("eval")
      BY DEF StreamInv, QueueOf, Streams
    <3>4. QED
      BY <1>0, <3>1, <3>2, <3>3 DEF Streams
  <2>2. QED
    BY <1>0, <1>15, <2>1 DEF Evaluate, Queue
<1>16. CASE EvalBatch
  BY <1>0, <1>16 DEF EvalBatch, FlowInv, PlaceInv, Streams
<1>17. CASE TaskBegin
  BY <1>0, <1>17 DEF TaskBegin, FlowInv, PlaceInv, Streams
<1>18. CASE TaskEnd
  BY <1>0, <1>18 DEF TaskEnd, FlowInv, PlaceInv, Streams
<1>19. CASE Callback
  BY <1>0, <1>19 DEF Callback, FlowInv, PlaceInv, Streams
<1>20. CASE Raise
  BY <1>0, <1>20 DEF Raise, FlowInv, PlaceInv, Streams
<1>21. CASE UNCHANGED vars
  BY <1>21 DEF vars
<1>22. QED
  BY <1>1, <1>2, <1>3, <1>4, <1>5, <1>6, <1>7, <1>8, <1>9, <1>10, <1>11, <1>12, <1>13, <1>14, <1>15, <1>16, <1>17, <1>18, <1>19, <1>20, <1>21 DEF Next, Main, Executor

LEMMA OrderStep == FlowInv /\ CleanOrder /\ [Next]_vars => CleanOrder'
<1> SUFFICES ASSUME FlowInv, CleanOrder, [Next]_vars, ~failed', ~conf'.evalOnStart
             PROVE  OrderInv'
  BY DEF CleanOrder
<1>1. conf' = conf
  BY DEF Next, Main, Executor, vars, Prefetch, PushBucket, EndMove, SyncInfer, EndSyncInfer,
         Generate, Submit, Register, Get, Score, EndScore, Start, TrainingStep, Forward, Evaluate,
         EvalBatch, TaskBegin, TaskEnd, Callback, Raise
<1>2. ~failed
  <2>1. CASE TaskEnd
    BY <2>1 DEF TaskEnd
  <2>2. CASE ~TaskEnd
    <3>1. failed' = failed
      BY <2>2 DEF Next, Main, Executor, vars, Prefetch, PushBucket, EndMove, SyncInfer,
         EndSyncInfer, Generate, Submit, Register, Get, Score, EndScore, Start, TrainingStep,
         Forward, Evaluate, EvalBatch, TaskBegin, Callback, Raise, taskVars
    <3>2. QED
      BY <3>1
  <2>3. QED
    BY <2>1, <2>2
<1>3. OrderInv
  BY <1>1, <1>2 DEF CleanOrder
<1>4. pc' = "score" => taken'.stream = mode' /\ taken'.serial = asked'[mode'] - 1
  <2>1. CASE Get
    BY <1>3, <2>1, StreamGet DEF Get
  <2>2. CASE ~Get
    <3>1. ret # "score"
      BY DEF FlowInv, TypeOK
    <3>2. QED
      BY <1>3, <2>2, <3>1 DEF Next, Main, Executor, vars, mainVars, Prefetch, PushBucket, EndMove, SyncInfer,
         EndSyncInfer, Generate, Submit, Register, Score, EndScore, Start, TrainingStep,
         Forward, Evaluate, EvalBatch, TaskBegin, TaskEnd, Callback, Raise, OrderInv
  <2>3. QED
    BY <2>1, <2>2
<1>5. QED
  BY <1>1, <1>3, <1>4, OkStep, StreamStep, ControlStep DEF OrderInv

-----------------------------------------------------------------------------
(* The theorems.                                                           *)

LEMMA Flow == Spec => []FlowInv
  BY FlowInit, FlowStep, PTL DEF Spec

LEMMA Versions == Spec => []VersionsInv
<1>1. FlowInv /\ VersionsInv /\ [Next]_vars => VersionsInv'
  BY EngineStep, FlightStep, StoredStep DEF VersionsInv
<1>2. QED
  BY <1>1, Flow, VersionsInit, PTL DEF Spec

LEMMA Order == Spec => []CleanOrder
  BY Flow, OrderInit, OrderStep, PTL DEF Spec

\* Every variable keeps its type, and no more than two rollouts or results are in memory
\* (async_generate_rollout and the two unbounded queues).
THEOREM AsyncTypeCorrect == Spec => []TypeOK
<1>1. FlowInv => TypeOK
  BY DEF FlowInv
<1>2. QED
  BY <1>1, Flow, PTL

\* _move_model_to_vllm and the prefetch have the client to themselves.
THEOREM ClientIsExclusive == Spec => []ClientExclusive
<1>1. FlowInv => ClientExclusive
  BY DEF FlowInv, PlaceInv, Inner, ClientExclusive, Running
<1>2. QED
  BY <1>1, Flow, PTL

\* A rollout is generated from its first to its last token with the weights of the step
\* it was asked for in.
THEOREM RolloutsWhole == Spec => []WholeRollout
<1>1. FlowInv /\ VersionsInv => WholeRollout
  <2> SUFFICES ASSUME VersionsInv, FlowInv,
                      NEW r \in {taken} \union {trainQ[k] : k \in DOMAIN trainQ}
                                         \union {evalQ[k] : k \in DOMAIN evalQ},
                      r # NoResult
               PROVE  r.vers = {r.at}
    BY DEF WholeRollout
  <2>1. DOMAIN trainQ = 1 .. Len(trainQ) /\ DOMAIN evalQ = 1 .. Len(evalQ)
    BY BoundFacts, LenProperties
  <2>2. QED
    BY <2>1 DEF VersionsInv, StoredInv, QueueOf, Streams
<1>2. QED
  BY <1>1, Flow, Versions, PTL

\* Training and evaluation each take exactly the rollout before the one they submitted,
\* for every set of training arguments without eval_on_start.
THEOREM GenerationsOneBehind == Spec => [](~conf.evalOnStart => OneBehind)
<1>1. CleanOrder => (~conf.evalOnStart => OneBehind)
  BY DEF CleanOrder, OrderInv, OneBehind
<1>2. QED
  BY <1>1, Order, PTL

=============================================================================
