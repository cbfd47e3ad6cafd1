-------------------------- MODULE ActivationOffload --------------------------
(***************************************************************************)
(* Offloading of activations to the CPU between forward and backward:      *)
(* AsyncDoubleBufferGroupOffloadHandler of                                 *)
(* callbacks/activation_cpu_offload.py, as enable_activation_offloading    *)
(* sets it up: one group of saved tensors per layer, all but the last      *)
(* one offloaded.                                                          *)
(*                                                                         *)
(* The host runs the commits; copies run on two streams of their own.      *)
(* What one stream may rely on having happened on another is only what     *)
(* wait_stream says, so each stream has a vector clock: clock[s][t] is how *)
(* many operations of t come before the next operation of s.  An access    *)
(* to memory that is not ordered after the last conflicting one is a race. *)
(***************************************************************************)
EXTENDS Integers, Sequences, FiniteSets, Functions

CONSTANTS
    LayerCounts,  \* numbers of layers to try
    MaxTensors,   \* tensors a layer saves at most (bound)
    Steps         \* forward passes at most (bound)

\* With fewer than three layers offloading is not enabled.
ASSUME LayerCountsAssumption == LayerCounts \subseteq Nat /\ \A n \in LayerCounts : n >= 3
ASSUME BoundsAssumption == MaxTensors \in Nat \ {0} /\ Steps \in Nat \ {0}

Streams == {"compute", "d2h", "h2d"}

VARIABLES
    layers,    \* num_model_group
    phase,     \* "idle", "forward", "nograd", "backward", or "raised" after an exception
    step,      \* forward passes begun
    paired,    \* whether every forward pass in training mode had a backward pass
    current,   \* current_group
    count,     \* offloaded_group_count
    saved,     \* tensor_tag_to_state: per tag, where the tensor is
    buf,       \* tensor_tag_to_buf: the tags it has a tensor for
    mapping,   \* group_offload_mapping: per group, the copies on the CPU
    clock,     \* the vector clocks of the streams
    lastUse,   \* when the compute stream last used a reloaded tensor
    raced      \* history: whether two conflicting accesses were unordered

vars == <<layers, phase, step, paired, current, count, saved, buf, mapping, clock, lastUse, raced>>

NumOffload == layers - 1
NoStamp == [on |-> "compute", at |-> 0]

Init ==
    /\ layers \in LayerCounts
    /\ phase = "idle" /\ step = 0 /\ paired = TRUE
    /\ current = 0 /\ count = 0
    /\ saved = <<>> /\ buf = {} /\ mapping = <<>>
    /\ clock = [s \in Streams |-> [t \in Streams |-> 0]]
    /\ lastUse = NoStamp
    /\ raced = FALSE

Larger(a, b) == IF a > b THEN a ELSE b

-----------------------------------------------------------------------------
(* Streams *)

Tick(clk, s) == [clk EXCEPT ![s][s] = @ + 1]
Stamp(clk, s) == [on |-> s, at |-> clk[s][s]]

\* s.wait_stream(t)
WaitStream(clk, s, t) ==
    [clk EXCEPT ![s] = [u \in Streams |-> Larger(clk[s][u], clk[t][u])]]

After(clk, s, stamp) == clk[s][stamp.on] >= stamp.at

-----------------------------------------------------------------------------
(* The handler: operators on a record of the variables a commit changes. *)

Handler == [count |-> count, saved |-> saved, buf |-> buf, mapping |-> mapping,
            clock |-> clock, raced |-> raced, error |-> FALSE]

Update(h) ==
    /\ count' = h.count /\ saved' = h.saved /\ buf' = h.buf
    /\ mapping' = h.mapping /\ clock' = h.clock /\ raced' = h.raced

\* Mutant of LayerWindow: what was added for the earlier groups is not carried on.
LayerWindow_NoConstant(i) ==
    (layers \div NumOffload) * (i + 1) - 1
    + (IF i < layers % NumOffload THEN i + 1 ELSE 0)

\* layer_window_map[i], which is defined for 0 <= i < num_offload_group.
LayerWindow(i) ==
    (layers \div NumOffload) * (i + 1) - 1
    + (IF i < layers % NumOffload THEN i + 1 ELSE layers % NumOffload)

InWindowMap(i) == i \in 0 .. NumOffload - 1

OfGroup(h, g) == {tag \in DOMAIN h.saved : tag[1] = g}

\* bulk_offload_group: one copy for every distinct storage of the group.
BulkOffload(h, g) ==
    LET tags == OfGroup(h, g)
        clk == Tick(h.clock, "d2h")
    IN [h EXCEPT
          !.error = @ \/ \E tag \in tags : h.saved[tag].on = "host",
          !.raced = @ \/ \E tag \in tags : ~After(h.clock, "d2h", h.saved[tag].stamp),
          !.saved = [tag \in DOMAIN @ |-> IF tag \in tags THEN [@[tag] EXCEPT !.on = "host"] ELSE @[tag]],
          !.mapping = [i \in DOMAIN @ \cup {g} |->
                          IF i = g THEN [keys |-> {h.saved[tag].key : tag \in tags},
                                         stamp |-> Stamp(clk, "d2h")]
                          ELSE @[i]],
          !.clock = clk]

\* The buffers of a group are dropped, and compute may write over their memory.
FreeBuffers(h, g) ==
    [h EXCEPT !.buf = {tag \in @ : tag[1] # g},
              !.raced = @ \/ (g \in DOMAIN h.mapping /\ ~After(h.clock, "compute", h.mapping[g].stamp))]

\* Mutant of Window: the compute stream does not wait for the copy.
Window_NoWait(h) ==
    LET waited == [h EXCEPT !.clock = WaitStream(@, "d2h", "compute")]
        freed == FreeBuffers(waited, h.count)
        next == IF h.count < NumOffload - 1 THEN BulkOffload(freed, h.count + 1) ELSE freed
    IN [next EXCEPT !.count = @ + 1]

\* The end of a window: free the group copied during it, and copy the next one.
Window(h) ==
    LET waited == [h EXCEPT !.clock =
                      WaitStream(WaitStream(@, "d2h", "compute"), "compute", "d2h")]
        freed == FreeBuffers(waited, h.count)
        next == IF h.count < NumOffload - 1 THEN BulkOffload(freed, h.count + 1) ELSE freed
    IN [next EXCEPT !.count = @ + 1]

\* synchronize_on_group_commit_forward
SynchronizeForward(h, g) ==
    LET started == IF g = 0
                   THEN BulkOffload([h EXCEPT !.clock = WaitStream(@, "d2h", "compute")], 0)
                   ELSE h
    IN IF ~InWindowMap(h.count) THEN [started EXCEPT !.error = TRUE]
       ELSE IF LayerWindow(h.count) = g THEN Window(started) ELSE started

\* bulk_reload_group: the new tensors may lie where those used last were.
BulkReload(h, g) ==
    LET clk == Tick(h.clock, "h2d")
        tags == OfGroup(h, g)
    IN IF g \notin DOMAIN h.mapping THEN [h EXCEPT !.error = TRUE]
       ELSE [h EXCEPT
          !.error = @ \/ \E tag \in tags : h.saved[tag].on = "host"
                                           /\ h.saved[tag].key \notin h.mapping[g].keys,
          !.raced = @ \/ ~After(h.clock, "h2d", h.mapping[g].stamp)
                      \/ ~After(h.clock, "h2d", lastUse),
          !.saved = [tag \in DOMAIN @ |->
                        IF tag \in tags /\ @[tag].on = "host"
                        THEN [@[tag] EXCEPT !.on = "gpu", !.stamp = Stamp(clk, "h2d")]
                        ELSE @[tag]],
          !.mapping = Restrict(@, DOMAIN @ \ {g}),
          !.clock = clk]

\* Mutant of LastGroup: the count is not reset.
LastGroup_KeepCount(h) == [h EXCEPT !.clock = WaitStream(@, "compute", "h2d")]

\* The last group waits for all reloads, and the count starts again.
LastGroup(h) == [h EXCEPT !.clock = WaitStream(@, "compute", "h2d"), !.count = 0]

\* on_group_commit_backward for the group g it has come down to.
SynchronizeBackward(h, g) ==
    LET waited == [h EXCEPT !.clock =
                      WaitStream(WaitStream(@, "h2d", "compute"), "compute", "h2d")]
        reloaded == [BulkReload(waited, h.count - 1) EXCEPT
                        !.count = IF @ > 1 THEN @ - 1 ELSE @]
        next == IF LayerWindow(h.count - 1) = g THEN reloaded ELSE h
    IN IF ~InWindowMap(h.count - 1) THEN [h EXCEPT !.error = TRUE]
       ELSE IF g = 0 THEN LastGroup(next) ELSE next

-----------------------------------------------------------------------------
(* The passes *)

\* The wrapped forward methods run in training mode, with or without gradients.
BeginForward ==
    /\ phase = "idle"
    /\ step < Steps
    /\ step' = step + 1
    /\ \/ phase' = "forward" /\ UNCHANGED paired
       \/ phase' = "nograd" /\ paired' = FALSE
    /\ UNCHANGED <<layers, current, count, saved, buf, mapping, clock, lastUse, raced>>

TagCount == Cardinality(OfGroup(Handler, current))

\* tensor_push: autograd saves a tensor of the layer, or one with the storage of the
\* tensor saved before it.
TensorPush ==
    /\ phase = "forward"
    /\ TagCount < MaxTensors
    /\ LET tag == <<current, TagCount>>
           clk == Tick(clock, "compute")
       IN \E key \in {tag} \cup {saved[t].key : t \in OfGroup(Handler, current)} :
              /\ saved' = [t \in DOMAIN saved \cup {tag} |->
                              IF t = tag THEN [on |-> "gpu", key |-> key, stamp |-> Stamp(clk, "compute")]
                              ELSE saved[t]]
              /\ buf' = IF current < NumOffload THEN buf \cup {tag} ELSE buf
              /\ clock' = clk
    /\ UNCHANGED <<layers, phase, step, paired, current, count, mapping, lastUse, raced>>

\* The end of a layer: on_group_commit_forward.
CommitForward ==
    /\ phase \in {"forward", "nograd"}
    /\ LET h == SynchronizeForward(Handler, current)
       IN IF h.error
          THEN /\ phase' = "raised"
               /\ UNCHANGED <<current, count, saved, buf, mapping, clock, raced>>
          ELSE /\ Update(h)
               /\ current' = current + 1
               /\ phase' = IF current + 1 < layers THEN phase
                           ELSE IF phase = "forward" THEN "backward" ELSE "idle"
    /\ UNCHANGED <<layers, step, paired, lastUse>>

\* Backward comes to the output of the next layer, when it is through with the one
\* above it: on_group_commit_backward.
CommitBackward ==
    /\ phase = "backward"
    /\ current > 0
    /\ OfGroup(Handler, current) = {}
    /\ LET h == SynchronizeBackward(Handler, current - 1)
       IN IF h.error
          THEN /\ phase' = "raised"
               /\ UNCHANGED <<current, count, saved, buf, mapping, clock, raced>>
          ELSE Update(h) /\ current' = current - 1 /\ UNCHANGED phase
    /\ UNCHANGED <<layers, step, paired, lastUse>>

\* tensor_pop: the backward of a layer unpacks a tensor it has saved and uses it.
TensorPop ==
    /\ phase = "backward"
    /\ \E tag \in OfGroup(Handler, current) :
           IF saved[tag].on = "host"
           THEN /\ phase' = "raised"
                /\ UNCHANGED <<saved, buf, clock, raced, lastUse>>
           ELSE /\ saved' = Restrict(saved, DOMAIN saved \ {tag})
                /\ buf' = buf \ {tag}
                /\ clock' = Tick(clock, "compute")
                /\ raced' = (raced \/ ~After(clock, "compute", saved[tag].stamp))
                /\ lastUse' = IF saved[tag].stamp.on = "h2d"
                              THEN Stamp(clock', "compute") ELSE lastUse
                /\ UNCHANGED phase
    /\ UNCHANGED <<layers, step, paired, current, count, mapping>>

\* The backward pass is over.
EndBackward ==
    /\ phase = "backward"
    /\ current = 0
    /\ OfGroup(Handler, 0) = {}
    /\ phase' = "idle"
    /\ UNCHANGED <<layers, step, paired, current, count, saved, buf, mapping, clock, lastUse, raced>>

Next == BeginForward \/ TensorPush \/ CommitForward \/ CommitBackward \/ TensorPop \/ EndBackward

Spec == Init /\ [][Next]_vars

-----------------------------------------------------------------------------
(* Properties *)

\* NoRace: a tensor is copied out after it was computed, its memory is given back after
\* the copy, a copy comes back from the CPU after it got there, a layer uses a tensor
\* after it has come back, and no reload writes where one is still used: the waits
\* between the three streams order every pair of conflicting accesses.
NoRace == ~raced

OnDevice == {tag[1] : tag \in {t \in DOMAIN saved : saved[t].on = "gpu"} \cup buf}

\* TwoGroups: at most two activation groups are in GPU memory (the docstring of
\* enable_activation_offloading), in the forward and in the backward pass.
TwoGroups == paired => Cardinality(OnDevice) <= 2

\* Balanced: as long as every forward pass had its backward pass no assertion and no
\* lookup of the handler fails, and between two of them it is as it was at first: no
\* tensor, buffer or copy is left and both counters are back.
Balanced ==
    paired => /\ phase # "raised"
              /\ phase = "idle" =>
                     /\ current = 0 /\ count = 0
                     /\ saved = <<>> /\ buf = {} /\ mapping = <<>>

=============================================================================
