------------------------------ MODULE MultiTurn ------------------------------
(***************************************************************************)
(* A GRPO rollout whose dialogues take several turns, from the prompts of  *)
(* every rank to the mini-batches it trains on.                            *)
(*                                                                         *)
(* Two implementations exist.  In mode "trainer" all ranks go through the  *)
(* loop of _colocate_multi_turn_infer together, with two collectives per   *)
(* turn (rlhf_trainers/rollout_mixin.py).  In mode "server" every dialogue *)
(* is a coroutine of its own, run() of the scheduler (rollout/             *)
(* multi_turn.py), and the ranks wait for the outputs of all of them.      *)
(*                                                                         *)
(* A token is <<sample, turn, position>> and decodes to two characters,    *)
(* each named by its token; a message has a text, a sequence of            *)
(* characters, which a tag may cut inside a token; a log-probability is    *)
(* named by its token.                                                     *)
(***************************************************************************)
EXTENDS Naturals, SequencesExt

CONSTANT
    Settings    \* the runs that are checked; see SettingType

\* mode: who runs the turns.  kind: the scheduler; "plain" adds a user message, "ids"
\* also returns the response's token ids and loss mask, "tips" is MathTipsScheduler,
\* "rounds" ThinkingModelTipsScheduler, "gym" GYMScheduler.  inputs[r]: prompts of
\* rank r.  turns: max_turns.  tokens: length of a response (bound).  scale: base
\* strategy of loss_scale.  steps: steps_per_generation.
SettingType ==
    [mode: {"trainer", "server"}, kind: {"plain", "ids", "tips", "rounds", "gym"},
     inputs: Seq(Nat), turns: Nat \ {0}, tokens: Nat \ {0},
     scale: {"default", "last_round"}, steps: Nat \ {0}]

ASSUME SettingsAssumption == Settings \subseteq SettingType

VARIABLES
    conf,      \* the setting of this run
    pc,        \* pc[r]: "rollout", "flag", "turn", "score" or "done"
    pending,   \* pending[r]: index_to_infer, the dialogues of rank r that go on
    replies,   \* replies[r]: outputs, what the last rollout gave rank r
    dialogue,  \* dialogue[s]: what is kept of the dialogue of sample s
    merged,    \* merged[r]: the samples of rank r with their outputs
    trained    \* trained[r]: its mini-batches

vars == <<conf, pc, pending, replies, dialogue, merged, trained>>

Ranks == DOMAIN conf.inputs
Total(lengths) == FoldLeft(+, 0, lengths)
Samples == 1 .. Total(conf.inputs)

\* What a rank takes out of the results for the prompts of all ranks.
Before(lengths, r) == Total(SubSeq(lengths, 1, r - 1))

Slice(all, lengths, r) ==
    SubSeq(all, Before(lengths, r) + 1, Before(lengths, r) + lengths[r])

\* Mutant of EvenSlice: the extra items of the ranks before are not counted.
EvenSlice_Offset(all, r) ==
    LET n == Len(conf.inputs)
        base == Len(all) \div n
        extra == IF r <= Len(all) % n THEN 1 ELSE 0
    IN SubSeq(all, (r - 1) * base + 1, r * base + extra)

\* get_even_process_data: contiguous shares, the first ones longer by one.
EvenSlice(all, r) ==
    LET n == Len(conf.inputs)
        Share(q) == (Len(all) \div n) + (IF q <= Len(all) % n THEN 1 ELSE 0)
    IN Slice(all, [q \in 1 .. n |-> Share(q)], r)

Inputs(r) == Slice([s \in Samples |-> s], conf.inputs, r)

-----------------------------------------------------------------------------
(* Messages and replies *)

User == [role |-> "user", text |-> <<>>, dummy |-> FALSE]
Assistant(text) == [role |-> "assistant", text |-> text, dummy |-> FALSE]
Dummy == [role |-> "assistant", text |-> <<>>, dummy |-> TRUE]
Tip == <<0, 0, 0>>

\* The tokenizer.  A text is encoded only where it has been decoded whole.
Width == 2
Decode(toks) == FlattenSeq([i \in DOMAIN toks |-> [half \in 1 .. Width |-> <<toks[i], half>>]])
Encode(text) == [i \in 1 .. Len(text) \div Width |-> text[Width * i][1]]

Fresh == [messages |-> <<User>>, turn |-> 1, ids |-> <<>>, mask |-> <<>>, lps |-> <<>>,
          outs |-> <<>>, finished |-> FALSE]

Reply(s, n) == [of |-> s, toks |-> [i \in 1 .. n |-> <<s, dialogue[s].turn, i>>]]

Ones(toks) == [i \in DOMAIN toks |-> 1]

\* Extend the last turn's data or begin a turn.
Grow(turns, toks, continues) ==
    IF continues /\ turns # <<>>
    THEN [turns EXCEPT ![Len(turns)] = @ \o toks]
    ELSE Append(turns, toks)

\* The dummy message of a continuation is removed; the completion continues the last
\* message of the assistant or becomes a message of its own.
Opened(d) == IF Last(d.messages).dummy THEN Front(d.messages) ELSE d.messages
Continues(d) == Last(Opened(d)).role = "assistant"
Heard(d, reply) ==
    IF Continues(d)
    THEN [Opened(d) EXCEPT ![Len(Opened(d))].text = @ \o Decode(reply.toks)]
    ELSE Append(Opened(d), Assistant(Decode(reply.toks)))

-----------------------------------------------------------------------------
(* One turn of the loop *)

\* The log-probabilities are complete when there is one for every token of the mask.
MaskOnes(mask) == Len(SelectSeq(FlattenSeq(mask), LAMBDA b : b = 1))
Complete(d) == Len(FlattenSeq(d.lps)) = MaskOnes(d.mask)

Output(d, reply) ==
    [of |-> reply.of, messages |-> d.messages, ids |-> d.ids, mask |-> d.mask,
     lps |-> IF Complete(d) THEN d.lps ELSE <<>>, last |-> reply.toks]

Ended(d, reply) == [d EXCEPT !.outs = Append(@, Output(d, reply)), !.finished = TRUE]

\* The stop branch: a continued message is extended, the first ids replace whatever
\* there is, and else the turn is added; the run() of a server does not add it.
Finish(d, reply, continues) ==
    LET final ==
            IF continues /\ d.ids # <<>>
            THEN [d EXCEPT !.ids = Grow(@, reply.toks, TRUE),
                           !.mask = Grow(@, Ones(reply.toks), TRUE),
                           !.lps = Grow(@, reply.toks, TRUE)]
            ELSE IF d.ids = <<>>
            THEN [d EXCEPT !.ids = <<reply.toks>>, !.mask = <<Ones(reply.toks)>>,
                           !.lps = <<reply.toks>>]
            ELSE IF conf.mode = "trainer"
            THEN [d EXCEPT !.ids = Grow(@, reply.toks, FALSE),
                           !.mask = Grow(@, Ones(reply.toks), FALSE),
                           !.lps = Grow(@, reply.toks, FALSE)]
            ELSE d
    IN Ended(final, reply)

\* MathTipsScheduler cuts the text before a tag, after cut characters of it, and the ids
\* after the first token, of at least one, with which they decode to a text as long: the
\* tag's beginning stays in the ids when it begins inside a token, or with the first one.
KeptText(reply, cut) == SubSeq(Decode(reply.toks), 1, cut)

\* Mutant of KeptIds: the ids go on to the first token with which they decode to more.
KeptIds_Longer(reply, cut) ==
    LET lengths == [i \in DOMAIN reply.toks |-> Len(Decode(SubSeq(reply.toks, 1, i)))]
        longer == SelectInSeq(lengths, LAMBDA n : n > cut)
    IN IF longer = 0 THEN reply.toks ELSE SubSeq(reply.toks, 1, longer)

KeptIds(reply, cut) ==
    LET lengths == [i \in DOMAIN reply.toks |-> Len(Decode(SubSeq(reply.toks, 1, i)))]
    IN SubSeq(reply.toks, 1, SelectInSeq(lengths, LAMBDA n : n >= cut))

\* The messages of the next request.
Asked(d, reply, cut) ==
    IF conf.kind = "tips"
    THEN [d.messages EXCEPT ![Len(d.messages)].text = KeptText(reply, cut) \o Decode(<<Tip>>)]
         \o <<Dummy>>
    ELSE Append(d.messages, User)

Step(d, reply, continues, cut) ==
    LET next == [d EXCEPT !.messages = Asked(d, reply, cut), !.turn = @ + 1]
    IN CASE conf.kind = "plain" ->
              [next EXCEPT !.lps = Grow(@, reply.toks, continues)]
         [] conf.kind = "ids" ->
              [next EXCEPT !.ids = Grow(@, reply.toks, continues),
                           !.mask = Grow(@, Ones(reply.toks), continues),
                           !.lps = Grow(@, reply.toks, continues)]
         [] conf.kind = "tips" ->
              [next EXCEPT !.ids = Grow(@, Append(KeptIds(reply, cut), Tip), continues),
                           !.mask = Grow(@, Append(Ones(KeptIds(reply, cut)), 0), continues),
                           !.lps = Grow(@, KeptIds(reply, cut), continues)]

\* ThinkingModelTipsScheduler.run: one output per round, and one tip at most.
Round(d, reply, stop) ==
    LET heard == [d EXCEPT !.messages = Append(@, Assistant(Decode(reply.toks)))]
        out == [of |-> reply.of, messages |-> heard.messages, ids |-> <<reply.toks>>,
                mask |-> <<>>, lps |-> <<>>, last |-> reply.toks]
        next == [heard EXCEPT !.outs = Append(@, out)]
    IN IF stop \/ d.turn > 1 \/ d.turn >= conf.turns
       THEN [next EXCEPT !.finished = TRUE]
       ELSE [next EXCEPT !.messages = Append(@, User), !.turn = @ + 1]

\* GYMScheduler.run: no ids; the environment's observation follows every turn that is
\* not done, the last one that max_turns allows as well.
Play(d, reply, stop) ==
    LET heard == [d EXCEPT !.messages = Append(@, Assistant(Decode(reply.toks)))]
        next == IF stop THEN heard
                ELSE [heard EXCEPT !.messages = Append(@, User), !.turn = @ + 1]
        out == [of |-> reply.of, messages |-> next.messages, ids |-> <<>>, mask |-> <<>>,
                lps |-> <<>>, last |-> reply.toks]
    IN IF stop \/ next.turn > conf.turns
       THEN [next EXCEPT !.outs = <<out>>, !.finished = TRUE]
       ELSE next

\* check_finished: the scheduler's own answer; tips are given once; max_turns.
Finished(d, stop) ==
    \/ stop
    \/ conf.kind = "tips" /\ \E half \in 1 .. Width : Contains(Last(d.messages).text, <<Tip, half>>)
    \/ d.turn >= conf.turns

Loop(d, reply, stop, cut) ==
    LET heard == [d EXCEPT !.messages = Heard(d, reply)]
    IN IF Finished(heard, stop)
       THEN Finish(heard, reply, Continues(d))
       ELSE Step(heard, reply, Continues(d), cut)

After(d, reply, stop, cut) ==
    CASE conf.kind = "rounds" -> Round(d, reply, stop)
      [] conf.kind = "gym" -> Play(d, reply, stop)
      [] OTHER -> Loop(d, reply, stop, cut)

\* Where the first tag of a response begins; its length stands for no tag.  The other
\* schedulers cut nothing.
Cuts(reply) ==
    IF conf.kind = "tips" THEN 0 .. Len(Decode(reply.toks)) ELSE {Len(Decode(reply.toks))}

-----------------------------------------------------------------------------
(* The ranks *)

Init ==
    /\ conf \in Settings
    /\ pc = [r \in Ranks |-> "rollout"]
    /\ pending = [r \in Ranks |-> Inputs(r)]
    /\ replies = [r \in Ranks |-> <<>>]
    /\ dialogue = [s \in Samples |-> Fresh]
    /\ merged = [r \in Ranks |-> <<>>]
    /\ trained = [r \in Ranks |-> <<>>]

AllAt(where) == \A r \in Ranks : pc[r] = where

\* _rollout: the requests of all ranks go to the engine together, and every rank cuts
\* its own out of the results.
Rollout ==
    /\ conf.mode = "trainer"
    /\ AllAt("rollout")
    /\ LET requests == FlattenSeq([r \in Ranks |-> pending[r]])
           lengths == [r \in Ranks |-> Len(pending[r])]
       IN \E n \in [DOMAIN requests -> 1 .. conf.tokens] :
              LET results == [k \in DOMAIN requests |-> Reply(requests[k], n[k])]
              IN replies' = [r \in Ranks |-> Slice(results, lengths, r)]
    /\ pc' = [r \in Ranks |-> "flag"]
    /\ UNCHANGED <<conf, pending, dialogue, merged, trained>>

\* The output of a request is put into a copy of its sample.  Without ids a trainer
\* without scheduler takes those of the last response; without complete
\* log-probabilities, those of the last response are taken as well.
Merged(s, out) ==
    [input |-> s, of |-> out.of, messages |-> out.messages,
     ids |-> IF out.ids = <<>> /\ conf.mode = "server" THEN <<out.last>> ELSE out.ids,
     mask |-> out.mask,
     lps |-> IF out.lps = <<>> THEN <<out.last>> ELSE out.lps]

\* The flags of all ranks are gathered: they leave the loop together.
CheckFlags ==
    /\ AllAt("flag")
    /\ IF \A r \in Ranks : pending[r] = <<>>
       THEN /\ pc' = [r \in Ranks |-> "score"]
            /\ merged' = [r \in Ranks |->
                   [k \in DOMAIN Inputs(r) |-> Merged(Inputs(r)[k], dialogue[Inputs(r)[k]].outs[1])]]
       ELSE /\ pc' = [r \in Ranks |-> "turn"]
            /\ UNCHANGED merged
    /\ UNCHANGED <<conf, pending, replies, dialogue, trained>>

\* Mutant of Turn: a rank whose dialogues have all ended leaves the loop.
Turn_Leaves(r) ==
    /\ pc[r] = "turn"
    /\ \E stop \in [DOMAIN pending[r] -> BOOLEAN] :
       \E cut \in [DOMAIN pending[r] -> 0 .. Width * conf.tokens] :
          /\ \A k \in DOMAIN pending[r] : cut[k] \in Cuts(replies[r][k])
          /\ LET next == [k \in DOMAIN pending[r] |->
                             After(dialogue[pending[r][k]], replies[r][k], stop[k], cut[k])]
             IN /\ dialogue' = [s \in Samples |->
                       IF Contains(pending[r], s)
                       THEN next[CHOOSE k \in DOMAIN next : pending[r][k] = s]
                       ELSE dialogue[s]]
                /\ pending' = [pending EXCEPT ![r] = SelectSeq(@, LAMBDA s : ~dialogue'[s].finished)]
    /\ pc' = [pc EXCEPT ![r] = IF pending'[r] = <<>> THEN "score" ELSE "rollout"]
    /\ UNCHANGED <<conf, replies, merged, trained>>

\* One pass of the loop on one rank, up to the next rollout: a rank with nothing left
\* takes part in it with no requests.
Turn(r) ==
    /\ pc[r] = "turn"
    /\ \E stop \in [DOMAIN pending[r] -> BOOLEAN] :
       \E cut \in [DOMAIN pending[r] -> 0 .. Width * conf.tokens] :
          /\ \A k \in DOMAIN pending[r] : cut[k] \in Cuts(replies[r][k])
          /\ LET next == [k \in DOMAIN pending[r] |->
                             After(dialogue[pending[r][k]], replies[r][k], stop[k], cut[k])]
             IN /\ dialogue' = [s \in Samples |->
                       IF Contains(pending[r], s)
                       THEN next[CHOOSE k \in DOMAIN next : pending[r][k] = s]
                       ELSE dialogue[s]]
                /\ pending' = [pending EXCEPT ![r] = SelectSeq(@, LAMBDA s : ~dialogue'[s].finished)]
    /\ pc' = [pc EXCEPT ![r] = "rollout"]
    /\ UNCHANGED <<conf, replies, merged, trained>>

\* The server: run() of one dialogue from the answer to one infer_async to the next.
Run(s) ==
    /\ conf.mode = "server"
    /\ ~dialogue[s].finished
    /\ \E n \in 1 .. conf.tokens, stop \in BOOLEAN :
          LET reply == Reply(s, n)
          IN \E cut \in Cuts(reply) :
                 dialogue' = [dialogue EXCEPT ![s] = After(@, reply, stop, cut)]
    /\ UNCHANGED <<conf, pc, pending, replies, merged, trained>>

\* The outputs of all dialogues are back.  As many as requests: every rank takes those
\* of its own prompts.  Else they are sorted by request id and shared evenly, and every
\* output finds its sample by the id.
Deliver ==
    /\ conf.mode = "server"
    /\ AllAt("rollout")
    /\ \A s \in Samples : dialogue[s].finished
    /\ LET all == FlattenSeq([s \in Samples |-> dialogue[s].outs])
       IN IF Len(all) = Len(dialogue)
          THEN merged' = [r \in Ranks |->
                   LET outs == Slice(all, conf.inputs, r)
                   IN [k \in DOMAIN Inputs(r) |-> Merged(Inputs(r)[k], outs[k])]]
          ELSE \E byId \in Permutations(Samples) :
                   LET sorted == FlattenSeq([i \in Samples |-> dialogue[byId[i]].outs])
                   IN merged' = [r \in Ranks |->
                          LET outs == EvenSlice(sorted, r)
                          IN [k \in DOMAIN outs |-> Merged(outs[k].of, outs[k])]]
    /\ pc' = [r \in Ranks |-> "score"]
    /\ UNCHANGED <<conf, pending, replies, dialogue, trained>>

\* split_by_mini_batches: steps chunks, the first ones longer by one.
MiniBatches(samples) ==
    LET n == conf.steps
        Size(i) == (Len(samples) \div n) + (IF i <= Len(samples) % n THEN 1 ELSE 0)
        sizes == [i \in 1 .. n |-> Size(i)]
    IN [i \in 1 .. n |-> Slice(samples, sizes, i)]

\* What a reward, and the advantage computed from it, belongs to.
Name(sample) == <<sample.of, Len(sample.messages)>>

\* The rewards are gathered in the order of the ranks, and every rank takes its even
\* share of the advantages for its samples.
Score ==
    /\ AllAt("score")
    /\ LET advantages == FlattenSeq([r \in Ranks |-> [k \in DOMAIN merged[r] |-> Name(merged[r][k])]])
       IN trained' = [r \in Ranks |->
              LET mine == EvenSlice(advantages, r)
              IN MiniBatches([k \in DOMAIN mine |-> [sample |-> merged[r][k], advantage |-> mine[k]]])]
    /\ pc' = [r \in Ranks |-> "done"]
    /\ UNCHANGED <<conf, pending, replies, dialogue, merged>>

Next ==
    \/ Rollout
    \/ CheckFlags
    \/ \E r \in Ranks : Turn(r)
    \/ \E s \in Samples : Run(s)
    \/ Deliver
    \/ Score

Spec == Init /\ [][Next]_vars

\* Every rank goes on to its next collective, which ends when all have entered it, and
\* the engine answers every request.
FairSpec == Spec /\ WF_vars(Next)

-----------------------------------------------------------------------------
(* Properties *)

\* replace_assistant_response_with_ids: the last assistant messages are given the ids,
\* from the last one backwards; r counts from the end.
Spoken(sample) == SelectSeq(sample.messages, LAMBDA m : m.role = "assistant")
FromEnd(seq, r) == seq[Len(seq) + 1 - r]

\* The tokens that have labels: those the mask keeps, and the messages without mask
\* that the base strategy keeps.
Labelled(sample) ==
    LET spoken == Spoken(sample)
        Replaced(r) == r <= Len(sample.ids)
        MaskedIn(r) == LET at == {i \in DOMAIN FromEnd(sample.ids, r) : FromEnd(sample.mask, r)[i] = 1}
                       IN [i \in 1 .. Cardinality(at) |-> FromEnd(sample.ids, r)[SetToSortSeq(at, <)[i]]]
        Text(r) == IF Replaced(r) THEN FromEnd(sample.ids, r) ELSE Encode(FromEnd(spoken, r).text)
        Kind(r) == IF Replaced(r) /\ sample.mask # <<>> THEN MaskedIn(r)
                   ELSE IF conf.scale = "default" THEN Text(r)
                   ELSE IF r = 1 /\ Last(sample.messages).role = "assistant" THEN Text(r)
                   ELSE <<>>
    IN FlattenSeq([i \in DOMAIN spoken |-> Kind(Len(spoken) + 1 - i)])

\* The trainer uses the log-probabilities when there are as many as labelled tokens.
LogprobsUsed(sample) == Len(FlattenSeq(sample.lps)) = Len(Labelled(sample))

TrainedSamples == UNION {{trained[r][i][k] : k \in DOMAIN trained[r][i]} :
                            <<r, i>> \in {<<q, j>> \in Ranks \X (1 .. conf.steps) : trained[q] # <<>>}}

\* What the cut of the ids may add to a message: the token before a tip may decode to
\* characters the text lacks, all of them only if it is the first token.
CutBefore(ids, text, i) ==
    /\ i < Len(ids)
    /\ ids[i + 1] = Tip
    /\ i = 1 \/ \E c \in Range(Decode(<<ids[i]>>)) : c \in Range(text)

\* A sample is trained on the tokens that were generated in its place.  The ids that
\* replace the text of a message decode to that text, message by message, but for the
\* rest of a token before a tip: MathTipsScheduler cuts the text and the ids in two
\* ways, and such a token is trained on in whole although the turn after it was
\* generated without its end.  The mask has the shape of the ids (the assertion of
\* replace_assistant_response_with_ids never fails) and leaves out the tips, and only
\* them; and log-probabilities that are used are those of the labelled tokens, in order.
Aligned ==
    \A entry \in TrainedSamples :
        LET sample == entry.sample
            spoken == Spoken(sample)
        IN /\ Len(sample.ids) <= Len(spoken)
           /\ \A r \in DOMAIN sample.ids :
                 LET ids == FromEnd(sample.ids, r)
                     text == FromEnd(spoken, r).text
                 IN /\ SelectSeq(Decode(ids), LAMBDA c : Contains(text, c)) = text
                    /\ \A i \in DOMAIN ids :
                          Range(Decode(<<ids[i]>>)) \subseteq Range(text) \/ CutBefore(ids, text, i)
           /\ sample.mask # <<>> =>
                 /\ Len(sample.mask) = Len(sample.ids)
                 /\ \A r \in DOMAIN sample.ids :
                       FromEnd(sample.mask, r) = [i \in DOMAIN FromEnd(sample.ids, r) |->
                           IF FromEnd(sample.ids, r)[i] = Tip THEN 0 ELSE 1]
           /\ LogprobsUsed(sample) => FlattenSeq(sample.lps) = Labelled(sample)

\* Through gathers, slices, sorting and even shares, every rank gets back the dialogues
\* of its samples: a sample has the messages generated for it, and the advantage of its
\* own reward; every output of every dialogue is trained on exactly once; and with one
\* output per prompt the gathered order is that of the prompts, which the grouping of
\* the rewards by num_generations relies on.
OwnOutput ==
    AllAt("done") =>
        LET entries == FlattenSeq([r \in Ranks |-> FlattenSeq(trained[r])])
            outs == FlattenSeq([s \in Samples |-> dialogue[s].outs])
        IN /\ \A k \in DOMAIN entries :
                 LET e == entries[k]
                 IN /\ e.sample.input = e.sample.of
                    /\ e.advantage = Name(e.sample)
                    /\ \A i \in DOMAIN e.sample.messages :
                         \A c \in Range(e.sample.messages[i].text) :
                             c[1] = Tip \/ c[1][1] = e.sample.input
           /\ Len(entries) = Len(outs)
           /\ {e.advantage : e \in Range(entries)} = {Name(o) : o \in Range(outs)}
           /\ Len(outs) = Len(dialogue) => \A k \in DOMAIN entries : entries[k].sample.input = k

\* All ranks leave the loop and train: none waits in a collective the others have left.
AllLeave == <>AllAt("done")

=============================================================================
