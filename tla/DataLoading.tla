----------------------------- MODULE DataLoading -----------------------------
(***************************************************************************)
(* From packed samples to training steps on every rank.                    *)
(*                                                                         *)
(* A data set with a length is dealt by BatchSamplerShard: every rank      *)
(* computes the same order and takes its own slice (dataloader/shard.py).  *)
(* A stream is read on rank 0 only: DataLoaderDispatcher collects a batch  *)
(* per rank and scatters them (dataloader/dispatcher.py).  The training    *)
(* step of all ranks is a collective: a rank with a batch and one without  *)
(* would wait for each other for ever.  One epoch is modelled.             *)
(***************************************************************************)
EXTENDS Packing

CONSTANTS
    Ranks,      \* number of ranks
    Prefetch    \* batches the DataLoader process reads ahead (bound)

ASSUME RanksAssumption == Ranks \in Nat \ {0} /\ Prefetch \in Nat \ {0}

VARIABLES
    pc,        \* pc[r]: "next", "train", "done", or "raised"
    hand,      \* hand[r]: the batch rank r trains on: a sequence of groups
    trained,   \* trained[r]: the batches it has trained on
    order,     \* the order of the groups every rank has computed from the seed
    batch,     \* stream: the batch the DataLoader is filling
    loaded,    \* stream: batches read ahead
    pulled,    \* stream: what rank 0 has collected for the next scatter
    skipped,   \* stream: batches passed over after a resume
    dropped    \* stream: batches at the end that do not reach all ranks

loaderVars == <<batch, loaded, pulled, skipped, dropped>>
vars == <<packingVars, pc, hand, trained, order, loaderVars>>

RankSet == 0 .. Ranks - 1

Init ==
    /\ conf \in Settings
    /\ InitMap
    /\ InitStream
    /\ pc = [r \in RankSet |-> "next"]
    /\ hand = [r \in RankSet |-> <<>>]
    /\ trained = [r \in RankSet |-> <<>>]
    /\ order = <<>>
    /\ batch = <<>> /\ loaded = <<>> /\ pulled = <<>> /\ skipped = <<>> /\ dropped = <<>>

-----------------------------------------------------------------------------
(* BatchSamplerShard *)

\* total_samples: per rank, rounded down.
TotalSamples == Len(PackedIdx) \div Ranks

\* The order an epoch may have; the seed is the same on every rank.  Without
\* group_by_length the samples beyond a multiple of the ranks are not in it.
Orders ==
    LET n == IF conf.order = "grouped" THEN Len(PackedIdx) ELSE TotalSamples * Ranks
        forward == [i \in 1 .. n |-> i]
    IN IF conf.order = "plain" THEN {forward} ELSE {forward, Reverse(forward)}

\* Mutant of Slice: the stride is forgotten.
Slice_NoStride(r) == [k \in 1 .. Len(order) - r |-> order[r + k]]

\* total_idx[rank::world_size]
Slice(r) == [k \in 1 .. Ceil(Len(order) - r, Ranks) |-> order[r + 1 + (k - 1) * Ranks]]

\* __iter__: full batches, and the rest unless drop_last.
Batches(r) ==
    LET s == Slice(r)
        n == IF conf.dropLast THEN Len(s) \div conf.batch ELSE Ceil(Len(s), conf.batch)
    IN [b \in 1 .. n |-> SubSeq(s, (b - 1) * conf.batch + 1, Least(b * conf.batch, Len(s)))]

\* __len__
SamplerLen ==
    IF conf.dropLast THEN TotalSamples \div conf.batch ELSE Ceil(TotalSamples, conf.batch)

\* The data set is complete; every rank builds its loader.
BuildLoader ==
    /\ Packed
    /\ order = <<>>
    /\ order' \in Orders
    /\ UNCHANGED <<packingVars, pc, hand, trained, loaderVars>>

\* A rank takes its next batch after those skipped, or leaves its loop.  The training
\* loop of transformers makes as many steps as the loader is long.
NextBatch(r) ==
    /\ Packed
    /\ order # <<>> \/ Orders = {<<>>}
    /\ pc[r] = "next"
    /\ LET i == conf.skip + Len(trained[r]) + 1
       IN IF i <= SamplerLen
          THEN /\ i \in DOMAIN Batches(r)
               /\ hand' = [hand EXCEPT ![r] = [k \in DOMAIN Batches(r)[i] |-> PackedIdx[Batches(r)[i][k]]]]
               /\ pc' = [pc EXCEPT ![r] = "train"]
          ELSE /\ pc' = [pc EXCEPT ![r] = "done"]
               /\ UNCHANGED hand
    /\ UNCHANGED <<packingVars, trained, order, loaderVars>>

\* The step of all ranks, with the all-reduce of the gradients.
TrainStep ==
    /\ \A r \in RankSet : pc[r] = "train"
    /\ trained' = [r \in RankSet |-> Append(trained[r], hand[r])]
    /\ hand' = [r \in RankSet |-> <<>>]
    /\ pc' = [r \in RankSet |-> "next"]
    /\ UNCHANGED <<packingVars, order, loaderVars>>

-----------------------------------------------------------------------------
(* DataLoaderDispatcher *)

StreamEnded == reader.pc = "end" /\ rows = <<>>

\* The DataLoader (on rank 0) collates the next group, or the rest as a last batch.
Collate ==
    /\ conf.streaming
    /\ Len(loaded) < Prefetch
    /\ \/ /\ rows # <<>>
          /\ rows' = Tail(rows)
          /\ LET now == Append(batch, Head(rows))
             IN IF Len(now) = conf.batch
                THEN batch' = <<>> /\ loaded' = Append(loaded, now)
                ELSE batch' = now /\ UNCHANGED loaded
       \/ /\ StreamEnded /\ batch # <<>>
          /\ batch' = <<>> /\ loaded' = Append(loaded, batch)
          /\ UNCHANGED rows
    /\ UNCHANGED <<conf, mapVars, reader, inQueue, proc, results, pc, hand, trained, order,
                   pulled, skipped, dropped>>

Skipping == Len(skipped) < conf.skip * Ranks

\* next(base_iter) on rank 0, for a batch to skip or to send.
Pull ==
    /\ pc[0] = "next"
    /\ loaded # <<>>
    /\ IF Skipping
       THEN skipped' = Append(skipped, Head(loaded)) /\ UNCHANGED pulled
       ELSE /\ Len(pulled) < Ranks
            /\ pulled' = Append(pulled, Head(loaded)) /\ UNCHANGED skipped
    /\ loaded' = Tail(loaded)
    /\ UNCHANGED <<packingVars, pc, hand, trained, order, batch, dropped>>

LoaderEnded == conf.streaming /\ StreamEnded /\ batch = <<>> /\ loaded = <<>>

\* The loader ends while rank 0 still skips: StopIteration leaves the generator as a
\* RuntimeError, on this rank only.
SkipRaises ==
    /\ pc[0] = "next"
    /\ LoaderEnded
    /\ Skipping
    /\ pc' = [pc EXCEPT ![0] = "raised"]
    /\ UNCHANGED <<packingVars, hand, trained, order, loaderVars>>

\* scatter_object_list: every rank is in it, and rank 0 has a batch for each.
Scatter ==
    /\ \A r \in RankSet : pc[r] = "next"
    /\ conf.streaming /\ ~Skipping
    /\ Len(pulled) = Ranks
    /\ hand' = [r \in RankSet |-> pulled[r + 1]]
    /\ pulled' = <<>>
    /\ pc' = [r \in RankSet |-> "train"]
    /\ UNCHANGED <<packingVars, trained, order, batch, loaded, skipped, dropped>>

\* Mutant of ScatterEnd: rank 0 leaves its loop without a last scatter.
ScatterEnd_Break ==
    /\ pc[0] = "next"
    /\ LoaderEnded /\ ~Skipping
    /\ Len(pulled) < Ranks
    /\ dropped' = pulled
    /\ pulled' = <<>>
    /\ pc' = [pc EXCEPT ![0] = "done"]
    /\ UNCHANGED <<packingVars, hand, trained, order, batch, loaded, skipped>>

\* The loader ends before there is a batch for each: None is scattered, and all leave.
ScatterEnd ==
    /\ \A r \in RankSet : pc[r] = "next"
    /\ LoaderEnded /\ ~Skipping
    /\ Len(pulled) < Ranks
    /\ dropped' = pulled
    /\ pulled' = <<>>
    /\ pc' = [r \in RankSet |-> "done"]
    /\ UNCHANGED <<packingVars, hand, trained, order, batch, loaded, skipped>>

PackingNext ==
    /\ \/ \E k \in Workers : PackChunk(k) \/ Collect(k)
       \/ PutInterval \/ Fetch \/ PackInterval
       \/ \E p \in 1 .. Procs : TakeSample(p) \/ Encode(p)
    /\ UNCHANGED <<pc, hand, trained, order, loaderVars>>

Next == \/ PackingNext
        \/ BuildLoader \/ (\E r \in RankSet : NextBatch(r)) \/ TrainStep
        \/ Collate \/ Pull \/ SkipRaises \/ Scatter \/ ScatterEnd

Spec == Init /\ [][Next]_vars

\* Processes that can go on do.  Nothing here comes back to an earlier state, so one
\* condition on Next is enough.
FairSpec == Spec /\ WF_vars(Next)

-----------------------------------------------------------------------------
(* Properties *)

Groups == Seq(Seq(1 .. N))

\* Type invariant.
TypeOK ==
    /\ conf \in Settings
    /\ \A k \in Workers : worker[k].input \in Seq(1 .. N) /\ packed[k] \in Groups
    /\ ended \in 0 .. NumWorkers
    /\ reader.pc \in {"put", "fetch", "end"} /\ reader.pos \in 0 .. N
    /\ reader.got \in 0 .. Len(reader.res)
    /\ results \subseteq [at : DOMAIN reader.res, sample : 0 .. N]
    /\ \A p \in 1 .. Procs : proc[p] \in {Idle, Dead} \cup [at : 1 .. Interval, sample : 1 .. N]
    /\ rows \in Groups
    /\ pc \in [RankSet -> {"next", "train", "done", "raised"}]
    /\ hand \in [RankSet -> Groups] /\ trained \in [RankSet -> Seq(Groups)]
    /\ order \in Seq(1 .. N)
    /\ batch \in Groups /\ {loaded, pulled, skipped, dropped} \subseteq Seq(Groups)

\* Samples of a sequence of groups, of a sequence of batches, of batches of each rank.
InGroups(gs) == FlattenSeq(gs)
InBatches(bs) == FlattenSeq(FlattenSeq(bs))
OnRanks == InBatches(FlattenSeq([i \in 1 .. Ranks |-> Append(trained[i - 1], hand[i - 1])]))

\* Where the samples of worker k are that it has not put on the queue for good.
AtWorker(k) ==
    worker[k].input \o SubSeq(Share(k), worker[k].i + 1, Len(Share(k)))
    \o InBatches([i \in DOMAIN outQueue[k] |-> outQueue[k][i].groups]) \o InGroups(packed[k])

InStream ==
    [i \in DOMAIN inQueue |-> inQueue[i].sample]
    \o Encoded([p \in 1 .. Procs |-> proc[p].sample])
    \o Encoded(SetToSeq({r.sample : r \in results}))
    \o Encoded(reader.res) \o reader.data \o InGroups(rows \o batch)
    \o InBatches(loaded \o pulled \o skipped \o dropped) \o OnRanks

Once(s, S) == Len(s) = Cardinality(S) /\ ToSet(s) = S

\* Conserved: from the data set to the ranks no sample is lost or repeated: with a
\* length, each sample is in one place of its worker's part; in a stream, each sample
\* that was read is in one place, but for those that could not be encoded and were
\* dropped by the process that had them.
Conserved ==
    IF conf.streaming
    THEN LET read == 1 .. reader.pos
             good == {s \in read : conf.quality[s] = "ok"}
         IN /\ IsInjective(InStream)
            /\ good \subseteq ToSet(InStream) /\ ToSet(InStream) \subseteq read
    ELSE \A k \in Workers : Once(AtWorker(k), ToSet(Share(k)))

\* Reproducible: what is packed does not depend on which process was faster: the
\* samples of an interval are packed in the order of the data set.
Reproducible ==
    reader.got = Len(reader.res) => IsSorted(Encoded(reader.res), <)

Over == \A r \in RankSet : pc[r] = "done"

\* TailOnly: when the epoch is over every group was trained on one rank, once, but for
\* those a resume skips and a tail: less than one group per rank (with drop_last, less
\* than one batch per rank), or, in a stream, less than one batch per rank.
TailOnly ==
    /\ IsInjective(OnRanks)
    /\ Over /\ ~conf.streaming =>
           LET groups == FlattenSeq(FlattenSeq([i \in 1 .. Ranks |-> trained[i - 1]]))
               tail == IF conf.dropLast THEN Ranks * conf.batch - 1 ELSE Ranks - 1
           IN Len(PackedIdx) - Len(groups) <= tail + conf.skip * Ranks * conf.batch
    /\ Over /\ conf.streaming =>
           /\ Len(dropped) < Ranks
           /\ reader.pos = N
           /\ \A s \in 1 .. N : conf.quality[s] = "ok" =>
                  s \in ToSet(OnRanks \o InBatches(skipped \o dropped))

\* AllEnd: every rank makes the same number of steps and leaves its loop, unless a
\* process has died on a sample it may not drop, or there is less data than is skipped.
AllEnd ==
    <>(\/ Over /\ \A q, r \in RankSet : Len(trained[q]) = Len(trained[r])
       \/ \E p \in 1 .. Procs : proc[p] = Dead
       \/ pc[0] = "raised")

=============================================================================
