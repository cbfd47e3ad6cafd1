------------------------------- MODULE Packing -------------------------------
(***************************************************************************)
(* Packing of training samples: dataset/packing.py.                        *)
(*                                                                         *)
(* PackingDataset deals the lengths of all samples to worker processes.    *)
(* Each packs its part chunk by chunk, carries the last bin of a chunk     *)
(* over to the next, and sends its groups and an end marker over a queue   *)
(* all workers share.  IterablePackingDataset reads an interval of a       *)
(* stream at a time, has processes encode the samples, puts the results    *)
(* back in place by index, drops those that could not be encoded, and      *)
(* packs the interval together with the last bin of the one before.        *)
(*                                                                         *)
(* Samples are numbered in the order of the data set.  Their lengths are   *)
(* abstracted: binpacking (a library) may put up to Capacity samples       *)
(* in a bin, in any way.                                                   *)
(***************************************************************************)
EXTENDS Lists, SequencesExt

CONSTANTS
    Settings,    \* the data sets and trainings to try, see Setting
    Procs,       \* worker processes: packing_num_proc, or num_proc of the stream
    ChunkSize,   \* PACKING_BATCH_SIZE
    Interval,    \* packing_interval
    Capacity     \* samples in a bin at most (bound)

ASSUME ProcsAssumption == Procs \in Nat \ {0}
ASSUME SizesAssumption == {ChunkSize, Interval, Capacity} \subseteq Nat \ {0}

Setting == [
    streaming : BOOLEAN,
    quality : Seq({"ok", "long", "bad"}),  \* of each sample: too long, or malformed
    strict : BOOLEAN,
    batch : Nat \ {0},                     \* per-device batch size
    dropLast : BOOLEAN,
    order : {"plain", "shuffled", "grouped"},
    skip : Nat]                            \* skip_batches after a resume

ASSUME SettingsAssumption == Settings \subseteq Setting

VARIABLES
    conf,      \* the data set and the arguments
    worker,    \* PackingDataset: worker[k] is the loop state of create_packed_idx
    outQueue,  \* PackingDataset: what worker k has put on _out_queue
    packed,    \* PackingDataset: packed_idx, by worker
    ended,     \* PackingDataset: finished_workers
    reader,    \* IterablePackingDataset: the loop of __iter__
    inQueue,   \* IterablePackingDataset: _in_queue
    proc,      \* IterablePackingDataset: what each _processor works on
    results,   \* IterablePackingDataset: _out_queue
    rows       \* IterablePackingDataset: groups packed and not yet yielded

mapVars == <<worker, outQueue, packed, ended>>
streamVars == <<reader, inQueue, proc, results, rows>>
packingVars == <<conf, worker, outQueue, packed, ended, reader, inQueue, proc, results, rows>>

N == Len(conf.quality)
NoSample == 0

-----------------------------------------------------------------------------
(* calculate_matched_group *)

\* Partitions of 1..n into bins, each bin named by its least element.
Bins(n) ==
    {f \in [1 .. n -> 1 .. n] :
        \A x \in 1 .. n : /\ f[x] <= x /\ f[f[x]] = f[x]
                          /\ Cardinality({y \in 1 .. n : f[y] = f[x]}) <= Capacity}

\* to_constant_volume, and, when more data is to come, one bin kept back.
MatchedGroup(data, finished) ==
    IF data = <<>> THEN {[groups |-> <<>>, rest |-> <<>>]}
    ELSE UNION {
        LET bins == {x \in DOMAIN data : f[x] = x}
            members == [b \in DOMAIN data |-> Chosen(data, {x \in DOMAIN data : f[x] = b})]
        IN IF finished THEN {[groups |-> Chosen(members, bins), rest |-> <<>>]}
           ELSE {[groups |-> Chosen(members, bins \ {b}), rest |-> members[b]] : b \in bins}
        : f \in Bins(Len(data))}

-----------------------------------------------------------------------------
(* PackingDataset *)

Ceil(a, b) == (a + b - 1) \div b
Least(a, b) == IF a < b THEN a ELSE b

\* packing_num_proc after __init__.
NumWorkers == Least(Procs, Ceil(N, ChunkSize))
Workers == 1 .. NumWorkers

\* split_list: worker k gets the samples after Bound(k - 1) up to Bound(k); the
\* first of these is the offset it is created with.
Bound(k) == (k * N) \div NumWorkers
Share(k) == [i \in 1 .. Bound(k) - Bound(k - 1) |-> Bound(k - 1) + i]

InitMap ==
    /\ worker = [k \in Workers |-> [i |-> 0, input |-> <<>>, over |-> FALSE]]
    /\ outQueue = [k \in Workers |-> <<>>]
    /\ packed = [k \in Workers |-> <<>>]
    /\ ended = 0

\* Mutant of PackChunk: the chunk replaces what was carried over.
PackChunk_NoCarry(k) ==
    /\ ~conf.streaming
    /\ ~worker[k].over
    /\ LET w == worker[k]
           new == SubSeq(Share(k), w.i + 1, Least(w.i + ChunkSize, Len(Share(k))))
           input == new
           next == w.i + ChunkSize
       IN IF input = <<>>
          THEN /\ outQueue' = [outQueue EXCEPT ![k] = Append(@, [groups |-> <<>>, len |-> -1])]
               /\ worker' = [worker EXCEPT ![k].over = TRUE]
          ELSE \E m \in MatchedGroup(input, next >= Len(Share(k))) :
               /\ outQueue' = [outQueue EXCEPT ![k] = Append(@, [groups |-> m.groups, len |-> Len(new)])]
               /\ worker' = [worker EXCEPT ![k] = [@ EXCEPT !.i = next, !.input = m.rest]]
    /\ UNCHANGED <<conf, packed, ended, streamVars>>

\* One pass of create_packed_idx.  The queue keeps the order of each worker only.
PackChunk(k) ==
    /\ ~conf.streaming
    /\ ~worker[k].over
    /\ LET w == worker[k]
           new == SubSeq(Share(k), w.i + 1, Least(w.i + ChunkSize, Len(Share(k))))
           input == w.input \o new
           next == w.i + ChunkSize
       IN IF input = <<>>
          THEN /\ outQueue' = [outQueue EXCEPT ![k] = Append(@, [groups |-> <<>>, len |-> -1])]
               /\ worker' = [worker EXCEPT ![k].over = TRUE]
          ELSE \E m \in MatchedGroup(input, next >= Len(Share(k))) :
               /\ outQueue' = [outQueue EXCEPT ![k] = Append(@, [groups |-> m.groups, len |-> Len(new)])]
               /\ worker' = [worker EXCEPT ![k] = [@ EXCEPT !.i = next, !.input = m.rest]]
    /\ UNCHANGED <<conf, packed, ended, streamVars>>

\* The loop of __init__ on the master takes one item.
Collect(k) ==
    /\ ended < NumWorkers
    /\ outQueue[k] # <<>>
    /\ IF Head(outQueue[k]).len = -1
       THEN ended' = ended + 1 /\ UNCHANGED packed
       ELSE packed' = [packed EXCEPT ![k] = @ \o Head(outQueue[k]).groups] /\ UNCHANGED ended
    /\ outQueue' = [outQueue EXCEPT ![k] = Tail(@)]
    /\ UNCHANGED <<conf, worker, streamVars>>

\* The data set once every worker has ended, and was broadcast to all ranks.
Packed == ~conf.streaming /\ ended = NumWorkers
PackedIdx == FlattenSeq([k \in Workers |-> packed[k]])

-----------------------------------------------------------------------------
(* IterablePackingDataset *)

Idle == [at |-> 0, sample |-> NoSample]
Dead == [at |-> -1, sample |-> NoSample]

\* An empty data set ends the iteration before it begins.
InitStream ==
    /\ reader = [pc |-> IF N = 0 THEN "end" ELSE "put", pos |-> 0, data |-> <<>>,
                 res |-> <<>>, got |-> 0, finished |-> FALSE]
    /\ inQueue = <<>>
    /\ proc = [p \in 1 .. Procs |-> Idle]
    /\ results = {}
    /\ rows = <<>>

\* _put_data_in_queue, when all groups of the last interval were yielded.
PutInterval ==
    /\ conf.streaming
    /\ reader.pc = "put"
    /\ rows = <<>>
    /\ LET num == Least(Interval, N - reader.pos)
       IN /\ inQueue' = inQueue \o [k \in 1 .. num |-> [at |-> k, sample |-> reader.pos + k]]
          /\ reader' = [reader EXCEPT !.pc = "fetch", !.pos = @ + num, !.got = 0,
                                      !.res = [k \in 1 .. num |-> NoSample],
                                      !.finished = num # Interval]
    /\ UNCHANGED <<conf, mapVars, proc, results, rows>>

\* _processor takes a sample.
TakeSample(p) ==
    /\ proc[p] = Idle
    /\ inQueue # <<>>
    /\ proc' = [proc EXCEPT ![p] = Head(inQueue)]
    /\ inQueue' = Tail(inQueue)
    /\ UNCHANGED <<conf, mapVars, reader, results, rows>>

\* template.encode: what cannot be encoded comes back empty, or, with strict and
\* unless it is only too long, ends the process.
Encode(p) ==
    /\ proc[p] \notin {Idle, Dead}
    /\ LET q == conf.quality[proc[p].sample]
       IN IF conf.strict /\ q = "bad"
          THEN /\ proc' = [proc EXCEPT ![p] = Dead]
               /\ UNCHANGED results
          ELSE /\ proc' = [proc EXCEPT ![p] = Idle]
               /\ results' = results \cup
                     {[at |-> proc[p].at,
                       sample |-> IF q = "ok" THEN proc[p].sample ELSE NoSample]}
    /\ UNCHANGED <<conf, mapVars, reader, inQueue, rows>>

\* Mutant of Fetch: results are kept in the order they come back.
Fetch_AsTheyCome ==
    /\ reader.pc = "fetch"
    /\ \E r \in results :
           /\ reader' = [reader EXCEPT !.res[reader.got + 1] = r.sample, !.got = @ + 1]
           /\ results' = results \ {r}
    /\ UNCHANGED <<conf, mapVars, inQueue, proc, rows>>

\* One turn of _fetch_data_out_queue: a result goes to its place.
Fetch ==
    /\ reader.pc = "fetch"
    /\ \E r \in results :
           /\ reader' = [reader EXCEPT !.res[r.at] = r.sample, !.got = @ + 1]
           /\ results' = results \ {r}
    /\ UNCHANGED <<conf, mapVars, inQueue, proc, rows>>

Encoded(res) == Without(res, {NoSample})

\* Mutant of PackInterval: the count of results is not reset.
PackInterval_KeepGot ==
    /\ reader.pc = "fetch"
    /\ reader.got = Len(reader.res)
    /\ \E m \in MatchedGroup(reader.data \o Encoded(reader.res), reader.finished) :
           /\ rows' = m.groups
           /\ reader' = [reader EXCEPT !.data = m.rest, !.res = <<>>,
                                       !.pc = IF reader.finished THEN "end" ELSE "put"]
    /\ UNCHANGED <<conf, mapVars, inQueue, proc, results>>

\* All results are there: pack, and go on unless the stream has ended.
PackInterval ==
    /\ reader.pc = "fetch"
    /\ reader.got = Len(reader.res)
    /\ \E m \in MatchedGroup(reader.data \o Encoded(reader.res), reader.finished) :
           /\ rows' = m.groups
           /\ reader' = [reader EXCEPT !.data = m.rest, !.res = <<>>, !.got = 0,
                                       !.pc = IF reader.finished THEN "end" ELSE "put"]
    /\ UNCHANGED <<conf, mapVars, inQueue, proc, results>>

=============================================================================
