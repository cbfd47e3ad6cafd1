--------------------------- MODULE DataLoadingProofs ---------------------------
(***************************************************************************)
(* Proofs about DataLoading: where every sample is, from the data set to   *)
(* the ranks.                                                              *)
(*                                                                         *)
(* TypeInv has the types of all variables.  ReaderInv says which sample    *)
(* of an interval every message is about.  StreamInv and MapInv count how  *)
(* often each sample is on its way, in a stream and with a length.         *)
(* HandsInv and RanksInv say what the ranks hold and have trained on.      *)
(***************************************************************************)
EXTENDS DataLoading, SequenceFacts

-----------------------------------------------------------------------------
(* calculate_matched_group.                                                *)

\* The bins of f, as MatchedGroup makes them.
Bin(data, f, b) == Chosen(data, {x \in DOMAIN data : f[x] = b})
BinsOf(data, f) == [b \in DOMAIN data |-> Bin(data, f, b)]

LEMMA BinsFacts ==
    ASSUME NEW S, NEW data \in Seq(S), NEW n \in Nat, n = Len(data), NEW f \in Bins(n)
    PROVE  /\ f \in [1 .. n -> 1 .. n]
           /\ \A x \in 1 .. n : f[f[x]] = f[x]
           /\ BinsOf(data, f) \in Seq(Seq(S)) /\ Len(BinsOf(data, f)) = n
           /\ \A b \in 1 .. n :
                  /\ BinsOf(data, f)[b] = Bin(data, f, b)
                  /\ Bin(data, f, b) \in Seq(S)
                  /\ f[b] = b => Bin(data, f, b) # <<>>
<1>1. f \in [1 .. n -> 1 .. n] /\ \A x \in 1 .. n : f[f[x]] = f[x]
  BY DEF Bins
<1>2. DOMAIN data = 1 .. n
  OBVIOUS
<1>3. \A b \in 1 .. n : Bin(data, f, b) \in Seq(S)
  BY ChosenType DEF Bin
<1>4. BinsOf(data, f) \in [1 .. n -> Seq(S)]
  BY <1>2, <1>3 DEF BinsOf
<1>5. BinsOf(data, f) \in Seq(Seq(S)) /\ Len(BinsOf(data, f)) = n
  BY <1>4
<1>6. \A b \in 1 .. n : BinsOf(data, f)[b] = Bin(data, f, b)
  BY <1>2 DEF BinsOf
<1>7. ASSUME NEW b \in 1 .. n, f[b] = b PROVE Bin(data, f, b) # <<>>
  <2>1. b \in (1 .. n) \cap {x \in DOMAIN data : f[x] = b}
    BY <1>2, <1>7
  <2>2. data[b] \in ToSet(Bin(data, f, b))
    BY <2>1, ChosenElements DEF Bin
  <2>3. ToSet(<<>>) = {}
    BY DEF ToSet
  <2> QED
    BY <2>2, <2>3
<1> QED
  BY <1>1, <1>3, <1>5, <1>6, <1>7

\* Where x is in data, among the members of the first i bins of those in B.
PlacesBinned(x, data, f, B, i) == {k \in DOMAIN data : data[k] = x /\ f[k] \in B \cap (1 .. i)}

\* The bins that are kept have what was put into them.
LEMMA KeptBins ==
    ASSUME NEW S, NEW data \in Seq(S), NEW n \in Nat, n = Len(data), NEW f \in Bins(n), NEW B, NEW x
    PROVE  /\ Chosen(BinsOf(data, f), B) \in Seq(Seq(S))
           /\ Times(x, FlattenSeq(Chosen(BinsOf(data, f), B))) =
                  Cardinality(PlacesBinned(x, data, f, B, n))
<1>0. BinsOf(data, f) \in Seq(Seq(S)) /\ Len(BinsOf(data, f)) = n
  BY BinsFacts
<1>1. PICK ms \in Seq(Seq(S)) : ms = BinsOf(data, f) /\ Len(ms) = n
  BY <1>0
<1>2. \A b \in 1 .. n : ms[b] = Bin(data, f, b) /\ ms[b] \in Seq(S)
  <2>1. \A b \in 1 .. n : BinsOf(data, f)[b] = Bin(data, f, b) /\ Bin(data, f, b) \in Seq(S)
    BY BinsFacts
  <2> QED
    BY <1>1, <2>1
<1>3. PICK ps \in Seq(Seq(Seq(S))) : ps = Picks(ms, B) /\ Len(ps) = n
  BY <1>1, PicksFacts
<1>4. \A b \in 1 .. n : ps[b] = IF b \in B THEN <<ms[b]>> ELSE <<>>
  BY <1>1, <1>3, PicksFacts
<1>5. Chosen(ms, B) = FlattenSeq(ps)
  BY <1>3, PicksFacts
<1>6. PICK t : t = [i \in 1 .. n |-> FlattenSeq(ps[i])]
  OBVIOUS
<1>7. t \in Seq(Seq(S)) /\ Len(t) = n /\ FlattenSeq(ps) \in Seq(Seq(S))
      /\ FlattenSeq(FlattenSeq(ps)) = FlattenSeq(t)
  <2>1. t = [i \in 1 .. Len(ps) |-> FlattenSeq(ps[i])]
    BY <1>3, <1>6
  <2>2. /\ t \in Seq(Seq(S)) /\ Len(t) = Len(ps) /\ FlattenSeq(ps) \in Seq(Seq(S))
        /\ FlattenSeq(FlattenSeq(ps)) = FlattenSeq(t)
    BY <2>1, FlattenTwice
  <2> QED
    BY <1>3, <2>2
<1>8. \A b \in 1 .. n : t[b] = IF b \in B THEN ms[b] ELSE <<>>
  <2> TAKE b \in 1 .. n
  <2>1. t[b] = FlattenSeq(ps[b])
    BY <1>6
  <2>2. FlattenSeq(<<ms[b]>>) = ms[b]
    BY <1>2, FlattenOne
  <2> QED
    BY <1>4, <2>1, <2>2, FlattenEmpty
<1>9. PICK h : Joins(h, t, S) /\ FlattenSeq(t) = h[n]
  BY <1>7, FlattenJoins
<1>10. h \in [0 .. n -> Seq(S)] /\ h[0] = <<>> /\ \A i \in 1 .. n : h[i] = h[i - 1] \o t[i]
  BY <1>7, <1>9 DEF Joins
<1>11. f \in [1 .. n -> 1 .. n] /\ DOMAIN data = 1 .. n
  BY BinsFacts
<1> DEFINE at(i) == PlacesBinned(x, data, f, B, i)
           A == {i \in 0 .. n : IsFiniteSet(at(i)) /\ Times(x, h[i]) = Cardinality(at(i))}
<1>12. 0 \in A
  <2>1. at(0) = {}
    BY DEF PlacesBinned
  <2>2. IsFiniteSet(at(0)) /\ Cardinality(at(0)) = 0
    BY <2>1, FS_EmptySet
  <2>3. Times(x, h[0]) = 0
    BY <1>10, TimesEmpty
  <2> QED
    BY <2>2, <2>3
<1>13. ASSUME NEW i \in 0 .. (n - 1), i \in A PROVE i + 1 \in A
  <2>1. i + 1 \in 1 .. n /\ (i + 1) - 1 = i /\ i + 1 \in 0 .. n /\ i \in 0 .. n
    OBVIOUS
  <2>2. PICK a \in Seq(S), b \in Seq(S) : a = h[i] /\ b = t[i + 1]
    <3>1. h[i] \in Seq(S)
      BY ONLY <1>10, <2>1
    <3>2. t[i + 1] \in Seq(S)
      BY <1>7, <2>1
    <3> QED
      BY <3>1, <3>2
  <2>3. h[i + 1] = a \o b
    <3>1. h[i + 1] = h[(i + 1) - 1] \o t[i + 1]
      BY <1>10, <2>1
    <3> QED
      BY <2>1, <2>2, <3>1
  <2>4. Times(x, h[i + 1]) = Times(x, a) + Times(x, b)
    BY <2>3, TimesConcat
  <2>5. IsFiniteSet(at(i)) /\ Times(x, a) = Cardinality(at(i)) /\ Cardinality(at(i)) \in Nat
    BY <1>13, <2>2, FS_CardinalityType
  <2>6. CASE i + 1 \in B
    <3>1. PICK P : P = {y \in DOMAIN data : f[y] = i + 1}
      OBVIOUS
    <3>2. b = Chosen(data, P)
      BY <1>2, <1>8, <2>1, <2>2, <2>6, <3>1 DEF Bin
    <3>3. PICK Q : Q = PlacesIn(x, data, P, n)
      OBVIOUS
    <3>4. IsFiniteSet(Q) /\ Times(x, b) = Cardinality(Q)
      BY <3>2, <3>3, ChosenTimes
    <3>5. Q = {k \in 1 .. n : f[k] = i + 1 /\ data[k] = x}
      BY <1>11, <3>1, <3>3 DEF PlacesIn
    <3>6. at(i + 1) = at(i) \cup Q
      <4>1. ASSUME NEW k \in 1 .. n
            PROVE  f[k] \in B \cap (1 .. (i + 1)) <=> f[k] \in B \cap (1 .. i) \/ f[k] = i + 1
        <5>1. PICK y \in 1 .. n : y = f[k]
          BY <1>11
        <5>2. y \in 1 .. (i + 1) <=> y \in 1 .. i \/ y = i + 1
          BY ONLY y \in 1 .. n, n \in Nat, i \in 0 .. (n - 1)
        <5> QED
          BY ONLY <5>1, <5>2, <2>6
      <4> QED
        BY <1>11, <3>5, <4>1 DEF PlacesBinned
    <3>7. at(i) \cap Q = {}
      BY <1>11, <2>1, <3>5 DEF PlacesBinned
    <3> HIDE DEF at
    <3>8. /\ IsFiniteSet(at(i) \cup Q)
          /\ Cardinality(at(i) \cup Q) = Cardinality(at(i)) + Cardinality(Q) - Cardinality(at(i) \cap Q)
      BY <2>5, <3>4, FS_Union
    <3>9. Cardinality(at(i) \cap Q) = 0
      BY <3>7, FS_EmptySet
    <3>10. Cardinality(Q) \in Nat
      BY <3>4, FS_CardinalityType
    <3>11. Times(x, h[i + 1]) = Cardinality(at(i)) + Cardinality(Q)
      BY ONLY <2>4, <2>5, <3>4
    <3>12. Cardinality(at(i + 1)) = Cardinality(at(i)) + Cardinality(Q)
      <4>1. PICK u \in Nat, q \in Nat : u = Cardinality(at(i)) /\ q = Cardinality(Q)
        BY <2>5, <3>10
      <4>2. Cardinality(at(i) \cup Q) = u + q - 0
        BY ONLY <3>8, <3>9, <4>1
      <4>3. u + q - 0 = u + q
        OBVIOUS
      <4> QED
        BY ONLY <3>6, <4>1, <4>2, <4>3
    <3>13. IsFiniteSet(at(i + 1))
      BY <3>6, <3>8
    <3> QED
      BY <2>1, <3>11, <3>12, <3>13
  <2>7. CASE i + 1 \notin B
    <3>1. at(i + 1) = at(i)
      <4>1. \A k \in 1 .. n : f[k] \in B \cap (1 .. (i + 1)) <=> f[k] \in B \cap (1 .. i)
        BY <1>11, <2>1, <2>7
      <4> QED
        BY <1>11, <4>1 DEF PlacesBinned
    <3>2. Times(x, b) = 0
      BY <1>8, <2>1, <2>2, <2>7, TimesEmpty
    <3> QED
      BY <2>1, <2>4, <2>5, <3>1, <3>2
  <2> QED
    BY <2>6, <2>7
<1>14. 0 .. n \subseteq A
  <2> HIDE DEF A
  <2> QED
    BY <1>12, <1>13, InductionUpTo
<1>15. n \in A
  BY <1>14
<1> QED
  BY <1>1, <1>5, <1>7, <1>9, <1>15

\* What a call of calculate_matched_group returns: no sample is lost or repeated, no
\* group is empty, and nothing is kept back when there is no more data.
LEMMA Matched ==
    ASSUME NEW S, NEW data \in Seq(S), NEW finished \in BOOLEAN, NEW m \in MatchedGroup(data, finished)
    PROVE  /\ m.groups \in Seq(Seq(S)) /\ m.rest \in Seq(S)
           /\ \A x : Times(x, FlattenSeq(m.groups)) + Times(x, m.rest) = Times(x, data)
           /\ \A g \in 1 .. Len(m.groups) : m.groups[g] # <<>>
           /\ finished => m.rest = <<>>
<1>1. PICK n \in Nat : n = Len(data) /\ DOMAIN data = 1 .. n
  OBVIOUS
<1>2. CASE data = <<>>
  <2>1. m = [groups |-> <<>>, rest |-> <<>>]
    BY <1>2 DEF MatchedGroup
  <2>2. m.groups = <<>> /\ m.rest = <<>>
    BY <2>1
  <2>3. <<>> \in Seq(Seq(S)) /\ <<>> \in Seq(S) /\ Len(<<>>) = 0
    OBVIOUS
  <2>4. \A x : Times(x, FlattenSeq(m.groups)) + Times(x, m.rest) = Times(x, data)
    BY <1>2, <2>2, FlattenEmpty, TimesEmpty
  <2> QED
    BY <2>2, <2>3, <2>4
<1>3. CASE data # <<>>
  <2>1. PICK f \in Bins(n) :
            LET bins == {x \in DOMAIN data : f[x] = x}
            IN  IF finished THEN m = [groups |-> Chosen(BinsOf(data, f), bins), rest |-> <<>>]
                ELSE \E b \in bins : m = [groups |-> Chosen(BinsOf(data, f), bins \ {b}),
                                          rest |-> BinsOf(data, f)[b]]
    BY <1>1, <1>3 DEF MatchedGroup, BinsOf, Bin
  <2>2. PICK bins : bins = {x \in 1 .. n : f[x] = x}
    OBVIOUS
  <2>3. /\ f \in [1 .. n -> 1 .. n] /\ \A x \in 1 .. n : f[f[x]] = f[x]
        /\ BinsOf(data, f) \in Seq(Seq(S)) /\ Len(BinsOf(data, f)) = n
    BY <1>1, BinsFacts
  <2>4. \A b \in 1 .. n : /\ BinsOf(data, f)[b] = Bin(data, f, b) /\ Bin(data, f, b) \in Seq(S)
                          /\ f[b] = b => Bin(data, f, b) # <<>>
    BY <1>1, BinsFacts
  <2>5. ASSUME NEW B, B \subseteq bins
        PROVE  /\ Chosen(BinsOf(data, f), B) \in Seq(Seq(S))
               /\ \A g \in 1 .. Len(Chosen(BinsOf(data, f), B)) : Chosen(BinsOf(data, f), B)[g] # <<>>
    <3>1. PICK c \in Seq(Seq(S)) : c = Chosen(BinsOf(data, f), B)
      BY <2>3, ChosenType
    <3>2. ToSet(c) = {BinsOf(data, f)[b] : b \in (1 .. n) \cap B}
      <4>1. PICK ms \in Seq(Seq(S)) : ms = BinsOf(data, f) /\ Len(ms) = n
        BY <2>3
      <4>2. ToSet(Chosen(ms, B)) = {ms[b] : b \in (1 .. Len(ms)) \cap B}
        BY ChosenElements
      <4> QED
        BY <3>1, <4>1, <4>2
    <3>3. \A y \in ToSet(c) : y # <<>>
      <4>1. \A b \in B : b \in 1 .. n /\ f[b] = b
        BY <2>2, <2>5
      <4> QED
        BY <2>4, <3>2, <4>1
    <3>4. ToSet(c) = {c[g] : g \in 1 .. Len(c)}
      BY ONLY c \in Seq(Seq(S)), ElementsOf
    <3> QED
      BY <3>1, <3>3, <3>4
  <2>6. ASSUME NEW x PROVE PlacesBinned(x, data, f, bins, n) = Places(x, data)
    <3>1. \A k \in 1 .. n : f[k] \in bins \cap (1 .. n)
      BY <2>2, <2>3
    <3> QED
      BY <1>1, <3>1 DEF PlacesBinned, Places
  <2>7. CASE finished
    <3>1. m.groups = Chosen(BinsOf(data, f), bins) /\ m.rest = <<>>
      BY <1>1, <2>1, <2>2, <2>7
    <3>2. ASSUME NEW x PROVE Times(x, FlattenSeq(m.groups)) + Times(x, m.rest) = Times(x, data)
      <4>1. Times(x, FlattenSeq(m.groups)) = Cardinality(PlacesBinned(x, data, f, bins, n))
        BY <1>1, <3>1, KeptBins
      <4>2. Times(x, data) = Cardinality(Places(x, data)) /\ Times(x, data) \in Nat
        BY PlacesFinite
      <4> QED
        BY <2>6, <3>1, <4>1, <4>2, TimesEmpty
    <3>3. <<>> \in Seq(S)
      OBVIOUS
    <3> QED
      BY <2>5, <3>1, <3>2, <3>3
  <2>8. CASE ~finished
    <3>1. PICK b \in bins : m = [groups |-> Chosen(BinsOf(data, f), bins \ {b}),
                                 rest |-> BinsOf(data, f)[b]]
      BY <1>1, <2>1, <2>2, <2>8
    <3>2. m.groups = Chosen(BinsOf(data, f), bins \ {b}) /\ m.rest = Bin(data, f, b)
          /\ m.rest \in Seq(S)
      BY <2>2, <2>4, <3>1
    <3>3. ASSUME NEW x PROVE Times(x, FlattenSeq(m.groups)) + Times(x, m.rest) = Times(x, data)
      <4>1. PICK U : U = PlacesBinned(x, data, f, bins \ {b}, n)
        OBVIOUS
      <4>2. Times(x, FlattenSeq(m.groups)) = Cardinality(U)
        BY <1>1, <3>2, <4>1, KeptBins
      <4>3. PICK P : P = {y \in DOMAIN data : f[y] = b}
        OBVIOUS
      <4>4. PICK Q : Q = PlacesIn(x, data, P, n)
        OBVIOUS
      <4>5. IsFiniteSet(Q) /\ Times(x, m.rest) = Cardinality(Q)
        BY <1>1, <3>2, <4>3, <4>4, ChosenTimes DEF Bin
      <4>6. Q = {k \in 1 .. n : f[k] = b /\ data[k] = x}
        BY <1>1, <4>3, <4>4 DEF PlacesIn
      <4>7. U = {k \in 1 .. n : data[k] = x /\ f[k] # b}
        <5>1. \A k \in 1 .. n : f[k] \in (bins \ {b}) \cap (1 .. n) <=> f[k] # b
          BY <2>2, <2>3
        <5> QED
          BY <1>1, <4>1, <5>1 DEF PlacesBinned
      <4>8. U \cup Q = Places(x, data) /\ U \cap Q = {}
        BY <1>1, <4>6, <4>7 DEF Places
      <4>9. IsFiniteSet(Places(x, data)) /\ Times(x, data) = Cardinality(Places(x, data))
        BY PlacesFinite
      <4>10. IsFiniteSet(U)
        BY <4>8, <4>9, FS_Subset
      <4>11. Cardinality(U \cup Q) = Cardinality(U) + Cardinality(Q) - Cardinality(U \cap Q)
        BY <4>5, <4>10, FS_Union
      <4>12. Cardinality(U \cap Q) = 0 /\ Cardinality(U) \in Nat /\ Cardinality(Q) \in Nat
        BY <4>5, <4>8, <4>10, FS_EmptySet, FS_CardinalityType
      <4>13. Times(x, data) = Cardinality(U) + Cardinality(Q)
        <5>1. PICK u \in Nat, q \in Nat : u = Cardinality(U) /\ q = Cardinality(Q)
          BY <4>12
        <5>2. Cardinality(U \cup Q) = u + q - 0
          BY ONLY <4>11, <4>12, <5>1
        <5>3. u + q - 0 = u + q
          OBVIOUS
        <5>4. Cardinality(U \cup Q) = Times(x, data)
          BY <4>8, <4>9
        <5> QED
          BY ONLY <5>1, <5>2, <5>3, <5>4
      <4> QED
        BY ONLY <4>2, <4>5, <4>13
    <3>4. bins \ {b} \subseteq bins
      OBVIOUS
    <3> QED
      BY <2>5, <2>8, <3>2, <3>3, <3>4
  <2> QED
    BY <2>7, <2>8
<1> QED
  BY <1>2, <1>3

-----------------------------------------------------------------------------
(* The invariants.                                                         *)

Item == [at : 1 .. Interval, sample : 1 .. N]

\* Types of all variables, and what is known of the order of an epoch.
TypeInv ==
    /\ conf \in Settings
    /\ worker \in [Workers -> [i : Nat, input : Seq(1 .. N), over : BOOLEAN]]
    /\ outQueue \in [Workers -> Seq([groups : Groups, len : Int])]
    /\ packed \in [Workers -> Groups]
    /\ ended \in 0 .. NumWorkers
    /\ reader \in [pc : {"put", "fetch", "end"}, pos : 0 .. N, data : Seq(1 .. N),
                   res : Seq(0 .. N), got : Nat, finished : BOOLEAN]
    /\ inQueue \in Seq(Item)
    /\ proc \in [1 .. Procs -> {Idle, Dead} \cup Item]
    /\ results \subseteq [at : 1 .. Interval, sample : 0 .. N] /\ IsFiniteSet(results)
    /\ rows \in Groups
    /\ pc \in [RankSet -> {"next", "train", "done", "raised"}]
    /\ hand \in [RankSet -> Groups] /\ trained \in [RankSet -> Seq(Groups)]
    /\ order # <<>> => Packed /\ order \in Orders
    /\ batch \in Groups /\ loaded \in Seq(Groups) /\ pulled \in Seq(Groups)
    /\ skipped \in Seq(Groups) /\ dropped \in Seq(Groups)

\* The samples of the interval are those after the first Base of the stream.
Base == reader.pos - Len(reader.res)
Busy == {p \in 1 .. Procs : proc[p] \notin {Idle, Dead}}
IsOk(s) == conf.quality[s] = "ok"

\* Where a sample of the interval goes is known by its number, wherever it is; there
\* are not more of them under way than results still to come; nothing is under way
\* between two intervals.
ReaderInv ==
    /\ Base \in Nat /\ Len(reader.res) <= Interval
    /\ \A i \in 1 .. Len(inQueue) : /\ inQueue[i].at <= Len(reader.res)
                                    /\ inQueue[i].sample = Base + inQueue[i].at
    /\ \A p \in Busy : /\ proc[p].at <= Len(reader.res)
                       /\ proc[p].sample = Base + proc[p].at
    /\ \A r \in results : /\ r.at <= Len(reader.res)
                          /\ r.sample = IF IsOk(Base + r.at) THEN Base + r.at ELSE NoSample
    /\ \A k \in 1 .. Len(reader.res) :
           reader.res[k] # NoSample => reader.res[k] = Base + k /\ IsOk(Base + k)
    /\ Len(inQueue) + Cardinality(Busy) + Cardinality(results) + reader.got <= Len(reader.res)
    /\ reader.pc # "fetch" => reader.res = <<>> /\ reader.got = 0
    /\ reader.pc = "end" => reader.pos = N /\ reader.data = <<>>
    /\ reader.finished /\ reader.pc = "fetch" => reader.pos = N

\* How often a sample of a stream is on its way.
HasResult(x) == IF \E r \in results : r.sample = x THEN 1 ELSE 0
Waiting == [i \in 1 .. Len(inQueue) |-> inQueue[i].sample]
AtWork == [p \in 1 .. Procs |-> proc[p].sample]
InReader(x) ==
    Times(x, Waiting) + Times(x, AtWork)
    + HasResult(x) + Times(x, reader.res) + Times(x, reader.data)
InLoader(x) ==
    Times(x, InGroups(rows)) + Times(x, InGroups(batch)) + Times(x, InBatches(loaded))
    + Times(x, InBatches(pulled)) + Times(x, InBatches(skipped)) + Times(x, InBatches(dropped))
    + Times(x, OnRanks)

\* A sample that is not read yet is nowhere, one that was read is in one place at
\* most, and one that can be encoded in one.
Conservation(x, n) ==
    /\ n <= 1
    /\ x > reader.pos => n = 0
    /\ x <= reader.pos /\ IsOk(x) => n = 1

StreamInv ==
    conf.streaming =>
        /\ \A x \in 1 .. N : Conservation(x, InReader(x) + InLoader(x))
        /\ reader.pc = "fetch" => rows = <<>>

\* No group is empty.
Filled(gs) == \A g \in 1 .. Len(gs) : gs[g] # <<>>

\* Each sample of the share of a worker is in one place.
OfWorker(x, k) ==
    Times(x, worker[k].input) + Times(x, SubSeq(Share(k), worker[k].i + 1, Len(Share(k))))
    + Times(x, InBatches([i \in DOMAIN outQueue[k] |-> outQueue[k][i].groups]))
    + Times(x, InGroups(packed[k]))

MapInv ==
    ~conf.streaming =>
        \A k \in Workers :
            /\ \A x \in 1 .. N : OfWorker(x, k) = IF x \in ToSet(Share(k)) THEN 1 ELSE 0
            /\ \A i \in 1 .. Len(outQueue[k]) :
                   /\ outQueue[k][i].len = -1 => outQueue[k][i].groups = <<>>
                   /\ Filled(outQueue[k][i].groups)
            /\ Filled(packed[k])

\* The groups of the packed data set at the places in s.
GroupsAt(s) == [k \in 1 .. Len(s) |-> PackedIdx[s[k]]]

\* The part of the slice of rank r that n batches after those skipped make.
Part(r, n) ==
    SubSeq(Slice(r), conf.batch * conf.skip + 1, Least(conf.batch * (conf.skip + n), Len(Slice(r))))

\* A rank has a batch while it trains only; what is dropped is dropped at the end.
HandsInv ==
    /\ \A r \in RankSet : pc[r] # "train" => hand[r] = <<>>
    /\ dropped # <<>> => \A r \in RankSet : pc[r] = "done"

\* How many batches rank r has had, and which groups were in them.
Had(r) == Len(trained[r]) + (IF pc[r] = "train" THEN 1 ELSE 0)
Seen(r) == FlattenSeq(trained[r]) \o hand[r]

\* With a length, a rank has had the next part of its slice, batch by batch.
RankOf(r) ==
    /\ pc[r] # "next" \/ trained[r] # <<>> => Packed
    /\ pc[r] = "train" \/ trained[r] # <<>> => order # <<>>
    /\ Seen(r) = GroupsAt(Part(r, Had(r)))
    /\ pc[r] = "done" => conf.skip + Len(trained[r]) >= SamplerLen

\* A rank is done with a stream only when nothing is left to pull or to scatter.
StreamOver == LoaderEnded /\ pulled = <<>> /\ Len(dropped) < Ranks

RanksInv ==
    IF conf.streaming
    THEN \A r \in RankSet : pc[r] = "done" => StreamOver
    ELSE \A r \in RankSet : RankOf(r)

-----------------------------------------------------------------------------
(* Constants of a run.                                                     *)

LEMMA ConfFacts ==
    ASSUME conf \in Settings
    PROVE  /\ N \in Nat /\ conf.quality \in Seq({"ok", "long", "bad"})
           /\ conf.batch \in Nat \ {0} /\ conf.skip \in Nat
           /\ conf.streaming \in BOOLEAN /\ conf.strict \in BOOLEAN /\ conf.dropLast \in BOOLEAN
           /\ NumWorkers \in Nat
           /\ N # 0 => NumWorkers # 0
           /\ Procs \in Nat \ {0} /\ ChunkSize \in Nat \ {0} /\ Interval \in Nat \ {0}
           /\ Ranks \in Nat \ {0} /\ Prefetch \in Nat \ {0}
<1>1. conf \in Setting
  BY SettingsAssumption
<1>2. /\ conf.quality \in Seq({"ok", "long", "bad"}) /\ conf.batch \in Nat \ {0}
      /\ conf.skip \in Nat /\ conf.streaming \in BOOLEAN /\ conf.strict \in BOOLEAN
      /\ conf.dropLast \in BOOLEAN
  BY <1>1 DEF Setting
<1>3. N \in Nat
  BY <1>2 DEF N
<1>4. Procs \in Nat \ {0} /\ ChunkSize \in Nat \ {0} /\ Interval \in Nat \ {0}
  BY ProcsAssumption, SizesAssumption
<1>5. Ranks \in Nat \ {0} /\ Prefetch \in Nat \ {0}
  BY RanksAssumption
<1>6. PICK n \in Nat, c \in Nat \ {0} : n = N /\ c = ChunkSize
  BY <1>3, <1>4
<1>7. PICK a \in Nat : a = n + c - 1
  <2>1. n + c - 1 \in Nat
    BY <1>6
  <2> QED
    BY <2>1
<1>8. a \div c \in Nat /\ c * (a \div c) + (a % c) = a /\ a % c \in 0 .. (c - 1)
  BY DivMod
<1>9. n # 0 => a \div c # 0
  <2> SUFFICES ASSUME n # 0, a \div c = 0 PROVE FALSE
    OBVIOUS
  <2>1. c * 0 = 0
    OBVIOUS
  <2> QED
    BY <1>7, <1>8, <2>1
<1>10. Ceil(N, ChunkSize) = a \div c
  BY <1>6, <1>7 DEF Ceil
<1>11. NumWorkers \in Nat /\ (N # 0 => NumWorkers # 0)
  BY <1>4, <1>6, <1>8, <1>9, <1>10 DEF NumWorkers, Least
<1> QED
  BY <1>2, <1>3, <1>4, <1>5, <1>11

\* The settings do not change, and what follows from them does not either.
LEMMA Stays ==
    ASSUME conf' = conf
    PROVE  /\ N' = N /\ NumWorkers' = NumWorkers /\ Workers' = Workers
           /\ Groups' = Groups /\ Item' = Item
           /\ \A k : Share(k)' = Share(k)
           /\ \A s : IsOk(s)' = IsOk(s)
  BY DEF N, NumWorkers, Workers, Groups, Item, Share, Bound, IsOk

LEMMA DivMonotone ==
    ASSUME NEW a \in Nat, NEW b \in Nat, NEW d \in Nat \ {0}, a <= b
    PROVE  a \div d <= b \div d
<1>1. PICK q \in Nat, m \in 0 .. (d - 1) : q = a \div d /\ m = a % d /\ d * q + m = a
  BY DivMod
<1>2. PICK e \in Nat, k \in 0 .. (d - 1) : e = b \div d /\ k = b % d /\ d * e + k = b
  BY DivMod
<1>3. ~(e + 1 <= q)
  <2> SUFFICES ASSUME e + 1 <= q PROVE FALSE
    OBVIOUS
  <2>1. d * (e + 1) <= d * q /\ d * (e + 1) = d * e + d /\ d * e \in Nat /\ d * q \in Nat
    BY Monotone
  <2> QED
    BY <1>1, <1>2, <2>1
<1> QED
  BY <1>1, <1>2, <1>3

LEMMA BoundFacts ==
    ASSUME conf \in Settings, NEW k \in 0 .. NumWorkers, NumWorkers # 0
    PROVE  /\ Bound(k) \in Nat /\ Bound(k) <= N
           /\ \A j \in 0 .. NumWorkers : j <= k => Bound(j) <= Bound(k)
<1>1. PICK n \in Nat, w \in Nat \ {0} : n = N /\ w = NumWorkers
  BY ConfFacts
<1>2. \A j \in 0 .. w : n * j \in Nat /\ (j * n) = n * j
  BY <1>1
<1>3. \A j \in 0 .. w : Bound(j) = (n * j) \div w
  BY <1>1, <1>2 DEF Bound
<1>4. \A j \in 0 .. w : (n * j) \div w \in Nat
  BY <1>2, DivMod
<1>5. ASSUME NEW i \in 0 .. w, NEW j \in 0 .. w, j <= i PROVE (n * j) \div w <= (n * i) \div w
  <2>1. n * j <= n * i /\ n * j \in Nat /\ n * i \in Nat
    BY <1>5, Monotone
  <2> QED
    BY <2>1, DivMonotone
<1>6. (n * w) \div w = n
  <2>1. w * n + 0 = n * w /\ 0 \in 0 .. (w - 1)
    OBVIOUS
  <2>2. (w * n + 0) \div w = n
    BY <2>1, Quotient
  <2> QED
    BY <2>1, <2>2
<1>7. k \in 0 .. w /\ w \in 0 .. w /\ k <= w
  BY <1>1
<1>8. (n * k) \div w <= n
  BY <1>5, <1>6, <1>7
<1> QED
  BY <1>1, <1>3, <1>4, <1>5, <1>7, <1>8

\* The shares of the workers have no sample twice or in common.
LEMMA ShareFacts ==
    ASSUME conf \in Settings, NEW k \in Workers
    PROVE  /\ Share(k) \in Seq(1 .. N)
           /\ OneToOne(Share(k))
           /\ \A j \in Workers : j # k => ToSet(Share(j)) \cap ToSet(Share(k)) = {}
<1>1. NumWorkers \in Nat \ {0} /\ N \in Nat
  BY ConfFacts DEF Workers
<1>2. ASSUME NEW j \in Workers
      PROVE  \E a \in Nat, n \in Nat : /\ a = Bound(j - 1) /\ a + n = Bound(j)
                                       /\ a + n <= N
                                       /\ Share(j) = [i \in 1 .. n |-> a + i]
  <2>1. j \in 0 .. NumWorkers /\ j - 1 \in 0 .. NumWorkers /\ j - 1 <= j
    BY <1>1 DEF Workers
  <2>2. Bound(j) \in Nat /\ Bound(j) <= N /\ Bound(j - 1) \in Nat /\ Bound(j - 1) <= Bound(j)
    BY <1>1, <2>1, BoundFacts
  <2>3. PICK a \in Nat, b \in Nat : a = Bound(j - 1) /\ b = Bound(j)
    BY <2>2
  <2>4. b - a \in Nat /\ a + (b - a) = b
    BY <2>2, <2>3
  <2>5. Share(j) = [i \in 1 .. (b - a) |-> a + i]
    BY <2>3 DEF Share
  <2> QED
    BY <2>2, <2>3, <2>4, <2>5
<1>3. PICK a \in Nat, n \in Nat : /\ a = Bound(k - 1) /\ a + n = Bound(k) /\ a + n <= N
                                  /\ Share(k) = [i \in 1 .. n |-> a + i]
  BY <1>2
<1>4. \A i \in 1 .. n : a + i \in 1 .. N
  BY <1>1, <1>3
<1>5. Share(k) \in [1 .. n -> 1 .. N]
  BY <1>3, <1>4
<1>6. Share(k) \in Seq(1 .. N) /\ Len(Share(k)) = n
  <2>1. PICK f, S : f = Share(k) /\ S = 1 .. N
    OBVIOUS
  <2>2. f \in [1 .. n -> S]
    BY <1>5, <2>1
  <2>3. f \in Seq(S) /\ Len(f) = n
    BY ONLY <2>2, n \in Nat
  <2> QED
    BY <2>1, <2>3
<1>7. OneToOne(Share(k))
  <2>1. \A i \in 1 .. n : Share(k)[i] = a + i
    BY <1>3
  <2>2. \A i, j \in 1 .. n : a + i = a + j => i = j
    OBVIOUS
  <2> QED
    BY <1>6, <2>1, <2>2 DEF OneToOne
<1>8. ASSUME NEW j \in Workers, NEW c \in Nat, NEW m \in Nat, Share(j) = [i \in 1 .. m |-> c + i]
      PROVE  \A x \in ToSet(Share(j)) : x \in (c + 1) .. (c + m)
  <2>1. DOMAIN Share(j) = 1 .. m /\ \A i \in 1 .. m : Share(j)[i] = c + i
    BY <1>8
  <2>2. \A i \in 1 .. m : c + i \in (c + 1) .. (c + m)
    OBVIOUS
  <2> QED
    BY <2>1, <2>2 DEF ToSet
<1>9. ASSUME NEW j \in Workers, j # k PROVE ToSet(Share(j)) \cap ToSet(Share(k)) = {}
  <2>1. PICK c \in Nat, m \in Nat : /\ c = Bound(j - 1) /\ c + m = Bound(j) /\ c + m <= N
                                    /\ Share(j) = [i \in 1 .. m |-> c + i]
    BY <1>2
  <2>2. c + m <= a \/ a + n <= c
    <3>1. /\ j \in 0 .. NumWorkers /\ k \in 0 .. NumWorkers /\ j - 1 \in 0 .. NumWorkers
          /\ k - 1 \in 0 .. NumWorkers
      BY <1>1 DEF Workers
    <3>2. CASE j <= k - 1
      <4>1. Bound(j) <= Bound(k - 1)
        BY <1>1, <3>1, <3>2, BoundFacts
      <4> QED
        BY <1>3, <2>1, <4>1
    <3>3. CASE k <= j - 1
      <4>1. Bound(k) <= Bound(j - 1)
        BY <1>1, <3>1, <3>3, BoundFacts
      <4> QED
        BY <1>3, <2>1, <4>1
    <3> QED
      BY <1>9, <3>1, <3>2, <3>3
  <2>3. \A x \in ToSet(Share(j)) : x \in (c + 1) .. (c + m)
    BY <1>8, <2>1
  <2>4. \A x \in ToSet(Share(k)) : x \in (a + 1) .. (a + n)
    BY <1>3, <1>8
  <2>5. \A x \in Int : ~(x \in (c + 1) .. (c + m) /\ x \in (a + 1) .. (a + n))
    BY <2>2
  <2> QED
    BY <2>3, <2>4, <2>5
<1> QED
  BY <1>6, <1>7, <1>9

-----------------------------------------------------------------------------
(* The slices of the ranks.                                                *)

LEMMA PackedFacts ==
    ASSUME conf \in Settings, packed \in [Workers -> Groups]
    PROVE  /\ PackedIdx \in Groups
           /\ [k \in Workers |-> packed[k]] \in Seq(Groups)
<1>1. PICK w \in Nat : w = NumWorkers
  BY ConfFacts
<1>2. [k \in Workers |-> packed[k]] \in [1 .. w -> Groups]
  BY <1>1 DEF Workers
<1>3. PICK S : S = 1 .. N
  OBVIOUS
<1>4. Groups = Seq(Seq(S))
  BY <1>3 DEF Groups
<1>5. PICK p : p = [k \in Workers |-> packed[k]]
  OBVIOUS
<1>6. p \in Seq(Seq(Seq(S)))
  BY ONLY <1>2, <1>4, <1>5, w \in Nat
<1>7. FlattenSeq(p) \in Seq(Seq(S))
  BY <1>6, FlattenType
<1> QED
  BY <1>4, <1>5, <1>6, <1>7 DEF PackedIdx

LEMMA OrdersFacts ==
    ASSUME conf \in Settings, packed \in [Workers -> Groups], NEW o \in Orders
    PROVE  /\ o \in Seq(1 .. Len(PackedIdx)) /\ OneToOne(o)
           /\ Len(o) <= Len(PackedIdx)
           /\ TotalSamples \in Nat /\ Ranks * TotalSamples <= Len(o)
           /\ Len(PackedIdx) <= Ranks * TotalSamples + (Ranks - 1)
<1>1. PICK l \in Nat : l = Len(PackedIdx)
  BY PackedFacts DEF Groups
<1>2. PICK R \in Nat \ {0} : R = Ranks
  BY ConfFacts
<1>3. PICK t \in Nat, m \in 0 .. (R - 1) : t = l \div R /\ m = l % R /\ R * t + m = l
  BY ONLY DivMod, l \in Nat, R \in Nat \ {0}
<1>4. t = TotalSamples
  BY <1>1, <1>2, <1>3 DEF TotalSamples
<1>5. PICK n \in Nat : /\ n = IF conf.order = "grouped" THEN Len(PackedIdx) ELSE TotalSamples * Ranks
                       /\ n <= l /\ R * t <= n
  <2>1. t * R = R * t /\ R * t \in Nat
    BY <1>3
  <2> QED
    BY <1>1, <1>2, <1>3, <1>4, <2>1
<1>6. PICK forward : forward = [i \in 1 .. n |-> i]
  OBVIOUS
<1>7. forward \in Seq(1 .. l) /\ Len(forward) = n /\ \A i \in 1 .. n : forward[i] = i
  BY <1>5, <1>6
<1>8. OneToOne(forward)
  BY <1>7 DEF OneToOne
<1>9. PICK back : back = [i \in 1 .. n |-> n - i + 1]
  OBVIOUS
<1>10. Reverse(forward) = back
  <2>1. Reverse(forward) = [i \in 1 .. n |-> forward[(n - i) + 1]]
    BY <1>7 DEF Reverse
  <2>2. \A i \in 1 .. n : forward[(n - i) + 1] = n - i + 1
    BY <1>7
  <2> QED
    BY <1>9, <2>1, <2>2
<1>11. back \in Seq(1 .. l) /\ Len(back) = n /\ OneToOne(back)
  <2>1. \A i \in 1 .. n : n - i + 1 \in 1 .. l
    BY <1>5
  <2>2. back \in [1 .. n -> 1 .. l]
    BY <1>9, <2>1
  <2>3. back \in Seq(1 .. l) /\ Len(back) = n
    BY <2>2
  <2>4. \A i \in 1 .. n : back[i] = n - i + 1
    BY <1>9
  <2>5. \A i, j \in 1 .. n : n - i + 1 = n - j + 1 => i = j
    OBVIOUS
  <2> QED
    BY <2>3, <2>4, <2>5 DEF OneToOne
<1>12. o = forward \/ o = back
  <2>1. Orders = IF conf.order = "plain" THEN {forward} ELSE {forward, Reverse(forward)}
    BY <1>5, <1>6 DEF Orders
  <2> QED
    BY <1>10, <2>1
<1>13. o \in Seq(1 .. l) /\ Len(o) = n /\ OneToOne(o)
  BY ONLY <1>7, <1>8, <1>11, <1>12
<1>14. l <= R * t + (R - 1) /\ n <= l /\ R * t <= n
  <2>1. R * t \in Nat
    OBVIOUS
  <2> QED
    BY <1>3, <1>5, <2>1
<1> QED
  BY ONLY <1>1, <1>2, <1>4, <1>13, <1>14, t \in Nat

\* What rank r takes of the order: every Ranks-th place.
LEMMA SliceFacts ==
    ASSUME conf \in Settings, NEW l \in Nat, order \in Seq(1 .. l), NEW r \in RankSet
    PROVE  /\ Slice(r) \in Seq(1 .. l)
           /\ \A k \in 1 .. Len(Slice(r)) :
                  /\ r + 1 + (k - 1) * Ranks \in 1 .. Len(order)
                  /\ Slice(r)[k] = order[r + 1 + (k - 1) * Ranks]
           /\ \A t \in Nat : Ranks * t <= Len(order) => t <= Len(Slice(r))
<1>1. PICK R \in Nat \ {0}, n \in Nat : R = Ranks /\ n = Len(order)
  <2>1. Ranks \in Nat \ {0}
    BY RanksAssumption
  <2>2. Len(order) \in Nat
    BY order \in Seq(1 .. l)
  <2> QED
    BY ONLY <2>1, <2>2
<1>2. r \in 0 .. (R - 1)
  BY <1>1 DEF RankSet
<1>3. PICK a \in Nat : a = n - r + R - 1
  <2>1. n - r + R - 1 \in Nat
    BY <1>2
  <2> QED
    BY <2>1
<1>4. PICK q \in Nat, m \in 0 .. (R - 1) : q = a \div R /\ m = a % R /\ R * q + m = a
  BY ONLY DivMod, a \in Nat, R \in Nat \ {0}
<1>5. Ceil(Len(order) - r, Ranks) = q
  BY <1>1, <1>3, <1>4 DEF Ceil
<1>6. \A k \in 1 .. q : r + 1 + (k - 1) * R \in 1 .. n
  <2> TAKE k \in 1 .. q
  <2>1. PICK j \in Nat : j = k - 1 /\ j <= q - 1 /\ q - 1 \in Nat
    <3>1. k - 1 \in Nat /\ k - 1 <= q - 1 /\ q - 1 \in Nat
      OBVIOUS
    <3> QED
      BY <3>1
  <2>2. R * j <= R * (q - 1) /\ R * (q - 1) = R * q - R /\ j * R = R * j /\ R * j \in Nat
        /\ R * q \in Nat
    BY <2>1, Monotone
  <2>3. r + 1 + R * j <= n
    BY <1>2, <1>3, <1>4, <2>2
  <2> QED
    BY <1>2, <2>1, <2>2, <2>3
<1>7. Slice(r) = [k \in 1 .. q |-> order[r + 1 + (k - 1) * R]]
  BY <1>1, <1>5 DEF Slice
<1>8. \A k \in 1 .. q : order[r + 1 + (k - 1) * R] \in 1 .. l
  BY <1>1, <1>6
<1>9. Slice(r) \in [1 .. q -> 1 .. l]
  BY <1>7, <1>8
<1>10. Slice(r) \in Seq(1 .. l) /\ Len(Slice(r)) = q
  BY ONLY <1>9, q \in Nat, l \in Nat
<1>11. \A k \in 1 .. q : Slice(r)[k] = order[r + 1 + (k - 1) * R]
  BY <1>7
<1>12. ASSUME NEW t \in Nat, R * t <= n PROVE t <= q
  <2> SUFFICES ASSUME q + 1 <= t PROVE FALSE
    OBVIOUS
  <2>1. R * (q + 1) <= R * t /\ R * (q + 1) = R * q + R /\ R * q \in Nat /\ R * t \in Nat
    BY Monotone
  <2> QED
    BY <1>2, <1>3, <1>4, <1>12, <2>1
<1> QED
  BY <1>1, <1>6, <1>10, <1>11, <1>12

\* The batches of rank r are pieces of its slice.
LEMMA BatchesFacts ==
    ASSUME conf \in Settings, NEW l \in Nat, order \in Seq(1 .. l), NEW r \in RankSet,
           NEW i \in DOMAIN Batches(r), NEW c \in Nat \ {0}, c = conf.batch
    PROVE  /\ i \in Nat \ {0} /\ c * (i - 1) <= Len(Slice(r))
           /\ Batches(r)[i] = SubSeq(Slice(r), c * (i - 1) + 1, Least(c * i, Len(Slice(r))))
           /\ Batches(r)[i] \in Seq(1 .. l)
<1>1. PICK s \in Seq(1 .. l), n \in Nat : s = Slice(r) /\ n = Len(s)
  <2>1. Slice(r) \in Seq(1 .. l)
    BY SliceFacts
  <2> QED
    BY <2>1
<1>2. PICK z : z = IF conf.dropLast THEN n \div c ELSE Ceil(n, c)
  OBVIOUS
<1>3. Batches(r) = [b \in 1 .. z |-> SubSeq(s, (b - 1) * c + 1, Least(b * c, n))]
  BY <1>1, <1>2 DEF Batches
<1>4. z \in Nat /\ \A b \in 1 .. z : c * (b - 1) <= n
  <2>1. CASE conf.dropLast
    <3>1. PICK q \in Nat, m \in 0 .. (c - 1) : q = n \div c /\ m = n % c /\ c * q + m = n
      BY ONLY DivMod, n \in Nat, c \in Nat \ {0}
    <3>2. z = q
      BY <1>2, <2>1, <3>1
    <3>3. ASSUME NEW b \in 1 .. q PROVE c * (b - 1) <= n
      <4>0. PICK d \in Nat : d = b - 1 /\ d <= q
        <5>1. b - 1 \in Nat /\ b - 1 <= q
          OBVIOUS
        <5> QED
          BY <5>1
      <4>1. c * d <= c * q
        BY <4>0, Monotone
      <4>2. c * d \in Nat /\ c * q \in Nat
        BY ONLY c \in Nat \ {0}, d \in Nat, q \in Nat
      <4> QED
        BY <3>1, <4>0, <4>1, <4>2
    <3> QED
      BY <3>2, <3>3
  <2>2. CASE ~conf.dropLast
    <3>1. PICK a \in Nat : a = n + c - 1
      <4>1. n + c - 1 \in Nat
        OBVIOUS
      <4> QED
        BY <4>1
    <3>2. PICK q \in Nat, m \in 0 .. (c - 1) : q = a \div c /\ m = a % c /\ c * q + m = a
      BY ONLY DivMod, a \in Nat, c \in Nat \ {0}
    <3>3. z = q
      BY <1>2, <2>2, <3>1, <3>2 DEF Ceil
    <3>4. ASSUME NEW b \in 1 .. q PROVE c * (b - 1) <= n
      <4>0. PICK d \in Nat : d = b /\ d <= q
        OBVIOUS
      <4>5. c * d <= c * q
        BY <4>0, Monotone
      <4>1. c * b <= c * q /\ c * (b - 1) = c * b - c
        BY <4>0, <4>5
      <4>2. PICK x \in Nat, y \in Nat : x = c * b /\ y = c * q
        <5>1. c * d \in Nat /\ c * q \in Nat
          BY ONLY c \in Nat \ {0}, d \in Nat, q \in Nat
        <5> QED
          BY ONLY <4>0, <5>1
      <4>3. x <= y /\ y <= n + c - 1
        BY <3>1, <3>2, <4>1, <4>2
      <4>4. c * (b - 1) = x - c /\ x - c <= n
        BY ONLY <4>1, <4>2, <4>3, n \in Nat, c \in Nat \ {0}
      <4> QED
        BY ONLY <4>4
    <3> QED
      BY <3>3, <3>4
  <2> QED
    BY <2>1, <2>2
<1>5. i \in 1 .. z /\ i - 1 \in Nat /\ i \in Nat \ {0}
  <2>1. DOMAIN Batches(r) = 1 .. z
    BY <1>3
  <2>2. i \in 1 .. z
    BY <2>1
  <2> QED
    BY ONLY <1>4, <2>2
<1>6. (i - 1) * c = c * (i - 1) /\ i * c = c * i /\ c * (i - 1) \in Nat /\ c * i \in Nat
  BY <1>5
<1>7. Batches(r)[i] = SubSeq(s, c * (i - 1) + 1, Least(c * i, n))
  BY <1>3, <1>5, <1>6
<1>8. PICK u \in Nat \ {0}, v \in Nat : u = c * (i - 1) + 1 /\ v = Least(c * i, n) /\ v <= n
  <2>1. c * (i - 1) + 1 \in Nat \ {0} /\ Least(c * i, n) \in Nat /\ Least(c * i, n) <= n
    BY <1>6 DEF Least
  <2> QED
    BY <2>1
<1>9. \A k \in u .. v : s[k] \in 1 .. l
  <2>1. \A k \in u .. v : k \in 1 .. n
    BY <1>8
  <2> QED
    BY <1>1, <2>1
<1>10. SubSeq(s, u, v) \in Seq(1 .. l)
  BY <1>9, SubSeqProperties
<1> QED
  BY <1>1, <1>4, <1>5, <1>7, <1>8, <1>10

-----------------------------------------------------------------------------
(* What a step of a worker, and the packing of an interval, do.            *)

LEMMA SeqOfElements ==
    ASSUME NEW T, NEW s \in Seq(T), NEW U, ToSet(s) \subseteq U
    PROVE  s \in Seq(U)
<1>1. PICK n \in Nat : n = Len(s)
  OBVIOUS
<1>2. s \in [1 .. n -> T]
  BY <1>1
<1>3. ToSet(s) = {s[i] : i \in 1 .. n}
  BY <1>1, ElementsOf
<1>4. \A i \in 1 .. n : s[i] \in U
  BY <1>3
<1>5. s \in [1 .. n -> U]
  BY <1>2, <1>4
<1> QED
  BY ONLY <1>5, n \in Nat

LEMMA EncodedFacts ==
    ASSUME NEW n \in Nat, NEW res \in Seq(0 .. n)
    PROVE  /\ Encoded(res) \in Seq(1 .. n)
           /\ \A x \in 1 .. n : Times(x, Encoded(res)) = Times(x, res)
<1>1. Encoded(res) = Without(res, {NoSample}) /\ NoSample = 0
  BY DEF Encoded, NoSample
<1>2. Without(res, {0}) \in Seq(0 .. n)
  BY WithoutType
<1>3. ToSet(Without(res, {0})) = ToSet(res) \ {0}
  BY WithoutElements
<1>4. ToSet(res) \subseteq 0 .. n
  <2>1. ToSet(res) = {res[i] : i \in 1 .. Len(res)}
    BY ElementsOf
  <2> QED
    BY <2>1
<1>5. ToSet(Without(res, {0})) \subseteq 1 .. n
  BY <1>3, <1>4
<1>6. Without(res, {0}) \in Seq(1 .. n)
  BY <1>2, <1>5, SeqOfElements
<1>7. ASSUME NEW x \in 1 .. n PROVE Times(x, Without(res, {0})) = Times(x, res)
  <2>1. x \notin {0}
    OBVIOUS
  <2> QED
    BY <2>1, WithoutTimes
<1> QED
  BY <1>1, <1>6, <1>7

\* Worker k becomes w and puts the groups gs, with the count n, on its queue: every sample
\* is where it was or in one of the groups.
ChunkPut(k, w, gs, n) ==
    /\ worker' = [worker EXCEPT ![k] = w]
    /\ outQueue' = [outQueue EXCEPT ![k] = Append(@, [groups |-> gs, len |-> n])]
    /\ \A x : Times(x, w.input) + Times(x, SubSeq(Share(k), w.i + 1, Len(Share(k))))
              + Times(x, InGroups(gs))
            = Times(x, worker[k].input)
              + Times(x, SubSeq(Share(k), worker[k].i + 1, Len(Share(k))))
    /\ Filled(gs)
    /\ n = -1 => gs = <<>>
    /\ ~conf.streaming
    /\ UNCHANGED <<conf, packed>>

\* What a worker does with a chunk keeps every sample it had.
LEMMA ChunkEffect ==
    ASSUME TypeInv, NEW k \in Workers, PackChunk(k)
    PROVE  \E w \in [i : Nat, input : Seq(1 .. N), over : BOOLEAN], gs \in Groups, n \in Int : ChunkPut(k, w, gs, n)
<1>1. PICK M : M = 1 .. N
  OBVIOUS
<1>2. PICK s \in Seq(M), z \in Nat : s = Share(k) /\ z = Len(s)
  <2>1. Share(k) \in Seq(M)
    BY <1>1, ShareFacts DEF TypeInv
  <2> QED
    BY <2>1
<1>3. PICK w \in [i : Nat, input : Seq(M), over : BOOLEAN] : w = worker[k]
  BY <1>1 DEF TypeInv
<1>4. PICK a \in Nat, b \in Nat, v \in Seq(M) : a = w.i /\ b = a + ChunkSize /\ v = w.input
  <2>1. ChunkSize \in Nat
    BY SizesAssumption
  <2>2. w.i \in Nat /\ w.input \in Seq(M)
    BY ONLY <1>3
  <2>3. w.i + ChunkSize \in Nat
    BY ONLY <2>1, <2>2
  <2> QED
    BY ONLY <2>2, <2>3
<1>5. PICK c : c = IF b < z THEN b ELSE z
  OBVIOUS
<1>6. a <= b /\ Least(w.i + ChunkSize, Len(Share(k))) = c
  BY <1>2, <1>4, <1>5, SizesAssumption DEF Least
<1>7. /\ SubSeq(s, a + 1, z) \in Seq(M) /\ SubSeq(s, a + 1, c) \in Seq(M)
      /\ SubSeq(s, b + 1, z) \in Seq(M)
      /\ \A x : Times(x, SubSeq(s, a + 1, z)) =
                Times(x, SubSeq(s, a + 1, c)) + Times(x, SubSeq(s, b + 1, z))
  <2>1. a <= b /\ z = Len(s)
    BY <1>2, <1>6
  <2>2. PICK d \in Nat \ {0}, e \in Nat \ {0} : d = a + 1 /\ e = b + 1
    <3>1. a + 1 \in Nat \ {0} /\ b + 1 \in Nat \ {0}
      BY ONLY a \in Nat, b \in Nat
    <3> QED
      BY ONLY <3>1
  <2>3. d <= e /\ c = (IF e - 1 < z THEN e - 1 ELSE z)
    BY ONLY <1>5, <2>1, <2>2, a \in Nat, b \in Nat
  <2>4. /\ SubSeq(s, d, z) \in Seq(M) /\ SubSeq(s, d, c) \in Seq(M) /\ SubSeq(s, e, z) \in Seq(M)
        /\ \A x : Times(x, SubSeq(s, d, z)) = Times(x, SubSeq(s, d, c)) + Times(x, SubSeq(s, e, z))
    BY ONLY <2>1, <2>3, CutFrom, s \in Seq(M), z \in Nat, d \in Nat \ {0}, e \in Nat \ {0}, SMTT(30)
  <2> QED
    BY ONLY <2>2, <2>4
<1>8. PICK new \in Seq(M), rest \in Seq(M), left \in Seq(M) :
          new = SubSeq(s, a + 1, c) /\ left = SubSeq(s, b + 1, z) /\ rest = SubSeq(s, a + 1, z)
  BY <1>7
<1>9. PICK input \in Seq(M) : input = v \o new
  BY ConcatProperties
<1>10. \A x : Times(x, input) = Times(x, v) + Times(x, new)
  BY <1>9, TimesConcat
<1>11. /\ worker[k] = w
       /\ IF input = <<>>
          THEN /\ outQueue' = [outQueue EXCEPT ![k] = Append(@, [groups |-> <<>>, len |-> -1])]
               /\ worker' = [worker EXCEPT ![k].over = TRUE]
          ELSE \E m \in MatchedGroup(input, b >= z) :
               /\ outQueue' = [outQueue EXCEPT ![k] = Append(@, [groups |-> m.groups, len |-> Len(new)])]
               /\ worker' = [worker EXCEPT ![k] = [@ EXCEPT !.i = b, !.input = m.rest]]
  BY <1>2, <1>3, <1>4, <1>6, <1>8, <1>9 DEF PackChunk
<1>15. ~conf.streaming /\ UNCHANGED <<conf, packed>>
  BY DEF PackChunk
<1>12. CASE input = <<>>
  <2>1. outQueue' = [outQueue EXCEPT ![k] = Append(@, [groups |-> <<>>, len |-> -1])]
    BY <1>11, <1>12
  <2>2. PICK u \in [i : Nat, input : Seq(M), over : BOOLEAN] :
            worker' = [worker EXCEPT ![k] = u] /\ u.i = a /\ u.input = v
    <3>1. worker' = [worker EXCEPT ![k] = [@ EXCEPT !.over = TRUE]]
      BY <1>11, <1>12
    <3>2. PICK u : u = [w EXCEPT !.over = TRUE]
      OBVIOUS
    <3>3. u \in [i : Nat, input : Seq(M), over : BOOLEAN] /\ u.i = w.i /\ u.input = w.input
      BY ONLY <3>2, w \in [i : Nat, input : Seq(M), over : BOOLEAN]
    <3> QED
      BY <1>3, <1>4, <3>1, <3>2, <3>3
  <2>3. InGroups(<<>>) = <<>>
    BY FlattenEmpty DEF InGroups
  <2>4. <<>> \in Groups /\ Len(<<>>) = 0
    BY DEF Groups
  <2>5. \A x : Times(x, v) + Times(x, rest) + Times(x, InGroups(<<>>)) = Times(x, v) + Times(x, rest)
    BY <2>3, TimesEmpty, TimesType
  <2>6. PICK gs \in Groups, n \in Int : gs = <<>> /\ n = -1
    <3>1. -1 \in Int
      OBVIOUS
    <3> QED
      BY ONLY <2>4, <3>1
  <2>7. /\ outQueue' = [outQueue EXCEPT ![k] = Append(@, [groups |-> gs, len |-> n])]
        /\ \A x : Times(x, v) + Times(x, rest) + Times(x, InGroups(gs)) = Times(x, v) + Times(x, rest)
        /\ \A g \in 1 .. Len(gs) : gs[g] # <<>>
    BY <2>1, <2>2, <2>4, <2>5, <2>6
  <2>8. /\ outQueue' = [outQueue EXCEPT ![k] = Append(@, [groups |-> gs, len |-> n])]
        /\ \A x : Times(x, u.input) + Times(x, SubSeq(Share(k), u.i + 1, Len(Share(k))))
                  + Times(x, InGroups(gs))
                = Times(x, worker[k].input)
                  + Times(x, SubSeq(Share(k), worker[k].i + 1, Len(Share(k))))
        /\ \A g \in 1 .. Len(gs) : gs[g] # <<>>
    BY ONLY <1>2, <1>3, <1>4, <1>8, <2>2, <2>7
  <2>9. u \in [i : Nat, input : Seq(1 .. N), over : BOOLEAN]
    BY ONLY <1>1, u \in [i : Nat, input : Seq(M), over : BOOLEAN]
  <2> QED
    BY ONLY <1>15, <2>2, <2>6, <2>8, <2>9, gs \in Groups, n \in Int DEF Filled, ChunkPut
<1>13. CASE input # <<>>
  <2>1. PICK fin \in BOOLEAN : fin = (b >= z)
    <3>1. CASE b >= z
      <4>1. TRUE = (b >= z)
        BY ONLY <3>1
      <4> QED
        BY ONLY <4>1
    <3>2. CASE ~(b >= z)
      <4>1. FALSE = (b >= z)
        BY ONLY <3>2
      <4> QED
        BY ONLY <4>1
    <3> QED
      BY <3>1, <3>2
  <2>2. PICK m \in MatchedGroup(input, fin) :
            /\ outQueue' = [outQueue EXCEPT ![k] = Append(@, [groups |-> m.groups, len |-> Len(new)])]
            /\ worker' = [worker EXCEPT ![k] = [@ EXCEPT !.i = b, !.input = m.rest]]
    BY <1>11, <1>13, <2>1
  <2>3. /\ m.groups \in Seq(Seq(M)) /\ m.rest \in Seq(M)
        /\ \A x : Times(x, FlattenSeq(m.groups)) + Times(x, m.rest) = Times(x, input)
        /\ \A g \in 1 .. Len(m.groups) : m.groups[g] # <<>>
    BY ONLY Matched, input \in Seq(M), fin \in BOOLEAN, m \in MatchedGroup(input, fin)
  <2>4. PICK gs \in Groups, r \in Seq(M), n \in Int : gs = m.groups /\ r = m.rest /\ n = Len(new)
    <3>1. Groups = Seq(Seq(M)) /\ Len(new) \in Int
      BY <1>1 DEF Groups
    <3> QED
      BY <2>3, <3>1
  <2>5. PICK u : u = [w EXCEPT !.i = b, !.input = r]
    OBVIOUS
  <2>11. u \in [i : Nat, input : Seq(M), over : BOOLEAN] /\ u.i = b /\ u.input = r
    BY ONLY <2>5, w \in [i : Nat, input : Seq(M), over : BOOLEAN], b \in Nat, r \in Seq(M)
  <2>6. worker' = [worker EXCEPT ![k] = u]
    BY <1>3, <2>2, <2>4, <2>5
  <2>7. outQueue' = [outQueue EXCEPT ![k] = Append(@, [groups |-> gs, len |-> n])]
    BY <2>2, <2>4
  <2>8. ASSUME NEW x
        PROVE  Times(x, r) + Times(x, left) + Times(x, InGroups(gs)) = Times(x, v) + Times(x, rest)
    <3>1. PICK t1 \in Nat, t2 \in Nat, t3 \in Nat, t4 \in Nat, t5 \in Nat, t6 \in Nat :
              /\ t1 = Times(x, r) /\ t2 = Times(x, left) /\ t3 = Times(x, FlattenSeq(gs))
              /\ t4 = Times(x, v) /\ t5 = Times(x, rest) /\ t6 = Times(x, new)
      <4>1. FlattenSeq(gs) \in Seq(M)
        BY <2>3, <2>4, FlattenType
      <4> QED
        BY <4>1, TimesType
    <3>2. t3 + t1 = Times(x, input) /\ Times(x, input) = t4 + t6 /\ t5 = t6 + t2
      BY <1>7, <1>8, <1>10, <2>3, <2>4, <3>1
    <3>3. t1 + t2 + t3 = t4 + t5
      BY <3>2
    <3> QED
      BY <3>1, <3>3 DEF InGroups
  <2>9. \A g \in 1 .. Len(gs) : gs[g] # <<>>
    BY <2>3, <2>4
  <2>10. \A x : Times(x, u.input) + Times(x, SubSeq(Share(k), u.i + 1, Len(Share(k))))
                + Times(x, InGroups(gs))
              = Times(x, worker[k].input)
                + Times(x, SubSeq(Share(k), worker[k].i + 1, Len(Share(k))))
    BY ONLY <1>2, <1>3, <1>4, <1>8, <2>8, <2>11
  <2>12. u \in [i : Nat, input : Seq(1 .. N), over : BOOLEAN]
    BY ONLY <1>1, <2>11
  <2>13. n # -1
    <3>1. Len(new) \in Nat
      BY ONLY new \in Seq(M)
    <3> QED
      BY ONLY <2>4, <3>1
  <2> QED
    BY ONLY <1>15, <2>6, <2>7, <2>9, <2>10, <2>12, <2>13, gs \in Groups, n \in Int DEF Filled, ChunkPut
<1> QED
  BY <1>12, <1>13

\* The packing of an interval keeps every sample that was encoded.
LEMMA IntervalEffect ==
    ASSUME TypeInv, PackInterval
    PROVE  /\ rows' \in Groups
           /\ reader'.data \in Seq(1 .. N)
           /\ reader' = [reader EXCEPT !.data = reader'.data, !.res = <<>>, !.got = 0,
                                       !.pc = IF reader.finished THEN "end" ELSE "put"]
           /\ \A x \in 1 .. N : Times(x, InGroups(rows')) + Times(x, reader'.data) =
                                Times(x, reader.data) + Times(x, reader.res)
           /\ reader.finished => reader'.data = <<>>
<1>1. PICK n \in Nat : n = N
  BY ConfFacts DEF TypeInv
<1>2. PICK data \in Seq(1 .. n), res \in Seq(0 .. n), fin \in BOOLEAN :
          data = reader.data /\ res = reader.res /\ fin = reader.finished
  BY <1>1 DEF TypeInv
<1>3. PICK e \in Seq(1 .. n) : e = Encoded(res) /\ \A x \in 1 .. n : Times(x, e) = Times(x, res)
  BY EncodedFacts
<1>4. PICK d \in Seq(1 .. n) : d = data \o e
  BY ConcatProperties
<1>5. \A x : Times(x, d) = Times(x, data) + Times(x, e)
  BY <1>4, TimesConcat
<1>6. PICK m \in MatchedGroup(d, fin) :
          /\ rows' = m.groups
          /\ reader' = [reader EXCEPT !.data = m.rest, !.res = <<>>, !.got = 0,
                                      !.pc = IF reader.finished THEN "end" ELSE "put"]
  BY <1>2, <1>3, <1>4 DEF PackInterval
<1>7. /\ m.groups \in Seq(Seq(1 .. n)) /\ m.rest \in Seq(1 .. n)
      /\ \A x : Times(x, FlattenSeq(m.groups)) + Times(x, m.rest) = Times(x, d)
      /\ fin => m.rest = <<>>
  BY Matched
<1>8. reader'.data = m.rest
  BY <1>6 DEF TypeInv
<1>9. \A x \in 1 .. n : Times(x, InGroups(rows')) + Times(x, reader'.data) =
                        Times(x, reader.data) + Times(x, reader.res)
  BY <1>2, <1>3, <1>5, <1>6, <1>7, <1>8 DEF InGroups
<1> QED
  BY <1>1, <1>2, <1>6, <1>7, <1>8, <1>9 DEF Groups

-----------------------------------------------------------------------------
(* Types.                                                                  *)

\* The types of the next state, said with the constants of this one.
LEMMA TypeNext ==
    ASSUME TypeInv, conf' = conf,
           worker' \in [Workers -> [i : Nat, input : Seq(1 .. N), over : BOOLEAN]],
           outQueue' \in [Workers -> Seq([groups : Groups, len : Int])],
           packed' \in [Workers -> Groups],
           ended' \in 0 .. NumWorkers,
           reader' \in [pc : {"put", "fetch", "end"}, pos : 0 .. N, data : Seq(1 .. N),
                        res : Seq(0 .. N), got : Nat, finished : BOOLEAN],
           inQueue' \in Seq(Item),
           proc' \in [1 .. Procs -> {Idle, Dead} \cup Item],
           results' \subseteq [at : 1 .. Interval, sample : 0 .. N], IsFiniteSet(results'),
           rows' \in Groups,
           pc' \in [RankSet -> {"next", "train", "done", "raised"}],
           hand' \in [RankSet -> Groups], trained' \in [RankSet -> Seq(Groups)],
           order' # <<>> => Packed' /\ order' \in Orders',
           batch' \in Groups, loaded' \in Seq(Groups), pulled' \in Seq(Groups),
           skipped' \in Seq(Groups), dropped' \in Seq(Groups)
    PROVE  TypeInv'
<1>1. /\ N' = N /\ NumWorkers' = NumWorkers /\ Workers' = Workers
      /\ Groups' = Groups /\ Item' = Item
  BY Stays
<1>2. Idle' = Idle /\ Dead' = Dead /\ RankSet' = RankSet
  BY DEF Idle, Dead, RankSet, NoSample
<1>3. conf' \in Settings
  BY DEF TypeInv
<1> QED
  BY <1>1, <1>2, <1>3 DEF TypeInv

\* The order of an epoch lasts while the packed data set does.
LEMMA OrderStays ==
    ASSUME TypeInv, UNCHANGED <<conf, packed, ended, order>>
    PROVE  order' # <<>> => Packed' /\ order' \in Orders'
<1>1. NumWorkers' = NumWorkers /\ Workers' = Workers
  BY Stays
<1>2. PackedIdx' = PackedIdx
  BY <1>1 DEF PackedIdx
<1>3. Orders' = Orders /\ Packed' = Packed
  BY <1>1, <1>2 DEF Orders, Packed, TotalSamples
<1> QED
  BY <1>3 DEF TypeInv

LEMMA TypeInit ==
    ASSUME Init
    PROVE  TypeInv
<1>1. conf \in Settings
  BY DEF Init
<1>2. N \in Nat /\ NumWorkers \in Nat
  BY <1>1, ConfFacts
<1>3. /\ worker = [k \in Workers |-> [i |-> 0, input |-> <<>>, over |-> FALSE]]
      /\ outQueue = [k \in Workers |-> <<>>] /\ packed = [k \in Workers |-> <<>>] /\ ended = 0
  BY DEF Init, InitMap
<1>4. /\ reader = [pc |-> IF N = 0 THEN "end" ELSE "put", pos |-> 0, data |-> <<>>,
                   res |-> <<>>, got |-> 0, finished |-> FALSE]
      /\ inQueue = <<>> /\ proc = [p \in 1 .. Procs |-> Idle] /\ results = {} /\ rows = <<>>
  BY DEF Init, InitStream
<1>5. /\ pc = [r \in RankSet |-> "next"]
      /\ hand = [r \in RankSet |-> <<>>]
      /\ trained = [r \in RankSet |-> <<>>]
      /\ order = <<>>
      /\ batch = <<>> /\ loaded = <<>> /\ pulled = <<>> /\ skipped = <<>> /\ dropped = <<>>
  BY DEF Init
<1>6. <<>> \in Groups /\ <<>> \in Seq(Groups) /\ <<>> \in Seq(Item) /\ <<>> \in Seq(1 .. N)
      /\ <<>> \in Seq(0 .. N) /\ <<>> \in Seq([groups : Groups, len : Int])
  BY DEF Groups
<1>7. /\ worker \in [Workers -> [i : Nat, input : Seq(1 .. N), over : BOOLEAN]]
      /\ outQueue \in [Workers -> Seq([groups : Groups, len : Int])]
      /\ packed \in [Workers -> Groups] /\ ended \in 0 .. NumWorkers
  BY <1>2, <1>3, <1>6
<1>8. /\ reader \in [pc : {"put", "fetch", "end"}, pos : 0 .. N, data : Seq(1 .. N),
                     res : Seq(0 .. N), got : Nat, finished : BOOLEAN]
      /\ inQueue \in Seq(Item) /\ proc \in [1 .. Procs -> {Idle, Dead} \cup Item]
      /\ rows \in Groups
  BY <1>2, <1>4, <1>6
<1>9. results \subseteq [at : 1 .. Interval, sample : 0 .. N] /\ IsFiniteSet(results)
  BY <1>4, FS_EmptySet
<1>10. /\ pc \in [RankSet -> {"next", "train", "done", "raised"}]
       /\ hand \in [RankSet -> Groups] /\ trained \in [RankSet -> Seq(Groups)]
       /\ order # <<>> => Packed /\ order \in Orders
       /\ batch \in Groups /\ loaded \in Seq(Groups) /\ pulled \in Seq(Groups)
       /\ skipped \in Seq(Groups) /\ dropped \in Seq(Groups)
  BY <1>5, <1>6
<1> QED
  BY <1>1, <1>7, <1>8, <1>9, <1>10 DEF TypeInv

LEMMA TypePackChunk ==
    ASSUME TypeInv, NEW k \in Workers, PackChunk(k),
           UNCHANGED <<pc, hand, trained, order, loaderVars>>
    PROVE  TypeInv'
<1>0. PICK w \in [i : Nat, input : Seq(1 .. N), over : BOOLEAN], gs \in Groups, n \in Int : ChunkPut(k, w, gs, n)
  BY ChunkEffect
<1>1. /\ worker' = [worker EXCEPT ![k] = w]
      /\ outQueue' = [outQueue EXCEPT ![k] = Append(@, [groups |-> gs, len |-> n])]
  BY <1>0 DEF ChunkPut
<1>2. PICK e \in [groups : Groups, len : Int] : e = [groups |-> gs, len |-> n]
  OBVIOUS
<1>3. worker' \in [Workers -> [i : Nat, input : Seq(1 .. N), over : BOOLEAN]]
  BY <1>1 DEF TypeInv
<1>4. outQueue' \in [Workers -> Seq([groups : Groups, len : Int])]
  <2>1. outQueue \in [Workers -> Seq([groups : Groups, len : Int])]
    BY DEF TypeInv
  <2>2. Append(outQueue[k], e) \in Seq([groups : Groups, len : Int])
    BY <2>1, AppendProperties
  <2> QED
    BY <1>1, <1>2, <2>1, <2>2
<1>5. UNCHANGED <<conf, packed, ended, reader, inQueue, proc, results, rows, pc, hand, trained, order,
                  batch, loaded, pulled, skipped, dropped>>
  BY DEF PackChunk, streamVars, loaderVars
<1>6. order' # <<>> => Packed' /\ order' \in Orders'
  BY <1>5, OrderStays
<1> QED
  BY <1>3, <1>4, <1>5, <1>6, TypeNext DEF TypeInv

LEMMA TypeCollect ==
    ASSUME TypeInv, NEW k \in Workers, Collect(k),
           UNCHANGED <<pc, hand, trained, order, loaderVars>>
    PROVE  TypeInv'
<1>1. PICK q \in Seq([groups : Groups, len : Int]) : q = outQueue[k] /\ q # <<>>
  BY DEF TypeInv, Collect
<1>2. PICK e \in [groups : Groups, len : Int], t \in Seq([groups : Groups, len : Int]) :
          e = Head(q) /\ t = Tail(q)
  BY <1>1, HeadTailProperties
<1>3. /\ ended < NumWorkers
      /\ IF e.len = -1 THEN ended' = ended + 1 /\ packed' = packed
         ELSE packed' = [packed EXCEPT ![k] = @ \o e.groups] /\ ended' = ended
      /\ outQueue' = [outQueue EXCEPT ![k] = t]
      /\ UNCHANGED <<conf, worker, reader, inQueue, proc, results, rows, pc, hand, trained, order,
                     batch, loaded, pulled, skipped, dropped>>
  BY <1>1, <1>2 DEF Collect, streamVars, loaderVars
<1>4. ended' \in 0 .. NumWorkers
  <2>1. NumWorkers \in Nat /\ ended \in 0 .. NumWorkers
    BY ConfFacts DEF TypeInv
  <2> QED
    BY <1>3, <2>1
<1>5. packed' \in [Workers -> Groups]
  <2>1. packed \in [Workers -> Groups]
    BY DEF TypeInv
  <2>2. PICK u \in Groups, v \in Groups : u = packed[k] /\ v = e.groups
    BY <1>2, <2>1
  <2>3. u \o v \in Groups
    BY ConcatProperties DEF Groups
  <2> QED
    BY <1>3, <2>1, <2>2, <2>3
<1>6. outQueue' \in [Workers -> Seq([groups : Groups, len : Int])]
  BY <1>3 DEF TypeInv
<1>7. order' = <<>>
  <2>1. NumWorkers \in Nat /\ ended \in 0 .. NumWorkers
    BY ConfFacts DEF TypeInv
  <2>2. ~Packed
    BY <1>3, <2>1 DEF Packed
  <2> QED
    BY <1>3, <2>2 DEF TypeInv
<1> QED
  BY <1>3, <1>4, <1>5, <1>6, <1>7, TypeNext DEF TypeInv

\* The samples the reader puts on the queue of the processes.
Sent(num) == [k \in 1 .. num |-> [at |-> k, sample |-> reader.pos + k]]

\* What _put_data_in_queue does.
LEMMA PutEffect ==
    ASSUME TypeInv, PutInterval
    PROVE  \E num \in Nat :
               /\ num <= Interval /\ reader.pos + num <= N
               /\ num # Interval => reader.pos + num = N
               /\ Sent(num) \in Seq(Item) /\ Len(Sent(num)) = num
               /\ inQueue' = inQueue \o Sent(num)
               /\ reader' \in [pc : {"put", "fetch", "end"}, pos : 0 .. N, data : Seq(1 .. N),
                               res : Seq(0 .. N), got : Nat, finished : BOOLEAN]
               /\ reader'.pc = "fetch" /\ reader'.pos = reader.pos + num /\ reader'.got = 0
               /\ reader'.data = reader.data
               /\ reader'.res = [k \in 1 .. num |-> NoSample]
               /\ reader'.finished <=> num # Interval
               /\ reader.pc = "put" /\ rows = <<>> /\ conf.streaming
               /\ UNCHANGED <<conf, worker, outQueue, packed, ended, proc, results, rows>>
<1>1. PICK M \in Nat, pos \in Nat, I \in Nat \ {0} : M = N /\ pos = reader.pos /\ I = Interval
  <2>1. N \in Nat /\ Interval \in Nat \ {0}
    BY ConfFacts DEF TypeInv
  <2>2. reader.pos \in Nat
    BY <2>1 DEF TypeInv
  <2> QED
    BY <2>1, <2>2
<1>2. pos <= M
  BY <1>1 DEF TypeInv
<1>3. PICK num \in Nat : num = (IF I < M - pos THEN I ELSE M - pos)
  <2>1. M - pos \in Nat
    BY <1>2
  <2> QED
    BY <2>1
<1>4. num <= I /\ pos + num <= M /\ (num # I => pos + num = M) /\ pos + num \in 0 .. M
  BY <1>2, <1>3
<1>5. num = Least(Interval, N - reader.pos)
  BY <1>1, <1>3 DEF Least
<1>6. Sent(num) \in Seq(Item) /\ Len(Sent(num)) = num
  <2>1. \A k \in 1 .. num : [at |-> k, sample |-> pos + k] \in Item
    BY <1>1, <1>4 DEF Item
  <2>2. Sent(num) \in [1 .. num -> Item]
    BY <1>1, <2>1 DEF Sent
  <2> QED
    BY ONLY <2>2, num \in Nat
<1>7. PICK none : none = [k \in 1 .. num |-> NoSample]
  OBVIOUS
<1>8. none \in Seq(0 .. N)
  <2>1. NoSample \in 0 .. M
    BY DEF NoSample
  <2>2. none \in [1 .. num -> 0 .. M]
    BY <1>7, <2>1
  <2> QED
    BY <1>1, <2>2
<1>9. PICK fin \in BOOLEAN : fin = (num # Interval)
  OBVIOUS
<1>10. PICK rd \in [pc : {"put", "fetch", "end"}, pos : 0 .. N, data : Seq(1 .. N),
                    res : Seq(0 .. N), got : Nat, finished : BOOLEAN] : rd = reader
  BY DEF TypeInv
<1>11. PICK u : u = [rd EXCEPT !.pc = "fetch", !.pos = pos + num, !.got = 0, !.res = none,
                               !.finished = fin]
  OBVIOUS
<1>12. /\ u \in [pc : {"put", "fetch", "end"}, pos : 0 .. N, data : Seq(1 .. N),
                 res : Seq(0 .. N), got : Nat, finished : BOOLEAN]
       /\ u.pc = "fetch" /\ u.pos = pos + num /\ u.got = 0 /\ u.data = rd.data /\ u.res = none
       /\ u.finished = fin
  <2>1. pos + num \in 0 .. N /\ 0 \in Nat
    BY <1>1, <1>4
  <2> QED
    BY ONLY <1>8, <1>11, <2>1, fin \in BOOLEAN,
            rd \in [pc : {"put", "fetch", "end"}, pos : 0 .. N, data : Seq(1 .. N),
                    res : Seq(0 .. N), got : Nat, finished : BOOLEAN]
<1>13. reader' = u /\ inQueue' = inQueue \o Sent(num)
  <2>1. /\ inQueue' = inQueue \o Sent(num)
        /\ reader' = [reader EXCEPT !.pc = "fetch", !.pos = @ + num, !.got = 0,
                                    !.res = none, !.finished = num # Interval]
    BY <1>5, <1>7 DEF PutInterval, Sent
  <2> QED
    BY <1>1, <1>9, <1>10, <1>11, <2>1
<1>14. /\ reader.pc = "put" /\ rows = <<>> /\ conf.streaming
       /\ UNCHANGED <<conf, worker, outQueue, packed, ended, proc, results, rows>>
  BY DEF PutInterval, mapVars
<1>15. reader'.finished <=> num # Interval
  BY <1>9, <1>12, <1>13
<1>16. /\ num <= Interval /\ reader.pos + num <= N
       /\ num # Interval => reader.pos + num = N
  BY <1>1, <1>4
<1>17. /\ reader' \in [pc : {"put", "fetch", "end"}, pos : 0 .. N, data : Seq(1 .. N),
                       res : Seq(0 .. N), got : Nat, finished : BOOLEAN]
       /\ reader'.pc = "fetch" /\ reader'.pos = reader.pos + num /\ reader'.got = 0
       /\ reader'.data = reader.data
       /\ reader'.res = [k \in 1 .. num |-> NoSample]
  BY ONLY <1>1, <1>7, <1>10, <1>12, <1>13
<1> QED
  BY ONLY <1>6, <1>13, <1>14, <1>15, <1>16, <1>17, num \in Nat

LEMMA TypePutInterval ==
    ASSUME TypeInv, PutInterval, UNCHANGED <<pc, hand, trained, order, loaderVars>>
    PROVE  TypeInv'
<1>1. PICK num \in Nat :
          /\ Sent(num) \in Seq(Item)
          /\ inQueue' = inQueue \o Sent(num)
          /\ reader' \in [pc : {"put", "fetch", "end"}, pos : 0 .. N, data : Seq(1 .. N),
                          res : Seq(0 .. N), got : Nat, finished : BOOLEAN]
          /\ UNCHANGED <<conf, worker, outQueue, packed, ended, proc, results, rows>>
  BY PutEffect
<1>2. inQueue' \in Seq(Item)
  BY <1>1, ConcatProperties DEF TypeInv
<1>3. UNCHANGED <<pc, hand, trained, order, batch, loaded, pulled, skipped, dropped>>
  BY DEF loaderVars
<1>4. order' # <<>> => Packed' /\ order' \in Orders'
  BY <1>1, <1>3, OrderStays
<1> QED
  BY <1>1, <1>2, <1>3, <1>4, TypeNext DEF TypeInv

LEMMA TypeTakeSample ==
    ASSUME TypeInv, NEW p \in 1 .. Procs, TakeSample(p),
           UNCHANGED <<pc, hand, trained, order, loaderVars>>
    PROVE  TypeInv'
<1>1. PICK q \in Seq(Item) : q = inQueue /\ q # <<>>
  BY DEF TypeInv, TakeSample
<1>2. PICK e \in Item, t \in Seq(Item) : e = Head(q) /\ t = Tail(q)
  BY <1>1, HeadTailProperties
<1>3. /\ proc' = [proc EXCEPT ![p] = e] /\ inQueue' = t
      /\ UNCHANGED <<conf, worker, outQueue, packed, ended, reader, results, rows,
                     pc, hand, trained, order, batch, loaded, pulled, skipped, dropped>>
  BY <1>1, <1>2 DEF TakeSample, mapVars, loaderVars
<1>4. proc' \in [1 .. Procs -> {Idle, Dead} \cup Item]
  BY <1>3 DEF TypeInv
<1>5. order' # <<>> => Packed' /\ order' \in Orders'
  BY <1>3, OrderStays
<1> QED
  BY <1>3, <1>4, <1>5, TypeNext DEF TypeInv

\* What a process makes of its sample.
LEMMA EncodeEffect ==
    ASSUME TypeInv, NEW p \in 1 .. Procs, Encode(p)
    PROVE  /\ proc[p] \in Item
           /\ \E d \in {Idle, Dead} :
                  /\ proc' = [proc EXCEPT ![p] = d]
                  /\ d = Dead => results' = results /\ ~IsOk(proc[p].sample)
                  /\ d = Idle =>
                         \E s : /\ s = IF IsOk(proc[p].sample) THEN proc[p].sample ELSE NoSample
                                /\ results' = results \cup {[at |-> proc[p].at, sample |-> s]}
           /\ UNCHANGED <<conf, worker, outQueue, packed, ended, reader, inQueue, rows>>
<1>1. proc[p] \in Item
  BY DEF TypeInv, Encode
<1>2. UNCHANGED <<conf, worker, outQueue, packed, ended, reader, inQueue, rows>>
  BY DEF Encode, mapVars
<1>3. Idle # Dead
  BY DEF Idle, Dead
<1>4. PICK q, s : /\ q = conf.quality[proc[p].sample]
                  /\ s = IF q = "ok" THEN proc[p].sample ELSE NoSample
  OBVIOUS
<1>5. CASE conf.strict /\ q = "bad"
  <2>1. proc' = [proc EXCEPT ![p] = Dead] /\ results' = results
    BY <1>4, <1>5 DEF Encode
  <2>2. ~IsOk(proc[p].sample)
    BY <1>4, <1>5 DEF IsOk
  <2> QED
    BY <1>1, <1>2, <1>3, <2>1, <2>2
<1>6. CASE ~(conf.strict /\ q = "bad")
  <2>1. proc' = [proc EXCEPT ![p] = Idle]
        /\ results' = results \cup {[at |-> proc[p].at, sample |-> s]}
    BY <1>4, <1>6 DEF Encode
  <2>2. s = IF IsOk(proc[p].sample) THEN proc[p].sample ELSE NoSample
    BY <1>4 DEF IsOk
  <2> QED
    BY <1>1, <1>2, <1>3, <2>1, <2>2
<1> QED
  BY <1>5, <1>6

LEMMA TypeEncode ==
    ASSUME TypeInv, NEW p \in 1 .. Procs, Encode(p),
           UNCHANGED <<pc, hand, trained, order, loaderVars>>
    PROVE  TypeInv'
<1>1. proc[p] \in Item
  BY EncodeEffect
<1>2. PICK d \in {Idle, Dead} :
                  /\ proc' = [proc EXCEPT ![p] = d]
                  /\ d = Dead => results' = results
                  /\ d = Idle =>
                         \E s : /\ s = IF IsOk(proc[p].sample) THEN proc[p].sample ELSE NoSample
                                /\ results' = results \cup {[at |-> proc[p].at, sample |-> s]}
  BY EncodeEffect
<1>3. UNCHANGED <<conf, worker, outQueue, packed, ended, reader, inQueue, rows>>
  BY EncodeEffect
<1>4. proc' \in [1 .. Procs -> {Idle, Dead} \cup Item]
  BY <1>2 DEF TypeInv
<1>5. N \in Nat
  BY ConfFacts DEF TypeInv
<1>6. results' \subseteq [at : 1 .. Interval, sample : 0 .. N] /\ IsFiniteSet(results')
  <2>1. results \subseteq [at : 1 .. Interval, sample : 0 .. N] /\ IsFiniteSet(results)
    BY DEF TypeInv
  <2>2. CASE d = Dead
    BY <1>2, <2>1, <2>2
  <2>3. CASE d = Idle
    <3>1. PICK s : /\ s = IF IsOk(proc[p].sample) THEN proc[p].sample ELSE NoSample
                   /\ results' = results \cup {[at |-> proc[p].at, sample |-> s]}
      BY <1>2, <2>3
    <3>2. s \in 0 .. N
      BY <1>1, <1>5, <3>1 DEF Item, NoSample
    <3>3. proc[p].at \in 1 .. Interval
      BY <1>1 DEF Item
    <3>4. IsFiniteSet(results')
      BY <2>1, <3>1, FS_AddElement
    <3> QED
      BY <2>1, <3>1, <3>2, <3>3, <3>4
  <2> QED
    BY <2>2, <2>3
<1>7. UNCHANGED <<pc, hand, trained, order, batch, loaded, pulled, skipped, dropped>>
  BY DEF loaderVars
<1>8. order' # <<>> => Packed' /\ order' \in Orders'
  BY <1>3, <1>7, OrderStays
<1> QED
  BY <1>3, <1>4, <1>6, <1>7, <1>8, TypeNext DEF TypeInv

\* What is done with the result r.
LEMMA FetchEffect ==
    ASSUME TypeInv, Fetch
    PROVE  \E r \in results :
               /\ r \in [at : 1 .. Interval, sample : 0 .. N]
               /\ reader' \in [pc : {"put", "fetch", "end"}, pos : 0 .. N, data : Seq(1 .. N),
                               res : Seq(0 .. N), got : Nat, finished : BOOLEAN]
               /\ reader.pc = "fetch" /\ reader'.pc = "fetch" /\ reader'.pos = reader.pos
               /\ reader'.data = reader.data /\ reader'.finished = reader.finished
               /\ reader'.got = reader.got + 1
               /\ reader'.res = [reader.res EXCEPT ![r.at] = r.sample]
               /\ results' = results \ {r}
               /\ UNCHANGED <<conf, worker, outQueue, packed, ended, inQueue, proc, rows>>
<1>1. PICK r \in results :
           /\ reader' = [reader EXCEPT !.res[r.at] = r.sample, !.got = @ + 1]
           /\ results' = results \ {r}
  BY DEF Fetch
<1>2. r \in [at : 1 .. Interval, sample : 0 .. N]
  BY DEF TypeInv
<1>3. PICK rd \in [pc : {"put", "fetch", "end"}, pos : 0 .. N, data : Seq(1 .. N),
                    res : Seq(0 .. N), got : Nat, finished : BOOLEAN] : rd = reader
  BY DEF TypeInv
<1>4. PICK res \in Seq(0 .. N) : res = [rd.res EXCEPT ![r.at] = r.sample]
  <2>1. rd.res \in Seq(0 .. N) /\ r.sample \in 0 .. N
    BY <1>2, <1>3
  <2>2. PICK S : S = 0 .. N
    OBVIOUS
  <2>3. PICK v \in Seq(S), x \in S, n \in Nat : v = rd.res /\ x = r.sample /\ n = Len(v)
    BY <2>1, <2>2
  <2>4. v \in [1 .. n -> S]
    BY ONLY <2>3, v \in Seq(S)
  <2>5. [v EXCEPT ![r.at] = x] \in [1 .. n -> S]
    BY ONLY <2>4, x \in S
  <2>6. [v EXCEPT ![r.at] = x] \in Seq(S)
    BY ONLY <2>5, n \in Nat
  <2> QED
    BY <2>2, <2>3, <2>6
<1>5. PICK g \in Nat : g = rd.got + 1
  <2>1. rd.got + 1 \in Nat
    BY <1>3
  <2> QED
    BY <2>1
<1>6. PICK u : u = [rd EXCEPT !.res = res, !.got = g]
  OBVIOUS
<1>7. /\ u \in [pc : {"put", "fetch", "end"}, pos : 0 .. N, data : Seq(1 .. N),
                res : Seq(0 .. N), got : Nat, finished : BOOLEAN]
      /\ u.pc = rd.pc /\ u.pos = rd.pos /\ u.data = rd.data /\ u.finished = rd.finished
      /\ u.got = g /\ u.res = res
  BY ONLY <1>6, res \in Seq(0 .. N), g \in Nat,
            rd \in [pc : {"put", "fetch", "end"}, pos : 0 .. N, data : Seq(1 .. N),
                    res : Seq(0 .. N), got : Nat, finished : BOOLEAN]
<1>8. reader' = u
  BY <1>1, <1>3, <1>4, <1>5, <1>6
<1>9. /\ reader.pc = "fetch"
      /\ UNCHANGED <<conf, worker, outQueue, packed, ended, inQueue, proc, rows>>
  BY DEF Fetch, mapVars
<1> QED
  BY ONLY <1>1, <1>2, <1>3, <1>4, <1>5, <1>7, <1>8, <1>9

LEMMA TypeFetch ==
    ASSUME TypeInv, Fetch, UNCHANGED <<pc, hand, trained, order, loaderVars>>
    PROVE  TypeInv'
<1>1. PICK r \in results :
               /\ reader' \in [pc : {"put", "fetch", "end"}, pos : 0 .. N, data : Seq(1 .. N),
                               res : Seq(0 .. N), got : Nat, finished : BOOLEAN]
               /\ results' = results \ {r}
               /\ UNCHANGED <<conf, worker, outQueue, packed, ended, inQueue, proc, rows>>
  BY FetchEffect
<1>2. results' \subseteq [at : 1 .. Interval, sample : 0 .. N] /\ IsFiniteSet(results')
  <2>1. results \subseteq [at : 1 .. Interval, sample : 0 .. N] /\ IsFiniteSet(results)
    BY DEF TypeInv
  <2> QED
    BY <1>1, <2>1, FS_Subset
<1>3. UNCHANGED <<pc, hand, trained, order, batch, loaded, pulled, skipped, dropped>>
  BY DEF loaderVars
<1>4. order' # <<>> => Packed' /\ order' \in Orders'
  BY <1>1, <1>3, OrderStays
<1> QED
  BY <1>1, <1>2, <1>3, <1>4, TypeNext DEF TypeInv

LEMMA TypePackInterval ==
    ASSUME TypeInv, PackInterval, UNCHANGED <<pc, hand, trained, order, loaderVars>>
    PROVE  TypeInv'
<1>1. PICK data \in Seq(1 .. N) : data = reader'.data
  BY IntervalEffect
<1>2. /\ rows' \in Groups
      /\ reader' = [reader EXCEPT !.data = data, !.res = <<>>, !.got = 0,
                                  !.pc = IF reader.finished THEN "end" ELSE "put"]
  BY <1>1, IntervalEffect
<1>3. reader' \in [pc : {"put", "fetch", "end"}, pos : 0 .. N, data : Seq(1 .. N),
                   res : Seq(0 .. N), got : Nat, finished : BOOLEAN]
  <2>1. <<>> \in Seq(0 .. N) /\ 0 \in Nat
    OBVIOUS
  <2> QED
    BY <1>2, <2>1 DEF TypeInv
<1>4. UNCHANGED <<conf, worker, outQueue, packed, ended, inQueue, proc, results, pc, hand, trained, order,
                  batch, loaded, pulled, skipped, dropped>>
  BY DEF PackInterval, mapVars, loaderVars
<1>5. order' # <<>> => Packed' /\ order' \in Orders'
  BY <1>4, OrderStays
<1> QED
  BY <1>2, <1>3, <1>4, <1>5, TypeNext DEF TypeInv

LEMMA OrderType ==
    ASSUME TypeInv, NEW l \in Nat, l = Len(PackedIdx)
    PROVE  /\ order \in Seq(1 .. l) /\ OneToOne(order)
           /\ PackedIdx \in Groups
<1>1. PackedIdx \in Groups
  BY PackedFacts DEF TypeInv
<1>2. CASE order = <<>>
  <2>1. OneToOne(<<>>) /\ <<>> \in Seq(1 .. l)
    BY DEF OneToOne
  <2> QED
    BY <1>1, <1>2, <2>1
<1>3. CASE order # <<>>
  <2>1. conf \in Settings /\ packed \in [Workers -> Groups] /\ order \in Orders
    BY <1>3 DEF TypeInv
  <2>2. order \in Seq(1 .. Len(PackedIdx)) /\ OneToOne(order)
    BY <2>1, OrdersFacts
  <2> QED
    BY <1>1, <2>2
<1> QED
  BY <1>2, <1>3

\* The groups at the places of a batch.
LEMMA GroupsAtType ==
    ASSUME NEW S, NEW gs \in Seq(S), NEW l \in Nat, l = Len(gs), NEW b \in Seq(1 .. l)
    PROVE  [k \in 1 .. Len(b) |-> gs[b[k]]] \in Seq(S)
<1>1. PICK m \in Nat : m = Len(b)
  OBVIOUS
<1>2. \A k \in 1 .. m : b[k] \in 1 .. l
  BY <1>1, ElementIn
<1>3. \A j \in 1 .. l : gs[j] \in S
  BY ElementIn
<1>4. PICK h : h = [k \in 1 .. m |-> gs[b[k]]]
  OBVIOUS
<1>5. h \in [1 .. m -> S]
  BY ONLY <1>2, <1>3, <1>4
<1>6. h \in Seq(S)
  BY ONLY <1>5, m \in Nat
<1> QED
  BY <1>1, <1>4, <1>6

LEMMA NextBatchEffect ==
    ASSUME TypeInv, NEW r \in RankSet, NextBatch(r), NEW i, i = conf.skip + Len(trained[r]) + 1
    PROVE  /\ i \in Nat
           /\ UNCHANGED <<conf, worker, outQueue, packed, ended, reader, inQueue, proc, results, rows,
                          trained, order, batch, loaded, pulled, skipped, dropped>>
           /\ Packed /\ pc[r] = "next"
           /\ i <= SamplerLen =>
                  /\ i \in DOMAIN Batches(r)
                  /\ hand' = [hand EXCEPT ![r] = GroupsAt(Batches(r)[i])]
                  /\ GroupsAt(Batches(r)[i]) \in Groups
                  /\ pc' = [pc EXCEPT ![r] = "train"]
           /\ ~(i <= SamplerLen) => pc' = [pc EXCEPT ![r] = "done"] /\ hand' = hand
<1>1. i \in Nat
  <2>1. conf.skip \in Nat
    BY ConfFacts DEF TypeInv
  <2>2. trained[r] \in Seq(Groups)
    BY DEF TypeInv
  <2> QED
    BY <2>1, <2>2
<1>2. /\ UNCHANGED <<conf, worker, outQueue, packed, ended, reader, inQueue, proc, results, rows,
                     trained, order, batch, loaded, pulled, skipped, dropped>>
      /\ Packed /\ pc[r] = "next"
      /\ ~(i <= SamplerLen) => pc' = [pc EXCEPT ![r] = "done"] /\ hand' = hand
  BY DEF NextBatch, packingVars, loaderVars
<1>3. ASSUME i <= SamplerLen
      PROVE  /\ i \in DOMAIN Batches(r)
             /\ hand' = [hand EXCEPT ![r] = GroupsAt(Batches(r)[i])]
             /\ GroupsAt(Batches(r)[i]) \in Groups
             /\ pc' = [pc EXCEPT ![r] = "train"]
  <2>1. /\ i \in DOMAIN Batches(r)
        /\ hand' = [hand EXCEPT ![r] = [k \in DOMAIN Batches(r)[i] |-> PackedIdx[Batches(r)[i][k]]]]
        /\ pc' = [pc EXCEPT ![r] = "train"]
    BY <1>3 DEF NextBatch
  <2>2. PICK S : Groups = Seq(S)
    BY DEF Groups
  <2>3. PICK l \in Nat : l = Len(PackedIdx)
    BY PackedFacts, SMTT(30) DEF TypeInv, Groups
  <2>4. order \in Seq(1 .. l) /\ PackedIdx \in Seq(S)
    BY <2>2, <2>3, OrderType
  <2>5. PICK c \in Nat \ {0} : c = conf.batch
    BY ConfFacts DEF TypeInv
  <2>6. PICK b \in Seq(1 .. l) : b = Batches(r)[i]
    <3>1. conf \in Settings
      BY DEF TypeInv
    <3>2. Batches(r)[i] \in Seq(1 .. l)
      BY <2>1, <2>4, <2>5, <3>1, BatchesFacts
    <3> QED
      BY <3>2
  <2>7. GroupsAt(b) = [k \in 1 .. Len(b) |-> PackedIdx[b[k]]]
    BY DEF GroupsAt
  <2>8. [k \in 1 .. Len(b) |-> PackedIdx[b[k]]] \in Seq(S)
    BY <2>3, <2>4, GroupsAtType
  <2>9. DOMAIN b = 1 .. Len(b)
    OBVIOUS
  <2> QED
    BY <2>1, <2>2, <2>6, <2>7, <2>8, <2>9
<1> QED
  BY <1>1, <1>2, <1>3

LEMMA TypeNextBatch ==
    ASSUME TypeInv, NEW r \in RankSet, NextBatch(r)
    PROVE  TypeInv'
<1>1. PICK i : i = conf.skip + Len(trained[r]) + 1
  OBVIOUS
<1>2. /\ UNCHANGED <<conf, worker, outQueue, packed, ended, reader, inQueue, proc, results, rows,
                          trained, order, batch, loaded, pulled, skipped, dropped>>
      /\ i <= SamplerLen =>
             /\ hand' = [hand EXCEPT ![r] = GroupsAt(Batches(r)[i])]
             /\ GroupsAt(Batches(r)[i]) \in Groups
             /\ pc' = [pc EXCEPT ![r] = "train"]
      /\ ~(i <= SamplerLen) => pc' = [pc EXCEPT ![r] = "done"] /\ hand' = hand
  BY <1>1, NextBatchEffect
<1>3. hand' \in [RankSet -> Groups] /\ pc' \in [RankSet -> {"next", "train", "done", "raised"}]
  <2>1. hand \in [RankSet -> Groups] /\ pc \in [RankSet -> {"next", "train", "done", "raised"}]
    BY DEF TypeInv
  <2>2. CASE i <= SamplerLen
    BY <1>2, <2>1, <2>2
  <2>3. CASE ~(i <= SamplerLen)
    BY <1>2, <2>1, <2>3
  <2> QED
    BY <2>2, <2>3
<1>4. order' # <<>> => Packed' /\ order' \in Orders'
  BY <1>2, OrderStays
<1> QED
  BY <1>2, <1>3, <1>4, TypeNext DEF TypeInv

LEMMA TypeBuildLoader ==
    ASSUME TypeInv, BuildLoader
    PROVE  TypeInv'
<1>1. /\ UNCHANGED <<conf, worker, outQueue, packed, ended, reader, inQueue, proc, results, rows,
                     pc, hand, trained, batch, loaded, pulled, skipped, dropped>>
      /\ Packed /\ order' \in Orders
  BY DEF BuildLoader, packingVars, loaderVars
<1>2. NumWorkers' = NumWorkers /\ Workers' = Workers
  BY <1>1, Stays
<1>3. PackedIdx' = PackedIdx
  BY <1>1, <1>2 DEF PackedIdx
<1>4. Orders' = Orders /\ Packed' = Packed
  BY <1>1, <1>2, <1>3 DEF Orders, Packed, TotalSamples
<1> QED
  BY <1>1, <1>4, TypeNext DEF TypeInv

LEMMA TypeTrainStep ==
    ASSUME TypeInv, TrainStep
    PROVE  TypeInv'
<1>1. /\ UNCHANGED <<conf, worker, outQueue, packed, ended, reader, inQueue, proc, results, rows,
                     order, batch, loaded, pulled, skipped, dropped>>
      /\ trained' = [r \in RankSet |-> Append(trained[r], hand[r])]
      /\ hand' = [r \in RankSet |-> <<>>]
      /\ pc' = [r \in RankSet |-> "next"]
  BY DEF TrainStep, packingVars, loaderVars
<1>2. trained' \in [RankSet -> Seq(Groups)]
  <2>1. \A r \in RankSet : trained[r] \in Seq(Groups) /\ hand[r] \in Groups
    BY DEF TypeInv
  <2>2. \A r \in RankSet : Append(trained[r], hand[r]) \in Seq(Groups)
    BY <2>1, AppendProperties
  <2> QED
    BY <1>1, <2>2
<1>3. hand' \in [RankSet -> Groups] /\ pc' \in [RankSet -> {"next", "train", "done", "raised"}]
  BY <1>1 DEF Groups
<1>4. order' # <<>> => Packed' /\ order' \in Orders'
  BY <1>1, OrderStays
<1> QED
  BY <1>1, <1>2, <1>3, <1>4, TypeNext DEF TypeInv

\* What the DataLoader does with one more group, or with the rest.
LEMMA CollateEffect ==
    ASSUME TypeInv, Collate
    PROVE  /\ conf.streaming
           /\ UNCHANGED <<conf, worker, outQueue, packed, ended, reader, inQueue, proc, results,
                          pc, hand, trained, order, pulled, skipped, dropped>>
           /\ \/ \E g \in Seq(1 .. N), t \in Groups, now \in Groups :
                     /\ rows # <<>> /\ rows = <<g>> \o t
                     /\ rows' = t /\ now = Append(batch, g)
                     /\ \/ batch' = <<>> /\ loaded' = Append(loaded, now)
                        \/ batch' = now /\ loaded' = loaded
              \/ /\ StreamEnded /\ batch # <<>>
                 /\ batch' = <<>> /\ loaded' = Append(loaded, batch) /\ rows' = rows
<1>1. /\ conf.streaming
      /\ UNCHANGED <<conf, worker, outQueue, packed, ended, reader, inQueue, proc, results,
                     pc, hand, trained, order, pulled, skipped, dropped>>
  BY DEF Collate, mapVars
<1>2. PICK S : Groups = Seq(S) /\ S = Seq(1 .. N)
  BY DEF Groups
<1>3. PICK q \in Seq(S), b \in Seq(S) : q = rows /\ b = batch
  BY <1>2 DEF TypeInv
<1>4. CASE q # <<>> /\ rows' = Tail(q)
  <2>1. PICK g \in S, t \in Seq(S) : g = Head(q) /\ t = Tail(q) /\ q = <<g>> \o t
    <3>1. Head(q) \in S /\ Tail(q) \in Seq(S)
      BY <1>4, HeadTailProperties
    <3>2. q = <<Head(q)>> \o Tail(q)
      BY <1>4
    <3> QED
      BY <3>1, <3>2
  <2>2. PICK now \in Seq(S) : now = Append(b, g)
    BY AppendProperties
  <2>3. \/ batch' = <<>> /\ loaded' = Append(loaded, now)
        \/ batch' = now /\ loaded' = loaded
        \/ StreamEnded
    BY <1>3, <2>1, <2>2 DEF Collate
  <2>4. ~StreamEnded
    BY <1>3, <1>4 DEF StreamEnded
  <2> QED
    BY <1>1, <1>2, <1>3, <1>4, <2>1, <2>2, <2>3, <2>4
<1>5. CASE /\ StreamEnded /\ batch # <<>>
           /\ batch' = <<>> /\ loaded' = Append(loaded, batch) /\ rows' = rows
  BY <1>1, <1>5
<1> QED
  BY <1>3, <1>4, <1>5 DEF Collate

LEMMA TypeCollate ==
    ASSUME TypeInv, Collate
    PROVE  TypeInv'
<1>1. /\ UNCHANGED <<conf, worker, outQueue, packed, ended, reader, inQueue, proc, results,
                     pc, hand, trained, order, pulled, skipped, dropped>>
      /\ \/ \E g \in Seq(1 .. N), t \in Groups, now \in Groups :
                     /\ rows # <<>> /\ rows = <<g>> \o t
                     /\ rows' = t /\ now = Append(batch, g)
                     /\ \/ batch' = <<>> /\ loaded' = Append(loaded, now)
                        \/ batch' = now /\ loaded' = loaded
         \/ /\ StreamEnded /\ batch # <<>>
            /\ batch' = <<>> /\ loaded' = Append(loaded, batch) /\ rows' = rows
  BY CollateEffect
<1>2. loaded \in Seq(Groups) /\ batch \in Groups /\ rows \in Groups /\ <<>> \in Groups
  BY DEF TypeInv, Groups
<1>3. batch' \in Groups /\ loaded' \in Seq(Groups) /\ rows' \in Groups
  <2>1. \A x \in Groups : Append(loaded, x) \in Seq(Groups)
    BY <1>2, AppendProperties
  <2> QED
    BY <1>1, <1>2, <2>1
<1>4. order' # <<>> => Packed' /\ order' \in Orders'
  BY <1>1, OrderStays
<1> QED
  BY <1>1, <1>3, <1>4, TypeNext DEF TypeInv

LEMMA PullEffect ==
    ASSUME TypeInv, Pull
    PROVE  \E b \in Groups, t \in Seq(Groups) :
               /\ loaded = <<b>> \o t /\ loaded' = t
               /\ \/ skipped' = Append(skipped, b) /\ pulled' = pulled /\ Skipping
                  \/ pulled' = Append(pulled, b) /\ skipped' = skipped /\ ~Skipping
               /\ pc[0] = "next"
               /\ UNCHANGED <<conf, worker, outQueue, packed, ended, reader, inQueue, proc, results, rows,
                              pc, hand, trained, order, batch, dropped>>
<1>1. PICK q \in Seq(Groups) : q = loaded /\ q # <<>>
  BY DEF TypeInv, Pull
<1>2. PICK b \in Groups, t \in Seq(Groups) : b = Head(q) /\ t = Tail(q) /\ q = <<b>> \o t
  <2>1. Head(q) \in Groups /\ Tail(q) \in Seq(Groups)
    BY <1>1, HeadTailProperties
  <2>2. q = <<Head(q)>> \o Tail(q)
    BY <1>1
  <2> QED
    BY <2>1, <2>2
<1>3. /\ loaded' = t /\ pc[0] = "next"
      /\ \/ skipped' = Append(skipped, b) /\ pulled' = pulled /\ Skipping
         \/ pulled' = Append(pulled, b) /\ skipped' = skipped /\ ~Skipping
  BY <1>1, <1>2 DEF Pull
<1>4. UNCHANGED <<conf, worker, outQueue, packed, ended, reader, inQueue, proc, results, rows,
                  pc, hand, trained, order, batch, dropped>>
  BY DEF Pull, packingVars
<1> QED
  BY <1>1, <1>2, <1>3, <1>4

LEMMA TypePull ==
    ASSUME TypeInv, Pull
    PROVE  TypeInv'
<1>1. PICK b \in Groups, t \in Seq(Groups) :
          /\ loaded' = t
          /\ \/ skipped' = Append(skipped, b) /\ pulled' = pulled
             \/ pulled' = Append(pulled, b) /\ skipped' = skipped
          /\ UNCHANGED <<conf, worker, outQueue, packed, ended, reader, inQueue, proc, results, rows,
                         pc, hand, trained, order, batch, dropped>>
  BY PullEffect
<1>2. skipped' \in Seq(Groups) /\ pulled' \in Seq(Groups)
  <2>1. skipped \in Seq(Groups) /\ pulled \in Seq(Groups)
    BY DEF TypeInv
  <2>2. Append(skipped, b) \in Seq(Groups) /\ Append(pulled, b) \in Seq(Groups)
    BY <2>1, AppendProperties
  <2> QED
    BY ONLY <1>1, <2>1, <2>2
<1>3. order' # <<>> => Packed' /\ order' \in Orders'
  BY <1>1, OrderStays
<1> QED
  BY <1>1, <1>2, <1>3, TypeNext DEF TypeInv

LEMMA TypeSkipRaises ==
    ASSUME TypeInv, SkipRaises
    PROVE  TypeInv'
<1>1. /\ UNCHANGED <<conf, worker, outQueue, packed, ended, reader, inQueue, proc, results, rows,
                     hand, trained, order, batch, loaded, pulled, skipped, dropped>>
      /\ pc' = [pc EXCEPT ![0] = "raised"]
  BY DEF SkipRaises, packingVars, loaderVars
<1>2. pc' \in [RankSet -> {"next", "train", "done", "raised"}]
  BY <1>1 DEF TypeInv
<1>3. order' # <<>> => Packed' /\ order' \in Orders'
  BY <1>1, OrderStays
<1> QED
  BY <1>1, <1>2, <1>3, TypeNext DEF TypeInv

LEMMA TypeScatter ==
    ASSUME TypeInv, Scatter
    PROVE  TypeInv'
<1>1. /\ UNCHANGED <<conf, worker, outQueue, packed, ended, reader, inQueue, proc, results, rows,
                     trained, order, batch, loaded, skipped, dropped>>
      /\ hand' = [r \in RankSet |-> pulled[r + 1]]
      /\ pulled' = <<>> /\ Len(pulled) = Ranks
      /\ pc' = [r \in RankSet |-> "train"]
  BY DEF Scatter, packingVars
<1>2. hand' \in [RankSet -> Groups]
  <2>1. pulled \in Seq(Groups) /\ Ranks \in Nat
    BY RanksAssumption DEF TypeInv
  <2>2. \A r \in RankSet : r + 1 \in 1 .. Len(pulled)
    BY <1>1, <2>1 DEF RankSet
  <2>3. \A r \in RankSet : pulled[r + 1] \in Groups
    BY <2>1, <2>2, ElementIn
  <2> QED
    BY <1>1, <2>3
<1>3. pc' \in [RankSet -> {"next", "train", "done", "raised"}] /\ pulled' \in Seq(Groups)
  BY <1>1
<1>4. order' # <<>> => Packed' /\ order' \in Orders'
  BY <1>1, OrderStays
<1> QED
  BY <1>1, <1>2, <1>3, <1>4, TypeNext DEF TypeInv

LEMMA TypeScatterEnd ==
    ASSUME TypeInv, ScatterEnd
    PROVE  TypeInv'
<1>1. /\ UNCHANGED <<conf, worker, outQueue, packed, ended, reader, inQueue, proc, results, rows,
                     hand, trained, order, batch, loaded, skipped>>
      /\ dropped' = pulled /\ pulled' = <<>>
      /\ pc' = [r \in RankSet |-> "done"]
  BY DEF ScatterEnd, packingVars
<1>2. /\ pc' \in [RankSet -> {"next", "train", "done", "raised"}]
      /\ dropped' \in Seq(Groups) /\ pulled' \in Seq(Groups)
  BY <1>1 DEF TypeInv
<1>3. order' # <<>> => Packed' /\ order' \in Orders'
  BY <1>1, OrderStays
<1> QED
  BY <1>1, <1>2, <1>3, TypeNext DEF TypeInv

\* Every step keeps the types.
LEMMA TypeStep ==
    ASSUME TypeInv, [Next]_vars
    PROVE  TypeInv'
<1>1. CASE PackingNext
  <2>1. UNCHANGED <<pc, hand, trained, order, loaderVars>>
    BY <1>1 DEF PackingNext
  <2> QED
    BY <1>1, <2>1, TypePackChunk, TypeCollect, TypePutInterval, TypeFetch, TypePackInterval,
       TypeTakeSample, TypeEncode DEF PackingNext
<1>2. CASE BuildLoader \/ (\E r \in RankSet : NextBatch(r)) \/ TrainStep
  BY <1>2, TypeBuildLoader, TypeNextBatch, TypeTrainStep
<1>3. CASE Collate \/ Pull \/ SkipRaises \/ Scatter \/ ScatterEnd
  BY <1>3, TypeCollate, TypePull, TypeSkipRaises, TypeScatter, TypeScatterEnd
<1>4. CASE UNCHANGED vars
  <2>1. UNCHANGED <<conf, worker, outQueue, packed, ended, reader, inQueue, proc, results, rows,
                    pc, hand, trained, order, batch, loaded, pulled, skipped, dropped>>
    BY <1>4 DEF vars, packingVars, loaderVars
  <2>2. order' # <<>> => Packed' /\ order' \in Orders'
    BY <2>1, OrderStays
  <2> QED
    BY <2>1, <2>2, TypeNext DEF TypeInv
<1> QED
  BY <1>1, <1>2, <1>3, <1>4 DEF Next

-----------------------------------------------------------------------------
(* The reader of a stream.                                                 *)

LEMMA BusyFinite ==
    ASSUME Procs \in Nat
    PROVE  IsFiniteSet(Busy) /\ Cardinality(Busy) \in Nat
<1>1. IsFiniteSet(1 .. Procs)
  BY FS_Interval
<1>2. IsFiniteSet(Busy)
  BY <1>1, FS_Subset DEF Busy
<1> QED
  BY <1>2, FS_CardinalityType

\* Every step that leaves the reader, its queues and the processes alone keeps what
\* is known of them.
LEMMA ReaderStays ==
    ASSUME ReaderInv, UNCHANGED <<conf, reader, inQueue, proc, results>>
    PROVE  ReaderInv'
<1>1. N' = N /\ \A s : IsOk(s)' = IsOk(s)
  BY Stays
<1>2. Base' = Base /\ Busy' = Busy
  BY DEF Base, Busy, Idle, Dead, NoSample
<1> QED
  BY <1>1, <1>2 DEF ReaderInv, NoSample

LEMMA ReaderInit ==
    ASSUME Init
    PROVE  ReaderInv
<1>1. /\ reader = [pc |-> IF N = 0 THEN "end" ELSE "put", pos |-> 0, data |-> <<>>,
                   res |-> <<>>, got |-> 0, finished |-> FALSE]
      /\ inQueue = <<>> /\ proc = [p \in 1 .. Procs |-> Idle] /\ results = {}
  BY DEF Init, InitStream
<1>2. /\ reader.pc = IF N = 0 THEN "end" ELSE "put"
      /\ reader.pos = 0 /\ reader.data = <<>> /\ reader.res = <<>> /\ reader.got = 0
      /\ reader.finished = FALSE
  BY <1>1
<1>3. Len(<<>>) = 0
  OBVIOUS
<1>4. Busy = {} /\ Cardinality(Busy) = 0 /\ Cardinality(results) = 0
  <2>1. Busy = {}
    BY <1>1 DEF Busy
  <2> QED
    BY <1>1, <2>1, FS_EmptySet
<1>5. Base = 0
  <2>1. reader.pos = 0 /\ Len(reader.res) = 0
    BY <1>2, <1>3
  <2>2. 0 - 0 = 0
    OBVIOUS
  <2> QED
    BY ONLY <2>1, <2>2 DEF Base
<1>6. 0 <= Interval
  BY SizesAssumption
<1> QED
  BY <1>1, <1>2, <1>3, <1>4, <1>5, <1>6 DEF ReaderInv

\* Between two intervals nothing is under way.
LEMMA NothingUnderWay ==
    ASSUME TypeInv, ReaderInv, reader.pc # "fetch" \/ reader.got = Len(reader.res)
    PROVE  inQueue = <<>> /\ Busy = {} /\ results = {}
<1>1. IsFiniteSet(Busy) /\ Cardinality(Busy) \in Nat
  BY ProcsAssumption, BusyFinite
<1>2. IsFiniteSet(results) /\ Cardinality(results) \in Nat
  BY FS_CardinalityType DEF TypeInv
<1>3. PICK q \in Seq(Item), l \in Nat, b \in Nat, c \in Nat, z \in Nat, g \in Nat :
          /\ q = inQueue /\ l = Len(q) /\ b = Cardinality(Busy) /\ c = Cardinality(results)
          /\ z = Len(reader.res) /\ g = reader.got
  <2>1. inQueue \in Seq(Item) /\ Len(inQueue) \in Nat
    BY DEF TypeInv
  <2>2. Len(reader.res) \in Nat /\ reader.got \in Nat
    BY DEF TypeInv
  <2> QED
    BY <1>1, <1>2, <2>1, <2>2
<1>4. l + b + c + g <= z
  BY <1>3 DEF ReaderInv
<1>5. g = z
  <2>1. CASE reader.pc # "fetch"
    <3>1. reader.res = <<>> /\ reader.got = 0
      BY <2>1 DEF ReaderInv
    <3> QED
      BY <1>3, <3>1
  <2>2. CASE reader.got = Len(reader.res)
    BY <1>3, <2>2
  <2> QED
    BY <2>1, <2>2
<1>6. l = 0 /\ b = 0 /\ c = 0
  BY ONLY <1>4, <1>5, l \in Nat, b \in Nat, c \in Nat, g \in Nat, z \in Nat
<1>7. q = <<>>
  BY <1>3, <1>6, EmptySeq
<1> QED
  BY <1>1, <1>2, <1>3, <1>6, <1>7, FS_EmptySet

LEMMA ReaderPut ==
    ASSUME TypeInv, ReaderInv, PutInterval
    PROVE  ReaderInv'
<1>1. PICK num \in Nat :
               /\ num <= Interval /\ reader.pos + num <= N
               /\ num # Interval => reader.pos + num = N
               /\ Sent(num) \in Seq(Item) /\ Len(Sent(num)) = num
               /\ inQueue' = inQueue \o Sent(num)
               /\ reader'.pc = "fetch" /\ reader'.pos = reader.pos + num /\ reader'.got = 0
               /\ reader'.res = [k \in 1 .. num |-> NoSample]
               /\ reader'.finished <=> num # Interval
               /\ reader.pc = "put"
               /\ UNCHANGED <<conf, proc, results>>
  BY PutEffect
<1>2. inQueue = <<>> /\ Busy = {} /\ results = {}
  BY <1>1, NothingUnderWay
<1>3. inQueue' = Sent(num)
  BY <1>1, <1>2, ConcatEmptySeq
<1>4. reader.res = <<>>
  BY <1>1 DEF ReaderInv
<1>5. reader.pos \in Nat
  <2>1. N \in Nat
    BY ConfFacts DEF TypeInv
  <2> QED
    BY <2>1 DEF TypeInv
<1>6. PICK z \in Seq({NoSample}) : z = reader'.res /\ Len(z) = num /\ \A k \in 1 .. num : z[k] = NoSample
  <2>1. PICK z : z = [k \in 1 .. num |-> NoSample]
    OBVIOUS
  <2>2. z \in Seq({NoSample}) /\ Len(z) = num /\ \A k \in 1 .. num : z[k] = NoSample
    BY <2>1
  <2> QED
    BY <1>1, <2>1, <2>2
<1>7. Base' = reader.pos
  BY <1>1, <1>5, <1>6 DEF Base
<1>8. Busy' = {} /\ Cardinality(Busy') = 0 /\ Cardinality(results') = 0 /\ results' = {}
  <2>1. Busy' = Busy
    BY <1>1 DEF Busy, Idle, Dead, NoSample
  <2> QED
    BY <1>1, <1>2, <2>1, FS_EmptySet
<1>9. \A i \in 1 .. num : /\ inQueue'[i].at = i /\ inQueue'[i].sample = reader.pos + i
  BY <1>3 DEF Sent
<1>10. Len(inQueue') = num /\ Len(reader'.res) = num
  BY <1>1, <1>3, <1>6
<1>11. /\ Base' \in Nat /\ Len(reader'.res) <= Interval'
       /\ \A i \in 1 .. Len(inQueue') : /\ inQueue'[i].at <= Len(reader'.res)
                                        /\ inQueue'[i].sample = Base' + inQueue'[i].at
  BY <1>1, <1>5, <1>7, <1>9, <1>10, SMTT(30)
<1>12. \A k \in 1 .. Len(reader'.res) :
           reader'.res[k] # NoSample' => reader'.res[k] = Base' + k /\ IsOk(Base + k)'
  BY <1>6, <1>10 DEF NoSample
<1>13. Len(inQueue') + Cardinality(Busy') + Cardinality(results') + reader'.got <= Len(reader'.res)
  BY <1>1, <1>8, <1>10
<1>14. /\ reader'.pc = "fetch"
       /\ reader'.finished => reader'.pos = N'
  <2>1. N' = N
    BY <1>1, Stays
  <2> QED
    BY <1>1, <2>1
<1> QED
  BY <1>8, <1>11, <1>12, <1>13, <1>14 DEF ReaderInv

LEMMA ReaderTake ==
    ASSUME TypeInv, ReaderInv, NEW p \in 1 .. Procs, TakeSample(p)
    PROVE  ReaderInv'
<1>1. PICK q \in Seq(Item), n \in Nat : q = inQueue /\ q # <<>> /\ n = Len(q)
  BY DEF TypeInv, TakeSample
<1>2. PICK e \in Item, t \in Seq(Item) :
          /\ e = Head(q) /\ t = Tail(q) /\ e = q[1] /\ n # 0
          /\ Len(t) = n - 1 /\ \A i \in 1 .. (n - 1) : t[i] = q[i + 1]
  <2>1. PICK e \in Item, t \in Seq(Item) : e = Head(q) /\ t = Tail(q)
    BY <1>1, HeadTailProperties
  <2>2. n # 0
    BY <1>1, EmptySeq
  <2>3. Len(t) = n - 1 /\ \A i \in 1 .. Len(t) : t[i] = q[i + 1]
    BY <1>1, <2>1, HeadTailProperties
  <2>4. e = q[1]
    BY <1>1, <2>1
  <2> QED
    BY <2>1, <2>2, <2>3, <2>4
<1>3. /\ proc[p] = Idle /\ proc' = [proc EXCEPT ![p] = e] /\ inQueue' = t
      /\ UNCHANGED <<conf, reader, results>>
  BY <1>1, <1>2 DEF TakeSample
<1>4. Busy' = Busy \cup {p} /\ p \notin Busy
  <2>1. e \notin {Idle, Dead}
    <3>1. e.at \in 1 .. Interval
      BY <1>2 DEF Item
    <3>2. Idle.at = 0 /\ Dead.at = -1
      BY DEF Idle, Dead
    <3>3. Interval \in Nat
      BY SizesAssumption
    <3> QED
      BY <3>1, <3>2, <3>3
  <2>2. proc \in [1 .. Procs -> {Idle, Dead} \cup Item]
    BY DEF TypeInv
  <2>3. Busy' = {x \in 1 .. Procs : proc'[x] \notin {Idle, Dead}}
    BY DEF Busy, Idle, Dead, NoSample
  <2> QED
    BY <1>3, <2>1, <2>2, <2>3 DEF Busy
<1>5. Base' = Base /\ (\A s : IsOk(s)' = IsOk(s)) /\ N' = N
  BY <1>3, Stays DEF Base
<1>6. Cardinality(Busy') = Cardinality(Busy) + 1 /\ Cardinality(Busy) \in Nat
  BY <1>4, BusyFinite, ProcsAssumption, FS_AddElement
<1>7. \A i \in 1 .. n : /\ q[i].at <= Len(reader.res)
                        /\ q[i].sample = Base + q[i].at
  BY <1>1 DEF ReaderInv
<1>8. \A i \in 1 .. Len(t) : /\ t[i].at <= Len(reader.res)
                             /\ t[i].sample = Base + t[i].at
  <2>1. \A i \in 1 .. (n - 1) : i + 1 \in 1 .. n
    OBVIOUS
  <2> QED
    BY <1>2, <1>7, <2>1
<1>9. \A x \in Busy' : /\ proc'[x].at <= Len(reader.res)
                       /\ proc'[x].sample = Base + proc'[x].at
  <2>1. e.at <= Len(reader.res) /\ e.sample = Base + e.at
    <3>1. 1 \in 1 .. n
      BY <1>2
    <3> QED
      BY <1>2, <1>7, <3>1
  <2>2. \A x \in Busy : x # p /\ proc'[x] = proc[x]
    BY <1>3, <1>4 DEF Busy, TypeInv
  <2>3. \A x \in Busy : /\ proc[x].at <= Len(reader.res)
                        /\ proc[x].sample = Base + proc[x].at
    BY DEF ReaderInv
  <2>4. proc'[p] = e
    BY <1>3 DEF TypeInv
  <2> QED
    BY <1>4, <2>1, <2>2, <2>3, <2>4
<1>10. Len(inQueue') + Cardinality(Busy') + Cardinality(results') + reader'.got <= Len(reader'.res)
  <2>1. PICK b \in Nat, c \in Nat, g \in Nat, z \in Nat :
            b = Cardinality(Busy) /\ c = Cardinality(results) /\ g = reader.got /\ z = Len(reader.res)
    <3>1. reader.got \in Nat /\ Len(reader.res) \in Nat /\ Cardinality(results) \in Nat
      BY FS_CardinalityType DEF TypeInv
    <3> QED
      BY <1>6, <3>1
  <2>2. n + b + c + g <= z
    BY <1>1, <2>1 DEF ReaderInv
  <2>3. (n - 1) + (b + 1) + c + g <= z
    BY <2>2
  <2> QED
    BY <1>2, <1>3, <1>6, <2>1, <2>3
<1>11. /\ Base \in Nat /\ Len(reader.res) <= Interval
       /\ \A r \in results : /\ r.at <= Len(reader.res)
                             /\ r.sample = IF IsOk(Base + r.at) THEN Base + r.at ELSE NoSample
       /\ \A k \in 1 .. Len(reader.res) :
              reader.res[k] # NoSample => reader.res[k] = Base + k /\ IsOk(Base + k)
       /\ reader.pc # "fetch" => reader.res = <<>> /\ reader.got = 0
       /\ reader.pc = "end" => reader.pos = N /\ reader.data = <<>>
       /\ reader.finished /\ reader.pc = "fetch" => reader.pos = N
  BY DEF ReaderInv
<1> QED
  BY <1>3, <1>5, <1>8, <1>9, <1>10, <1>11 DEF ReaderInv, NoSample

LEMMA ReaderEncode ==
    ASSUME TypeInv, ReaderInv, NEW p \in 1 .. Procs, Encode(p)
    PROVE  ReaderInv'
<1>1. proc[p] \in Item /\ UNCHANGED <<conf, reader, inQueue>>
  BY EncodeEffect
<1>2. PICK d \in {Idle, Dead} :
          /\ proc' = [proc EXCEPT ![p] = d]
          /\ d = Dead => results' = results
          /\ d = Idle =>
                 \E s : /\ s = IF IsOk(proc[p].sample) THEN proc[p].sample ELSE NoSample
                        /\ results' = results \cup {[at |-> proc[p].at, sample |-> s]}
  BY EncodeEffect
<1>3. Busy' = Busy \ {p} /\ p \in Busy
  <2>1. proc[p] \notin {Idle, Dead}
    BY DEF Encode
  <2>2. proc \in [1 .. Procs -> {Idle, Dead} \cup Item]
    BY DEF TypeInv
  <2>3. Busy' = {x \in 1 .. Procs : proc'[x] \notin {Idle, Dead}}
    BY DEF Busy, Idle, Dead, NoSample
  <2> QED
    BY <1>2, <2>1, <2>2, <2>3 DEF Busy
<1>4. Base' = Base /\ (\A s : IsOk(s)' = IsOk(s)) /\ N' = N
  BY <1>1, Stays DEF Base
<1>5. Cardinality(Busy') = Cardinality(Busy) - 1 /\ Cardinality(Busy) \in Nat
  BY <1>3, BusyFinite, ProcsAssumption, FS_RemoveElement
<1>6. \A x \in Busy : /\ proc[x].at <= Len(reader.res)
                      /\ proc[x].sample = Base + proc[x].at
  BY DEF ReaderInv
<1>7. \A x \in Busy' : /\ proc'[x].at <= Len(reader.res)
                       /\ proc'[x].sample = Base + proc'[x].at
  <2>1. \A x \in Busy' : x \in Busy /\ proc'[x] = proc[x]
    BY <1>2, <1>3 DEF Busy, TypeInv
  <2> QED
    BY <1>6, <2>1
<1>8. \A r \in results' : /\ r.at <= Len(reader.res)
                          /\ r.sample = IF IsOk(Base + r.at) THEN Base + r.at ELSE NoSample
  <2>1. \A r \in results : /\ r.at <= Len(reader.res)
                           /\ r.sample = IF IsOk(Base + r.at) THEN Base + r.at ELSE NoSample
    BY DEF ReaderInv
  <2>2. CASE d = Dead
    BY <1>2, <2>1, <2>2
  <2>3. CASE d = Idle
    <3>1. PICK s : /\ s = IF IsOk(proc[p].sample) THEN proc[p].sample ELSE NoSample
                   /\ results' = results \cup {[at |-> proc[p].at, sample |-> s]}
      BY <1>2, <2>3
    <3>2. proc[p].at <= Len(reader.res) /\ proc[p].sample = Base + proc[p].at
      BY <1>3, <1>6
    <3>3. PICK e : e = [at |-> proc[p].at, sample |-> s]
      OBVIOUS
    <3>4. e.at = proc[p].at /\ e.sample = s
      BY <3>3
    <3>5. s = IF IsOk(Base + e.at) THEN Base + e.at ELSE NoSample
      BY <3>1, <3>2, <3>4
    <3> QED
      BY <2>1, <3>1, <3>2, <3>3, <3>4, <3>5
  <2> QED
    BY <2>2, <2>3
<1>9. Cardinality(results') <= Cardinality(results) + 1
      /\ Cardinality(results) \in Nat /\ Cardinality(results') \in Nat
  <2>1. IsFiniteSet(results) /\ Cardinality(results) \in Nat
    BY FS_CardinalityType DEF TypeInv
  <2>2. CASE d = Dead
    BY <1>2, <2>1, <2>2
  <2>3. CASE d = Idle
    <3>1. PICK e : results' = results \cup {e}
      BY <1>2, <2>3
    <3> QED
      BY <2>1, <3>1, FS_AddElement
  <2> QED
    BY <2>2, <2>3
<1>10. Len(inQueue') + Cardinality(Busy') + Cardinality(results') + reader'.got <= Len(reader'.res)
  <2>1. PICK b \in Nat, c \in Nat, g \in Nat, z \in Nat, n \in Nat, h \in Nat :
            /\ b = Cardinality(Busy) /\ c = Cardinality(results) /\ g = reader.got
            /\ z = Len(reader.res) /\ n = Len(inQueue) /\ h = Cardinality(results')
    <3>1. reader.got \in Nat /\ Len(reader.res) \in Nat /\ Len(inQueue) \in Nat
      BY DEF TypeInv
    <3> QED
      BY <1>5, <1>9, <3>1
  <2>2. n + b + c + g <= z
    BY <2>1 DEF ReaderInv
  <2>3. h <= c + 1
    BY <1>9, <2>1
  <2>4. n + (b - 1) + h + g <= z
    BY <2>2, <2>3
  <2> QED
    BY <1>1, <1>5, <2>1, <2>4
<1>11. /\ Base \in Nat /\ Len(reader.res) <= Interval
       /\ \A i \in 1 .. Len(inQueue) : /\ inQueue[i].at <= Len(reader.res)
                                       /\ inQueue[i].sample = Base + inQueue[i].at
       /\ \A k \in 1 .. Len(reader.res) :
              reader.res[k] # NoSample => reader.res[k] = Base + k /\ IsOk(Base + k)
       /\ reader.pc # "fetch" => reader.res = <<>> /\ reader.got = 0
       /\ reader.pc = "end" => reader.pos = N /\ reader.data = <<>>
       /\ reader.finished /\ reader.pc = "fetch" => reader.pos = N
  BY DEF ReaderInv
<1> QED
  BY <1>1, <1>4, <1>7, <1>8, <1>10, <1>11 DEF ReaderInv, NoSample

LEMMA ReaderFetch ==
    ASSUME TypeInv, ReaderInv, Fetch
    PROVE  ReaderInv'
<1>1. PICK r \in results :
          /\ r \in [at : 1 .. Interval, sample : 0 .. N]
          /\ reader.pc = "fetch" /\ reader'.pc = "fetch" /\ reader'.pos = reader.pos
          /\ reader'.data = reader.data /\ reader'.finished = reader.finished
          /\ reader'.got = reader.got + 1
          /\ reader'.res = [reader.res EXCEPT ![r.at] = r.sample]
          /\ results' = results \ {r}
          /\ UNCHANGED <<conf, inQueue, proc>>
  BY FetchEffect
<1>2. PICK z, res : /\ z \in Nat /\ res = reader.res /\ z = Len(res) /\ DOMAIN res = 1 .. z
                    /\ res \in [1 .. z -> 0 .. N]
  <2>1. PICK S : S = 0 .. N
    OBVIOUS
  <2>2. PICK v \in Seq(S) : v = reader.res
    BY <2>1 DEF TypeInv
  <2>3. PICK z \in Nat : z = Len(v) /\ DOMAIN v = 1 .. z /\ v \in [1 .. z -> S]
    BY ONLY v \in Seq(S)
  <2> QED
    BY <2>1, <2>2, <2>3
<1>3. r.at \in 1 .. z /\ r.sample = IF IsOk(Base + r.at) THEN Base + r.at ELSE NoSample
  <2>1. r.at <= z /\ r.sample = IF IsOk(Base + r.at) THEN Base + r.at ELSE NoSample
    BY <1>2 DEF ReaderInv
  <2>2. r.at \in 1 .. Interval /\ Interval \in Nat
    BY <1>1, SizesAssumption
  <2> QED
    BY <1>2, <2>1, <2>2
<1>4. \A k \in 1 .. z : reader'.res[k] = IF k = r.at THEN r.sample ELSE res[k]
  BY <1>1, <1>2
<1>5. Len(reader'.res) = z
  <2>1. r.sample \in 0 .. N
    BY <1>1
  <2>2. PICK f, S : f = reader'.res /\ S = 0 .. N
    OBVIOUS
  <2>3. f \in [1 .. z -> S]
    BY <1>1, <1>2, <2>1, <2>2
  <2>4. Len(f) = z
    BY ONLY <1>2, <2>3
  <2> QED
    BY <2>2, <2>4
<1>6. Base' = Base /\ (\A s : IsOk(s)' = IsOk(s)) /\ N' = N
  BY <1>1, <1>2, <1>5, Stays DEF Base
<1>7. Busy' = Busy
  BY <1>1 DEF Busy, Idle, Dead, NoSample
<1>8. \A k \in 1 .. z : reader'.res[k] # NoSample => reader'.res[k] = Base + k /\ IsOk(Base + k)
  <2>1. \A k \in 1 .. z : res[k] # NoSample => res[k] = Base + k /\ IsOk(Base + k)
    BY <1>2 DEF ReaderInv
  <2> QED
    BY <1>3, <1>4, <2>1
<1>9. Len(inQueue') + Cardinality(Busy') + Cardinality(results') + reader'.got <= Len(reader'.res)
  <2>1. IsFiniteSet(results) /\ Cardinality(results) \in Nat
    BY FS_CardinalityType DEF TypeInv
  <2>2. Cardinality(results') = Cardinality(results) - 1
    BY <1>1, <2>1, FS_RemoveElement
  <2>3. PICK b \in Nat, c \in Nat, g \in Nat, n \in Nat :
            /\ b = Cardinality(Busy) /\ c = Cardinality(results) /\ g = reader.got
            /\ n = Len(inQueue)
    <3>1. reader.got \in Nat /\ Len(inQueue) \in Nat
      BY DEF TypeInv
    <3> QED
      BY <2>1, <3>1, BusyFinite, ProcsAssumption
  <2>4. n + b + c + g <= z
    BY <1>2, <2>3 DEF ReaderInv
  <2>5. n + b + (c - 1) + (g + 1) <= z
    BY <2>4
  <2> QED
    BY <1>1, <1>5, <1>7, <2>2, <2>3, <2>5
<1>10. /\ Base \in Nat /\ z <= Interval
       /\ \A i \in 1 .. Len(inQueue) : /\ inQueue[i].at <= z
                                       /\ inQueue[i].sample = Base + inQueue[i].at
       /\ \A p \in Busy : /\ proc[p].at <= z
                          /\ proc[p].sample = Base + proc[p].at
       /\ \A x \in results : /\ x.at <= z
                             /\ x.sample = IF IsOk(Base + x.at) THEN Base + x.at ELSE NoSample
       /\ reader.finished /\ reader.pc = "fetch" => reader.pos = N
  BY <1>2 DEF ReaderInv
<1> QED
  BY <1>1, <1>5, <1>6, <1>7, <1>8, <1>9, <1>10 DEF ReaderInv, NoSample

LEMMA ReaderPack ==
    ASSUME TypeInv, ReaderInv, PackInterval
    PROVE  ReaderInv'
<1>1. reader.pc = "fetch" /\ reader.got = Len(reader.res) /\ UNCHANGED <<conf, inQueue, proc, results>>
  BY DEF PackInterval
<1>2. inQueue = <<>> /\ Busy = {} /\ results = {}
  BY <1>1, NothingUnderWay
<1>3. PICK data : /\ reader' = [reader EXCEPT !.data = data, !.res = <<>>, !.got = 0,
                                              !.pc = IF reader.finished THEN "end" ELSE "put"]
                  /\ reader.finished => data = <<>>
  BY IntervalEffect
<1>4. /\ reader'.data = data /\ reader'.res = <<>> /\ reader'.got = 0
      /\ reader'.pc = IF reader.finished THEN "end" ELSE "put"
      /\ reader'.pos = reader.pos
  BY <1>3 DEF TypeInv
<1>5. Busy' = Busy /\ N' = N
  BY <1>1, Stays DEF Busy, Idle, Dead, NoSample
<1>6. Len(<<>>) = 0 /\ 0 <= Interval
  BY SizesAssumption
<1>7. Cardinality(Busy') = 0 /\ Cardinality(results') = 0
  BY <1>1, <1>2, <1>5, FS_EmptySet
<1>8. Base' \in Nat
  <2>1. reader.pos \in Nat
    BY ConfFacts DEF TypeInv
  <2>2. Base' = reader.pos - 0
    BY <1>4, <1>6 DEF Base
  <2> QED
    BY <2>1, <2>2
<1>9. reader.finished => reader.pos = N
  BY <1>1 DEF ReaderInv
<1>10. reader.finished \in BOOLEAN
  BY DEF TypeInv
<1> QED
  BY <1>1, <1>2, <1>3, <1>4, <1>5, <1>6, <1>7, <1>8, <1>9, <1>10 DEF ReaderInv

\* Every step keeps what is known of the reader.
LEMMA ReaderStep ==
    ASSUME TypeInv, ReaderInv, [Next]_vars
    PROVE  ReaderInv'
<1>1. CASE PackingNext
  <2>1. ASSUME NEW k \in Workers, PackChunk(k) \/ Collect(k) PROVE ReaderInv'
    <3>1. UNCHANGED <<conf, reader, inQueue, proc, results>>
      BY <2>1 DEF PackChunk, Collect, streamVars
    <3> QED
      BY <3>1, ReaderStays
  <2> QED
    BY <1>1, <2>1, ReaderPut, ReaderTake, ReaderEncode, ReaderFetch, ReaderPack DEF PackingNext
<1>2. CASE ~PackingNext
  <2>1. UNCHANGED <<conf, reader, inQueue, proc, results>>
    BY <1>2 DEF Next, BuildLoader, NextBatch, TrainStep, Collate, Pull, SkipRaises, Scatter, ScatterEnd,
                packingVars, vars
  <2> QED
    BY <2>1, ReaderStays
<1> QED
  BY <1>1, <1>2

-----------------------------------------------------------------------------
(* The workers of a data set with a length.                                *)

\* Samples of one more batch.
LEMMA InBatchesAppend ==
    ASSUME NEW S, NEW bs \in Seq(Seq(Seq(S))), NEW g \in Seq(Seq(S)), NEW x
    PROVE  /\ InBatches(bs) \in Seq(S) /\ InGroups(g) \in Seq(S)
           /\ Append(bs, g) \in Seq(Seq(Seq(S)))
           /\ Times(x, InBatches(Append(bs, g))) = Times(x, InBatches(bs)) + Times(x, InGroups(g))
<1>1. PICK u \in Seq(Seq(S)) : u = FlattenSeq(bs)
  BY FlattenType
<1>2. FlattenSeq(Append(bs, g)) = u \o g
  BY <1>1, FlattenAppend
<1>3. FlattenSeq(u \o g) = FlattenSeq(u) \o FlattenSeq(g)
  BY FlattenConcat
<1>4. PICK v \in Seq(S), w \in Seq(S) : v = FlattenSeq(u) /\ w = FlattenSeq(g)
  BY FlattenType
<1>5. Times(x, v \o w) = Times(x, v) + Times(x, w)
  BY TimesConcat
<1>6. Append(bs, g) \in Seq(Seq(Seq(S)))
  BY AppendProperties
<1> QED
  BY <1>1, <1>2, <1>3, <1>4, <1>5, <1>6 DEF InBatches, InGroups

\* Samples of the first batch and of the others.
LEMMA InBatchesHead ==
    ASSUME NEW S, NEW bs \in Seq(Seq(Seq(S))), bs # <<>>, NEW x
    PROVE  /\ InBatches(Tail(bs)) \in Seq(S) /\ InGroups(Head(bs)) \in Seq(S)
           /\ Times(x, InBatches(bs)) = Times(x, InGroups(Head(bs))) + Times(x, InBatches(Tail(bs)))
<1>1. PICK h \in Seq(Seq(S)), t \in Seq(Seq(Seq(S))) : h = Head(bs) /\ t = Tail(bs)
  BY HeadTailProperties
<1>2. PICK u \in Seq(Seq(S)) : u = FlattenSeq(t)
  BY FlattenType
<1>3. FlattenSeq(bs) = h \o u
  BY <1>1, <1>2, HeadTailFlatten
<1>4. FlattenSeq(h \o u) = FlattenSeq(h) \o FlattenSeq(u)
  BY FlattenConcat
<1>5. PICK v \in Seq(S), w \in Seq(S) : v = FlattenSeq(h) /\ w = FlattenSeq(u)
  BY FlattenType
<1>6. Times(x, v \o w) = Times(x, v) + Times(x, w)
  BY TimesConcat
<1> QED
  BY <1>1, <1>2, <1>3, <1>4, <1>5, <1>6 DEF InBatches, InGroups

LEMMA InBatchesType ==
    ASSUME NEW S, NEW bs \in Seq(Seq(Seq(S))), NEW gs \in Seq(Seq(S)), NEW x
    PROVE  /\ InBatches(bs) \in Seq(S) /\ Times(x, InBatches(bs)) \in Nat
           /\ InGroups(gs) \in Seq(S) /\ Times(x, InGroups(gs)) \in Nat
<1>1. PICK u \in Seq(Seq(S)) : u = FlattenSeq(bs)
  BY FlattenType
<1>2. FlattenSeq(u) \in Seq(S) /\ FlattenSeq(gs) \in Seq(S)
  BY FlattenType
<1> QED
  BY <1>1, <1>2, TimesType DEF InBatches, InGroups

LEMMA InBatchesIn ==
    ASSUME NEW S, NEW bs \in Seq(Seq(Seq(S)))
    PROVE  InBatches(bs) \in Seq(S)
<1>1. PICK u \in Seq(Seq(S)) : u = FlattenSeq(bs)
  BY FlattenType
<1> QED
  BY <1>1, FlattenType DEF InBatches

LEMMA InGroupsIn ==
    ASSUME NEW S, NEW gs \in Seq(Seq(S))
    PROVE  InGroups(gs) \in Seq(S)
  BY FlattenType DEF InGroups

LEMMA InNone == InBatches(<<>>) = <<>> /\ InGroups(<<>>) = <<>>
  BY FlattenEmpty DEF InBatches, InGroups

\* The groups on a queue of a worker.
Queued(q) == [i \in DOMAIN q |-> q[i].groups]

LEMMA QueuedFacts ==
    ASSUME NEW G, NEW E, \A y \in E : y.groups \in G, NEW q \in Seq(E)
    PROVE  /\ Queued(q) \in Seq(G) /\ Len(Queued(q)) = Len(q)
           /\ q # <<>> => /\ Queued(q) # <<>> /\ Head(Queued(q)) = Head(q).groups
                          /\ Tail(Queued(q)) = Queued(Tail(q))
<1>1. PICK n \in Nat : n = Len(q) /\ DOMAIN q = 1 .. n
  OBVIOUS
<1>2. PICK s : s = Queued(q)
  OBVIOUS
<1>3. s = [i \in 1 .. n |-> q[i].groups]
  BY <1>1, <1>2 DEF Queued
<1>4. \A i \in 1 .. n : q[i] \in E
  BY <1>1, ElementIn
<1>5. \A i \in 1 .. n : q[i].groups \in G
  BY <1>4
<1>6. s \in [1 .. n -> G]
  BY ONLY <1>3, <1>5
<1>7. s \in Seq(G) /\ Len(s) = n /\ DOMAIN s = 1 .. n
  BY ONLY <1>6, n \in Nat
<1>8. \A i \in 1 .. n : s[i] = q[i].groups
  BY ONLY <1>3
<1>9. ASSUME q # <<>>
       PROVE  /\ s # <<>> /\ Head(s) = Head(q).groups /\ Tail(s) = Queued(Tail(q))
  <2>1. n # 0 /\ Head(q) = q[1] /\ Tail(q) = [i \in 1 .. (n - 1) |-> q[i + 1]]
    BY <1>1, <1>9, TailElements
  <2>2. s # <<>>
    <3>1. Len(<<>>) = 0
      OBVIOUS
    <3> QED
      BY <1>7, <2>1, <3>1
  <2>3. Head(s) = s[1] /\ Tail(s) = [i \in 1 .. (n - 1) |-> s[i + 1]]
    BY <1>7, <2>2, TailElements
  <2>4. 1 \in 1 .. n /\ \A i \in 1 .. (n - 1) : i + 1 \in 1 .. n
    BY <2>1
  <2>5. PICK t : /\ t = Tail(q) /\ DOMAIN t = 1 .. (n - 1)
                 /\ \A i \in 1 .. (n - 1) : t[i] = q[i + 1]
    BY ONLY <2>1
  <2>6. Queued(t) = [i \in 1 .. (n - 1) |-> t[i].groups]
    BY <2>5 DEF Queued
  <2>7. \A i \in 1 .. (n - 1) : t[i].groups = s[i + 1]
    BY ONLY <1>8, <2>4, <2>5
  <2>8. Queued(t) = Tail(s)
    BY ONLY <2>3, <2>6, <2>7
  <2> QED
    BY <1>8, <2>1, <2>2, <2>3, <2>4, <2>5, <2>8
<1> QED
  BY <1>1, <1>2, <1>7, <1>9

LEMMA QueuedAppend ==
    ASSUME NEW E, NEW q \in Seq(E), NEW e \in E,
           NEW longer, longer = Append(q, e), NEW more, more = e.groups
    PROVE  Queued(longer) = Append(Queued(q), more)
<1>10. PICK G : \A y \in E : y.groups \in G
  <2>1. \A y \in E : y.groups \in {z.groups : z \in E}
    OBVIOUS
  <2> QED
    BY <2>1
<1>1. PICK n \in Nat : n = Len(q) /\ DOMAIN q = 1 .. n
  OBVIOUS
<1>2. PICK s : s = Queued(q)
  OBVIOUS
<1>3. s = [i \in 1 .. n |-> q[i].groups]
  BY <1>1, <1>2 DEF Queued
<1>4. \A i \in 1 .. n : q[i] \in E
  BY <1>1, ElementIn
<1>5. \A i \in 1 .. n : q[i].groups \in G
  BY <1>4, <1>10
<1>6. s \in [1 .. n -> G]
  BY ONLY <1>3, <1>5
<1>7. s \in Seq(G) /\ Len(s) = n /\ DOMAIN s = 1 .. n
  BY ONLY <1>6, n \in Nat
<1>8. \A i \in 1 .. n : s[i] = q[i].groups
  BY ONLY <1>3
<1>9. Queued(longer) = Append(s, more)
  <2>1. PICK a : /\ a = Append(q, e) /\ DOMAIN a = 1 .. (n + 1)
                 /\ \A i \in 1 .. (n + 1) : a[i] = IF i <= n THEN q[i] ELSE e
    <3>1. Append(q, e) = [i \in 1 .. (n + 1) |-> IF i <= n THEN q[i] ELSE e]
      <4>1. n = Len(q)
        BY <1>1
      <4> QED
        BY ONLY <4>1, AppendElements, q \in Seq(E), e \in E, n \in Nat
    <3> QED
      BY ONLY <3>1
  <2>2. PICK g \in G : g = e.groups
    BY <1>10
  <2>3. Append(s, g) = [i \in 1 .. (n + 1) |-> IF i <= n THEN s[i] ELSE g]
    BY <1>7, AppendElements
  <2>4. Queued(a) = [i \in 1 .. (n + 1) |-> a[i].groups]
    BY <2>1 DEF Queued
  <2>5. \A i \in 1 .. (n + 1) : a[i].groups = IF i <= n THEN s[i] ELSE g
    <3> TAKE i \in 1 .. (n + 1)
    <3>1. CASE i <= n
      <4>1. i \in 1 .. n
        BY <3>1
      <4> QED
        BY ONLY <1>8, <2>1, <3>1, <4>1
    <3>2. CASE ~(i <= n)
      BY <2>1, <2>2, <3>2
    <3> QED
      BY <3>1, <3>2
  <2> QED
    BY ONLY <2>1, <2>2, <2>3, <2>4, <2>5, longer = Append(q, e), more = e.groups
<1> QED
  BY <1>2, <1>9

\* Every count of OfWorker is a number.
LEMMA OfWorkerTypes ==
    ASSUME TypeInv, NEW k \in Workers, NEW x
    PROVE  /\ worker[k].input \in Seq(1 .. N) /\ Times(x, worker[k].input) \in Nat
           /\ Times(x, SubSeq(Share(k), worker[k].i + 1, Len(Share(k)))) \in Nat
           /\ Queued(outQueue[k]) \in Seq(Groups)
           /\ Times(x, InBatches(Queued(outQueue[k]))) \in Nat
           /\ packed[k] \in Groups /\ Times(x, InGroups(packed[k])) \in Nat
           /\ OfWorker(x, k) =
                  Times(x, worker[k].input)
                  + Times(x, SubSeq(Share(k), worker[k].i + 1, Len(Share(k))))
                  + Times(x, InBatches(Queued(outQueue[k]))) + Times(x, InGroups(packed[k]))
<1>1. PICK S : S = 1 .. N
  OBVIOUS
<1>2. worker[k] \in [i : Nat, input : Seq(S), over : BOOLEAN]
  BY <1>1 DEF TypeInv
<1>3. worker[k].input \in Seq(S) /\ worker[k].i \in Nat
  BY <1>2
<1>4. Times(x, worker[k].input) \in Nat
  BY <1>3, TimesType
<1>5. Times(x, SubSeq(Share(k), worker[k].i + 1, Len(Share(k)))) \in Nat
  <2>1. PICK s \in Seq(S), a \in Nat \ {0}, n \in Nat :
            s = Share(k) /\ a = worker[k].i + 1 /\ n = Len(s)
    <3>1. Share(k) \in Seq(S)
      BY <1>1, ShareFacts DEF TypeInv
    <3>2. worker[k].i + 1 \in Nat \ {0}
      BY <1>3
    <3> QED
      BY <3>1, <3>2
  <2>2. \A i \in a .. n : s[i] \in S
    <3>1. \A i \in a .. n : i \in 1 .. n
      OBVIOUS
    <3> QED
      BY <2>1, <3>1, ElementIn
  <2>3. SubSeq(s, a, n) \in Seq(S)
    BY <2>2, SubSeqProperties
  <2> QED
    BY <2>1, <2>3, TimesType
<1>6. Groups = Seq(Seq(S))
  BY <1>1 DEF Groups
<1>7. Queued(outQueue[k]) \in Seq(Groups)
  <2>1. PICK E : E = [groups : Groups, len : Int]
    OBVIOUS
  <2>2. outQueue[k] \in Seq(E)
    BY <2>1 DEF TypeInv
  <2> QED
    BY <2>1, <2>2, QueuedFacts
<1>8. packed[k] \in Groups
  BY DEF TypeInv
<1>9. Times(x, InBatches(Queued(outQueue[k]))) \in Nat /\ Times(x, InGroups(packed[k])) \in Nat
  BY <1>6, <1>7, <1>8, InBatchesType
<1> QED
  BY <1>1, <1>3, <1>4, <1>5, <1>7, <1>8, <1>9 DEF OfWorker, Queued

\* What MapInv says of worker k, and what it says of all.
MapOf(k) ==
    /\ \A x \in 1 .. N : OfWorker(x, k) = IF x \in ToSet(Share(k)) THEN 1 ELSE 0
    /\ \A i \in 1 .. Len(outQueue[k]) :
           /\ outQueue[k][i].len = -1 => outQueue[k][i].groups = <<>>
           /\ Filled(outQueue[k][i].groups)
    /\ Filled(packed[k])

LEMMA MapParts == MapInv <=> (~conf.streaming => \A k \in Workers : MapOf(k))
  BY DEF MapInv, MapOf

\* A worker nothing of which changes.
LEMMA MapOfStays ==
    ASSUME conf' = conf, NEW k \in Workers, MapOf(k), worker'[k] = worker[k],
           outQueue'[k] = outQueue[k], packed'[k] = packed[k]
    PROVE  MapOf(k)'
<1>1. N' = N /\ \A j : Share(j)' = Share(j)
  BY Stays
<1>2. \A x : OfWorker(x, k)' = OfWorker(x, k)
  BY <1>1 DEF OfWorker
<1> QED
  BY <1>1, <1>2 DEF MapOf

LEMMA MapStays ==
    ASSUME MapInv, UNCHANGED <<conf, worker, outQueue, packed>>
    PROVE  MapInv'
<1>1. Workers' = Workers
  BY Stays
<1>2. ASSUME ~conf.streaming, NEW k \in Workers PROVE MapOf(k)'
  <2>1. MapOf(k)
    BY <1>2, MapParts
  <2> QED
    BY <2>1, MapOfStays
<1>3. MapInv' <=> (~conf'.streaming => \A k \in Workers' : MapOf(k)')
  BY DEF MapInv, MapOf
<1> QED
  BY <1>1, <1>2, <1>3

LEMMA MapInit ==
    ASSUME Init
    PROVE  MapInv
<1>1. TypeInv
  BY TypeInit
<1>2. ASSUME NEW k \in Workers PROVE MapOf(k)
  <2>1. worker[k].i = 0 /\ worker[k].input = <<>> /\ outQueue[k] = <<>> /\ packed[k] = <<>>
    BY DEF Init, InitMap
  <2>2. PICK S : S = 1 .. N
    OBVIOUS
  <2>3. PICK s \in Seq(S), n \in Nat : s = Share(k) /\ n = Len(s) /\ OneToOne(s)
    <3>1. Share(k) \in Seq(S) /\ OneToOne(Share(k))
      BY <1>1, <2>2, ShareFacts DEF TypeInv
    <3> QED
      BY <3>1
  <2>4. SubSeq(s, 1, n) = s
    BY <2>3
  <2>5. Queued(outQueue[k]) = <<>>
    BY <2>1 DEF Queued
  <2>6. ASSUME NEW x \in 1 .. N PROVE OfWorker(x, k) = IF x \in ToSet(Share(k)) THEN 1 ELSE 0
    <3>1. Times(x, s) \in Nat /\ Times(x, s) <= 1 /\ (Times(x, s) = 0 <=> x \notin ToSet(s))
      BY <2>3, TimesType, TimesOnce, TimesPresent
    <3>2. Times(x, SubSeq(Share(k), worker[k].i + 1, Len(Share(k)))) = Times(x, s)
      <4>1. worker[k].i + 1 = 1
        BY <2>1
      <4> QED
        BY <2>3, <2>4, <4>1
    <3>3. OfWorker(x, k) = Times(x, worker[k].input)
                  + Times(x, SubSeq(Share(k), worker[k].i + 1, Len(Share(k))))
                  + Times(x, InBatches(Queued(outQueue[k]))) + Times(x, InGroups(packed[k]))
      BY <1>1, OfWorkerTypes
    <3>4. Times(x, <<>>) = 0
      BY TimesEmpty
    <3>5. OfWorker(x, k) = 0 + Times(x, s) + 0 + 0
      BY ONLY <2>1, <2>5, <3>2, <3>3, <3>4, InNone
    <3>6. OfWorker(x, k) = Times(x, s)
      BY <3>1, <3>5
    <3> QED
      BY <2>3, <3>1, <3>6
  <2>7. Len(<<>>) = 0
    OBVIOUS
  <2> QED
    BY <2>1, <2>6, <2>7 DEF MapOf, Filled
<1> QED
  BY <1>2, MapParts

LEMMA MapPackChunk ==
    ASSUME TypeInv, MapInv, NEW k \in Workers, PackChunk(k),
           UNCHANGED <<pc, hand, trained, order, loaderVars>>
    PROVE  MapInv'
<1>0. PICK w \in [i : Nat, input : Seq(1 .. N), over : BOOLEAN], gs \in Groups, n \in Int : ChunkPut(k, w, gs, n)
  BY ChunkEffect
<1>1. /\ worker' = [worker EXCEPT ![k] = w]
      /\ outQueue' = [outQueue EXCEPT ![k] = Append(@, [groups |-> gs, len |-> n])]
      /\ \A x : Times(x, w.input) + Times(x, SubSeq(Share(k), w.i + 1, Len(Share(k))))
                + Times(x, InGroups(gs))
              = Times(x, worker[k].input)
                + Times(x, SubSeq(Share(k), worker[k].i + 1, Len(Share(k))))
      /\ Filled(gs)
      /\ n = -1 => gs = <<>>
      /\ ~conf.streaming
      /\ UNCHANGED <<conf, packed>>
  BY <1>0 DEF ChunkPut
<1>2. Workers' = Workers /\ N' = N /\ \A j : Share(j)' = Share(j)
  BY <1>1, Stays
<1>3. \A j \in Workers : MapOf(j)
  BY <1>1, MapParts
<1>4. TypeInv'
  BY TypePackChunk
<1>5. PICK E : E = [groups : Groups, len : Int]
  OBVIOUS
<1>6. PICK q \in Seq(E), e \in E : q = outQueue[k] /\ e = [groups |-> gs, len |-> n]
  BY <1>5 DEF TypeInv
<1>7. e.groups = gs /\ e.len = n
  BY <1>6
<1>8. PICK a : a = Append(q, e)
  OBVIOUS
<1>9. worker'[k] = w /\ outQueue'[k] = a /\ packed'[k] = packed[k]
  BY <1>1, <1>6, <1>8 DEF TypeInv
<1>10. ASSUME NEW j \in Workers, j # k PROVE MapOf(j)'
  <2>1. worker'[j] = worker[j] /\ outQueue'[j] = outQueue[j] /\ packed'[j] = packed[j]
    BY <1>1, <1>10 DEF TypeInv
  <2> QED
    BY <1>1, <1>3, <2>1, MapOfStays
<1>11. ASSUME NEW x \in 1 .. N PROVE OfWorker(x, k)' = OfWorker(x, k)
  <2>1. PICK S : Groups = Seq(Seq(S)) /\ S = 1 .. N
    BY DEF Groups
  <2>2. PICK bs \in Seq(Groups) : bs = Queued(q)
    BY <1>5, QueuedFacts
  <2>3. Queued(a) = Append(bs, gs)
    <3>1. Queued(a) = Append(Queued(q), gs)
      BY ONLY <1>7, <1>8, QueuedAppend, q \in Seq(E), e \in E, ZenonT(30)
    <3> QED
      BY ONLY <2>2, <3>1
  <2>4. Times(x, InBatches(Append(bs, gs))) = Times(x, InBatches(bs)) + Times(x, InGroups(gs))
    BY <2>1, InBatchesAppend
  <2>5. OfWorker(x, k)' = Times(x, w.input)
                  + Times(x, SubSeq(Share(k), w.i + 1, Len(Share(k))))
                  + Times(x, InBatches(Queued(a))) + Times(x, InGroups(packed[k]))
    BY <1>2, <1>9 DEF OfWorker, Queued
  <2>6. OfWorker(x, k) = Times(x, worker[k].input)
                  + Times(x, SubSeq(Share(k), worker[k].i + 1, Len(Share(k))))
                  + Times(x, InBatches(bs)) + Times(x, InGroups(packed[k]))
    BY <1>6, <2>2, OfWorkerTypes
  <2>7. PICK t1 \in Nat, t2 \in Nat, t3 \in Nat, t4 \in Nat, t5 \in Nat, t6 \in Nat, t7 \in Nat :
            /\ t1 = Times(x, w.input) /\ t2 = Times(x, SubSeq(Share(k), w.i + 1, Len(Share(k))))
            /\ t3 = Times(x, InGroups(gs))
            /\ t4 = Times(x, worker[k].input)
            /\ t5 = Times(x, SubSeq(Share(k), worker[k].i + 1, Len(Share(k))))
            /\ t6 = Times(x, InBatches(bs)) /\ t7 = Times(x, InGroups(packed[k]))
    <3>1. /\ Times(x, worker[k].input) \in Nat
          /\ Times(x, SubSeq(Share(k), worker[k].i + 1, Len(Share(k)))) \in Nat
          /\ Times(x, InBatches(bs)) \in Nat /\ Times(x, InGroups(packed[k])) \in Nat
      BY <1>6, <2>2, OfWorkerTypes
    <3>2. Times(x, InGroups(gs)) \in Nat
      <4>1. gs \in Seq(Seq(S))
        BY <2>1
      <4>2. FlattenSeq(gs) \in Seq(S)
        BY <4>1, FlattenType
      <4> QED
        BY <4>2, TimesType DEF InGroups
    <3>3. w.input \in Seq(1 .. N) /\ w.i \in Nat
      OBVIOUS
    <3>4. Times(x, w.input) \in Nat
      BY <3>3, TimesType
    <3>5. Times(x, SubSeq(Share(k), w.i + 1, Len(Share(k)))) \in Nat
      <4>1. PICK s \in Seq(S), b \in Nat \ {0}, z \in Nat : s = Share(k) /\ b = w.i + 1 /\ z = Len(s)
        <5>1. Share(k) \in Seq(S)
          BY <2>1, ShareFacts DEF TypeInv
        <5>2. w.i + 1 \in Nat \ {0}
          BY <3>3
        <5> QED
          BY <5>1, <5>2
      <4>2. \A i \in b .. z : s[i] \in S
        <5>1. \A i \in b .. z : i \in 1 .. z
          OBVIOUS
        <5> QED
          BY <4>1, <5>1, ElementIn
      <4>3. SubSeq(s, b, z) \in Seq(S)
        BY <4>2, SubSeqProperties
      <4> QED
        BY <4>1, <4>3, TimesType
    <3> QED
      BY ONLY <3>1, <3>2, <3>4, <3>5
  <2>8. t1 + t2 + t3 = t4 + t5
    BY ONLY <1>1, <2>7
  <2>9. OfWorker(x, k)' = t1 + t2 + (t6 + t3) + t7
    BY ONLY <2>3, <2>4, <2>5, <2>7
  <2>10. OfWorker(x, k) = t4 + t5 + t6 + t7
    BY ONLY <2>6, <2>7
  <2>11. t1 + t2 + (t6 + t3) + t7 = t4 + t5 + t6 + t7
    BY <2>8
  <2> QED
    BY ONLY <2>9, <2>10, <2>11
<1>12. \A i \in 1 .. Len(a) : /\ a[i].len = -1 => a[i].groups = <<>>
                              /\ Filled(a[i].groups)
  <2>1. PICK z \in Nat : z = Len(q)
    OBVIOUS
  <2>2. Len(a) = z + 1 /\ a = [i \in 1 .. (z + 1) |-> IF i <= z THEN q[i] ELSE e]
    BY <1>8, <2>1, AppendElements
  <2>3. \A i \in 1 .. z : /\ q[i].len = -1 => q[i].groups = <<>>
                          /\ Filled(q[i].groups)
    BY <1>3, <1>6, <2>1 DEF MapOf
  <2>4. \A i \in 1 .. (z + 1) : a[i] = e \/ (i \in 1 .. z /\ a[i] = q[i])
    BY <2>2
  <2>5. (e.len = -1 => e.groups = <<>>) /\ Filled(e.groups)
    BY <1>1, <1>7
  <2> QED
    BY ONLY <2>2, <2>3, <2>4, <2>5
<1>13. MapOf(k)'
  <2>1. Filled(packed'[k])
    BY <1>3, <1>9 DEF MapOf
  <2> QED
    BY <1>2, <1>3, <1>9, <1>11, <1>12, <2>1 DEF MapOf, Filled
<1>14. MapInv' <=> (~conf'.streaming => \A j \in Workers' : MapOf(j)')
  BY DEF MapInv, MapOf
<1> QED
  BY <1>2, <1>10, <1>13, <1>14

LEMMA MapCollect ==
    ASSUME TypeInv, MapInv, NEW k \in Workers, Collect(k)
    PROVE  MapInv'
<1>1. PICK E : E = [groups : Groups, len : Int]
  OBVIOUS
<1>2. PICK q \in Seq(E), z \in Nat : q = outQueue[k] /\ q # <<>> /\ z = Len(q)
  <2>1. outQueue[k] \in Seq(E)
    BY <1>1 DEF TypeInv
  <2>2. outQueue[k] # <<>>
    BY DEF Collect
  <2>3. Len(outQueue[k]) \in Nat
    BY ONLY <2>1
  <2> QED
    BY ONLY <2>1, <2>2, <2>3
<1>3. PICK e \in E, t \in Seq(E) : e = Head(q) /\ t = Tail(q)
  BY <1>2, HeadTailProperties
<1>4. /\ IF e.len = -1 THEN packed' = packed
         ELSE packed' = [packed EXCEPT ![k] = @ \o e.groups]
      /\ outQueue' = [outQueue EXCEPT ![k] = t]
      /\ UNCHANGED <<conf, worker>>
  BY <1>2, <1>3 DEF Collect
<1>5. CASE conf.streaming
  BY <1>4, <1>5 DEF MapInv
<1>6. CASE ~conf.streaming
  <2>1. Workers' = Workers /\ N' = N /\ \A j : Share(j)' = Share(j)
    BY <1>4, Stays
  <2>2. \A j \in Workers : MapOf(j)
    BY <1>6, MapParts
  <2>3. z # 0 /\ e = q[1] /\ t = [i \in 1 .. (z - 1) |-> q[i + 1]] /\ Len(t) = z - 1
    BY <1>2, <1>3, TailElements
  <2>4. \A i \in 1 .. z : /\ q[i].len = -1 => q[i].groups = <<>>
                          /\ Filled(q[i].groups)
    BY <1>2, <2>2 DEF MapOf
  <2>5. (e.len = -1 => e.groups = <<>>) /\ Filled(e.groups)
    <3>1. 1 \in 1 .. z
      BY <2>3
    <3> QED
      BY <2>3, <2>4, <3>1
  <2>6. PICK S : Groups = Seq(Seq(S)) /\ S = 1 .. N
    BY DEF Groups
  <2>7. PICK u \in Groups, g \in Groups : u = packed[k] /\ g = e.groups
    BY <1>1 DEF TypeInv
  <2>8. packed'[k] = u \o g
    <3>1. CASE e.len = -1
      <4>1. packed' = packed /\ g = <<>>
        BY <1>4, <2>5, <2>7, <3>1
      <4>2. u \o <<>> = u
        BY <2>6, ConcatEmptySeq
      <4> QED
        BY <2>7, <4>1, <4>2
    <3>2. CASE e.len # -1
      BY <1>4, <2>7, <3>2 DEF TypeInv
    <3> QED
      BY <3>1, <3>2
  <2>9. worker'[k] = worker[k] /\ outQueue'[k] = t
    BY <1>4 DEF TypeInv
  <2>10. ASSUME NEW j \in Workers, j # k PROVE MapOf(j)'
    <3>1. worker'[j] = worker[j] /\ outQueue'[j] = outQueue[j] /\ packed'[j] = packed[j]
      <4>1. packed'[j] = packed[j]
        BY <1>4, <2>10 DEF TypeInv
      <4> QED
        BY <1>4, <2>10, <4>1 DEF TypeInv
    <3> QED
      BY <1>4, <2>2, <3>1, MapOfStays
  <2>11. ASSUME NEW x \in 1 .. N PROVE OfWorker(x, k)' = OfWorker(x, k)
    <3>1. PICK bs \in Seq(Groups) : bs = Queued(q) /\ bs # <<>> /\ Head(bs) = g /\ Tail(bs) = Queued(t)
      BY <1>1, <1>2, <1>3, <2>7, QueuedFacts
    <3>2. /\ Times(x, InBatches(bs)) = Times(x, InGroups(g)) + Times(x, InBatches(Queued(t)))
          /\ InBatches(Queued(t)) \in Seq(S) /\ InGroups(g) \in Seq(S)
      BY <2>6, <3>1, InBatchesHead
    <3>3. InGroups(u \o g) = InGroups(u) \o InGroups(g)
      BY <2>6, FlattenConcat DEF InGroups
    <3>4. InGroups(u) \in Seq(S)
      BY <2>6, FlattenType DEF InGroups
    <3>5. Times(x, InGroups(u \o g)) = Times(x, InGroups(u)) + Times(x, InGroups(g))
      BY <3>2, <3>3, <3>4, TimesConcat
    <3>6. OfWorker(x, k)' = Times(x, worker[k].input)
                  + Times(x, SubSeq(Share(k), worker[k].i + 1, Len(Share(k))))
                  + Times(x, InBatches(Queued(t))) + Times(x, InGroups(u \o g))
      BY <2>1, <2>8, <2>9 DEF OfWorker, Queued
    <3>7. OfWorker(x, k) = Times(x, worker[k].input)
                  + Times(x, SubSeq(Share(k), worker[k].i + 1, Len(Share(k))))
                  + Times(x, InBatches(bs)) + Times(x, InGroups(u))
      BY <1>2, <2>7, <3>1, OfWorkerTypes
    <3>8. PICK t1 \in Nat, t2 \in Nat, t3 \in Nat, t4 \in Nat, t5 \in Nat :
              /\ t1 = Times(x, worker[k].input)
              /\ t2 = Times(x, SubSeq(Share(k), worker[k].i + 1, Len(Share(k))))
              /\ t3 = Times(x, InBatches(Queued(t))) /\ t4 = Times(x, InGroups(g))
              /\ t5 = Times(x, InGroups(u))
      <4>1. /\ Times(x, worker[k].input) \in Nat
            /\ Times(x, SubSeq(Share(k), worker[k].i + 1, Len(Share(k)))) \in Nat
        BY OfWorkerTypes
      <4>2. /\ Times(x, InBatches(Queued(t))) \in Nat /\ Times(x, InGroups(g)) \in Nat
            /\ Times(x, InGroups(u)) \in Nat
        BY <3>2, <3>4, TimesType
      <4> QED
        BY ONLY <4>1, <4>2
    <3>9. OfWorker(x, k)' = t1 + t2 + t3 + (t5 + t4)
      BY ONLY <3>5, <3>6, <3>8
    <3>10. OfWorker(x, k) = t1 + t2 + (t4 + t3) + t5
      BY ONLY <3>2, <3>7, <3>8
    <3>11. t1 + t2 + t3 + (t5 + t4) = t1 + t2 + (t4 + t3) + t5
      OBVIOUS
    <3> QED
      BY ONLY <3>9, <3>10, <3>11
  <2>12. \A i \in 1 .. Len(t) : /\ t[i].len = -1 => t[i].groups = <<>>
                                /\ Filled(t[i].groups)
    <3>1. \A i \in 1 .. (z - 1) : t[i] = q[i + 1] /\ i + 1 \in 1 .. z
      BY <2>3
    <3> QED
      BY ONLY <2>3, <2>4, <3>1
  <2>13. Filled(packed'[k])
    <3>1. Filled(u) /\ Filled(g)
      BY <2>2, <2>5, <2>7 DEF MapOf
    <3>2. PICK a \in Nat, b \in Nat : a = Len(u) /\ b = Len(g)
      BY <2>6
    <3>3. /\ Len(u \o g) = a + b
          /\ \A i \in 1 .. (a + b) : (u \o g)[i] = IF i <= a THEN u[i] ELSE g[i - a]
      BY <2>6, <3>2, ConcatProperties
    <3>4. \A i \in 1 .. (a + b) : i \in 1 .. a \/ (~(i <= a) /\ i - a \in 1 .. b)
      OBVIOUS
    <3>5. \A i \in 1 .. a : u[i] # <<>> /\ i <= a
      BY <3>1, <3>2 DEF Filled
    <3>6. \A i \in 1 .. b : g[i] # <<>>
      BY <3>1, <3>2 DEF Filled
    <3>7. \A i \in 1 .. (a + b) : (u \o g)[i] # <<>>
      BY ONLY <3>3, <3>4, <3>5, <3>6
    <3> QED
      BY ONLY <2>8, <3>3, <3>7 DEF Filled
  <2>14. MapOf(k)'
    BY <2>1, <2>2, <2>9, <2>11, <2>12, <2>13 DEF MapOf, Filled
  <2>15. MapInv' <=> (~conf'.streaming => \A j \in Workers' : MapOf(j)')
    BY DEF MapInv, MapOf
  <2> QED
    BY <2>1, <2>10, <2>14, <2>15
<1> QED
  BY <1>5, <1>6

LEMMA MapStep ==
    ASSUME TypeInv, MapInv, [Next]_vars
    PROVE  MapInv'
<1>1. ASSUME NEW k \in Workers, PackChunk(k), PackingNext PROVE MapInv'
  <2>1. UNCHANGED <<pc, hand, trained, order, loaderVars>>
    BY <1>1 DEF PackingNext
  <2> QED
    BY <1>1, <2>1, MapPackChunk
<1>2. ASSUME NEW k \in Workers, Collect(k) PROVE MapInv'
  BY <1>2, MapCollect
<1>3. ASSUME \/ PutInterval \/ Fetch \/ PackInterval
             \/ \E p \in 1 .. Procs : TakeSample(p) \/ Encode(p)
      PROVE  MapInv'
  <2>1. UNCHANGED <<conf, worker, outQueue, packed>>
    BY <1>3 DEF PutInterval, Fetch, PackInterval, TakeSample, Encode, mapVars
  <2> QED
    BY <2>1, MapStays
<1>4. CASE ~PackingNext
  <2>1. UNCHANGED <<conf, worker, outQueue, packed>>
    BY <1>4 DEF Next, BuildLoader, NextBatch, TrainStep, Collate, Pull, SkipRaises, Scatter, ScatterEnd,
                packingVars, mapVars, vars
  <2> QED
    BY <2>1, MapStays
<1> QED
  BY <1>1, <1>2, <1>3, <1>4 DEF PackingNext

\* With a length, each sample is in one place of its worker's part.
LEMMA MapConserved ==
    ASSUME TypeInv, MapInv, ~conf.streaming, NEW k \in Workers
    PROVE  Once(AtWorker(k), ToSet(Share(k)))
<1>1. PICK S : S = 1 .. N
  OBVIOUS
<1>2. Groups = Seq(Seq(S))
  BY <1>1 DEF Groups
<1>3. PICK s \in Seq(S), n \in Nat : s = Share(k) /\ n = Len(s)
  <2>1. Share(k) \in Seq(S)
    BY <1>1, ShareFacts DEF TypeInv
  <2> QED
    BY <2>1
<1>4. PICK a \in Seq(S), i \in Nat : a = worker[k].input /\ i = worker[k].i
  <2>1. worker[k] \in [i : Nat, input : Seq(S), over : BOOLEAN]
    BY <1>1 DEF TypeInv
  <2> QED
    BY <2>1
<1>5. PICK b \in Seq(S) : b = SubSeq(s, i + 1, n)
  <2>1. PICK j \in Nat \ {0} : j = i + 1
    <3>1. i + 1 \in Nat \ {0}
      OBVIOUS
    <3> QED
      BY <3>1
  <2>2. \A l \in j .. n : s[l] \in S
    <3>1. \A l \in j .. n : l \in 1 .. n
      OBVIOUS
    <3> QED
      BY <1>3, <3>1, ElementIn
  <2>3. SubSeq(s, j, n) \in Seq(S)
    BY <2>2, SubSeqProperties
  <2> QED
    BY <2>1, <2>3
<1>6. PICK c \in Seq(S) : c = InBatches(Queued(outQueue[k]))
  <2>1. Queued(outQueue[k]) \in Seq(Groups)
    BY OfWorkerTypes
  <2> QED
    BY <1>2, <2>1, InBatchesIn
<1>7. PICK d \in Seq(S) : d = InGroups(packed[k])
  <2>1. packed[k] \in Groups
    BY DEF TypeInv
  <2> QED
    BY <1>2, <2>1, InGroupsIn
<1>8. AtWorker(k) = a \o b \o c \o d
  BY <1>3, <1>4, <1>5, <1>6, <1>7 DEF AtWorker, Queued
<1>9. PICK ab \in Seq(S), abc \in Seq(S), all \in Seq(S) : ab = a \o b /\ abc = ab \o c /\ all = abc \o d
  <2>1. PICK ab \in Seq(S) : ab = a \o b
    BY ConcatProperties
  <2>2. PICK abc \in Seq(S) : abc = ab \o c
    BY ConcatProperties
  <2>3. PICK all \in Seq(S) : all = abc \o d
    BY ConcatProperties
  <2> QED
    BY <2>1, <2>2, <2>3
<1>10. AtWorker(k) = all
  BY ONLY <1>8, <1>9
<1>11. ASSUME NEW x \in S PROVE Times(x, all) = IF x \in ToSet(s) THEN 1 ELSE 0
  <2>1. Times(x, ab) = Times(x, a) + Times(x, b)
    BY <1>9, TimesConcat
  <2>2. Times(x, abc) = Times(x, ab) + Times(x, c)
    BY <1>9, TimesConcat
  <2>3. Times(x, all) = Times(x, abc) + Times(x, d)
    BY <1>9, TimesConcat
  <2>4. OfWorker(x, k) = Times(x, a) + Times(x, b) + Times(x, c) + Times(x, d)
    <3>1. OfWorker(x, k) =
              Times(x, worker[k].input)
              + Times(x, SubSeq(Share(k), worker[k].i + 1, Len(Share(k))))
              + Times(x, InBatches(Queued(outQueue[k]))) + Times(x, InGroups(packed[k]))
      BY OfWorkerTypes
    <3> QED
      BY ONLY <1>3, <1>4, <1>5, <1>6, <1>7, <3>1
  <2>5. OfWorker(x, k) = IF x \in ToSet(s) THEN 1 ELSE 0
    BY <1>1, <1>3 DEF MapInv
  <2>6. Times(x, all) = Times(x, a) + Times(x, b) + Times(x, c) + Times(x, d)
    BY ONLY <2>1, <2>2, <2>3
  <2> QED
    BY ONLY <2>4, <2>5, <2>6
<1>12. ToSet(s) \subseteq S
  <2>1. ToSet(s) = {s[l] : l \in 1 .. Len(s)}
    BY ElementsOf
  <2> QED
    BY <2>1, ElementIn
<1>13. ToSet(all) = ToSet(s) /\ Len(all) = Cardinality(ToSet(s))
  <2>1. PICK T : T = ToSet(s)
    OBVIOUS
  <2>2. T \subseteq S /\ \A x \in S : Times(x, all) = IF x \in T THEN 1 ELSE 0
    BY ONLY <1>11, <1>12, <2>1
  <2>3. ToSet(all) = T /\ Len(all) = Cardinality(T)
    BY ONLY <2>2, all \in Seq(S), OnceOnly
  <2> QED
    BY ONLY <2>1, <2>3
<1> QED
  BY <1>3, <1>10, <1>13 DEF Once

-----------------------------------------------------------------------------
(* What the ranks hold.                                                    *)

LEMMA HandsInit ==
    ASSUME Init
    PROVE  HandsInv
  BY DEF Init, HandsInv

LEMMA HandsStep ==
    ASSUME TypeInv, HandsInv, [Next]_vars
    PROVE  HandsInv'
<1>1. \A r \in RankSet : pc[r] # "train" => hand[r] = <<>>
  BY DEF HandsInv
<1>2. dropped # <<>> => \A r \in RankSet : pc[r] = "done"
  BY DEF HandsInv
<1>3. /\ pc \in [RankSet -> {"next", "train", "done", "raised"}]
      /\ hand \in [RankSet -> Groups]
  BY DEF TypeInv
<1>4. 0 \in RankSet
  BY RanksAssumption DEF RankSet
<1>5. CASE UNCHANGED <<pc, hand, dropped>>
  BY <1>1, <1>2, <1>5 DEF HandsInv, RankSet
<1>6. ASSUME NEW r \in RankSet, NextBatch(r) PROVE HandsInv'
  <2>1. pc[r] = "next" /\ UNCHANGED <<dropped>>
    BY <1>6 DEF NextBatch, loaderVars
  <2>2. dropped = <<>>
    BY <1>2, <2>1
  <2>3. \/ \E g : hand' = [hand EXCEPT ![r] = g] /\ pc' = [pc EXCEPT ![r] = "train"]
        \/ pc' = [pc EXCEPT ![r] = "done"] /\ hand' = hand
    BY <1>6 DEF NextBatch
  <2>4. \A q \in RankSet : pc'[q] # "train" => hand'[q] = <<>>
    BY <1>1, <1>3, <2>1, <2>3
  <2> QED
    BY <2>1, <2>2, <2>4 DEF HandsInv, RankSet
<1>7. CASE TrainStep
  <2>1. /\ hand' = [r \in RankSet |-> <<>>] /\ UNCHANGED <<dropped>>
        /\ \A r \in RankSet : pc[r] = "train"
    BY <1>7 DEF TrainStep, loaderVars
  <2>2. dropped = <<>>
    BY <1>2, <1>4, <2>1
  <2> QED
    BY <2>1, <2>2 DEF HandsInv, RankSet
<1>8. CASE SkipRaises
  <2>1. pc' = [pc EXCEPT ![0] = "raised"] /\ UNCHANGED <<hand, dropped>> /\ pc[0] = "next"
    BY <1>8 DEF SkipRaises, loaderVars
  <2>2. dropped = <<>>
    BY <1>2, <1>4, <2>1
  <2>3. \A q \in RankSet : pc'[q] # "train" => hand'[q] = <<>>
    BY <1>1, <1>3, <2>1
  <2> QED
    BY <2>1, <2>2, <2>3 DEF HandsInv, RankSet
<1>9. CASE Scatter
  <2>1. pc' = [r \in RankSet |-> "train"] /\ UNCHANGED <<dropped>> /\ \A r \in RankSet : pc[r] = "next"
    BY <1>9 DEF Scatter
  <2>2. dropped = <<>>
    BY <1>2, <1>4, <2>1
  <2> QED
    BY <2>1, <2>2 DEF HandsInv, RankSet
<1>10. CASE ScatterEnd
  <2>1. pc' = [r \in RankSet |-> "done"] /\ UNCHANGED <<hand>> /\ \A r \in RankSet : pc[r] = "next"
    BY <1>10 DEF ScatterEnd
  <2> QED
    BY <1>1, <2>1 DEF HandsInv, RankSet
<1>11. CASE PackingNext
  BY <1>5, <1>11 DEF PackingNext, loaderVars
<1>12. CASE BuildLoader \/ Collate \/ Pull \/ UNCHANGED vars
  BY <1>5, <1>12 DEF BuildLoader, Collate, Pull, loaderVars, vars
<1> QED
  BY <1>6, <1>7, <1>8, <1>9, <1>10, <1>11, <1>12 DEF Next

\* What has reached each rank, when td is what they have trained on and hd what they hold.
RankItems(td, hd) == [i \in 1 .. Ranks |-> InBatches(Append(td[i - 1], hd[i - 1]))]
Reached(td, hd) == InBatches(FlattenSeq([i \in 1 .. Ranks |-> Append(td[i - 1], hd[i - 1])]))

LEMMA OnRanksReached == OnRanks = Reached(trained, hand) /\ OnRanks' = Reached(trained', hand')
  BY DEF OnRanks, Reached, InBatches

LEMMA OnRanksFacts ==
    ASSUME NEW td \in [RankSet -> Seq(Groups)], NEW hd \in [RankSet -> Groups]
    PROVE  /\ RankItems(td, hd) \in Seq(Seq(1 .. N)) /\ Len(RankItems(td, hd)) = Ranks
           /\ \A i \in 1 .. Ranks : RankItems(td, hd)[i] = InBatches(Append(td[i - 1], hd[i - 1]))
           /\ Reached(td, hd) = FlattenSeq(RankItems(td, hd)) /\ Reached(td, hd) \in Seq(1 .. N)
<1>1. PICK S : S = 1 .. N
  OBVIOUS
<1>2. PICK G : G = Seq(Seq(S)) /\ G = Groups
  BY <1>1 DEF Groups
<1>3. PICK n \in Nat : n = Ranks
  BY RanksAssumption
<1>4. PICK s : s = [i \in 1 .. n |-> Append(td[i - 1], hd[i - 1])]
  OBVIOUS
<1>5. \A i \in 1 .. n : Append(td[i - 1], hd[i - 1]) \in Seq(G)
  <2> TAKE i \in 1 .. n
  <2>1. i - 1 \in RankSet
    BY <1>3 DEF RankSet
  <2>2. td[i - 1] \in Seq(G) /\ hd[i - 1] \in G
    BY <1>2, <2>1
  <2> QED
    BY <2>2, AppendProperties
<1>6. s \in [1 .. n -> Seq(G)]
  BY <1>4, <1>5
<1>7. s \in Seq(Seq(G)) /\ Len(s) = n
  BY ONLY <1>6, n \in Nat
<1>8. \A i \in 1 .. n : s[i] = Append(td[i - 1], hd[i - 1]) /\ s[i] \in Seq(G)
  BY <1>4, <1>5
<1>9. PICK t : t = [i \in 1 .. n |-> FlattenSeq(s[i])]
  OBVIOUS
<1>10. t \in Seq(G) /\ Len(t) = n /\ FlattenSeq(FlattenSeq(s)) = FlattenSeq(t)
  <2>1. PICK A : A = Seq(S)
    OBVIOUS
  <2>2. s \in Seq(Seq(Seq(A)))
    BY <1>7, <1>2, <2>1
  <2>3. t = [i \in 1 .. Len(s) |-> FlattenSeq(s[i])]
    BY <1>7, <1>9
  <2>4. t \in Seq(Seq(A)) /\ Len(t) = Len(s) /\ FlattenSeq(FlattenSeq(s)) = FlattenSeq(t)
    BY <2>2, <2>3, FlattenTwice
  <2> QED
    BY <1>7, <1>2, <2>1, <2>4
<1>11. PICK u : u = [i \in 1 .. n |-> FlattenSeq(t[i])]
  OBVIOUS
<1>12. u \in Seq(Seq(S)) /\ Len(u) = n /\ FlattenSeq(FlattenSeq(t)) = FlattenSeq(u)
  <2>1. u = [i \in 1 .. Len(t) |-> FlattenSeq(t[i])]
    BY <1>10, <1>11
  <2>2. t \in Seq(Seq(Seq(S)))
    BY <1>10, <1>2
  <2>3. u \in Seq(Seq(S)) /\ Len(u) = Len(t) /\ FlattenSeq(FlattenSeq(t)) = FlattenSeq(u)
    BY <2>1, <2>2, FlattenTwice
  <2> QED
    BY <1>10, <2>3
<1>13. \A i \in 1 .. n : u[i] = InBatches(Append(td[i - 1], hd[i - 1]))
  BY <1>8, <1>9, <1>11 DEF InBatches
<1>14. RankItems(td, hd) = u
  <2>1. RankItems(td, hd) = [i \in 1 .. n |-> InBatches(Append(td[i - 1], hd[i - 1]))]
    BY <1>3 DEF RankItems
  <2>2. u = [i \in 1 .. n |-> u[i]]
    BY <1>11
  <2> QED
    BY ONLY <1>13, <2>1, <2>2
<1>15. Reached(td, hd) = FlattenSeq(FlattenSeq(FlattenSeq(s)))
  BY <1>3, <1>4 DEF Reached, InBatches
<1>16. FlattenSeq(u) \in Seq(S)
  BY <1>12, FlattenType
<1> QED
  BY ONLY <1>3, <1>1, <1>10, <1>12, <1>13, <1>14, <1>15, <1>16

\* A training step leaves what has reached the ranks.
LEMMA TrainStepItems ==
    ASSUME TypeInv, TrainStep
    PROVE  OnRanks' = OnRanks
<1>1. PICK S : S = 1 .. N
  OBVIOUS
<1>2. PICK G : G = Seq(Seq(S)) /\ G = Groups
  BY <1>1 DEF Groups
<1>3. PICK n \in Nat : n = Ranks
  BY RanksAssumption
<1>4. trained \in [RankSet -> Seq(G)] /\ hand \in [RankSet -> G]
  BY <1>2 DEF TypeInv
<1>5. RankSet' = RankSet /\ Groups' = Groups
  BY Stays DEF TrainStep, packingVars, RankSet
<1>6. trained' \in [RankSet -> Seq(G)] /\ hand' \in [RankSet -> G]
  BY <1>2, <1>5, TypeTrainStep DEF TypeInv
<1>7. /\ trained' = [r \in RankSet |-> Append(trained[r], hand[r])]
      /\ hand' = [r \in RankSet |-> <<>>]
  BY DEF TrainStep
<1>8. \A i \in 1 .. n : InBatches(Append(trained'[i - 1], hand'[i - 1])) =
                        InBatches(Append(trained[i - 1], hand[i - 1]))
  <2> TAKE i \in 1 .. n
  <2>1. i - 1 \in RankSet
    BY <1>3 DEF RankSet
  <2>2. PICK bs \in Seq(G) : bs = trained'[i - 1] /\ bs = Append(trained[i - 1], hand[i - 1])
    BY <1>6, <1>7, <2>1
  <2>3. hand'[i - 1] = <<>>
    BY <1>7, <2>1
  <2>4. PICK u \in Seq(Seq(S)) : u = FlattenSeq(bs)
    BY <1>2, FlattenType
  <2>5. FlattenSeq(Append(bs, <<>>)) = u
    <3>1. <<>> \in Seq(Seq(S))
      OBVIOUS
    <3>2. FlattenSeq(Append(bs, <<>>)) = FlattenSeq(bs) \o <<>>
      BY <1>2, <3>1, FlattenAppend
    <3>3. u \o <<>> = u
      BY ConcatEmptySeq
    <3> QED
      BY <2>4, <3>2, <3>3
  <2> QED
    BY ONLY <2>2, <2>3, <2>4, <2>5 DEF InBatches
<1>9. RankItems(trained', hand') = RankItems(trained, hand)
  BY <1>3, <1>8 DEF RankItems
<1>10. G = Groups
  BY <1>2
<1>11. \A td \in [RankSet -> Seq(Groups)], hd \in [RankSet -> Groups] :
           Reached(td, hd) = FlattenSeq(RankItems(td, hd))
  BY ONLY OnRanksFacts
<1>12. /\ Reached(trained, hand) = FlattenSeq(RankItems(trained, hand))
       /\ Reached(trained', hand') = FlattenSeq(RankItems(trained', hand'))
  BY ONLY <1>4, <1>6, <1>10, <1>11
<1> QED
  BY <1>9, <1>12, OnRanksReached

-----------------------------------------------------------------------------
(* Each sample of a stream is in one place.                                *)

LEMMA WaitingFacts ==
    ASSUME NEW q \in Seq(Item), q = inQueue
    PROVE  /\ Waiting \in Seq(1 .. N) /\ Len(Waiting) = Len(q)
           /\ \A i \in 1 .. Len(q) : Waiting[i] = q[i].sample
<1>1. PICK n \in Nat : n = Len(q)
  OBVIOUS
<1>2. \A i \in 1 .. n : q[i].sample \in 1 .. N
  <2>1. \A i \in 1 .. n : q[i] \in Item
    BY <1>1, ElementIn
  <2> QED
    BY <2>1 DEF Item
<1>3. PICK w : w = [i \in 1 .. n |-> q[i].sample]
  OBVIOUS
<1>4. w \in [1 .. n -> 1 .. N]
  BY <1>2, <1>3
<1>5. w \in Seq(1 .. N) /\ Len(w) = n /\ \A i \in 1 .. n : w[i] = q[i].sample
  BY ONLY <1>3, <1>4, n \in Nat
<1>6. Waiting = w
  BY <1>1, <1>3 DEF Waiting
<1> QED
  BY <1>1, <1>5, <1>6

LEMMA AtWorkFacts ==
    ASSUME TypeInv
    PROVE  /\ AtWork \in Seq(0 .. N) /\ Len(AtWork) = Procs
           /\ \A p \in 1 .. Procs : AtWork[p] = proc[p].sample
<1>1. PICK n \in Nat, M \in Nat : n = Procs /\ M = N
  <2>1. Procs \in Nat /\ N \in Nat
    BY ConfFacts DEF TypeInv
  <2> QED
    BY <2>1
<1>2. \A p \in 1 .. n : proc[p].sample \in 0 .. M
  <2> TAKE p \in 1 .. n
  <2>1. proc[p] \in {Idle, Dead} \cup Item
    BY <1>1 DEF TypeInv
  <2>2. Idle.sample = 0 /\ Dead.sample = 0
    BY DEF Idle, Dead, NoSample
  <2>3. proc[p] \in Item => proc[p].sample \in 1 .. M
    BY <1>1 DEF Item
  <2>4. 0 \in 0 .. M /\ \A y \in 1 .. M : y \in 0 .. M
    OBVIOUS
  <2> QED
    BY <2>1, <2>2, <2>3, <2>4
<1>3. PICK w : w = [p \in 1 .. n |-> proc[p].sample]
  OBVIOUS
<1>4. w \in [1 .. n -> 0 .. M]
  BY <1>2, <1>3
<1>5. w \in Seq(0 .. M) /\ Len(w) = n /\ \A p \in 1 .. n : w[p] = proc[p].sample
  BY ONLY <1>3, <1>4, n \in Nat
<1>6. AtWork = w
  BY <1>1, <1>3 DEF AtWork
<1> QED
  BY <1>1, <1>5, <1>6

LEMMA ReaderTypes ==
    ASSUME TypeInv, NEW x
    PROVE  /\ Times(x, Waiting) \in Nat /\ Times(x, AtWork) \in Nat /\ HasResult(x) \in {0, 1}
           /\ Times(x, reader.res) \in Nat /\ Times(x, reader.data) \in Nat
<1>1. Waiting \in Seq(1 .. N) /\ AtWork \in Seq(0 .. N)
  BY WaitingFacts, AtWorkFacts DEF TypeInv
<1>2. reader.res \in Seq(0 .. N) /\ reader.data \in Seq(1 .. N)
  BY DEF TypeInv
<1>3. HasResult(x) \in {0, 1}
  BY DEF HasResult
<1> QED
  BY <1>1, <1>2, <1>3, TimesType

LEMMA LoaderTypes ==
    ASSUME TypeInv, NEW x
    PROVE  /\ Times(x, InGroups(rows)) \in Nat /\ Times(x, InGroups(batch)) \in Nat
           /\ Times(x, InBatches(loaded)) \in Nat /\ Times(x, InBatches(pulled)) \in Nat
           /\ Times(x, InBatches(skipped)) \in Nat /\ Times(x, InBatches(dropped)) \in Nat
           /\ Times(x, OnRanks) \in Nat
<1>1. PICK S : S = 1 .. N
  OBVIOUS
<1>2. /\ rows \in Seq(Seq(S)) /\ batch \in Seq(Seq(S))
      /\ loaded \in Seq(Seq(Seq(S))) /\ pulled \in Seq(Seq(Seq(S)))
      /\ skipped \in Seq(Seq(Seq(S))) /\ dropped \in Seq(Seq(Seq(S)))
  BY <1>1 DEF TypeInv, Groups
<1>3. /\ InGroups(rows) \in Seq(S) /\ InGroups(batch) \in Seq(S)
      /\ InBatches(loaded) \in Seq(S) /\ InBatches(pulled) \in Seq(S)
      /\ InBatches(skipped) \in Seq(S) /\ InBatches(dropped) \in Seq(S)
  BY ONLY <1>2, InGroupsIn, InBatchesIn
<1>4. OnRanks \in Seq(1 .. N)
  <2>1. trained \in [RankSet -> Seq(Groups)] /\ hand \in [RankSet -> Groups]
    BY DEF TypeInv
  <2>2. Reached(trained, hand) \in Seq(1 .. N)
    BY <2>1, OnRanksFacts
  <2> QED
    BY <2>2, OnRanksReached
<1> QED
  BY ONLY <1>3, <1>4, TimesType

LEMMA LoaderNat ==
    ASSUME TypeInv, NEW x
    PROVE  InLoader(x) \in Nat
<1>1. PICK l1 \in Nat, l2 \in Nat, l3 \in Nat, l4 \in Nat, l5 \in Nat, l6 \in Nat, l7 \in Nat :
          /\ l1 = Times(x, InGroups(rows)) /\ l2 = Times(x, InGroups(batch))
          /\ l3 = Times(x, InBatches(loaded)) /\ l4 = Times(x, InBatches(pulled))
          /\ l5 = Times(x, InBatches(skipped)) /\ l6 = Times(x, InBatches(dropped))
          /\ l7 = Times(x, OnRanks)
  BY LoaderTypes
<1>2. l1 + l2 + l3 + l4 + l5 + l6 + l7 \in Nat
  OBVIOUS
<1> QED
  BY ONLY <1>1, <1>2 DEF InLoader

Counts == \A x : InReader(x) + InLoader(x) \in Nat

LEMMA CountsHold == TypeInv => Counts
<1> SUFFICES ASSUME TypeInv, NEW x PROVE InReader(x) + InLoader(x) \in Nat
  BY DEF Counts
<1>1. PICK a \in Nat, b \in Nat, c \in {0, 1}, d \in Nat, e \in Nat, f \in Nat :
          a = Times(x, Waiting) /\ b = Times(x, AtWork) /\ c = HasResult(x)
          /\ d = Times(x, reader.res) /\ e = Times(x, reader.data) /\ f = InLoader(x)
  BY ReaderTypes, LoaderNat
<1>2. a + b + c + d + e + f \in Nat
  OBVIOUS
<1> QED
  BY ONLY <1>1, <1>2 DEF InReader

LEMMA CountsNext == TypeInv' => Counts'
  BY CountsHold, PTL

LEMMA ReaderSame ==
    ASSUME UNCHANGED <<reader, inQueue, proc, results>>
    PROVE  \A x : InReader(x)' = InReader(x)
  BY DEF InReader, Waiting, AtWork, HasResult

LEMMA LoaderSame ==
    ASSUME UNCHANGED <<rows, batch, loaded, pulled, skipped, dropped, hand, trained>>
    PROVE  \A x : InLoader(x)' = InLoader(x)
  BY DEF InLoader, OnRanks

\* What a step has to show: no sample is lost, but for one that cannot be encoded.
LEMMA StreamKept ==
    ASSUME TypeInv, TypeInv', StreamInv, conf' = conf, reader'.pos = reader.pos,
           reader'.pc = "fetch" => reader.pc = "fetch" \/ rows' = <<>>,
           rows = <<>> => rows' = <<>> \/ reader'.pc # "fetch",
           conf.streaming =>
               \A x \in 1 .. N : \/ InReader(x)' + InLoader(x)' = InReader(x) + InLoader(x)
                                 \/ /\ InReader(x)' + InLoader(x)' <= InReader(x) + InLoader(x)
                                    /\ ~IsOk(x)
    PROVE  StreamInv'
<1> SUFFICES ASSUME conf.streaming PROVE StreamInv'
  BY DEF StreamInv
<1>1. N' = N /\ \A x : IsOk(x)' = IsOk(x)
  BY Stays
<1>2. ASSUME NEW x \in 1 .. N PROVE Conservation(x, InReader(x) + InLoader(x))'
  <2>1. PICK c \in Nat, d \in Nat : c = InReader(x) + InLoader(x) /\ d = InReader(x)' + InLoader(x)'
    <3>1. InReader(x) + InLoader(x) \in Nat
      BY CountsHold DEF Counts
    <3>2. InReader(x)' + InLoader(x)' \in Nat
      BY CountsNext DEF Counts
    <3> QED
      BY <3>1, <3>2
  <2> QED
    BY <1>1, <2>1 DEF StreamInv, Conservation
<1>3. reader'.pc = "fetch" => rows' = <<>>
  BY DEF StreamInv
<1> QED
  BY <1>1, <1>2, <1>3 DEF StreamInv, Conservation

\* What a process may have.
Held == {Idle, Dead} \cup Item

Becomes(p, e) == proc' = [proc EXCEPT ![p] = e]

\* The lists before and after a process has taken up or put down a sample.
LEMMA AtWorkNext ==
    ASSUME TypeInv, NEW p \in 1 .. Procs, NEW e \in Held, Becomes(p, e), NEW x
    PROVE  /\ Times(x, AtWork') \in Nat
           /\ Times(x, AtWork') + (IF proc[p].sample = x THEN 1 ELSE 0) =
                  Times(x, AtWork) + (IF e.sample = x THEN 1 ELSE 0)
<1>1. PICK n \in Nat, M \in Nat : n = Procs /\ M = N
  <2>1. Procs \in Nat /\ N \in Nat
    BY ConfFacts DEF TypeInv
  <2> QED
    BY <2>1
<1>2. PICK w \in Seq(0 .. M) : /\ w = AtWork /\ Len(w) = n
                               /\ \A j \in 1 .. n : w[j] = proc[j].sample
  BY <1>1, AtWorkFacts
<1>3. PICK y \in 0 .. M : y = e.sample
  <2>1. Idle.sample = 0 /\ Dead.sample = 0
    BY DEF Idle, Dead, NoSample
  <2>2. e \in Item => e.sample \in 1 .. M
    BY <1>1 DEF Item
  <2>3. 0 \in 0 .. M /\ \A j \in 1 .. M : j \in 0 .. M
    OBVIOUS
  <2> QED
    BY <2>1, <2>2, <2>3 DEF Held
<1>4. PICK t : t = [w EXCEPT ![p] = y]
  OBVIOUS
<1>5. /\ t \in Seq(0 .. M) /\ Len(t) = n
      /\ Times(x, t) + (IF w[p] = x THEN 1 ELSE 0) = Times(x, w) + (IF y = x THEN 1 ELSE 0)
  <2>1. p \in 1 .. Len(w)
    BY <1>1, <1>2
  <2>2. PICK S : S = 0 .. M
    OBVIOUS
  <2>3. w \in Seq(S) /\ y \in S
    BY <2>2
  <2>4. t \in Seq(S) /\ Len(t) = Len(w)
    BY ONLY <1>4, <2>1, <2>3, ExceptSeq
  <2>5. t[p] = y /\ \A k \in 1 .. Len(w) : k # p => t[k] = w[k]
    BY <1>4, <2>1, <2>3
  <2>6. Times(x, t) + (IF w[p] = x THEN 1 ELSE 0) = Times(x, w) + (IF t[p] = x THEN 1 ELSE 0)
    BY ONLY <2>1, <2>3, <2>4, <2>5, TimesChanged
  <2> QED
    BY <1>2, <2>2, <2>4, <2>5, <2>6
<1>6. AtWork' = t
  <2>1. AtWork' = [j \in 1 .. n |-> proc'[j].sample]
    BY <1>1 DEF AtWork
  <2>2. \A j \in 1 .. n : proc'[j].sample = IF j = p THEN y ELSE w[j]
    BY <1>1, <1>2, <1>3 DEF TypeInv, Becomes
  <2>3. t = [j \in 1 .. n |-> IF j = p THEN y ELSE w[j]]
    <3>1. w \in [1 .. n -> 0 .. M]
      BY <1>2
    <3> QED
      BY ONLY <1>4, <3>1
  <2> QED
    BY ONLY <2>1, <2>2, <2>3
<1>7. w[p] = proc[p].sample
  BY <1>1, <1>2
<1>8. Times(x, t) \in Nat
  BY <1>5, TimesType
<1> QED
  BY ONLY <1>2, <1>3, <1>5, <1>6, <1>7, <1>8

LEMMA StreamTake ==
    ASSUME TypeInv, TypeInv', StreamInv, NEW p \in 1 .. Procs, TakeSample(p),
           UNCHANGED <<pc, hand, trained, order, loaderVars>>
    PROVE  StreamInv'
<1>1. PICK q \in Seq(Item), n \in Nat : q = inQueue /\ q # <<>> /\ n = Len(q)
  BY DEF TypeInv, TakeSample
<1>2. PICK e \in Item, t \in Seq(Item) : e = Head(q) /\ t = Tail(q)
  BY <1>1, HeadTailProperties
<1>3. n # 0 /\ e = q[1] /\ Len(t) = n - 1 /\ t = [i \in 1 .. (n - 1) |-> q[i + 1]]
  BY <1>1, <1>2, TailElements
<1>4. /\ proc[p] = Idle /\ proc' = [proc EXCEPT ![p] = e] /\ inQueue' = t
      /\ UNCHANGED <<conf, reader, results, rows, hand, trained, batch, loaded, pulled, skipped, dropped>>
  BY <1>1, <1>2 DEF TakeSample, mapVars, loaderVars
<1>5. PICK S : S = 1 .. N
  OBVIOUS
<1>6. PICK w \in Seq(S) : w = Waiting /\ Len(w) = n /\ \A i \in 1 .. n : w[i] = q[i].sample
  BY <1>1, <1>5, WaitingFacts
<1>7. w # <<>> /\ Head(w) = e.sample /\ Waiting' = Tail(w)
  <2>1. w # <<>>
    BY <1>3, <1>6
  <2>2. Head(w) = w[1] /\ Tail(w) = [i \in 1 .. (n - 1) |-> w[i + 1]]
    BY <1>6, <2>1, TailElements
  <2>3. Waiting' = [i \in 1 .. (n - 1) |-> t[i].sample]
    BY <1>3, <1>4 DEF Waiting
  <2>4. \A i \in 1 .. (n - 1) : t[i].sample = w[i + 1]
    <3>1. \A i \in 1 .. (n - 1) : i + 1 \in 1 .. n
      OBVIOUS
    <3> QED
      BY <1>3, <1>6, <3>1
  <2>5. w[1] = e.sample
    <3>1. 1 \in 1 .. n
      BY <1>3
    <3> QED
      BY <1>3, <1>6, <3>1
  <2> QED
    BY ONLY <2>1, <2>2, <2>3, <2>4, <2>5
<1>8. ASSUME NEW x \in 1 .. N PROVE InReader(x)' + InLoader(x)' = InReader(x) + InLoader(x)
  <2>1. Times(x, Waiting) = Times(x, <<e.sample>>) + Times(x, Waiting')
    BY <1>6, <1>7, HeadTailTimes
  <2>2. Times(x, <<e.sample>>) = IF x = e.sample THEN 1 ELSE 0
    BY TimesSingle
  <2>3. /\ Times(x, AtWork') \in Nat
        /\ Times(x, AtWork') + 0 = Times(x, AtWork) + (IF e.sample = x THEN 1 ELSE 0)
    <3>1. proc[p].sample # x
      <4>1. N \in Nat /\ proc[p].sample = 0
        BY <1>4, ConfFacts DEF TypeInv, Idle, NoSample
      <4> QED
        BY <4>1
    <3>2. e \in Held
      BY DEF Held
    <3>3. /\ Times(x, AtWork') \in Nat
          /\ Times(x, AtWork') + (IF proc[p].sample = x THEN 1 ELSE 0) =
                  Times(x, AtWork) + (IF e.sample = x THEN 1 ELSE 0)
      <4>1. Becomes(p, e)
        BY <1>4 DEF Becomes
      <4> QED
        BY ONLY TypeInv, p \in 1 .. Procs, <4>1, <3>2, AtWorkNext
    <3> QED
      BY ONLY <3>1, <3>3
  <2>4. InLoader(x)' = InLoader(x)
    BY <1>4, LoaderSame
  <2>5. InReader(x)' = Times(x, Waiting') + Times(x, AtWork') + HasResult(x)
                       + Times(x, reader.res) + Times(x, reader.data)
    BY <1>4 DEF InReader, HasResult
  <2>6. PICK a \in Nat, a1 \in Nat, b \in Nat, b1 \in Nat, c \in {0, 1}, d \in Nat, f \in Nat :
          /\ a = Times(x, Waiting) /\ b = Times(x, AtWork) /\ c = HasResult(x)
          /\ d = Times(x, reader.res) /\ f = Times(x, reader.data)
          /\ a1 = Times(x, Waiting') /\ b1 = Times(x, AtWork')
    <3>1. Tail(w) \in Seq(S)
      BY <1>7, HeadTailProperties
    <3>2. Times(x, Waiting') \in Nat
      BY <1>7, <3>1, TimesType
    <3>3. Times(x, AtWork') \in Nat
      BY <2>3, ReaderTypes
    <3> QED
      BY <3>2, <3>3, ReaderTypes
  <2>7. PICK z \in {0, 1} : z = IF x = e.sample THEN 1 ELSE 0
    OBVIOUS
  <2>9. a = z + a1 /\ b1 + 0 = b + z
    <3>1. (IF e.sample = x THEN 1 ELSE 0) = z
      BY ONLY <2>7
    <3> QED
      BY ONLY <2>1, <2>2, <2>3, <2>6, <2>7, <3>1
  <2>10. a1 + b1 + c + d + f = a + b + c + d + f
    BY <2>9
  <2>8. InReader(x)' = InReader(x)
    BY ONLY <2>5, <2>6, <2>10 DEF InReader
  <2> QED
    BY <2>4, <2>8
<1> QED
  BY <1>4, <1>8, StreamKept

LEMMA StreamEncode ==
    ASSUME TypeInv, TypeInv', StreamInv, NEW p \in 1 .. Procs, Encode(p),
           UNCHANGED <<pc, hand, trained, order, loaderVars>>
    PROVE  StreamInv'
<1>1. /\ proc[p] \in Item
      /\ UNCHANGED <<conf, worker, outQueue, packed, ended, reader, inQueue, rows>>
  BY EncodeEffect
<1>2. PICK d \in {Idle, Dead} :
          /\ proc' = [proc EXCEPT ![p] = d]
          /\ d = Dead => results' = results /\ ~IsOk(proc[p].sample)
          /\ d = Idle =>
                 \E s : /\ s = IF IsOk(proc[p].sample) THEN proc[p].sample ELSE NoSample
                        /\ results' = results \cup {[at |-> proc[p].at, sample |-> s]}
  BY EncodeEffect
<1>3. PICK y \in Nat \ {0} : y = proc[p].sample
  <2>1. N \in Nat
    BY ConfFacts DEF TypeInv
  <2> QED
    BY <1>1, <2>1 DEF Item
<1>4. UNCHANGED <<hand, trained, batch, loaded, pulled, skipped, dropped>>
  BY DEF loaderVars
<1>5. d.sample = 0 /\ Idle # Dead
  <2>1. Idle.at = 0 /\ Dead.at = -1 /\ Idle.sample = 0 /\ Dead.sample = 0
    BY DEF Idle, Dead, NoSample
  <2> QED
    BY <2>1
<1>6. ASSUME NEW x \in 1 .. N, conf.streaming
      PROVE  \/ InReader(x)' + InLoader(x)' = InReader(x) + InLoader(x)
             \/ /\ InReader(x)' + InLoader(x)' <= InReader(x) + InLoader(x)
                /\ ~IsOk(x)
  <2>1. x \in Nat \ {0}
    <3>1. N \in Nat
      BY ConfFacts DEF TypeInv
    <3> QED
      BY <3>1
  <2>2. /\ Times(x, AtWork') \in Nat
        /\ Times(x, AtWork') + (IF y = x THEN 1 ELSE 0) = Times(x, AtWork)
    <3>1. d \in Held
      BY DEF Held
    <3>2. Becomes(p, d)
      BY <1>2 DEF Becomes
    <3>3. /\ Times(x, AtWork') \in Nat
          /\ Times(x, AtWork') + (IF proc[p].sample = x THEN 1 ELSE 0) =
                  Times(x, AtWork) + (IF d.sample = x THEN 1 ELSE 0)
      BY ONLY TypeInv, p \in 1 .. Procs, <3>1, <3>2, AtWorkNext
    <3>4. Times(x, AtWork) \in Nat
      BY ReaderTypes
    <3> QED
      BY ONLY <1>3, <1>5, <2>1, <3>3, <3>4
  <2>3. HasResult(x)' = IF y = x /\ IsOk(x) /\ d = Idle THEN 1 ELSE HasResult(x)
    <3>1. CASE d = Dead
      BY <1>2, <1>5, <3>1 DEF HasResult
    <3>2. CASE d = Idle
      <4>1. PICK s, e :
                /\ s = IF IsOk(y) THEN y ELSE 0
                /\ results' = results \cup {e} /\ e.sample = s
        <5>1. PICK s, at :
                  /\ s = IF IsOk(y) THEN y ELSE 0
                  /\ results' = results \cup {[at |-> at, sample |-> s]}
          BY <1>2, <1>3, <3>2 DEF NoSample
        <5>2. PICK e : e = [at |-> at, sample |-> s]
          OBVIOUS
        <5>3. e.sample = s
          BY <5>2
        <5> QED
          BY ONLY <5>1, <5>2, <5>3
      <4>2. (\E r \in results' : r.sample = x) <=> (\E r \in results : r.sample = x) \/ s = x
        BY <4>1
      <4>3. s = x <=> y = x /\ IsOk(x)
        BY <2>1, <4>1
      <4> QED
        BY ONLY <3>2, <4>2, <4>3 DEF HasResult
    <3> QED
      BY <3>1, <3>2
  <2>4. InLoader(x)' = InLoader(x)
    BY <1>1, <1>4, LoaderSame
  <2>5. InReader(x)' = Times(x, Waiting) + Times(x, AtWork') + HasResult(x)'
                       + Times(x, reader.res) + Times(x, reader.data)
    BY <1>1 DEF InReader, Waiting
  <2>6. PICK a \in Nat, b \in Nat, b1 \in Nat, c \in {0, 1}, d1 \in Nat, f \in Nat, g \in Nat :
            /\ a = Times(x, Waiting) /\ b = Times(x, AtWork) /\ c = HasResult(x)
            /\ d1 = Times(x, reader.res) /\ f = Times(x, reader.data)
            /\ b1 = Times(x, AtWork') /\ g = InLoader(x)
    <3>1. InLoader(x) \in Nat
      BY LoaderNat
    <3> QED
      BY <2>2, <3>1, ReaderTypes
  <2>7. InReader(x) + InLoader(x) = a + b + c + d1 + f + g
    BY ONLY <2>6 DEF InReader
  <2>8. InReader(x) + InLoader(x) <= 1
    BY <1>6 DEF StreamInv, Conservation
  <2>9. CASE y # x
    <3>1. b1 = b /\ HasResult(x)' = c
      BY <2>2, <2>3, <2>6, <2>9
    <3>2. InReader(x)' + InLoader(x)' = a + b + c + d1 + f + g
      BY ONLY <2>4, <2>5, <2>6, <3>1
    <3> QED
      BY <2>7, <3>2
  <2>10. CASE y = x /\ IsOk(x)
    <3>1. d = Idle
      BY <1>2, <1>3, <2>10
    <3>2. b1 + 1 = b /\ HasResult(x)' = 1
      BY <2>2, <2>3, <2>6, <2>10, <3>1
    <3>3. c = 0
      BY ONLY <2>6, <2>7, <2>8, <3>2
    <3>4. InReader(x)' + InLoader(x)' = a + b1 + 1 + d1 + f + g
      BY ONLY <2>4, <2>5, <2>6, <3>2
    <3>5. a + b1 + 1 + d1 + f + g = a + b + c + d1 + f + g
      BY ONLY <2>6, <3>2, <3>3
    <3> QED
      BY <2>7, <3>4, <3>5
  <2>11. CASE y = x /\ ~IsOk(x)
    <3>1. b1 + 1 = b /\ HasResult(x)' = c
      BY <2>2, <2>3, <2>6, <2>11
    <3>2. InReader(x)' + InLoader(x)' = a + b1 + c + d1 + f + g
      BY ONLY <2>4, <2>5, <2>6, <3>1
    <3>3. a + b1 + c + d1 + f + g <= a + b + c + d1 + f + g
      BY ONLY <2>6, <3>1
    <3> QED
      BY <2>7, <2>11, <3>2, <3>3
  <2> QED
    BY <2>9, <2>10, <2>11
<1> QED
  BY <1>1, <1>6, StreamKept

\* Of what is put on the queue each sample is new.
LEMMA SentTimes ==
    ASSUME NEW pos \in Nat, NEW num \in Nat, NEW x \in Nat \ {0}, NEW w,
           w = [k \in 1 .. num |-> pos + k]
    PROVE  /\ w \in Seq(Nat)
           /\ Times(x, w) = IF pos < x /\ x <= pos + num THEN 1 ELSE 0
<1>1. \A k \in 1 .. num : pos + k \in Nat
  OBVIOUS
<1>2. w \in [1 .. num -> Nat]
  BY <1>1
<1>3. w \in Seq(Nat) /\ Len(w) = num /\ \A k \in 1 .. num : w[k] = pos + k
  BY ONLY <1>2, num \in Nat, w = [k \in 1 .. num |-> pos + k]
<1>4. OneToOne(w)
  <2>1. \A i, j \in 1 .. num : pos + i = pos + j => i = j
    OBVIOUS
  <2> QED
    BY <1>3, <2>1 DEF OneToOne
<1>5. Times(x, w) <= 1 /\ Times(x, w) \in Nat
  BY <1>3, <1>4, TimesOnce, TimesType
<1>6. ToSet(w) = {w[k] : k \in 1 .. num}
  BY ONLY <1>3, ElementsOf
<1>7. x \in ToSet(w) <=> pos < x /\ x <= pos + num
  <2>1. x \in ToSet(w) <=> \E k \in 1 .. num : x = pos + k
    BY <1>3, <1>6
  <2>2. (\E k \in 1 .. num : x = pos + k) <=> pos < x /\ x <= pos + num
    <3>1. ASSUME pos < x /\ x <= pos + num PROVE \E k \in 1 .. num : x = pos + k
      <4>1. x - pos \in 1 .. num /\ x = pos + (x - pos)
        BY <3>1
      <4> QED
        BY ONLY <4>1
    <3> QED
      BY <3>1
  <2> QED
    BY <2>1, <2>2
<1>8. Times(x, w) = 0 <=> x \notin ToSet(w)
  BY <1>3, TimesPresent
<1> QED
  BY ONLY <1>3, <1>5, <1>7, <1>8

LEMMA NoTimes ==
    ASSUME NEW num \in Nat, NEW x \in Nat \ {0}, NEW w, w = [k \in 1 .. num |-> NoSample]
    PROVE  Times(x, w) = 0
<1>1. w \in [1 .. num -> {0}]
  BY DEF NoSample
<1>2. w \in Seq({0}) /\ Len(w) = num /\ \A k \in 1 .. num : w[k] = 0
  BY ONLY <1>1, num \in Nat
<1>3. ToSet(w) = {w[k] : k \in 1 .. num}
  BY <1>2, ElementsOf
<1>4. x \notin ToSet(w)
  BY <1>2, <1>3
<1> QED
  BY <1>2, <1>4, TimesAbsent

LEMMA StreamPut ==
    ASSUME TypeInv, TypeInv', ReaderInv, StreamInv, PutInterval,
           UNCHANGED <<pc, hand, trained, order, loaderVars>>
    PROVE  StreamInv'
<1>1. PICK num \in Nat :
          /\ reader.pos + num <= N
          /\ Sent(num) \in Seq(Item) /\ Len(Sent(num)) = num
          /\ inQueue' = inQueue \o Sent(num)
          /\ reader'.pos = reader.pos + num /\ reader'.data = reader.data
          /\ reader'.res = [k \in 1 .. num |-> NoSample]
          /\ reader.pc = "put" /\ rows = <<>> /\ conf.streaming
          /\ UNCHANGED <<conf, proc, results, rows>>
  BY PutEffect
<1>2. inQueue = <<>> /\ reader.res = <<>>
  BY <1>1, NothingUnderWay DEF ReaderInv
<1>3. inQueue' = Sent(num)
  BY <1>1, <1>2, ConcatEmptySeq
<1>4. PICK pos \in Nat, M \in Nat : pos = reader.pos /\ M = N
  <2>1. N \in Nat
    BY ConfFacts DEF TypeInv
  <2> QED
    BY <2>1 DEF TypeInv
<1>5. Waiting = <<>>
  BY <1>2 DEF Waiting
<1>6. PICK w : w = [k \in 1 .. num |-> pos + k]
  OBVIOUS
<1>7. Waiting' = w
  <2>1. Waiting' = [i \in 1 .. num |-> Sent(num)[i].sample]
    BY <1>1, <1>3 DEF Waiting
  <2>2. \A i \in 1 .. num : Sent(num)[i].sample = pos + i
    BY <1>4 DEF Sent
  <2> QED
    BY ONLY <1>6, <2>1, <2>2
<1>8. UNCHANGED <<hand, trained, batch, loaded, pulled, skipped, dropped>>
  BY DEF loaderVars
<1>9. N' = N /\ \A x : IsOk(x)' = IsOk(x)
  BY <1>1, Stays
<1>10. ASSUME NEW x \in 1 .. M PROVE Conservation(x, InReader(x) + InLoader(x))'
  <2>1. x \in Nat \ {0}
    OBVIOUS
  <2>2. PICK z \in {0, 1} : z = IF pos < x /\ x <= pos + num THEN 1 ELSE 0
    OBVIOUS
  <2>3. Times(x, Waiting) = 0 /\ Times(x, reader.res) = 0
    BY <1>2, <1>5, TimesEmpty
  <2>4. Times(x, Waiting') = z
    BY <1>6, <1>7, <2>1, <2>2, SentTimes
  <2>5. Times(x, reader'.res) = 0
    BY <1>1, <2>1, NoTimes
  <2>6. InLoader(x)' = InLoader(x)
    BY <1>1, <1>8, LoaderSame
  <2>7. PICK b \in Nat, c \in {0, 1}, d \in Nat, g \in Nat :
            /\ b = Times(x, AtWork) /\ c = HasResult(x) /\ d = Times(x, reader.data)
            /\ g = InLoader(x)
    BY ReaderTypes, LoaderNat
  <2>8. InReader(x) + InLoader(x) = b + c + d + g
    <3>1. InReader(x) + InLoader(x) = 0 + b + c + 0 + d + g
      BY ONLY <2>3, <2>7 DEF InReader
    <3> QED
      BY ONLY <2>7, <3>1
  <2>9. InReader(x)' + InLoader(x)' = z + (b + c + d + g)
    <3>1. AtWork' = AtWork /\ HasResult(x)' = HasResult(x)
      BY <1>1 DEF AtWork, HasResult
    <3>2. InReader(x)' + InLoader(x)' = z + b + c + 0 + d + g
      BY ONLY <1>1, <2>4, <2>5, <2>6, <2>7, <3>1 DEF InReader
    <3> QED
      BY ONLY <2>2, <2>7, <3>2
  <2>10. PICK n \in Nat : n = b + c + d + g
    OBVIOUS
  <2>11. Conservation(x, n)
    BY <1>1, <1>4, <2>8, <2>10 DEF StreamInv
  <2>12. z + n <= 1
    BY <1>4, <2>2, <2>10, <2>11 DEF Conservation
  <2>13. x > pos + num => z + n = 0
    BY <1>4, <2>2, <2>10, <2>11 DEF Conservation
  <2>14. x <= pos + num /\ IsOk(x) => z + n = 1
    BY <1>4, <2>2, <2>10, <2>11 DEF Conservation
  <2> QED
    BY <1>1, <1>4, <1>9, <2>9, <2>10, <2>12, <2>13, <2>14 DEF Conservation
<1> QED
  BY <1>1, <1>4, <1>9, <1>10 DEF StreamInv, Conservation

LEMMA StreamFetch ==
    ASSUME TypeInv, TypeInv', ReaderInv, StreamInv, Fetch,
           UNCHANGED <<pc, hand, trained, order, loaderVars>>
    PROVE  StreamInv'
<1>1. PICK r \in results :
          /\ r \in [at : 1 .. Interval, sample : 0 .. N]
          /\ reader' \in [pc : {"put", "fetch", "end"}, pos : 0 .. N, data : Seq(1 .. N),
                          res : Seq(0 .. N), got : Nat, finished : BOOLEAN]
          /\ reader.pc = "fetch" /\ reader'.pos = reader.pos /\ reader'.data = reader.data
          /\ reader'.res = [reader.res EXCEPT ![r.at] = r.sample]
          /\ results' = results \ {r}
          /\ UNCHANGED <<conf, inQueue, proc, rows>>
  BY FetchEffect
<1>2. PICK M \in Nat, base \in Nat, n \in Nat : M = N /\ base = Base /\ n = Len(reader.res)
  <2>1. N \in Nat /\ Base \in Nat
    BY ConfFacts DEF TypeInv, ReaderInv
  <2>2. Len(reader.res) \in Nat
    BY DEF TypeInv
  <2> QED
    BY <2>1, <2>2
<1>3. PICK S : S = 0 .. M
  OBVIOUS
<1>4. PICK s \in Seq(S), t \in Seq(S) : s = reader.res /\ t = reader'.res
  BY <1>1, <1>2, <1>3 DEF TypeInv
<1>5. PICK at \in Nat, y \in Nat : at = r.at /\ y = r.sample
  <2>1. r.at \in 1 .. Interval /\ r.sample \in 0 .. M /\ Interval \in Nat
    BY <1>1, <1>2, SizesAssumption
  <2> QED
    BY <2>1
<1>6. at \in 1 .. n /\ y = IF IsOk(base + at) THEN base + at ELSE 0
  <2>1. r.at <= n /\ r.sample = IF IsOk(base + r.at) THEN base + r.at ELSE 0
    BY <1>2 DEF ReaderInv, NoSample
  <2>2. r.at \in 1 .. Interval /\ Interval \in Nat
    BY <1>1, SizesAssumption
  <2> QED
    BY <1>5, <2>1, <2>2
<1>7. Len(t) = n /\ t[at] = y /\ \A k \in 1 .. n : k # at => t[k] = s[k]
  <2>1. t = [s EXCEPT ![at] = y]
    BY <1>1, <1>4, <1>5
  <2>2. Len(s) = n
    BY <1>2, <1>4
  <2>3. y \in S
    BY <1>1, <1>2, <1>3, <1>5
  <2>4. Len(t) = n
    BY ONLY <1>6, <2>1, <2>2, <2>3, s \in Seq(S), ExceptSeq
  <2> QED
    BY <1>6, <2>1, <2>2, <2>4
<1>8. \A k \in 1 .. n : s[k] # 0 => s[k] = base + k /\ IsOk(base + k)
  BY <1>2, <1>4 DEF ReaderInv, NoSample
<1>9. \A q \in results : /\ q.sample = IF IsOk(base + q.at) THEN base + q.at ELSE 0
                         /\ q \in [at : 1 .. Interval, sample : 0 .. N]
  BY <1>2 DEF ReaderInv, TypeInv, NoSample
<1>10. UNCHANGED <<hand, trained, batch, loaded, pulled, skipped, dropped>>
  BY DEF loaderVars
<1>11. ASSUME NEW x \in 1 .. M, conf.streaming
       PROVE  InReader(x)' + InLoader(x)' = InReader(x) + InLoader(x)
  <2>1. PICK a \in Nat, b \in Nat, c \in {0, 1}, d \in Nat, d1 \in Nat, f \in Nat, g \in Nat :
            /\ a = Times(x, Waiting) /\ b = Times(x, AtWork) /\ c = HasResult(x)
            /\ d = Times(x, s) /\ d1 = Times(x, t) /\ f = Times(x, reader.data) /\ g = InLoader(x)
    BY <1>4, ReaderTypes, LoaderNat, TimesType
  <2>2. PICK c1 \in {0, 1} : c1 = HasResult(x)'
    BY DEF HasResult
  <2>3. InReader(x) + InLoader(x) = a + b + c + d + f + g
    BY ONLY <1>4, <2>1 DEF InReader
  <2>4. InReader(x)' + InLoader(x)' = a + b + c1 + d1 + f + g
    <3>1. InLoader(x)' = InLoader(x)
      BY <1>1, <1>10, LoaderSame
    <3>2. Waiting' = Waiting /\ AtWork' = AtWork
      BY <1>1 DEF Waiting, AtWork
    <3> QED
      BY ONLY <1>1, <1>4, <2>1, <2>2, <3>1, <3>2 DEF InReader
  <2>5. a + b + c + d + f + g <= 1
    BY <1>2, <1>11, <2>3 DEF StreamInv, Conservation
  <2>6. PICK z \in {0, 1}, v \in {0, 1} :
            z = (IF s[at] = x THEN 1 ELSE 0) /\ v = (IF y = x THEN 1 ELSE 0)
    OBVIOUS
  <2>7. d1 + z = d + v
    <3>1. Len(s) = n /\ Len(t) = Len(s) /\ at \in 1 .. Len(s) /\ \A k \in 1 .. Len(s) : k # at => t[k] = s[k]
      BY <1>2, <1>4, <1>6, <1>7
    <3>2. Times(x, t) + (IF s[at] = x THEN 1 ELSE 0) = Times(x, s) + (IF t[at] = x THEN 1 ELSE 0)
      BY ONLY <3>1, s \in Seq(S), t \in Seq(S), TimesChanged
    <3>3. (IF t[at] = x THEN 1 ELSE 0) = v /\ (IF s[at] = x THEN 1 ELSE 0) = z
      BY ONLY <1>7, <2>6
    <3> QED
      BY ONLY <2>1, <3>2, <3>3
  <2>8. x # 0
    OBVIOUS
  <2>9. CASE y # x
    <3>1. c1 = c
      <4>1. (\E q \in results' : q.sample = x) <=> (\E q \in results : q.sample = x)
        BY <1>1, <1>5, <2>9
      <4> QED
        BY ONLY <2>1, <2>2, <4>1 DEF HasResult
    <3>2. s[at] # x
      BY <1>6, <1>8, <2>8, <2>9
    <3> QED
      BY <2>3, <2>4, <2>6, <2>7, <2>9, <3>1, <3>2
  <2>10. CASE y = x
    <3>1. c = 1
      BY <1>5, <2>1, <2>10 DEF HasResult
    <3>2. c1 = 0
      <4>1. ASSUME NEW q \in results, q.sample = x PROVE q = r
        <5>1. PICK e \in Nat : e = q.at
          <6>1. q.at \in 1 .. Interval /\ Interval \in Nat
            BY <1>9, SizesAssumption
          <6> QED
            BY <6>1
        <5>2. x = base + e /\ x = base + at
          BY <1>6, <1>9, <2>8, <2>10, <4>1, <5>1
        <5>3. e = at
          BY ONLY <5>2, e \in Nat, at \in Nat, base \in Nat
        <5>4. q.at = r.at /\ q.sample = r.sample
          BY <1>5, <2>10, <4>1, <5>1, <5>3
        <5> QED
          BY <1>1, <1>9, <5>4
      <4>2. ~ \E q \in results' : q.sample = x
        BY <1>1, <4>1
      <4> QED
        BY ONLY <2>2, <4>2 DEF HasResult
    <3>3. d = 0
      BY <2>5, <3>1
    <3>4. s[at] # x
      <4>1. Places(x, s) = {k \in DOMAIN s : s[k] = x}
        BY DEF Places
      <4>2. x \notin ToSet(s)
        BY <2>1, <3>3, TimesPresent
      <4>3. ToSet(s) = {s[k] : k \in 1 .. Len(s)}
        BY ElementsOf
      <4> QED
        BY <1>2, <1>4, <1>6, <4>2, <4>3
    <3>5. d1 = 1
      BY <2>6, <2>7, <2>10, <3>3, <3>4
    <3> QED
      BY <2>3, <2>4, <3>1, <3>2, <3>3, <3>5
  <2> QED
    BY <2>9, <2>10
<1> QED
  BY <1>1, <1>2, <1>11, StreamKept

LEMMA StreamPack ==
    ASSUME TypeInv, TypeInv', ReaderInv, StreamInv, PackInterval,
           UNCHANGED <<pc, hand, trained, order, loaderVars>>
    PROVE  StreamInv'
<1>1. /\ reader' = [reader EXCEPT !.data = reader'.data, !.res = <<>>, !.got = 0,
                                  !.pc = IF reader.finished THEN "end" ELSE "put"]
      /\ \A x \in 1 .. N : Times(x, InGroups(rows')) + Times(x, reader'.data) =
                           Times(x, reader.data) + Times(x, reader.res)
  BY IntervalEffect
<1>2. reader.pc = "fetch" /\ UNCHANGED <<conf, inQueue, proc, results>>
  BY DEF PackInterval
<1>3. reader'.pos = reader.pos /\ reader'.res = <<>> /\ reader'.pc # "fetch"
  BY <1>1 DEF TypeInv
<1>4. UNCHANGED <<hand, trained, batch, loaded, pulled, skipped, dropped>>
  BY DEF loaderVars
<1>5. ASSUME NEW x \in 1 .. N, conf.streaming
      PROVE  InReader(x)' + InLoader(x)' = InReader(x) + InLoader(x)
  <2>1. rows = <<>>
    BY <1>2, <1>5 DEF StreamInv
  <2>2. Times(x, InGroups(rows)) = 0 /\ Times(x, reader'.res) = 0
    BY <1>3, <2>1, InNone, TimesEmpty
  <2>3. PICK a \in Nat, b \in Nat, c \in {0, 1}, d \in Nat, e \in Nat :
            /\ a = Times(x, Waiting) /\ b = Times(x, AtWork) /\ c = HasResult(x)
            /\ d = Times(x, reader.res) /\ e = Times(x, reader.data)
    BY ReaderTypes
  <2>4. PICK g \in Nat, h \in Nat, i \in Nat, j \in Nat, k \in Nat, l \in Nat :
          /\ g = Times(x, InGroups(batch)) /\ h = Times(x, InBatches(loaded))
          /\ i = Times(x, InBatches(pulled)) /\ j = Times(x, InBatches(skipped))
          /\ k = Times(x, InBatches(dropped)) /\ l = Times(x, OnRanks)
    BY LoaderTypes
  <2>5. PICK e1 \in Nat, f1 \in Nat : e1 = Times(x, reader'.data) /\ f1 = Times(x, InGroups(rows'))
    <3>1. rows' \in Groups /\ reader'.data \in Seq(1 .. N)
      BY IntervalEffect
    <3>2. PICK S : S = 1 .. N
      OBVIOUS
    <3>3. rows' \in Seq(Seq(S))
      BY <3>1, <3>2 DEF Groups
    <3>4. InGroups(rows') \in Seq(S)
      BY <3>3, InGroupsIn
    <3> QED
      BY ONLY <3>1, <3>4, TimesType
  <2>6. f1 + e1 = e + d
    BY ONLY <1>1, <1>5, <2>3, <2>5
  <2>7. InReader(x) = a + b + c + d + e
    BY ONLY <2>3 DEF InReader
  <2>8. InReader(x)' = a + b + c + 0 + e1
    <3>1. Waiting' = Waiting /\ AtWork' = AtWork /\ HasResult(x)' = HasResult(x)
      BY <1>2 DEF Waiting, AtWork, HasResult
    <3> QED
      BY ONLY <2>2, <2>3, <2>5, <3>1 DEF InReader
  <2>9. InLoader(x) = 0 + g + h + i + j + k + l
    BY ONLY <2>2, <2>4 DEF InLoader
  <2>10. InLoader(x)' = f1 + g + h + i + j + k + l
    <3>1. OnRanks' = OnRanks
      BY <1>4 DEF OnRanks
    <3>2. Times(x, InGroups(rows))' = f1
      BY ONLY <2>5 DEF InGroups
    <3> QED
      BY ONLY <1>4, <2>4, <3>1, <3>2 DEF InLoader, InGroups, InBatches
  <2>11. a + b + c + 0 + e1 + (f1 + g + h + i + j + k + l) = a + b + c + d + e + (0 + g + h + i + j + k + l)
    BY <2>6
  <2> QED
    BY ONLY <2>7, <2>8, <2>9, <2>10, <2>11
<1> QED
  BY <1>2, <1>3, <1>5, StreamKept

LEMMA InBatchesCons ==
    ASSUME NEW S, NEW g \in Seq(Seq(S)), NEW bs \in Seq(Seq(Seq(S))), NEW x
    PROVE  /\ Times(x, InGroups(g)) \in Nat /\ Times(x, InBatches(bs)) \in Nat
           /\ Times(x, InBatches(<<g>> \o bs)) = Times(x, InGroups(g)) + Times(x, InBatches(bs))
<1>1. PICK G : G = Seq(Seq(S))
  OBVIOUS
<1>2. PICK T : T = Seq(S)
  OBVIOUS
<1>3. g \in Seq(T) /\ bs \in Seq(Seq(T)) /\ <<g>> \in Seq(Seq(T))
  BY <1>2
<1>4. FlattenSeq(<<g>> \o bs) = FlattenSeq(<<g>>) \o FlattenSeq(bs) /\ FlattenSeq(<<g>>) = g
  <2>1. PICK u \in Seq(Seq(T)) : u = <<g>>
    BY <1>3
  <2>2. FlattenSeq(u \o bs) = FlattenSeq(u) \o FlattenSeq(bs)
    BY ONLY <1>3, u \in Seq(Seq(T)), FlattenConcat
  <2>3. FlattenSeq(<<g>>) = g
    BY ONLY <1>3, FlattenOne
  <2> QED
    BY ONLY <2>1, <2>2, <2>3
<1>5. PICK f : f = FlattenSeq(bs)
  OBVIOUS
<1>6. f \in Seq(Seq(S))
  <2>1. f \in Seq(T)
    BY <1>3, <1>5, FlattenType
  <2> QED
    BY <1>2, <2>1
<1>7. FlattenSeq(g \o f) = FlattenSeq(g) \o FlattenSeq(f)
  BY ONLY g \in Seq(Seq(S)), <1>6, FlattenConcat
<1>8. FlattenSeq(g) \in Seq(S) /\ FlattenSeq(f) \in Seq(S)
  BY ONLY g \in Seq(Seq(S)), <1>6, FlattenType
<1>9. Times(x, FlattenSeq(g) \o FlattenSeq(f)) = Times(x, FlattenSeq(g)) + Times(x, FlattenSeq(f))
  BY ONLY <1>8, TimesConcat
<1>10. Times(x, FlattenSeq(g)) \in Nat /\ Times(x, FlattenSeq(f)) \in Nat
  BY ONLY <1>8, TimesType
<1> QED
  BY ONLY <1>4, <1>5, <1>7, <1>9, <1>10 DEF InBatches, InGroups

LEMMA StreamCollate ==
    ASSUME TypeInv, TypeInv', StreamInv, Collate
    PROVE  StreamInv'
<1>1. UNCHANGED <<conf, reader, inQueue, proc, results, hand, trained, pulled, skipped, dropped>>
  BY CollateEffect
<1>2. PICK S : S = 1 .. N
  OBVIOUS
<1>3. /\ rows \in Seq(Seq(S)) /\ batch \in Seq(Seq(S)) /\ loaded \in Seq(Seq(Seq(S)))
      /\ Groups = Seq(Seq(S))
  BY <1>2 DEF TypeInv, Groups
<1>4. rows = <<>> => rows' = <<>>
  BY CollateEffect
<1>5. ASSUME NEW x \in 1 .. N
      PROVE  /\ Times(x, InGroups(rows')) \in Nat /\ Times(x, InGroups(batch')) \in Nat
             /\ Times(x, InBatches(loaded')) \in Nat
             /\ Times(x, InGroups(rows')) + Times(x, InGroups(batch')) + Times(x, InBatches(loaded')) =
                    Times(x, InGroups(rows)) + Times(x, InGroups(batch)) + Times(x, InBatches(loaded))
  <2>1. PICK a \in Nat, b \in Nat, c \in Nat : /\ a = Times(x, InGroups(rows))
                                               /\ b = Times(x, InGroups(batch))
                                               /\ c = Times(x, InBatches(loaded))
    BY LoaderTypes
  <2>2. Times(x, InGroups(<<>>)) = 0
    BY InNone, TimesEmpty
  <2>3. ASSUME NEW g \in Seq(1 .. N), NEW t \in Groups, NEW now \in Groups,
               rows = <<g>> \o t, rows' = t, now = Append(batch, g),
               \/ batch' = <<>> /\ loaded' = Append(loaded, now)
               \/ batch' = now /\ loaded' = loaded
        PROVE  /\ Times(x, InGroups(rows')) \in Nat /\ Times(x, InGroups(batch')) \in Nat
               /\ Times(x, InBatches(loaded')) \in Nat
               /\ Times(x, InGroups(rows')) + Times(x, InGroups(batch')) + Times(x, InBatches(loaded'))
                      = a + b + c
    <3>1. g \in Seq(S) /\ t \in Seq(Seq(S)) /\ now \in Seq(Seq(S)) /\ <<g>> \in Seq(Seq(S))
      BY <1>2, <1>3
    <3>2. FlattenSeq(<<g>> \o t) = FlattenSeq(<<g>>) \o FlattenSeq(t) /\ FlattenSeq(<<g>>) = g
      BY ONLY <3>1, FlattenConcat, FlattenOne
    <3>3. InGroups(rows) = g \o InGroups(t) /\ InGroups(t) \in Seq(S)
      BY <2>3, <3>1, <3>2, FlattenType DEF InGroups
    <3>4. InGroups(now) = InGroups(batch) \o g
      BY ONLY <1>3, <2>3, <3>1, FlattenAppend DEF InGroups
    <3>5. InGroups(batch) \in Seq(S)
      BY <1>3, InGroupsIn
    <3>6. PICK d \in Nat, e \in Nat : d = Times(x, g) /\ e = Times(x, InGroups(t))
      BY <3>1, <3>3, TimesType
    <3>7. a = d + e
      BY ONLY <2>1, <3>1, <3>3, <3>6, TimesConcat, SMTT(30)
    <3>8. Times(x, InGroups(now)) = b + d
      BY ONLY <2>1, <3>1, <3>4, <3>5, <3>6, TimesConcat
    <3>9. Times(x, InBatches(Append(loaded, now))) = c + (b + d)
      <4>1. Times(x, InBatches(Append(loaded, now))) = Times(x, InBatches(loaded)) + Times(x, InGroups(now))
        BY ONLY <1>3, <3>1, InBatchesAppend
      <4> QED
        BY ONLY <2>1, <3>8, <4>1
    <3>10. b + d \in Nat /\ c + (b + d) \in Nat /\ d + e + b + c = e + 0 + (c + (b + d))
           /\ d + e + b + c = e + (b + d) + c
      OBVIOUS
    <3>11. CASE batch' = <<>> /\ loaded' = Append(loaded, now)
      <4>1. /\ Times(x, InGroups(rows')) = e /\ Times(x, InGroups(batch')) = 0
            /\ Times(x, InBatches(loaded')) = c + (b + d)
        BY ONLY <2>2, <2>3, <3>6, <3>9, <3>11
      <4>2. e \in Nat /\ 0 \in Nat /\ c + (b + d) \in Nat /\ e + 0 + (c + (b + d)) = a + b + c
        BY ONLY <2>1, <3>6, <3>7, <3>10
      <4> QED
        BY ONLY <4>1, <4>2
    <3>12. CASE batch' = now /\ loaded' = loaded
      BY ONLY <2>1, <2>3, <3>6, <3>7, <3>8, <3>10, <3>12
    <3> QED
      BY <2>3, <3>11, <3>12
  <2>4. ASSUME batch' = <<>>, loaded' = Append(loaded, batch), rows' = rows
        PROVE  /\ Times(x, InGroups(rows')) \in Nat /\ Times(x, InGroups(batch')) \in Nat
               /\ Times(x, InBatches(loaded')) \in Nat
               /\ Times(x, InGroups(rows')) + Times(x, InGroups(batch')) + Times(x, InBatches(loaded'))
                      = a + b + c
    <3>1. Times(x, InBatches(Append(loaded, batch))) = Times(x, InBatches(loaded)) + Times(x, InGroups(batch))
      BY ONLY <1>3, InBatchesAppend
    <3>2. Times(x, InBatches(loaded')) = c + b
      BY ONLY <2>1, <2>4, <3>1
    <3> QED
      BY ONLY <2>1, <2>2, <2>4, <3>2
  <2>5. \/ \E g \in Seq(1 .. N), t \in Groups, now \in Groups :
              /\ rows = <<g>> \o t /\ rows' = t /\ now = Append(batch, g)
              /\ \/ batch' = <<>> /\ loaded' = Append(loaded, now)
                 \/ batch' = now /\ loaded' = loaded
        \/ batch' = <<>> /\ loaded' = Append(loaded, batch) /\ rows' = rows
    BY CollateEffect
  <2> QED
    BY ONLY <2>1, <2>3, <2>4, <2>5
<1>6. ASSUME NEW x \in 1 .. N
      PROVE  InReader(x)' + InLoader(x)' = InReader(x) + InLoader(x)
  <2>1. InReader(x)' = InReader(x)
    BY <1>1, ReaderSame
  <2>2. PICK a \in Nat, b \in Nat, c \in Nat, d \in Nat, e \in Nat, f \in Nat, g \in Nat :
            /\ a = Times(x, InGroups(rows)) /\ b = Times(x, InGroups(batch))
            /\ c = Times(x, InBatches(loaded)) /\ d = Times(x, InBatches(pulled))
            /\ e = Times(x, InBatches(skipped)) /\ f = Times(x, InBatches(dropped))
            /\ g = Times(x, OnRanks)
    BY LoaderTypes
  <2>3. PICK a1 \in Nat, b1 \in Nat, c1 \in Nat :
            /\ a1 = Times(x, InGroups(rows')) /\ b1 = Times(x, InGroups(batch'))
            /\ c1 = Times(x, InBatches(loaded'))
    BY <1>5
  <2>4. a1 + b1 + c1 = a + b + c
    BY ONLY <1>5, <1>6, <2>2, <2>3
  <2>5. InLoader(x) = a + b + c + d + e + f + g
    BY ONLY <2>2 DEF InLoader
  <2>6. InLoader(x)' = a1 + b1 + c1 + d + e + f + g
    <3>1. OnRanks' = OnRanks
      BY <1>1 DEF OnRanks
    <3>2. /\ Times(x, InGroups(rows))' = a1 /\ Times(x, InGroups(batch))' = b1
          /\ Times(x, InBatches(loaded))' = c1
      BY ONLY <2>3 DEF InGroups, InBatches
    <3> QED
      BY ONLY <1>1, <2>2, <3>1, <3>2 DEF InLoader, InGroups, InBatches
  <2> QED
    BY ONLY <2>1, <2>2, <2>3, <2>4, <2>5, <2>6
<1> QED
  BY <1>1, <1>4, <1>6, StreamKept

LEMMA StreamPull ==
    ASSUME TypeInv, TypeInv', StreamInv, Pull
    PROVE  StreamInv'
<1>1. PICK b \in Groups, t \in Seq(Groups) :
          /\ loaded = <<b>> \o t /\ loaded' = t
          /\ \/ skipped' = Append(skipped, b) /\ pulled' = pulled
             \/ pulled' = Append(pulled, b) /\ skipped' = skipped
          /\ UNCHANGED <<conf, reader, inQueue, proc, results, rows, hand, trained, batch, dropped>>
  BY PullEffect
<1>2. PICK S : S = 1 .. N
  OBVIOUS
<1>3. /\ pulled \in Seq(Seq(Seq(S))) /\ skipped \in Seq(Seq(Seq(S)))
      /\ b \in Seq(Seq(S)) /\ t \in Seq(Seq(Seq(S)))
  BY <1>2 DEF TypeInv, Groups
<1>4. ASSUME NEW x \in 1 .. N
      PROVE  InReader(x)' + InLoader(x)' = InReader(x) + InLoader(x)
  <2>1. InReader(x)' = InReader(x)
    BY <1>1, ReaderSame
  <2>2. PICK r \in Nat, h \in Nat, l \in Nat, p \in Nat, s \in Nat, d \in Nat, o \in Nat :
            /\ r = Times(x, InGroups(rows)) /\ h = Times(x, InGroups(batch))
            /\ l = Times(x, InBatches(loaded)) /\ p = Times(x, InBatches(pulled))
            /\ s = Times(x, InBatches(skipped)) /\ d = Times(x, InBatches(dropped))
            /\ o = Times(x, OnRanks)
    BY LoaderTypes
  <2>3. PICK n \in Nat, l1 \in Nat : n = Times(x, InGroups(b)) /\ l1 = Times(x, InBatches(t))
    BY <1>3, InBatchesCons
  <2>4. l = n + l1
    <3>1. Times(x, InBatches(<<b>> \o t)) = Times(x, InGroups(b)) + Times(x, InBatches(t))
      BY ONLY <1>3, InBatchesCons
    <3> QED
      BY ONLY <1>1, <2>2, <2>3, <3>1
  <2>5. InLoader(x) = r + h + l + p + s + d + o
    BY ONLY <2>2 DEF InLoader
  <2>6. InLoader(x)' = r + h + l1 + Times(x, InBatches(pulled')) + Times(x, InBatches(skipped')) + d + o
    <3>1. OnRanks' = OnRanks
      BY <1>1 DEF OnRanks
    <3> QED
      BY ONLY <1>1, <2>2, <2>3, <3>1 DEF InLoader, InGroups, InBatches
  <2>7. CASE skipped' = Append(skipped, b) /\ pulled' = pulled
    <3>1. Times(x, InBatches(Append(skipped, b))) = Times(x, InBatches(skipped)) + Times(x, InGroups(b))
      BY ONLY <1>3, InBatchesAppend
    <3>2. InLoader(x)' = r + h + l1 + p + (s + n) + d + o
      BY ONLY <2>2, <2>3, <2>6, <2>7, <3>1
    <3>3. r + h + l1 + p + (s + n) + d + o = r + h + l + p + s + d + o
      BY <2>4
    <3> QED
      BY ONLY <2>1, <2>5, <3>2, <3>3
  <2>8. CASE pulled' = Append(pulled, b) /\ skipped' = skipped
    <3>1. Times(x, InBatches(Append(pulled, b))) = Times(x, InBatches(pulled)) + Times(x, InGroups(b))
      BY ONLY <1>3, InBatchesAppend
    <3>2. InLoader(x)' = r + h + l1 + (p + n) + s + d + o
      BY ONLY <2>2, <2>3, <2>6, <2>8, <3>1
    <3>3. r + h + l1 + (p + n) + s + d + o = r + h + l + p + s + d + o
      BY <2>4
    <3> QED
      BY ONLY <2>1, <2>5, <3>2, <3>3
  <2> QED
    BY <1>1, <2>7, <2>8
<1> QED
  BY <1>1, <1>4, StreamKept

\* The batches of a scatter, one for each rank.
LEMMA ScatterItems ==
    ASSUME TypeInv, HandsInv, Scatter, NEW x
    PROVE  Times(x, OnRanks') = Times(x, OnRanks) + Times(x, InBatches(pulled))
<1>1. PICK S : S = 1 .. N
  OBVIOUS
<1>2. PICK G : G = Seq(Seq(S)) /\ G = Groups
  BY <1>1 DEF Groups
<1>3. PICK n \in Nat : n = Ranks
  BY RanksAssumption
<1>4. /\ conf' = conf /\ trained' = trained /\ Len(pulled) = n
      /\ hand' = [r \in RankSet |-> pulled[r + 1]]
      /\ \A r \in RankSet : pc[r] = "next"
  BY <1>3 DEF Scatter, packingVars
<1>5. PICK u \in Seq(G) : u = pulled /\ Len(u) = n
  BY <1>2, <1>4 DEF TypeInv
<1>6. trained \in [RankSet -> Seq(Groups)] /\ hand \in [RankSet -> Groups]
  BY DEF TypeInv
<1>7. \A i \in 1 .. n : u[i] \in G
  BY <1>5, ElementIn
<1>8. hand' \in [RankSet -> Groups]
  <2>1. \A r \in RankSet : r + 1 \in 1 .. n
    BY <1>3 DEF RankSet
  <2> QED
    BY <1>2, <1>4, <1>5, <1>7, <2>1
<1>9. PICK s, t : s = RankItems(trained, hand') /\ t = RankItems(trained, hand)
  OBVIOUS
<1>10. /\ s \in Seq(Seq(S)) /\ Len(s) = n /\ OnRanks' = FlattenSeq(s)
       /\ t \in Seq(Seq(S)) /\ Len(t) = n /\ OnRanks = FlattenSeq(t)
       /\ \A i \in 1 .. n : s[i] = InBatches(Append(trained[i - 1], hand'[i - 1]))
       /\ \A i \in 1 .. n : t[i] = InBatches(Append(trained[i - 1], hand[i - 1]))
  <2>1. \A td \in [RankSet -> Seq(Groups)], hd \in [RankSet -> Groups] :
            /\ RankItems(td, hd) \in Seq(Seq(1 .. N)) /\ Len(RankItems(td, hd)) = Ranks
            /\ \A i \in 1 .. Ranks : RankItems(td, hd)[i] = InBatches(Append(td[i - 1], hd[i - 1]))
            /\ Reached(td, hd) = FlattenSeq(RankItems(td, hd))
    BY ONLY OnRanksFacts
  <2>2. /\ s \in Seq(Seq(1 .. N)) /\ Len(s) = Ranks
        /\ \A i \in 1 .. Ranks : s[i] = InBatches(Append(trained[i - 1], hand'[i - 1]))
        /\ Reached(trained, hand') = FlattenSeq(s)
    BY ONLY <1>6, <1>8, <1>9, <2>1
  <2>3. /\ t \in Seq(Seq(1 .. N)) /\ Len(t) = Ranks
        /\ \A i \in 1 .. Ranks : t[i] = InBatches(Append(trained[i - 1], hand[i - 1]))
        /\ Reached(trained, hand) = FlattenSeq(t)
    BY ONLY <1>6, <1>9, <2>1
  <2> QED
    BY ONLY <1>1, <1>3, <1>4, <2>2, <2>3, OnRanksReached
<1>11. PICK v : v = [i \in 1 .. n |-> FlattenSeq(u[i])]
  OBVIOUS
<1>12. v \in Seq(Seq(S)) /\ Len(v) = n /\ FlattenSeq(FlattenSeq(u)) = FlattenSeq(v)
  <2>1. v = [i \in 1 .. Len(u) |-> FlattenSeq(u[i])]
    BY <1>5, <1>11
  <2>2. u \in Seq(Seq(Seq(S)))
    BY <1>2
  <2>3. v \in Seq(Seq(S)) /\ Len(v) = Len(u) /\ FlattenSeq(FlattenSeq(u)) = FlattenSeq(v)
    BY ONLY <2>1, <2>2, FlattenTwice
  <2> QED
    BY ONLY <1>5, <2>3
<1>13. ASSUME NEW i \in 1 .. n PROVE Times(x, s[i]) = Times(x, t[i]) + Times(x, v[i])
  <2>1. i - 1 \in RankSet /\ (i - 1) + 1 = i
    BY <1>3 DEF RankSet
  <2>2. hand'[i - 1] = u[i]
    BY <1>4, <1>5, <2>1
  <2>3. hand[i - 1] = <<>>
    BY <1>4, <2>1 DEF HandsInv
  <2>4. PICK bs : bs = trained[i - 1]
    OBVIOUS
  <2>5. bs \in Seq(Seq(Seq(S))) /\ u[i] \in Seq(Seq(S)) /\ <<>> \in Seq(Seq(S))
    BY <1>2, <1>6, <1>7, <2>1, <2>4
  <2>6. Times(x, InBatches(Append(bs, u[i]))) = Times(x, InBatches(bs)) + Times(x, InGroups(u[i]))
    BY ONLY <2>5, InBatchesAppend
  <2>7. Times(x, InBatches(Append(bs, <<>>))) = Times(x, InBatches(bs)) + Times(x, InGroups(<<>>))
    <3>1. PICK e \in Seq(Seq(S)) : e = <<>>
      BY <2>5
    <3>2. Times(x, InBatches(Append(bs, e))) = Times(x, InBatches(bs)) + Times(x, InGroups(e))
      BY ONLY <2>5, e \in Seq(Seq(S)), InBatchesAppend
    <3> QED
      BY ONLY <3>1, <3>2
  <2>8. Times(x, InGroups(<<>>)) = 0
    BY InNone, TimesEmpty
  <2>9. InBatches(bs) \in Seq(S)
    BY ONLY <2>5, InBatchesIn
  <2>10. PICK c \in Nat : c = Times(x, InBatches(bs))
    BY ONLY <2>9, TimesType
  <2>11. Times(x, t[i]) = c
    BY ONLY <1>10, <2>3, <2>4, <2>7, <2>8, <2>10, i \in 1 .. n
  <2>12. Times(x, s[i]) = c + Times(x, InGroups(u[i]))
    BY ONLY <1>10, <2>2, <2>4, <2>6, <2>10, i \in 1 .. n
  <2>13. v[i] = InGroups(u[i])
    BY ONLY <1>11, i \in 1 .. n DEF InGroups
  <2> QED
    BY ONLY <2>11, <2>12, <2>13
<1>14. Times(x, FlattenSeq(s)) = Times(x, FlattenSeq(t)) + Times(x, FlattenSeq(v))
  <2>1. Len(t) = Len(s) /\ Len(v) = Len(s)
    BY ONLY <1>10, <1>12
  <2>2. s \in Seq(Seq(S)) /\ t \in Seq(Seq(S)) /\ v \in Seq(Seq(S))
    BY ONLY <1>10, <1>12
  <2>3. \A i \in 1 .. Len(s) : Times(x, s[i]) = Times(x, t[i]) + Times(x, v[i])
    BY ONLY <1>10, <1>13
  <2>4. TimesAdd(x, s, t, v)
    BY ONLY <2>1, <2>3 DEF TimesAdd
  <2> QED
    BY ONLY <2>2, <2>4, FlattenTimes
<1> QED
  BY ONLY <1>5, <1>10, <1>12, <1>14 DEF InBatches

LEMMA StreamScatter ==
    ASSUME TypeInv, TypeInv', HandsInv, StreamInv, Scatter
    PROVE  StreamInv'
<1>1. /\ pulled' = <<>>
      /\ UNCHANGED <<conf, reader, inQueue, proc, results, rows, batch, loaded, skipped, dropped>>
  BY DEF Scatter, packingVars
<1>2. ASSUME NEW x \in 1 .. N
      PROVE  InReader(x)' + InLoader(x)' = InReader(x) + InLoader(x)
  <2>1. InReader(x)' = InReader(x)
    BY <1>1, ReaderSame
  <2>2. PICK r \in Nat, h \in Nat, l \in Nat, p \in Nat, s \in Nat, d \in Nat, o \in Nat :
            /\ r = Times(x, InGroups(rows)) /\ h = Times(x, InGroups(batch))
            /\ l = Times(x, InBatches(loaded)) /\ p = Times(x, InBatches(pulled))
            /\ s = Times(x, InBatches(skipped)) /\ d = Times(x, InBatches(dropped))
            /\ o = Times(x, OnRanks)
    BY LoaderTypes
  <2>3. Times(x, OnRanks') = o + p
    BY <2>2, ScatterItems
  <2>4. Times(x, InBatches(pulled')) = 0
    BY <1>1, InNone, TimesEmpty
  <2>5. InLoader(x) = r + h + l + p + s + d + o
    BY ONLY <2>2 DEF InLoader
  <2>6. InLoader(x)' = r + h + l + 0 + s + d + (o + p)
    <3>1. Times(x, OnRanks)' = o + p
      BY ONLY <2>3
    <3>2. Times(x, InBatches(pulled))' = 0
      BY ONLY <2>4 DEF InBatches
    <3> QED
      BY ONLY <1>1, <2>2, <3>1, <3>2 DEF InLoader, InGroups, InBatches
  <2>7. r + h + l + 0 + s + d + (o + p) = r + h + l + p + s + d + o
    OBVIOUS
  <2> QED
    BY ONLY <2>1, <2>5, <2>6, <2>7
<1> QED
  BY <1>1, <1>2, StreamKept

LEMMA StreamScatterEnd ==
    ASSUME TypeInv, TypeInv', HandsInv, StreamInv, ScatterEnd
    PROVE  StreamInv'
<1>1. /\ pulled' = <<>> /\ dropped' = pulled
      /\ UNCHANGED <<conf, reader, inQueue, proc, results, rows, hand, trained, batch, loaded, skipped>>
  BY DEF ScatterEnd, packingVars
<1>2. dropped = <<>>
  <2>1. 0 \in RankSet /\ pc[0] = "next"
    BY RanksAssumption DEF ScatterEnd, RankSet
  <2> QED
    BY <2>1 DEF HandsInv
<1>3. ASSUME NEW x \in 1 .. N
      PROVE  InReader(x)' + InLoader(x)' = InReader(x) + InLoader(x)
  <2>1. InReader(x)' = InReader(x)
    BY <1>1, ReaderSame
  <2>2. PICK r \in Nat, h \in Nat, l \in Nat, p \in Nat, s \in Nat, o \in Nat :
            /\ r = Times(x, InGroups(rows)) /\ h = Times(x, InGroups(batch))
            /\ l = Times(x, InBatches(loaded)) /\ p = Times(x, InBatches(pulled))
            /\ s = Times(x, InBatches(skipped)) /\ o = Times(x, OnRanks)
    BY LoaderTypes
  <2>3. Times(x, InBatches(<<>>)) = 0
    BY InNone, TimesEmpty
  <2>4. InLoader(x) = r + h + l + p + s + 0 + o
    BY ONLY <1>2, <2>2, <2>3 DEF InLoader
  <2>5. InLoader(x)' = r + h + l + 0 + s + p + o
    <3>1. OnRanks' = OnRanks
      BY <1>1 DEF OnRanks
    <3> QED
      BY ONLY <1>1, <2>2, <2>3, <3>1 DEF InLoader, InGroups, InBatches
  <2>6. r + h + l + 0 + s + p + o = r + h + l + p + s + 0 + o
    OBVIOUS
  <2> QED
    BY ONLY <2>1, <2>4, <2>5, <2>6
<1> QED
  BY <1>1, <1>3, StreamKept

LEMMA StreamTrain ==
    ASSUME TypeInv, TypeInv', StreamInv, TrainStep
    PROVE  StreamInv'
<1>1. UNCHANGED <<conf, reader, inQueue, proc, results, rows, batch, loaded, pulled, skipped, dropped>>
  BY DEF TrainStep, packingVars, loaderVars
<1>2. OnRanks' = OnRanks
  BY TrainStepItems
<1>3. ASSUME NEW x \in 1 .. N
      PROVE  InReader(x)' + InLoader(x)' = InReader(x) + InLoader(x)
  <2>1. InReader(x)' = InReader(x)
    BY <1>1, ReaderSame
  <2>2. InLoader(x)' = InLoader(x)
    BY ONLY <1>1, <1>2 DEF InLoader, InGroups, InBatches
  <2> QED
    BY <2>1, <2>2
<1> QED
  BY <1>1, <1>3, StreamKept

LEMMA StreamInit ==
    ASSUME Init
    PROVE  StreamInv
<1>1. TypeInv
  BY TypeInit
<1>2. /\ reader.pos = 0 /\ reader.data = <<>> /\ reader.res = <<>>
      /\ inQueue = <<>> /\ proc = [p \in 1 .. Procs |-> Idle] /\ results = {} /\ rows = <<>>
      /\ batch = <<>> /\ loaded = <<>> /\ pulled = <<>> /\ skipped = <<>> /\ dropped = <<>>
      /\ hand = [r \in RankSet |-> <<>>] /\ trained = [r \in RankSet |-> <<>>]
  BY DEF Init, InitStream
<1>3. PICK S : S = 1 .. N
  OBVIOUS
<1>4. PICK n \in Nat : n = Ranks
  BY RanksAssumption
<1>5. PICK t \in Seq(Seq(S)) :
          /\ OnRanks = FlattenSeq(t) /\ Len(t) = n
          /\ \A i \in 1 .. n : t[i] = InBatches(Append(trained[i - 1], hand[i - 1]))
  <2>1. trained \in [RankSet -> Seq(Groups)] /\ hand \in [RankSet -> Groups]
    BY <1>1 DEF TypeInv
  <2>2. PICK t : t = RankItems(trained, hand)
    OBVIOUS
  <2>3. /\ t \in Seq(Seq(1 .. N)) /\ Len(t) = Ranks
        /\ \A i \in 1 .. Ranks : t[i] = InBatches(Append(trained[i - 1], hand[i - 1]))
        /\ Reached(trained, hand) = FlattenSeq(t)
    BY ONLY <2>1, <2>2, OnRanksFacts
  <2> QED
    BY ONLY <1>3, <1>4, <2>3, OnRanksReached
<1>6. \A i \in 1 .. n : t[i] = <<>>
  <2> TAKE i \in 1 .. n
  <2>1. i - 1 \in RankSet
    BY <1>4 DEF RankSet
  <2>2. Append(trained[i - 1], hand[i - 1]) = <<<<>>>>
    BY <1>2, <2>1
  <2>3. FlattenSeq(<<<<>>>>) = <<>>
    <3>1. <<>> \in Seq(Seq(S))
      OBVIOUS
    <3> QED
      BY ONLY <3>1, FlattenOne
  <2> QED
    BY ONLY <1>5, <2>2, <2>3, i \in 1 .. n, FlattenEmpty DEF InBatches
<1>7. ASSUME NEW x \in 1 .. N PROVE InReader(x) + InLoader(x) = 0
  <2>1. Times(x, <<>>) = 0
    BY TimesEmpty
  <2>2. Times(x, OnRanks) = 0
    <3>1. \A i \in 1 .. Len(t) : Times(x, t[i]) = Times(x, t[i]) + Times(x, t[i])
      BY <1>5, <1>6, <2>1
    <3>2. TimesAdd(x, t, t, t)
      BY ONLY <3>1 DEF TimesAdd
    <3>3. Times(x, FlattenSeq(t)) = Times(x, FlattenSeq(t)) + Times(x, FlattenSeq(t))
      BY ONLY t \in Seq(Seq(S)), <3>2, FlattenTimes
    <3>4. PICK c \in Nat : c = Times(x, OnRanks)
      BY <1>1, LoaderTypes
    <3> QED
      BY ONLY <1>5, <3>3, <3>4
  <2>3. Times(x, Waiting) = 0
    BY <1>2, <2>1 DEF Waiting
  <2>4. Times(x, AtWork) = 0
    <3>1. AtWork = [p \in 1 .. Procs |-> NoSample]
      BY <1>2 DEF AtWork, Idle
    <3>2. Procs \in Nat /\ x \in Nat \ {0}
      <4>1. N \in Nat /\ Procs \in Nat
        BY <1>1, ConfFacts DEF TypeInv
      <4> QED
        BY <4>1
    <3> QED
      BY <3>1, <3>2, NoTimes
  <2>5. HasResult(x) = 0
    BY <1>2 DEF HasResult
  <2>6. InReader(x) = 0
    BY ONLY <1>2, <2>1, <2>3, <2>4, <2>5 DEF InReader
  <2>7. InLoader(x) = 0
    BY ONLY <1>2, <2>1, <2>2, InNone DEF InLoader
  <2> QED
    BY <2>6, <2>7
<1>8. reader.pc # "fetch"
  BY DEF Init, InitStream
<1>9. ASSUME NEW x \in 1 .. N PROVE Conservation(x, InReader(x) + InLoader(x))
  <2>1. ~(x <= reader.pos)
    <3>1. N \in Nat
      BY <1>1, ConfFacts DEF TypeInv
    <3> QED
      BY <1>2, <3>1
  <2> QED
    BY <1>7, <2>1 DEF Conservation
<1> QED
  BY <1>8, <1>9 DEF StreamInv

LEMMA StreamStep ==
    ASSUME TypeInv, TypeInv', ReaderInv, HandsInv, StreamInv, [Next]_vars
    PROVE  StreamInv'
<1>1. CASE PackingNext
  <2>1. UNCHANGED <<pc, hand, trained, order, loaderVars>>
    BY <1>1 DEF PackingNext
  <2>2. ASSUME NEW k \in Workers, PackChunk(k) \/ Collect(k) PROVE StreamInv'
    <3>1. UNCHANGED <<conf, reader, inQueue, proc, results, rows>>
      BY <2>2 DEF PackChunk, Collect, streamVars
    <3>2. \A x : InReader(x)' = InReader(x) /\ InLoader(x)' = InLoader(x)
      BY <2>1, <3>1, ReaderSame, LoaderSame DEF loaderVars
    <3> QED
      BY <3>1, <3>2, StreamKept
  <2>3. CASE PutInterval
    BY <2>1, <2>3, StreamPut
  <2>4. CASE Fetch
    BY <2>1, <2>4, StreamFetch
  <2>5. CASE PackInterval
    BY <2>1, <2>5, StreamPack
  <2>6. ASSUME NEW p \in 1 .. Procs, TakeSample(p) PROVE StreamInv'
    BY <2>1, <2>6, StreamTake
  <2>7. ASSUME NEW p \in 1 .. Procs, Encode(p) PROVE StreamInv'
    BY <2>1, <2>7, StreamEncode
  <2> QED
    BY <1>1, <2>2, <2>3, <2>4, <2>5, <2>6, <2>7 DEF PackingNext
<1>2. CASE BuildLoader \/ SkipRaises \/ UNCHANGED vars
  <2>1. UNCHANGED <<conf, reader, inQueue, proc, results, rows, hand, trained, loaderVars>>
    BY <1>2 DEF BuildLoader, SkipRaises, vars, packingVars
  <2>2. \A x : InReader(x)' = InReader(x) /\ InLoader(x)' = InLoader(x)
    BY <2>1, ReaderSame, LoaderSame DEF loaderVars
  <2> QED
    BY <2>1, <2>2, StreamKept
<1>3. ASSUME NEW r \in RankSet, NextBatch(r) PROVE StreamInv'
  <2>1. ~conf.streaming /\ conf' = conf
    BY <1>3 DEF NextBatch, Packed, packingVars
  <2> QED
    BY <2>1 DEF StreamInv
<1>4. CASE TrainStep
  BY <1>4, StreamTrain
<1>5. CASE Collate
  BY <1>5, StreamCollate
<1>6. CASE Pull
  BY <1>6, StreamPull
<1>7. CASE Scatter
  BY <1>7, StreamScatter
<1>8. CASE ScatterEnd
  BY <1>8, StreamScatterEnd
<1> QED
  BY <1>1, <1>2, <1>3, <1>4, <1>5, <1>6, <1>7, <1>8 DEF Next

LEMMA InBatchesConcat ==
    ASSUME NEW S, NEW u \in Seq(Seq(Seq(S))), NEW v \in Seq(Seq(Seq(S))), NEW x
    PROVE  /\ u \o v \in Seq(Seq(Seq(S)))
           /\ Times(x, InBatches(u \o v)) = Times(x, InBatches(u)) + Times(x, InBatches(v))
<1>1. PICK T : T = Seq(S)
  OBVIOUS
<1>2. u \in Seq(Seq(T)) /\ v \in Seq(Seq(T))
  BY <1>1
<1>3. u \o v \in Seq(Seq(T)) /\ FlattenSeq(u \o v) = FlattenSeq(u) \o FlattenSeq(v)
  BY ONLY <1>2, FlattenConcat, ConcatProperties
<1>4. PICK f \in Seq(Seq(S)), g \in Seq(Seq(S)) : f = FlattenSeq(u) /\ g = FlattenSeq(v)
  <2>1. FlattenSeq(u) \in Seq(T) /\ FlattenSeq(v) \in Seq(T)
    BY ONLY <1>2, FlattenType
  <2> QED
    BY <1>1, <2>1
<1>5. FlattenSeq(f \o g) = FlattenSeq(f) \o FlattenSeq(g) /\ FlattenSeq(f) \in Seq(S) /\ FlattenSeq(g) \in Seq(S)
  BY ONLY f \in Seq(Seq(S)), g \in Seq(Seq(S)), FlattenConcat, FlattenType
<1>6. Times(x, FlattenSeq(f) \o FlattenSeq(g)) = Times(x, FlattenSeq(f)) + Times(x, FlattenSeq(g))
  BY ONLY <1>5, TimesConcat
<1> QED
  BY ONLY <1>1, <1>3, <1>4, <1>5, <1>6 DEF InBatches

\* What is left when results are put in a list.
LEMMA ResultsTimes ==
    ASSUME TypeInv, NEW R, R = {r.sample : r \in results}, NEW x \in 1 .. N
    PROVE  /\ Encoded(SetToSeq(R)) \in Seq(1 .. N)
           /\ Times(x, Encoded(SetToSeq(R))) = HasResult(x)
<1>1. PICK M \in Nat : M = N
  BY ConfFacts DEF TypeInv
<1>2. PICK A : A = 0 .. M
  OBVIOUS
<1>3. R \subseteq A /\ IsFiniteSet(R)
  <2>1. R \subseteq A
    BY <1>1, <1>2 DEF TypeInv
  <2>2. IsFiniteSet(A)
    BY <1>2, FS_Interval
  <2> QED
    BY <2>1, <2>2, FS_Subset
<1>4. PICK f : f = SetToSeq(R)
  OBVIOUS
<1>5. f \in Seq(R) /\ OneToOne(f) /\ ToSet(f) = R
  BY <1>3, <1>4, SetToSeqFacts
<1>6. f \in Seq(A)
  BY ONLY <1>3, <1>5, SeqOfElements
<1>7. Encoded(f) \in Seq(1 .. M) /\ Times(x, Encoded(f)) = Times(x, f)
  <2>1. f \in Seq(0 .. M) /\ x \in 1 .. M
    BY <1>1, <1>2, <1>6
  <2> QED
    BY ONLY <2>1, M \in Nat, EncodedFacts
<1>8. Times(x, f) \in Nat /\ Times(x, f) <= 1 /\ (Times(x, f) = 0 <=> x \notin R)
  BY ONLY <1>5, TimesOnce, TimesType, TimesPresent
<1>9. x \in R <=> \E r \in results : r.sample = x
  OBVIOUS
<1> QED
  BY ONLY <1>1, <1>4, <1>7, <1>8, <1>9 DEF HasResult

\* InStream has each sample as often as it was counted.
LEMMA StreamTimes ==
    ASSUME TypeInv
    PROVE  /\ InStream \in Seq(1 .. N)
           /\ \A x \in 1 .. N : Times(x, InStream) = InReader(x) + InLoader(x)
<1>1. PICK S : S = 1 .. N
  OBVIOUS
<1>2. PICK R : R = {r.sample : r \in results}
  OBVIOUS
<1>3. /\ rows \in Seq(Seq(S)) /\ batch \in Seq(Seq(S))
      /\ loaded \in Seq(Seq(Seq(S))) /\ pulled \in Seq(Seq(Seq(S)))
      /\ skipped \in Seq(Seq(Seq(S))) /\ dropped \in Seq(Seq(Seq(S)))
  BY <1>1 DEF TypeInv, Groups
<1>4. PICK M \in Nat : M = N
  BY ConfFacts DEF TypeInv
<1>5. PICK a1 \in Seq(S) : a1 = Waiting
  BY <1>1, WaitingFacts DEF TypeInv
<1>6. AtWork \in Seq(0 .. M) /\ reader.res \in Seq(0 .. M)
  BY <1>4, AtWorkFacts DEF TypeInv
<1>7. PICK a2 \in Seq(S) : a2 = Encoded(AtWork) /\ \A x \in S : Times(x, a2) = Times(x, AtWork)
  <2>1. Encoded(AtWork) \in Seq(1 .. M) /\ \A x \in 1 .. M : Times(x, Encoded(AtWork)) = Times(x, AtWork)
    BY ONLY <1>6, M \in Nat, EncodedFacts
  <2> QED
    BY ONLY <1>1, <1>4, <2>1
<1>8. PICK a3 \in Seq(S) : a3 = Encoded(SetToSeq(R)) /\ \A x \in S : Times(x, a3) = HasResult(x)
  <2>1. \A x \in S : Times(x, Encoded(SetToSeq(R))) = HasResult(x)
    BY <1>1, <1>2, ResultsTimes
  <2>2. Encoded(SetToSeq(R)) \in Seq(S)
    <3>1. CASE M = 0
      <4>1. R \subseteq {0} /\ IsFiniteSet({0})
        <5>1. \A r \in results : r.sample \in 0 .. M
          BY <1>4 DEF TypeInv
        <5>2. R \subseteq {0}
          BY <1>2, <3>1, <5>1
        <5> QED
          BY <5>2, FS_Singleton
      <4>2. IsFiniteSet(R)
        BY <4>1, FS_Subset
      <4>3. SetToSeq(R) \in Seq(R)  /\ ToSet(SetToSeq(R)) = R
        BY <4>2, SetToSeqFacts
      <4>4. R \subseteq 0 .. M
        BY <3>1, <4>1
      <4>5. SetToSeq(R) \in Seq(0 .. M)
        BY <4>3, <4>4, SeqOfElements
      <4>6. Encoded(SetToSeq(R)) \in Seq(1 .. M)
        BY ONLY <4>5, M \in Nat, EncodedFacts
      <4> QED
        BY ONLY <1>1, <1>4, <4>6
    <3>2. CASE M # 0
      <4>1. 1 \in 1 .. N
        BY <1>4, <3>2
      <4> QED
        BY <1>1, <1>2, <4>1, ResultsTimes
    <3> QED
      BY <3>1, <3>2
  <2> QED
    BY <2>1, <2>2
<1>9. PICK a4 \in Seq(S) : a4 = Encoded(reader.res) /\ \A x \in S : Times(x, a4) = Times(x, reader.res)
  <2>1. Encoded(reader.res) \in Seq(1 .. M)
        /\ \A x \in 1 .. M : Times(x, Encoded(reader.res)) = Times(x, reader.res)
    BY ONLY <1>6, M \in Nat, EncodedFacts
  <2> QED
    BY ONLY <1>1, <1>4, <2>1
<1>10. PICK a5 \in Seq(S) : a5 = reader.data
  BY <1>1 DEF TypeInv
<1>11. PICK a6 \in Seq(S) :
           /\ a6 = InGroups(rows \o batch)
           /\ \A x : Times(x, a6) = Times(x, InGroups(rows)) + Times(x, InGroups(batch))
  <2>1. InGroups(rows \o batch) = InGroups(rows) \o InGroups(batch)
    BY ONLY <1>3, FlattenConcat DEF InGroups
  <2>2. InGroups(rows) \in Seq(S) /\ InGroups(batch) \in Seq(S)
    BY ONLY <1>3, InGroupsIn
  <2>3. PICK g \in Seq(S), h \in Seq(S) : g = InGroups(rows) /\ h = InGroups(batch)
    BY <2>2
  <2>4. g \o h \in Seq(S) /\ \A x : Times(x, g \o h) = Times(x, g) + Times(x, h)
    BY ConcatTimes
  <2> QED
    BY ONLY <2>1, <2>3, <2>4
<1>12. PICK a7 \in Seq(S) :
           /\ a7 = InBatches(loaded \o pulled \o skipped \o dropped)
           /\ \A x : Times(x, a7) = Times(x, InBatches(loaded)) + Times(x, InBatches(pulled))
                                    + Times(x, InBatches(skipped)) + Times(x, InBatches(dropped))
  <2>1. PICK G : G = Seq(Seq(S))
    OBVIOUS
  <2>2. \A u, v \in Seq(G) : u \o v \in Seq(G)
    BY ConcatProperties
  <2>3. PICK l \in Seq(G), p \in Seq(G), s \in Seq(G), d \in Seq(G) :
            l = loaded /\ p = pulled /\ s = skipped /\ d = dropped
    BY <1>3, <2>1
  <2>4. PICK lp \in Seq(G), lps \in Seq(G), all \in Seq(G) :
            lp = l \o p /\ lps = lp \o s /\ all = lps \o d
    <3>1. PICK lp \in Seq(G) : lp = l \o p
      BY <2>2
    <3>2. PICK lps \in Seq(G) : lps = lp \o s
      BY <2>2
    <3>3. PICK all \in Seq(G) : all = lps \o d
      BY <2>2
    <3> QED
      BY <3>1, <3>2, <3>3
  <2>5. \A x : /\ Times(x, InBatches(lp)) = Times(x, InBatches(l)) + Times(x, InBatches(p))
               /\ Times(x, InBatches(lps)) = Times(x, InBatches(lp)) + Times(x, InBatches(s))
               /\ Times(x, InBatches(all)) = Times(x, InBatches(lps)) + Times(x, InBatches(d))
    <3>1. \A x : Times(x, InBatches(l \o p)) = Times(x, InBatches(l)) + Times(x, InBatches(p))
      BY ONLY <2>1, l \in Seq(G), p \in Seq(G), InBatchesConcat
    <3>2. \A x : Times(x, InBatches(lp \o s)) = Times(x, InBatches(lp)) + Times(x, InBatches(s))
      BY ONLY <2>1, lp \in Seq(G), s \in Seq(G), InBatchesConcat
    <3>3. \A x : Times(x, InBatches(lps \o d)) = Times(x, InBatches(lps)) + Times(x, InBatches(d))
      BY ONLY <2>1, lps \in Seq(G), d \in Seq(G), InBatchesConcat
    <3> QED
      BY ONLY <2>4, <3>1, <3>2, <3>3
  <2>6. InBatches(all) \in Seq(S)
    <3>1. all \in Seq(Seq(Seq(S)))
      BY <2>1
    <3> QED
      BY <3>1, InBatchesIn
  <2>7. loaded \o pulled \o skipped \o dropped = all
    BY ONLY <2>3, <2>4
  <2>8. \A x : Times(x, InBatches(all)) = Times(x, InBatches(l)) + Times(x, InBatches(p))
                                          + Times(x, InBatches(s)) + Times(x, InBatches(d))
    BY ONLY <2>5
  <2> QED
    BY ONLY <2>3, <2>6, <2>7, <2>8
<1>13. PICK a8 \in Seq(S) : a8 = OnRanks
  <2>1. trained \in [RankSet -> Seq(Groups)] /\ hand \in [RankSet -> Groups]
    BY DEF TypeInv
  <2>2. Reached(trained, hand) \in Seq(1 .. N)
    BY ONLY <2>1, OnRanksFacts
  <2> QED
    BY <1>1, <2>2, OnRanksReached
<1>14. InStream = a1 \o a2 \o a3 \o a4 \o a5 \o a6 \o a7 \o a8
  <2>1. Waiting = [i \in DOMAIN inQueue |-> inQueue[i].sample]
    <3>1. DOMAIN inQueue = 1 .. Len(inQueue)
      BY DEF TypeInv
    <3> QED
      BY <3>1 DEF Waiting
  <2> QED
    BY ONLY <1>2, <1>5, <1>7, <1>8, <1>9, <1>10, <1>11, <1>12, <1>13, <2>1 DEF InStream, AtWork
<1>15. PICK b2 \in Seq(S), b3 \in Seq(S), b4 \in Seq(S), b5 \in Seq(S), b6 \in Seq(S),
            b7 \in Seq(S), b8 \in Seq(S) :
           /\ b2 = a1 \o a2 /\ b3 = b2 \o a3 /\ b4 = b3 \o a4 /\ b5 = b4 \o a5
           /\ b6 = b5 \o a6 /\ b7 = b6 \o a7 /\ b8 = b7 \o a8
  <2>1. \A u, v \in Seq(S) : u \o v \in Seq(S)
    BY ConcatProperties
  <2>2. PICK b2 \in Seq(S) : b2 = a1 \o a2
    BY ONLY <2>1, a1 \in Seq(S), a2 \in Seq(S)
  <2>3. PICK b3 \in Seq(S) : b3 = b2 \o a3
    BY ONLY <2>1, b2 \in Seq(S), a3 \in Seq(S)
  <2>4. PICK b4 \in Seq(S) : b4 = b3 \o a4
    BY ONLY <2>1, b3 \in Seq(S), a4 \in Seq(S)
  <2>5. PICK b5 \in Seq(S) : b5 = b4 \o a5
    BY ONLY <2>1, b4 \in Seq(S), a5 \in Seq(S)
  <2>6. PICK b6 \in Seq(S) : b6 = b5 \o a6
    BY ONLY <2>1, b5 \in Seq(S), a6 \in Seq(S)
  <2>7. PICK b7 \in Seq(S) : b7 = b6 \o a7
    BY ONLY <2>1, b6 \in Seq(S), a7 \in Seq(S)
  <2>8. PICK b8 \in Seq(S) : b8 = b7 \o a8
    BY ONLY <2>1, b7 \in Seq(S), a8 \in Seq(S)
  <2> QED
    BY ONLY <2>2, <2>3, <2>4, <2>5, <2>6, <2>7, <2>8
<1>16. InStream = b8
  BY ONLY <1>14, <1>15
<1>17. ASSUME NEW x \in S PROVE Times(x, b8) = InReader(x) + InLoader(x)
  <2>1. /\ Times(x, b2) = Times(x, a1) + Times(x, a2) /\ Times(x, b3) = Times(x, b2) + Times(x, a3)
        /\ Times(x, b4) = Times(x, b3) + Times(x, a4) /\ Times(x, b5) = Times(x, b4) + Times(x, a5)
        /\ Times(x, b6) = Times(x, b5) + Times(x, a6) /\ Times(x, b7) = Times(x, b6) + Times(x, a7)
        /\ Times(x, b8) = Times(x, b7) + Times(x, a8)
    <3>1. Times(x, a1 \o a2) = Times(x, a1) + Times(x, a2)
      BY ONLY TimesConcat, a1 \in Seq(S), a2 \in Seq(S)
    <3>2. Times(x, b2 \o a3) = Times(x, b2) + Times(x, a3)
      BY ONLY TimesConcat, b2 \in Seq(S), a3 \in Seq(S)
    <3>3. Times(x, b3 \o a4) = Times(x, b3) + Times(x, a4)
      BY ONLY TimesConcat, b3 \in Seq(S), a4 \in Seq(S)
    <3>4. Times(x, b4 \o a5) = Times(x, b4) + Times(x, a5)
      BY ONLY TimesConcat, b4 \in Seq(S), a5 \in Seq(S)
    <3>5. Times(x, b5 \o a6) = Times(x, b5) + Times(x, a6)
      BY ONLY TimesConcat, b5 \in Seq(S), a6 \in Seq(S)
    <3>6. Times(x, b6 \o a7) = Times(x, b6) + Times(x, a7)
      BY ONLY TimesConcat, b6 \in Seq(S), a7 \in Seq(S)
    <3>7. Times(x, b7 \o a8) = Times(x, b7) + Times(x, a8)
      BY ONLY TimesConcat, b7 \in Seq(S), a8 \in Seq(S)
    <3> QED
      BY ONLY <1>15, <3>1, <3>2, <3>3, <3>4, <3>5, <3>6, <3>7
  <2>2. PICK t1 \in Nat, t2 \in Nat, t3 \in {0, 1}, t4 \in Nat, t5 \in Nat :
            /\ t1 = Times(x, Waiting) /\ t2 = Times(x, AtWork) /\ t3 = HasResult(x)
            /\ t4 = Times(x, reader.res) /\ t5 = Times(x, reader.data)
    BY ReaderTypes
  <2>3. PICK r \in Nat, h \in Nat, l \in Nat, p \in Nat, s \in Nat, d \in Nat, o \in Nat :
            /\ r = Times(x, InGroups(rows)) /\ h = Times(x, InGroups(batch))
            /\ l = Times(x, InBatches(loaded)) /\ p = Times(x, InBatches(pulled))
            /\ s = Times(x, InBatches(skipped)) /\ d = Times(x, InBatches(dropped))
            /\ o = Times(x, OnRanks)
    BY LoaderTypes
  <2>4. /\ Times(x, a1) = t1 /\ Times(x, a2) = t2 /\ Times(x, a3) = t3 /\ Times(x, a4) = t4
        /\ Times(x, a5) = t5 /\ Times(x, a6) = r + h /\ Times(x, a7) = l + p + s + d /\ Times(x, a8) = o
    BY ONLY <1>5, <1>7, <1>8, <1>9, <1>10, <1>11, <1>12, <1>13, <2>2, <2>3, x \in S
  <2>5. Times(x, b8) = t1 + t2 + t3 + t4 + t5 + (r + h) + (l + p + s + d) + o
    BY ONLY <2>1, <2>4
  <2>6. InReader(x) + InLoader(x) = t1 + t2 + t3 + t4 + t5 + (r + h + l + p + s + d + o)
    BY ONLY <2>2, <2>3 DEF InReader, InLoader
  <2>7. t1 + t2 + t3 + t4 + t5 + (r + h) + (l + p + s + d) + o =
            t1 + t2 + t3 + t4 + t5 + (r + h + l + p + s + d + o)
    OBVIOUS
  <2> QED
    BY ONLY <2>5, <2>6, <2>7
<1> QED
  BY ONLY <1>1, <1>16, <1>17, b8 \in Seq(S)

LEMMA StreamConserved ==
    ASSUME TypeInv, StreamInv, conf.streaming
    PROVE  Conserved
<1>1. PICK M \in Nat, pos \in Nat : M = N /\ pos = reader.pos /\ pos <= M
  <2>1. N \in Nat
    BY ConfFacts DEF TypeInv
  <2> QED
    <3>1. reader.pos \in 0 .. N
      BY DEF TypeInv
    <3> QED
      BY <2>1, <3>1
<1>2. PICK S : S = 1 .. M
  OBVIOUS
<1>3. PICK s \in Seq(S) : s = InStream /\ \A x \in S : Times(x, s) = InReader(x) + InLoader(x)
  BY <1>1, <1>2, StreamTimes
<1>4. \A x \in S : /\ Times(x, s) <= 1
                   /\ x > pos => Times(x, s) = 0
                   /\ x <= pos /\ conf.quality[x] = "ok" => Times(x, s) = 1
  BY <1>1, <1>2, <1>3 DEF StreamInv, Conservation, IsOk
<1>5. IsInjective(s)
  <2>1. OneToOne(s)
    BY <1>4, TimesOneToOne
  <2> QED
    BY <2>1 DEF OneToOne, IsInjective
<1>6. \A x : Times(x, s) = 0 <=> x \notin ToSet(s)
  BY TimesPresent
<1>7. ToSet(s) \subseteq S
  <2>1. ToSet(s) = {s[l] : l \in 1 .. Len(s)}
    BY ElementsOf
  <2> QED
    BY <2>1, ElementIn
<1>8. ToSet(s) \subseteq 1 .. pos
  <2> SUFFICES ASSUME NEW x \in ToSet(s) PROVE x \in 1 .. pos
    OBVIOUS
  <2>1. x \in S /\ Times(x, s) # 0
    BY <1>6, <1>7
  <2>2. ~(x > pos)
    BY <1>4, <2>1
  <2>3. x \in 1 .. M
    BY <1>2, <2>1
  <2> QED
    BY <1>1, <2>2, <2>3
<1>9. ASSUME NEW x \in 1 .. pos, conf.quality[x] = "ok" PROVE x \in ToSet(s)
  <2>1. x \in S /\ x <= pos
    BY <1>1, <1>2
  <2>2. Times(x, s) = 1
    BY <1>4, <1>9, <2>1
  <2> QED
    BY <1>6, <2>2
<1> QED
  BY <1>1, <1>3, <1>5, <1>8, <1>9 DEF Conserved

-----------------------------------------------------------------------------
(* The packed data set.                                                    *)

\* The groups of the packed data set are not empty, and no sample is in two of them.
LEMMA PackedOnce ==
    ASSUME TypeInv, MapInv, ~conf.streaming
    PROVE  /\ PackedIdx \in Groups /\ OneToOne(InGroups(PackedIdx)) /\ Filled(PackedIdx)
           /\ Len(PackedIdx) <= N
<1>1. PICK S : S = 1 .. N
  OBVIOUS
<1>2. PICK w \in Nat, p \in Seq(Seq(Seq(S))) : w = NumWorkers /\ p = [k \in Workers |-> packed[k]]
  <2>1. NumWorkers \in Nat
    BY ConfFacts DEF TypeInv
  <2>2. [k \in Workers |-> packed[k]] \in Seq(Seq(Seq(S)))
    BY <1>1, PackedFacts DEF TypeInv, Groups
  <2> QED
    BY <2>1, <2>2
<1>3. p \in [1 .. w -> Seq(Seq(S))]
  BY <1>1, <1>2 DEF Workers, TypeInv, Groups
<1>4. Len(p) = w /\ \A k \in 1 .. w : p[k] = packed[k] /\ k \in Workers
  <2>1. DOMAIN p = 1 .. w
    BY <1>3
  <2>2. Len(p) = w
    BY ONLY <2>1, <1>2, w \in Nat, p \in Seq(Seq(Seq(S)))
  <2> QED
    BY <1>2, <2>2 DEF Workers
<1>5. PICK t : t = [k \in 1 .. Len(p) |-> FlattenSeq(p[k])]
  OBVIOUS
<1>6. /\ t \in Seq(Seq(S)) /\ Len(t) = w /\ FlattenSeq(p) \in Seq(Seq(S))
      /\ FlattenSeq(FlattenSeq(p)) = FlattenSeq(t)
  <2>1. t = [k \in 1 .. Len(p) |-> FlattenSeq(p[k])]
    BY <1>5
  <2>2. /\ t \in Seq(Seq(S)) /\ Len(t) = Len(p) /\ FlattenSeq(p) \in Seq(Seq(S))
        /\ FlattenSeq(FlattenSeq(p)) = FlattenSeq(t)
    BY ONLY <2>1, FlattenTwice, p \in Seq(Seq(Seq(S)))
  <2> QED
    BY <1>4, <2>2
<1>7. \A k \in 1 .. w : t[k] = InGroups(packed[k])
  BY <1>4, <1>5 DEF InGroups
<1>8. PICK gs \in Seq(Seq(S)) : gs = PackedIdx
  BY <1>2, <1>6 DEF PackedIdx
<1>9. ASSUME NEW k \in 1 .. w
      PROVE  OneToOne(t[k]) /\ ToSet(t[k]) \subseteq ToSet(Share(k)) /\ Filled(p[k])
  <2>1. k \in Workers
    BY <1>4
  <2>2. PICK d \in Seq(S) : d = t[k]
    BY <1>6, ElementIn
  <2>3. ASSUME NEW x \in S
        PROVE  Times(x, d) <= IF x \in ToSet(Share(k)) THEN 1 ELSE 0
    <3>1. OfWorker(x, k) = IF x \in ToSet(Share(k)) THEN 1 ELSE 0
      BY <1>1, <2>1 DEF MapInv
    <3>2. PICK a \in Nat, b \in Nat, c \in Nat, e \in Nat : OfWorker(x, k) = a + b + c + e /\ e = Times(x, d)
      <4>1. InGroups(packed[k]) = d
        BY <1>7, <2>2
      <4> QED
        BY <2>1, <4>1, OfWorkerTypes
    <3> QED
      BY ONLY <3>1, <3>2
  <2>4. \A x \in S : Times(x, d) \in Nat
    BY TimesType
  <2>5. OneToOne(d)
    <3>1. \A x \in S : Times(x, d) <= 1
      BY <2>3, <2>4
    <3> QED
      BY <3>1, TimesOneToOne
  <2>6. ToSet(d) \subseteq ToSet(Share(k))
    <3> SUFFICES ASSUME NEW x \in ToSet(d), x \notin ToSet(Share(k)) PROVE FALSE
      OBVIOUS
    <3>1. ToSet(d) = {d[l] : l \in 1 .. Len(d)}
      BY ElementsOf
    <3>2. x \in S
      BY <3>1, ElementIn
    <3>3. Times(x, d) # 0
      BY TimesPresent
    <3>4. Times(x, d) <= 0 /\ Times(x, d) \in Nat
      BY <2>3, <2>4, <3>2
    <3> QED
      BY ONLY <3>3, <3>4
  <2>7. Filled(p[k])
    BY <1>4, <2>1 DEF MapInv
  <2> QED
    BY <2>2, <2>5, <2>6, <2>7
<1>10. \A i, j \in 1 .. w : i # j => ToSet(t[i]) \cap ToSet(t[j]) = {}
  <2> SUFFICES ASSUME NEW i \in 1 .. w, NEW j \in 1 .. w, i # j
               PROVE  ToSet(t[i]) \cap ToSet(t[j]) = {}
    OBVIOUS
  <2>1. conf \in Settings
    BY DEF TypeInv
  <2>2. i \in Workers /\ j \in Workers
    BY <1>4
  <2>3. ToSet(Share(i)) \cap ToSet(Share(j)) = {}
    BY <2>1, <2>2, ShareFacts
  <2>4. ToSet(t[i]) \subseteq ToSet(Share(i)) /\ ToSet(t[j]) \subseteq ToSet(Share(j))
    BY <1>9
  <2> QED
    BY ONLY <2>3, <2>4
<1>11. OneToOne(FlattenSeq(t))
  <2>1. \A i \in 1 .. w : OneToOne(t[i])
    BY <1>9
  <2> QED
    BY <1>6, <1>10, <2>1, FlattenOneToOne
<1>12. InGroups(PackedIdx) = FlattenSeq(t)
  BY <1>2, <1>6 DEF InGroups, PackedIdx
<1>13. ToSet(gs) = InPieces(p, w)
  <2>1. ToSet(FlattenSeq(p)) = InPieces(p, Len(p))
    BY FlattenElements
  <2> QED
    BY <1>2, <1>4, <1>8, <2>1 DEF PackedIdx
<1>14. \A g \in 1 .. Len(gs) : gs[g] # <<>>
  <2> SUFFICES ASSUME NEW g \in 1 .. Len(gs) PROVE gs[g] # <<>>
    OBVIOUS
  <2>1. gs[g] \in ToSet(gs)
    BY DEF ToSet
  <2>2. PICK k \in 1 .. w : gs[g] \in ToSet(p[k])
    BY <1>13, <2>1 DEF InPieces
  <2>3. PICK h \in Seq(Seq(S)) : h = p[k]
    BY <1>3
  <2>4. PICK j \in 1 .. Len(h) : gs[g] = h[j]
    <3>1. ToSet(h) = {h[j] : j \in 1 .. Len(h)}
      BY ElementsOf
    <3> QED
      BY ONLY <2>2, <2>3, <3>1
  <2>5. Filled(h)
    BY <1>9, <2>3
  <2> QED
    BY <2>4, <2>5 DEF Filled
<1>15. Len(gs) <= Cardinality(S)
  <2>1. PICK l \in Nat : l = Len(gs)
    OBVIOUS
  <2>2. \A g \in 1 .. Len(gs) : 1 <= Len(gs[g])
    <3> SUFFICES ASSUME NEW g \in 1 .. Len(gs) PROVE 1 <= Len(gs[g])
      OBVIOUS
    <3>1. PICK h \in Seq(S) : h = gs[g]
      BY ElementIn
    <3>2. h # <<>>
      BY <1>14, <3>1
    <3>3. Len(h) \in Nat /\ Len(h) # 0
      BY <3>2, EmptySeq
    <3> QED
      BY ONLY <3>1, <3>3
  <2>3. 1 * Len(gs) <= Len(FlattenSeq(gs))
    BY <2>2, FlattenLeast
  <2>4. PICK all \in Seq(S) : all = FlattenSeq(gs)
    BY FlattenType
  <2>5. OneToOne(all)
    BY <1>8, <1>11, <1>12, <2>4 DEF InGroups
  <2>6. IsFiniteSet(S)
    BY <1>1, ConfFacts, FS_Interval DEF TypeInv
  <2>7. Len(all) <= Cardinality(S)
    BY <2>5, <2>6, OneToOneBound
  <2>8. Cardinality(S) \in Nat /\ Len(all) \in Nat
    BY <2>6, FS_CardinalityType
  <2> QED
    BY ONLY <2>1, <2>3, <2>4, <2>7, <2>8
<1>16. Cardinality(S) = N
  <2>1. PICK m \in Nat : m = N
    BY ConfFacts DEF TypeInv
  <2>2. Cardinality(1 .. m) = IF 1 > m THEN 0 ELSE m - 1 + 1
    BY FS_Interval
  <2> QED
    BY <1>1, <2>1, <2>2
<1> QED
  BY <1>1, <1>8, <1>11, <1>12, <1>14, <1>15, <1>16 DEF Filled, Groups

\* What TypeOK says follows from the invariants.
LEMMA TypesHold ==
    ASSUME TypeInv, ReaderInv, MapInv
    PROVE  TypeOK
<1>1. \A k \in Workers : worker[k].input \in Seq(1 .. N) /\ packed[k] \in Groups
  <2> TAKE k \in Workers
  <2>1. worker[k] \in [i : Nat, input : Seq(1 .. N), over : BOOLEAN]
    BY DEF TypeInv
  <2> QED
    BY <2>1 DEF TypeInv
<1>2. PICK res \in Seq(0 .. N), n \in Nat, g \in Nat : res = reader.res /\ n = Len(res) /\ g = reader.got
  BY DEF TypeInv
<1>3. reader.pc \in {"put", "fetch", "end"} /\ reader.pos \in 0 .. N
  BY DEF TypeInv
<1>4. g <= n
  <2>1. PICK q \in Nat : q = Len(inQueue)
    BY DEF TypeInv
  <2>2. Procs \in Nat
    BY ProcsAssumption
  <2>3. PICK b \in Nat : b = Cardinality(Busy)
    BY <2>2, BusyFinite
  <2>4. PICK c \in Nat : c = Cardinality(results)
    BY FS_CardinalityType DEF TypeInv
  <2>5. q + b + c + g <= n
    BY <1>2, <2>1, <2>3, <2>4 DEF ReaderInv
  <2> QED
    BY ONLY <2>5, n \in Nat, g \in Nat, q \in Nat, b \in Nat, c \in Nat
<1>5. results \subseteq [at : DOMAIN reader.res, sample : 0 .. N]
  <2> SUFFICES ASSUME NEW r \in results PROVE r \in [at : DOMAIN reader.res, sample : 0 .. N]
    OBVIOUS
  <2>1. r \in [at : 1 .. Interval, sample : 0 .. N]
    BY DEF TypeInv
  <2>2. r.at <= n
    BY <1>2 DEF ReaderInv
  <2>3. r.at \in 1 .. Interval
    BY <2>1
  <2>4. r.at \in 1 .. n
    BY <2>2, <2>3
  <2>5. DOMAIN reader.res = 1 .. n
    BY <1>2
  <2> QED
    BY <2>1, <2>4, <2>5
<1>6. order \in Seq(1 .. N)
  <2>1. CASE order = <<>>
    BY <2>1
  <2>2. CASE order # <<>>
    <3>1. ~conf.streaming
      BY <2>2 DEF TypeInv, Packed
    <3>2. PICK l \in Nat, m \in Nat : l = Len(PackedIdx) /\ m = N /\ l <= m
      <4>1. PackedIdx \in Groups /\ Len(PackedIdx) <= N
        BY <3>1, PackedOnce
      <4>2. N \in Nat
        BY ConfFacts DEF TypeInv
      <4>3. Len(PackedIdx) \in Nat
        BY <4>1 DEF Groups
      <4> QED
        BY <4>1, <4>2, <4>3
    <3>3. order \in Seq(1 .. l)
      BY <3>2, OrderType
    <3>4. \A v \in Seq(1 .. l) : v \in Seq(1 .. m)
      <4> TAKE v \in Seq(1 .. l)
      <4>1. PICK k \in Nat : k = Len(v)
        OBVIOUS
      <4>2. \A i \in 1 .. k : v[i] \in 1 .. l
        BY <4>1
      <4>3. \A i \in 1 .. k : v[i] \in 1 .. m
        BY <3>2, <4>2
      <4>4. v = [i \in 1 .. k |-> v[i]]
        BY <4>1
      <4>5. PICK M : M = 1 .. m
        OBVIOUS
      <4>6. v \in [1 .. k -> M]
        BY ONLY <4>3, <4>4, <4>5
      <4> QED
        BY ONLY <4>5, <4>6, k \in Nat
    <3> QED
      BY <3>2, <3>3, <3>4
  <2> QED
    BY <2>1, <2>2
<1>7. \A p \in 1 .. Procs : proc[p] \in {Idle, Dead} \cup [at : 1 .. Interval, sample : 1 .. N]
  BY DEF TypeInv, Item
<1>8. reader.got \in 0 .. Len(reader.res)
  BY <1>2, <1>4
<1> QED
  BY <1>1, <1>3, <1>5, <1>6, <1>7, <1>8 DEF TypeInv, TypeOK

-----------------------------------------------------------------------------
(* The parts of the slices.                                                *)

\* What __len__ promises, for the samples every rank has.
LEMMA SamplerFacts ==
    ASSUME conf \in Settings, packed \in [Workers -> Groups], NEW c \in Nat \ {0}, c = conf.batch
    PROVE  /\ TotalSamples \in Nat /\ SamplerLen \in Nat
           /\ TotalSamples <= c * SamplerLen + (IF conf.dropLast THEN c - 1 ELSE 0)
           /\ TotalSamples = 0 => SamplerLen = 0
           /\ Len(PackedIdx) \in Nat /\ Ranks * TotalSamples <= Len(PackedIdx)
           /\ Len(PackedIdx) <= Ranks * TotalSamples + (Ranks - 1)
<1>1. PICK l \in Nat, R \in Nat \ {0} : l = Len(PackedIdx) /\ R = Ranks
  <2>1. PackedIdx \in Groups
    BY PackedFacts
  <2>2. Len(PackedIdx) \in Nat
    BY <2>1 DEF Groups
  <2> QED
    BY <2>2, ConfFacts
<1>2. PICK t \in Nat, m \in 0 .. (R - 1) : t = l \div R /\ m = l % R /\ R * t + m = l
  BY ONLY DivMod, l \in Nat, R \in Nat \ {0}
<1>3. TotalSamples = t
  BY <1>1, <1>2 DEF TotalSamples
<1>4. PICK h \in Nat : h = R * t
  <2>1. R * t \in Nat
    OBVIOUS
  <2> QED
    BY <2>1
<1>5. h <= l /\ l <= h + (R - 1)
  BY ONLY <1>2, <1>4, l \in Nat, h \in Nat, R \in Nat \ {0}, m \in 0 .. (R - 1)
<1>6. /\ SamplerLen \in Nat
      /\ t <= c * SamplerLen + (IF conf.dropLast THEN c - 1 ELSE 0)
      /\ t = 0 => SamplerLen = 0
  <2>1. CASE conf.dropLast
    <3>1. PICK q \in Nat, n \in 0 .. (c - 1) : q = t \div c /\ n = t % c /\ c * q + n = t
      BY ONLY DivMod, t \in Nat, c \in Nat \ {0}
    <3>2. SamplerLen = q
      BY <1>3, <2>1, <3>1 DEF SamplerLen
    <3>3. PICK z \in Nat : z = c * q
      <4>1. c * q \in Nat
        OBVIOUS
      <4> QED
        BY <4>1
    <3>4. t <= z + (c - 1)
      BY ONLY <3>1, <3>3, n \in 0 .. (c - 1), z \in Nat, c \in Nat \ {0}
    <3>5. t = 0 => q = 0
      <4>1. c * 0 + 0 = 0 /\ 0 \in 0 .. (c - 1)
        OBVIOUS
      <4>2. (c * 0 + 0) \div c = 0
        BY <4>1, Quotient
      <4> QED
        BY <3>1, <4>1, <4>2
    <3> QED
      BY <2>1, <3>2, <3>3, <3>4, <3>5
  <2>2. CASE ~conf.dropLast
    <3>1. PICK a \in Nat : a = t + c - 1
      <4>1. t + c - 1 \in Nat
        OBVIOUS
      <4> QED
        BY <4>1
    <3>2. PICK q \in Nat, n \in 0 .. (c - 1) : q = a \div c /\ n = a % c /\ c * q + n = a
      BY ONLY DivMod, a \in Nat, c \in Nat \ {0}
    <3>3. SamplerLen = q
      BY <1>3, <2>2, <3>1, <3>2 DEF SamplerLen, Ceil
    <3>4. PICK z \in Nat : z = c * q
      <4>1. c * q \in Nat
        OBVIOUS
      <4> QED
        BY <4>1
    <3>5. t <= z
      BY ONLY <3>1, <3>2, <3>4, n \in 0 .. (c - 1), z \in Nat, c \in Nat \ {0}, t \in Nat
    <3>6. t = 0 => q = 0
      <4>1. c * 0 + (c - 1) = c - 1 /\ c - 1 \in 0 .. (c - 1)
        OBVIOUS
      <4>2. (c * 0 + (c - 1)) \div c = 0
        BY <4>1, Quotient
      <4>3. t = 0 => a = c - 1
        BY <3>1
      <4> QED
        BY <3>2, <4>1, <4>2, <4>3
    <3> QED
      BY <2>2, <3>3, <3>4, <3>5, <3>6
  <2> QED
    BY <2>1, <2>2
<1> QED
  BY <1>1, <1>3, <1>4, <1>5, <1>6

\* Part n of the slice of rank r begins after the first d places of the slice.
PartAfter(r, n, d) ==
    \A j \in 1 .. Len(Part(r, n)) : d + j \in 1 .. Len(Slice(r)) /\ Part(r, n)[j] = Slice(r)[d + j]

\* How a part of a slice begins, and how long it is.
LEMMA PartFacts ==
    ASSUME conf \in Settings, NEW l \in Nat, order \in Seq(1 .. l), NEW r \in RankSet, NEW n \in Nat,
           NEW c \in Nat \ {0}, c = conf.batch, NEW k \in Nat, k = conf.skip
    PROVE  /\ Part(r, n) \in Seq(1 .. l)
           /\ Part(r, 0) = <<>>
           /\ \A m \in Nat : m <= c * (k + n) /\ m <= Len(Slice(r)) => m <= c * k + Len(Part(r, n))
           /\ PartAfter(r, n, c * k)
<1>1. PICK L : L = 1 .. l
  OBVIOUS
<1>2. PICK s \in Seq(L), z \in Nat : s = Slice(r) /\ z = Len(s)
  <2>1. Slice(r) \in Seq(L)
    BY <1>1, SliceFacts
  <2> QED
    BY <2>1
<1>3. PICK a \in Nat, b \in Nat, d \in Nat : /\ a = c * k /\ b = c * (k + n) /\ d = c * (k + n + 1)
                                           /\ a <= b /\ b <= d
  <2>1. c * k \in Nat /\ c * (k + n) \in Nat /\ c * (k + n + 1) \in Nat
    BY ONLY c \in Nat \ {0}, k \in Nat, n \in Nat
  <2>2. k <= k + n /\ k + n <= k + n + 1 /\ k + n \in Nat /\ k + n + 1 \in Nat
    BY ONLY k \in Nat, n \in Nat
  <2>3. c * k <= c * (k + n) /\ c * (k + n) <= c * (k + n + 1)
    BY <2>2, Monotone
  <2> QED
    BY <2>1, <2>3
<1>4. PICK e \in Nat : e = Least(b, z) /\ e <= z /\ e <= b /\ (e = b \/ e = z)
  <2>1. Least(b, z) \in Nat /\ Least(b, z) <= z /\ Least(b, z) <= b /\ (Least(b, z) = b \/ Least(b, z) = z)
    BY DEF Least
  <2> QED
    BY <2>1
<1>5. Part(r, n) = SubSeq(s, a + 1, e)
  BY <1>2, <1>3, <1>4 DEF Part
<1>6. PICK a1 \in Nat \ {0} : a1 = a + 1
  <2>1. a + 1 \in Nat \ {0}
    OBVIOUS
  <2> QED
    BY <2>1
<1>7. \A j \in a1 .. z : s[j] \in L
  <2>1. \A j \in a1 .. z : j \in 1 .. z
    OBVIOUS
  <2> QED
    BY <1>2, <2>1, ElementIn
<1>8. \A j \in a1 .. e : s[j] \in L
  <2>1. \A j \in a1 .. e : j \in a1 .. z
    BY <1>4
  <2> QED
    BY <1>7, <2>1
<1>9. PICK p \in Seq(L), w \in Nat :
          /\ p = Part(r, n) /\ w = Len(p) /\ w = (IF a1 <= e THEN e - a1 + 1 ELSE 0)
          /\ \A j \in 1 .. w : p[j] = s[a1 + j - 1]
  <2>1. /\ SubSeq(s, a1, e) \in Seq(L)
        /\ Len(SubSeq(s, a1, e)) = IF a1 <= e THEN e - a1 + 1 ELSE 0
        /\ \A j \in 1 .. e - a1 + 1 : SubSeq(s, a1, e)[j] = s[a1 + j - 1]
    BY <1>8, SubSeqProperties
  <2>0. PICK p \in Seq(L) : p = SubSeq(s, a1, e)
    BY <2>1
  <2>2. PICK w \in Nat : w = Len(p)
    OBVIOUS
  <2>3. w = (IF a1 <= e THEN e - a1 + 1 ELSE 0)
    BY <2>0, <2>1, <2>2
  <2>4. \A j \in 1 .. w : j \in 1 .. e - a1 + 1
    BY <2>3
  <2>5. \A j \in 1 .. w : p[j] = s[a1 + j - 1]
    BY <2>0, <2>1, <2>4
  <2>6. p = Part(r, n)
    BY <1>5, <1>6, <2>0
  <2> QED
    BY <2>2, <2>3, <2>5, <2>6
<1>10. Part(r, 0) = <<>>
  <2>0. k + 0 = k
    OBVIOUS
  <2>1. c * (k + 0) = a
    BY ONLY <1>3, <2>0
  <2>2. PICK f \in Nat : f = Least(a, z) /\ f <= a
    <3>1. Least(a, z) \in Nat /\ Least(a, z) <= a
      BY DEF Least
    <3> QED
      BY <3>1
  <2>3. Part(r, 0) = SubSeq(s, a1, f)
    <3>1. Part(r, 0) = SubSeq(s, c * k + 1, Least(c * (k + 0), z))
      BY ONLY <1>2, c = conf.batch, k = conf.skip DEF Part
    <3> QED
      BY ONLY <1>3, <1>6, <2>1, <2>2, <3>1
  <2>4. f < a1
    BY <1>6, <2>2
  <2> QED
    BY <2>3, <2>4, SubSeqEmpty
<1>11. \A m \in Nat : m <= b /\ m <= z => m <= a + w
  <2> SUFFICES ASSUME NEW m \in Nat, m <= b, m <= z PROVE m <= a + w
    OBVIOUS
  <2>1. m <= e
    BY <1>4
  <2> QED
    BY ONLY <2>1, <1>9, <1>6, a1 \in Nat, a \in Nat, e \in Nat, w \in Nat, m \in Nat
<1>12. ASSUME NEW j \in 1 .. w PROVE a + j \in 1 .. z /\ p[j] = s[a + j]
  <2>1. a1 + j - 1 = a + j
    BY <1>6
  <2>2. a + j \in 1 .. z
    BY ONLY <1>4, <1>6, <1>9, j \in 1 .. w, w \in Nat, a \in Nat, e \in Nat, z \in Nat, a1 \in Nat
  <2> QED
    BY <1>9, <2>1, <2>2
<1>13. PartAfter(r, n, c * k)
  <2>1. PartAfter(r, n, a)
    BY <1>2, <1>9, <1>12 DEF PartAfter
  <2> QED
    BY <1>3, <2>1
<1> QED
  BY <1>1, <1>2, <1>3, <1>9, <1>10, <1>11, <1>13

\* What the next batch adds.
LEMMA NextPart ==
    ASSUME conf \in Settings, NEW l \in Nat, order \in Seq(1 .. l), NEW r \in RankSet, NEW n \in Nat,
           NEW c \in Nat \ {0}, c = conf.batch, NEW k \in Nat, k = conf.skip,
           NEW i \in DOMAIN Batches(r), i = k + n + 1
    PROVE  Part(r, n + 1) = Part(r, n) \o Batches(r)[i]
<1>1. PICK L : L = 1 .. l
  OBVIOUS
<1>2. PICK s \in Seq(L), z \in Nat : s = Slice(r) /\ z = Len(s)
  <2>1. Slice(r) \in Seq(L)
    BY <1>1, SliceFacts
  <2> QED
    BY <2>1
<1>3. PICK a \in Nat, b \in Nat, d \in Nat : /\ a = c * k /\ b = c * (k + n) /\ d = c * (k + n + 1)
                                           /\ a <= b /\ b <= d
  <2>1. c * k \in Nat /\ c * (k + n) \in Nat /\ c * (k + n + 1) \in Nat
    BY ONLY c \in Nat \ {0}, k \in Nat, n \in Nat
  <2>2. k <= k + n /\ k + n <= k + n + 1 /\ k + n \in Nat /\ k + n + 1 \in Nat
    BY ONLY k \in Nat, n \in Nat
  <2>3. c * k <= c * (k + n) /\ c * (k + n) <= c * (k + n + 1)
    BY <2>2, Monotone
  <2> QED
    BY <2>1, <2>3
<1>4. PICK a1 \in Nat \ {0} : a1 = a + 1
  <2>1. a + 1 \in Nat \ {0}
    OBVIOUS
  <2> QED
    BY <2>1
<1>5. /\ c * (i - 1) <= Len(Slice(r))
      /\ Batches(r)[i] = SubSeq(Slice(r), c * (i - 1) + 1, Least(c * i, Len(Slice(r))))
  BY BatchesFacts
<1>6. i - 1 = k + n
  OBVIOUS
<1>7. b <= z
  BY ONLY <1>2, <1>3, <1>5, <1>6
<1>8. PICK g \in Nat : g = Least(d, z) /\ b <= g /\ g <= z
  <2>1. Least(d, z) \in Nat /\ b <= Least(d, z) /\ Least(d, z) <= z
    BY ONLY <1>3, <1>7, b \in Nat, d \in Nat, z \in Nat DEF Least
  <2> QED
    BY <2>1
<1>9. Batches(r)[i] = SubSeq(s, b + 1, g)
  BY ONLY <1>2, <1>3, <1>5, <1>6, <1>8, i = k + n + 1
<1>10. Part(r, n + 1) = SubSeq(s, a1, g)
  <2>1. k + (n + 1) = k + n + 1
    OBVIOUS
  <2> QED
    BY <1>2, <1>3, <1>4, <1>8, <2>1 DEF Part
<1>11. Part(r, n) = SubSeq(s, a1, b)
  <2>1. Least(b, z) = b
    BY ONLY <1>7, b \in Nat, z \in Nat DEF Least
  <2>2. Part(r, n) = SubSeq(s, c * k + 1, Least(c * (k + n), z))
    BY ONLY <1>2, c = conf.batch, k = conf.skip DEF Part
  <2> QED
    BY ONLY <1>3, <1>4, <2>1, <2>2
<1>12. SubSeq(s, a1, b) \o SubSeq(s, b + 1, g) = SubSeq(s, a1, g)
  <2>1. a <= b
    BY <1>3
  <2>2. a1 \in 1 .. (z + 1) /\ b \in (a1 - 1) .. z /\ g \in b .. z
    BY ONLY <1>4, <1>7, <1>8, a \in Nat, a1 \in Nat, b \in Nat, z \in Nat, g \in Nat, <2>1
  <2>3. a1 \in 1 .. (Len(s) + 1) /\ b \in (a1 - 1) .. Len(s) /\ g \in b .. Len(s)
    BY <1>2, <2>2
  <2> QED
    BY <2>3, ConcatAdjacentSubSeq
<1> QED
  BY <1>9, <1>10, <1>11, <1>12

\* The groups at the places of two lists, one after the other.
LEMMA GroupsAtConcat ==
    ASSUME NEW S, PackedIdx \in Seq(S), NEW l \in Nat, l = Len(PackedIdx),
           NEW p \in Seq(1 .. l), NEW q \in Seq(1 .. l)
    PROVE  GroupsAt(p \o q) = GroupsAt(p) \o GroupsAt(q)
<1>1. PICK L : L = 1 .. l
  OBVIOUS
<1>2. PICK m \in Nat, n \in Nat, u \in Seq(L) : m = Len(p) /\ n = Len(q) /\ u = p \o q
  <2>1. p \in Seq(L) /\ q \in Seq(L)
    BY <1>1
  <2>2. p \o q \in Seq(L) /\ Len(p) \in Nat /\ Len(q) \in Nat
    BY <2>1, ConcatProperties
  <2> QED
    BY <2>2
<1>3. Len(u) = m + n /\ \A i \in 1 .. (m + n) : u[i] = IF i <= m THEN p[i] ELSE q[i - m]
  BY <1>1, <1>2, ConcatProperties
<1>4. PICK gs \in Seq(S) : gs = PackedIdx
  OBVIOUS
<1>5. PICK a, b, d : /\ a = [i \in 1 .. m |-> gs[p[i]]] /\ b = [i \in 1 .. n |-> gs[q[i]]]
                     /\ d = [i \in 1 .. (m + n) |-> gs[u[i]]]
  OBVIOUS
<1>6. a = GroupsAt(p) /\ b = GroupsAt(q) /\ d = GroupsAt(u)
  BY <1>2, <1>3, <1>4, <1>5 DEF GroupsAt
<1>7. a \in Seq(S) /\ b \in Seq(S) /\ d \in Seq(S)
  <2>1. u \in Seq(1 .. l)
    BY <1>1
  <2>2. GroupsAt(p) \in Seq(S) /\ GroupsAt(q) \in Seq(S) /\ GroupsAt(u) \in Seq(S)
    BY <2>1, GroupsAtType DEF GroupsAt
  <2> QED
    BY <1>6, <2>2
<1>8. Len(a) = m /\ Len(b) = n /\ Len(d) = m + n
  <2>1. DOMAIN a = 1 .. m /\ DOMAIN b = 1 .. n /\ DOMAIN d = 1 .. (m + n)
    BY <1>5
  <2> QED
    BY ONLY <1>7, <2>1, m \in Nat, n \in Nat
<1>9. PICK e \in Seq(S) : e = a \o b
  BY <1>7, ConcatProperties
<1>10. Len(e) = m + n /\ \A i \in 1 .. (m + n) : e[i] = IF i <= m THEN a[i] ELSE b[i - m]
  BY <1>7, <1>8, <1>9, ConcatProperties
<1>11. \A i \in 1 .. (m + n) : e[i] = d[i]
  <2> TAKE i \in 1 .. (m + n)
  <2>1. CASE i <= m
    <3>1. i \in 1 .. m
      BY <2>1
    <3> QED
      BY <1>3, <1>5, <1>10, <2>1, <3>1
  <2>2. CASE ~(i <= m)
    <3>1. i - m \in 1 .. n
      BY <2>2
    <3> QED
      BY <1>3, <1>5, <1>10, <2>2, <3>1
  <2> QED
    BY <2>1, <2>2
<1>12. e = d
  <2>1. Len(e) = Len(d)
    BY <1>8, <1>10
  <2>2. \A i \in 1 .. Len(e) : e[i] = d[i]
    BY <1>10, <1>11
  <2> QED
    BY <1>7, <2>1, <2>2, SeqEqual
<1> QED
  BY <1>2, <1>6, <1>9, <1>12

-----------------------------------------------------------------------------
(* What the ranks have seen, step by step.                                 *)

\* A rank that has had no batch has seen nothing.
NoParts == \A r \in RankSet : GroupsAt(Part(r, 0)) = <<>>

LEMMA NothingSeen == TypeInv => NoParts
<1> SUFFICES ASSUME TypeInv, NEW r \in RankSet PROVE GroupsAt(Part(r, 0)) = <<>>
  BY DEF NoParts
<1>1. PICK l \in Nat : l = Len(PackedIdx)
  BY PackedFacts DEF TypeInv, Groups
<1>2. order \in Seq(1 .. l)
  BY <1>1, OrderType
<1>3. PICK c \in Nat \ {0}, k \in Nat : c = conf.batch /\ k = conf.skip
  BY ConfFacts DEF TypeInv
<1>4. conf \in Settings /\ 0 \in Nat
  BY DEF TypeInv
<1>5. Part(r, 0) = <<>>
  BY <1>2, <1>3, <1>4, PartFacts
<1> QED
  BY <1>5 DEF GroupsAt

LEMMA NothingSeenNext == TypeInv' => NoParts'
  BY NothingSeen, PTL

\* What the slices and the packed data set do not change with.
LEMMA RanksKeep ==
    ASSUME UNCHANGED <<conf, packed, ended, order>>
    PROVE  /\ Packed' = Packed /\ SamplerLen' = SamplerLen
           /\ \A r, h : Had(r)' = h => GroupsAt(Part(r, Had(r)))' = GroupsAt(Part(r, h))
<1>1. NumWorkers' = NumWorkers /\ Workers' = Workers
  BY Stays
<1>2. PackedIdx' = PackedIdx
  BY <1>1 DEF PackedIdx
<1>3. Packed' = Packed /\ TotalSamples' = TotalSamples
  BY <1>1, <1>2 DEF Packed, TotalSamples
<1>4. SamplerLen' = SamplerLen
  BY <1>3 DEF SamplerLen
<1>5. \A r : Slice(r)' = Slice(r)
  BY DEF Slice
<1>6. ASSUME NEW r, NEW h, Had(r)' = h PROVE GroupsAt(Part(r, Had(r)))' = GroupsAt(Part(r, h))
  <2>1. Part(r, Had(r))' = Part(r, h)
    BY <1>5, <1>6 DEF Part
  <2> QED
    BY <1>2, <2>1 DEF GroupsAt
<1> QED
  BY <1>3, <1>4, <1>6

\* A rank nothing of which changes.
LEMMA RankStays ==
    ASSUME UNCHANGED <<conf, packed, ended, order>>, NEW r, RankOf(r),
           trained'[r] = trained[r], pc'[r] = pc[r], hand'[r] = hand[r]
    PROVE  RankOf(r)'
<1>1. Had(r)' = Had(r) /\ Seen(r)' = Seen(r)
  BY DEF Had, Seen
<1>2. Packed' = Packed /\ SamplerLen' = SamplerLen
  BY RanksKeep
<1>3. GroupsAt(Part(r, Had(r)))' = GroupsAt(Part(r, Had(r)))
  BY <1>1, RanksKeep
<1> QED
  BY <1>1, <1>2, <1>3 DEF RankOf

\* A rank that has had no batch, while the data set or the order is made.
LEMMA RankWaits ==
    ASSUME TypeInv, TypeInv', conf' = conf, NEW r \in RankSet, RankOf(r),
           trained'[r] = trained[r], pc'[r] = pc[r], hand'[r] = hand[r],
           trained[r] = <<>>, pc[r] # "train",
           pc[r] # "next" => Packed' /\ SamplerLen' = SamplerLen
    PROVE  RankOf(r)'
<1>1. pc[r] \in {"next", "train", "done", "raised"}
  BY DEF TypeInv
<1>2. Had(r) = 0 /\ Had(r)' = 0
  <2>1. Len(<<>>) = 0 /\ 0 + 0 = 0
    OBVIOUS
  <2> QED
    BY <2>1 DEF Had
<1>3. Seen(r)' = Seen(r)
  BY DEF Seen
<1>4. Seen(r) = <<>>
  BY <1>2, NothingSeen DEF NoParts, RankOf
<1>5. GroupsAt(Part(r, Had(r)))' = <<>>
  <2>1. NoParts'
    BY NothingSeenNext
  <2>2. RankSet' = RankSet
    BY DEF RankSet
  <2>3. GroupsAt(Part(r, 0))' = <<>>
    BY <2>1, <2>2 DEF NoParts
  <2>4. Part(r, Had(r))' = Part(r, 0)'
    BY <1>2 DEF Part
  <2>5. GroupsAt(Part(r, Had(r)))' = GroupsAt(Part(r, 0))'
    BY <2>4 DEF GroupsAt
  <2> QED
    BY <2>3, <2>5
<1>6. CASE pc[r] = "done"
  BY <1>3, <1>4, <1>5, <1>6 DEF RankOf
<1>7. CASE pc[r] = "raised"
  BY <1>3, <1>4, <1>5, <1>7 DEF RankOf
<1>8. CASE pc[r] = "next"
  BY <1>3, <1>4, <1>5, <1>8 DEF RankOf
<1> QED
  BY <1>1, <1>6, <1>7, <1>8

LEMMA RankNext ==
    ASSUME TypeInv, HandsInv, NEW r \in RankSet, RankOf(r), NextBatch(r)
    PROVE  RankOf(r)'
<1>0. PICK m \in Nat : m = Len(trained[r])
  <2>1. trained[r] \in Seq(Groups)
    BY DEF TypeInv
  <2> QED
    BY <2>1
<1>1. PICK i : m = Len(trained[r]) /\ i = conf.skip + m + 1
  BY <1>0
<1>2. PICK c \in Nat \ {0}, k \in Nat : c = conf.batch /\ k = conf.skip
  BY ConfFacts DEF TypeInv
<1>3. /\ UNCHANGED <<conf, packed, ended, order, trained>> /\ Packed /\ pc[r] = "next"
      /\ i <= SamplerLen =>
             /\ i \in DOMAIN Batches(r)
             /\ hand' = [hand EXCEPT ![r] = GroupsAt(Batches(r)[i])]
             /\ pc' = [pc EXCEPT ![r] = "train"]
      /\ ~(i <= SamplerLen) => pc' = [pc EXCEPT ![r] = "done"] /\ hand' = hand
  BY <1>1, NextBatchEffect
<1>4. /\ pc \in [RankSet -> {"next", "train", "done", "raised"}]
      /\ hand \in [RankSet -> Groups]
  BY DEF TypeInv
<1>5. hand[r] = <<>>
  BY <1>3 DEF HandsInv
<1>6. Had(r) = m
  <2>1. m + 0 = m
    OBVIOUS
  <2> QED
    BY <1>1, <1>3, <2>1 DEF Had
<1>7. Seen(r) = GroupsAt(Part(r, m))
  BY <1>6 DEF RankOf
<1>8. Packed' = Packed /\ SamplerLen' = SamplerLen
  BY <1>3, RanksKeep
<1>9. CASE ~(i <= SamplerLen)
  <2>1. pc'[r] = "done" /\ hand'[r] = hand[r] /\ trained'[r] = trained[r]
    BY <1>3, <1>4, <1>9
  <2>2. Seen(r)' = Seen(r)
    BY <2>1 DEF Seen
  <2>3. Had(r)' = m
    <3>1. m + 0 = m
      OBVIOUS
    <3> QED
      BY <1>1, <2>1, <3>1 DEF Had
  <2>4. GroupsAt(Part(r, Had(r)))' = GroupsAt(Part(r, m))
    BY <1>3, <2>3, RanksKeep
  <2>5. conf.skip + Len(trained[r]) >= SamplerLen
    <3>1. SamplerLen \in Nat
      BY <1>2, SamplerFacts DEF TypeInv
    <3>2. PICK n \in Nat : n = SamplerLen
      BY <3>1
    <3>3. ~(k + m + 1 <= n)
      BY <1>1, <1>2, <1>9, <3>2
    <3>4. k + m >= n
      BY ONLY <3>3, k \in Nat, m \in Nat, n \in Nat
    <3> QED
      BY <1>1, <1>2, <3>2, <3>4
  <2>6. trained[r] # <<>> => order # <<>>
    BY DEF RankOf
  <2> QED
    BY <1>3, <1>7, <1>8, <2>1, <2>2, <2>4, <2>5, <2>6 DEF RankOf
<1>10. CASE i <= SamplerLen
  <2>1. i \in DOMAIN Batches(r) /\ hand'[r] = GroupsAt(Batches(r)[i]) /\ pc'[r] = "train"
        /\ trained'[r] = trained[r]
    BY <1>3, <1>4, <1>10
  <2>2. PICK l \in Nat : l = Len(PackedIdx)
    BY PackedFacts, SMTT(30) DEF TypeInv, Groups
  <2>3. PICK S : Groups = Seq(Seq(S))
    BY DEF Groups
  <2>4. order \in Seq(1 .. l) /\ PackedIdx \in Seq(Seq(S)) /\ conf \in Settings
    BY <2>2, <2>3, OrderType DEF TypeInv
  <2>5. i = k + m + 1
    BY <1>1, <1>2
  <2>6. Part(r, m) \in Seq(1 .. l) /\ Part(r, m + 1) = Part(r, m) \o Batches(r)[i]
    <3>1. Part(r, m) \in Seq(1 .. l)
      BY ONLY <1>2, <2>4, PartFacts, m \in Nat, l \in Nat, r \in RankSet
    <3>2. Part(r, m + 1) = Part(r, m) \o Batches(r)[i]
      BY <1>2, <2>1, <2>4, <2>5, NextPart, ZenonT(30)
    <3> QED
      BY <3>1, <3>2
  <2>7. Batches(r)[i] \in Seq(1 .. l)
    BY <1>2, <2>1, <2>4, BatchesFacts
  <2>8. GroupsAt(Part(r, m + 1)) = GroupsAt(Part(r, m)) \o GroupsAt(Batches(r)[i])
    BY <2>2, <2>4, <2>6, <2>7, GroupsAtConcat, ZenonT(30)
  <2>9. FlattenSeq(trained[r]) = GroupsAt(Part(r, m))
    <3>1. trained[r] \in Seq(Seq(Seq(S)))
      BY <2>3 DEF TypeInv
    <3>2. FlattenSeq(trained[r]) \in Seq(Seq(S))
      BY <3>1, FlattenType
    <3>3. FlattenSeq(trained[r]) \o <<>> = FlattenSeq(trained[r])
      BY <3>2, ConcatEmptySeq
    <3> QED
      BY <1>5, <1>7, <3>3 DEF Seen
  <2>10. Seen(r)' = GroupsAt(Part(r, m + 1))
    BY <2>1, <2>8, <2>9 DEF Seen
  <2>11. Had(r)' = m + 1
    BY <1>1, <2>1 DEF Had
  <2>12. GroupsAt(Part(r, Had(r)))' = GroupsAt(Part(r, m + 1))
    BY <1>3, <2>11, RanksKeep
  <2>13. order # <<>>
    <3> SUFFICES ASSUME order = <<>> PROVE FALSE
      OBVIOUS
    <3>1. Orders = {<<>>}
      BY DEF NextBatch
    <3>2. PICK o \in Orders : o = <<>>
      BY <3>1
    <3>3. packed \in [Workers -> Groups]
      BY DEF TypeInv
    <3>4. TotalSamples \in Nat /\ Ranks * TotalSamples <= Len(o)
      BY <2>4, <3>3, OrdersFacts
    <3>5. PICK t \in Nat, R \in Nat \ {0} : t = TotalSamples /\ R = Ranks
      BY <3>4, ConfFacts, <2>4
    <3>6. R * t <= 0
      BY <3>2, <3>4, <3>5
    <3>7. t = 0
      <4>1. t >= 1 => R * 1 <= R * t /\ R * 1 = R
        BY Monotone
      <4> QED
        BY <3>6, <4>1
    <3>8. SamplerLen = 0
      BY <1>2, <2>4, <3>3, <3>5, <3>7, SamplerFacts
    <3>9. k + m + 1 <= 0
      BY <1>10, <2>5, <3>8
    <3> QED
      BY ONLY <3>9, k \in Nat, m \in Nat
  <2> QED
    BY <1>3, <1>8, <2>1, <2>10, <2>12, <2>13 DEF RankOf
<1> QED
  BY <1>9, <1>10

LEMMA RankTrains ==
    ASSUME TypeInv, NEW r \in RankSet, RankOf(r), TrainStep
    PROVE  RankOf(r)'
<1>1. /\ UNCHANGED <<conf, packed, ended, order>> /\ pc[r] = "train"
      /\ trained'[r] = Append(trained[r], hand[r]) /\ hand'[r] = <<>> /\ pc'[r] = "next"
  BY DEF TrainStep, packingVars
<1>2. PICK S : Groups = Seq(S)
  BY DEF Groups
<1>3. PICK td \in Seq(Seq(S)), g \in Seq(S) : td = trained[r] /\ g = hand[r]
  BY <1>2 DEF TypeInv
<1>4. PICK m \in Nat : m = Len(td)
  OBVIOUS
<1>5. Had(r) = m + 1
  BY <1>1, <1>3, <1>4 DEF Had
<1>6. Len(Append(td, g)) = m + 1
  BY <1>4, AppendProperties
<1>7. Had(r)' = m + 1
  <2>1. m + 1 + 0 = m + 1
    OBVIOUS
  <2> QED
    BY <1>1, <1>3, <1>6, <2>1 DEF Had
<1>8. FlattenSeq(Append(td, g)) = FlattenSeq(td) \o g
  BY FlattenAppend
<1>9. PICK u \in Seq(S) : u = FlattenSeq(td) \o g
  <2>1. FlattenSeq(td) \in Seq(S)
    BY FlattenType
  <2> QED
    BY <2>1, ConcatProperties
<1>10. u \o <<>> = u
  BY ConcatEmptySeq
<1>11. Seen(r)' = Seen(r)
  BY <1>1, <1>3, <1>8, <1>9, <1>10 DEF Seen
<1>12. GroupsAt(Part(r, Had(r)))' = GroupsAt(Part(r, Had(r)))
  BY <1>1, <1>5, <1>7, RanksKeep
<1>13. Packed' = Packed
  BY <1>1, RanksKeep
<1> QED
  BY <1>1, <1>11, <1>12, <1>13 DEF RankOf

LEMMA RanksInit == Init => RanksInv
<1> SUFFICES ASSUME Init PROVE RanksInv
  OBVIOUS
<1>1. /\ pc = [r \in RankSet |-> "next"]
      /\ hand = [r \in RankSet |-> <<>>]
      /\ trained = [r \in RankSet |-> <<>>]
  BY DEF Init
<1>2. ASSUME NEW r \in RankSet PROVE RankOf(r)
  <2>1. pc[r] = "next" /\ hand[r] = <<>> /\ trained[r] = <<>>
    BY <1>1
  <2>2. Had(r) = 0
    <3>1. Len(<<>>) = 0 /\ 0 + 0 = 0
      OBVIOUS
    <3> QED
      BY <2>1, <3>1 DEF Had
  <2>3. Seen(r) = <<>>
    <3>1. <<>> \o <<>> = <<>>
      OBVIOUS
    <3> QED
      BY <2>1, <3>1, FlattenEmpty DEF Seen
  <2>4. GroupsAt(Part(r, 0)) = <<>>
    BY TypeInit, NothingSeen DEF NoParts
  <2> QED
    BY <2>1, <2>2, <2>3, <2>4 DEF RankOf
<1>3. \A r \in RankSet : pc[r] # "done"
  BY <1>1
<1> QED
  BY <1>2, <1>3 DEF RanksInv

\* A stream that is over stays over.
LEMMA StreamOverStays ==
    ASSUME TypeInv, conf.streaming, StreamOver, [Next]_vars
    PROVE  StreamOver'
<1>1. /\ reader.pc = "end" /\ rows = <<>> /\ batch = <<>> /\ loaded = <<>>
      /\ pulled = <<>> /\ Len(dropped) < Ranks
  BY DEF StreamOver, LoaderEnded, StreamEnded
<1>2. CASE UNCHANGED <<conf, reader, rows, batch, loaded, pulled, dropped>>
  BY <1>1, <1>2 DEF StreamOver, LoaderEnded, StreamEnded
<1>3. CASE PackingNext
  <2>1. UNCHANGED <<batch, loaded, pulled, dropped>>
    BY <1>3 DEF PackingNext, loaderVars
  <2>2. UNCHANGED <<conf, reader, rows>>
    BY <1>1, <1>3 DEF PackingNext, PackChunk, Collect, PutInterval, Fetch, PackInterval, TakeSample,
                      Encode, streamVars
  <2> QED
    BY <1>2, <2>1, <2>2
<1>4. CASE BuildLoader \/ (\E r \in RankSet : NextBatch(r)) \/ TrainStep \/ SkipRaises \/ UNCHANGED vars
  <2>1. UNCHANGED <<conf, reader, rows, batch, loaded, pulled, dropped>>
    BY <1>4 DEF BuildLoader, NextBatch, TrainStep, SkipRaises, vars, packingVars, loaderVars
  <2> QED
    BY <1>2, <2>1
<1>5. ~Collate
  BY <1>1 DEF Collate
<1>6. ~Pull
  BY <1>1 DEF Pull
<1>7. ~Scatter
  <2>1. Len(<<>>) = 0 /\ Ranks # 0
    BY RanksAssumption
  <2> QED
    BY <1>1, <2>1 DEF Scatter
<1>8. CASE ScatterEnd
  <2>1. /\ dropped' = <<>> /\ pulled' = <<>>
        /\ UNCHANGED <<conf, reader, rows, batch, loaded>>
    BY <1>1, <1>8 DEF ScatterEnd, packingVars
  <2>2. Len(<<>>) = 0 /\ 0 < Ranks
    BY RanksAssumption
  <2> QED
    BY <1>1, <2>1, <2>2 DEF StreamOver, LoaderEnded, StreamEnded
<1> QED
  BY <1>3, <1>4, <1>5, <1>6, <1>7, <1>8 DEF Next

LEMMA ConfStays ==
    ASSUME [Next]_vars
    PROVE  conf' = conf
<1>1. CASE PackingNext
  <2>1. ASSUME NEW k \in Workers, PackChunk(k) \/ Collect(k) PROVE conf' = conf
    BY <2>1 DEF PackChunk, Collect
  <2>2. ASSUME NEW p \in 1 .. Procs, TakeSample(p) \/ Encode(p) PROVE conf' = conf
    BY <2>2 DEF TakeSample, Encode
  <2>3. CASE PutInterval \/ Fetch \/ PackInterval
    BY <2>3 DEF PutInterval, Fetch, PackInterval
  <2> QED
    BY <1>1, <2>1, <2>2, <2>3, SMTT(30) DEF PackingNext
<1>2. CASE BuildLoader \/ (\E r \in RankSet : NextBatch(r)) \/ TrainStep
  BY <1>2 DEF BuildLoader, NextBatch, TrainStep, packingVars
<1>3. CASE Collate \/ Pull \/ SkipRaises \/ Scatter \/ ScatterEnd
  BY <1>3 DEF Collate, Pull, SkipRaises, Scatter, ScatterEnd, packingVars
<1>4. CASE UNCHANGED vars
  BY <1>4 DEF vars, packingVars
<1> QED
  BY <1>1, <1>2, <1>3, <1>4 DEF Next

LEMMA RanksStream ==
    ASSUME TypeInv, RanksInv, [Next]_vars, conf.streaming
    PROVE  RanksInv'
<1>1. \A r \in RankSet : pc[r] = "done" => StreamOver
  BY DEF RanksInv
<1>2. conf' = conf /\ RankSet' = RankSet
  BY ConfStays DEF RankSet
<1>3. pc \in [RankSet -> {"next", "train", "done", "raised"}]
  BY DEF TypeInv
<1>4. \/ \A r \in RankSet : pc'[r] = "done" => pc[r] = "done"
      \/ ScatterEnd
  <2>1. CASE PackingNext
    BY <2>1 DEF PackingNext
  <2>2. CASE BuildLoader \/ Collate \/ Pull \/ UNCHANGED vars
    BY <2>2 DEF BuildLoader, Collate, Pull, vars
  <2>3. \A r \in RankSet : ~NextBatch(r)
    BY DEF NextBatch, Packed
  <2>4. CASE TrainStep
    BY <2>4 DEF TrainStep
  <2>5. CASE SkipRaises
    BY <1>3, <2>5 DEF SkipRaises
  <2>6. CASE Scatter
    BY <2>6 DEF Scatter
  <2> QED
    BY <2>1, <2>2, <2>3, <2>4, <2>5, <2>6 DEF Next
<1>5. CASE ScatterEnd
  <2>1. /\ LoaderEnded /\ Len(pulled) < Ranks /\ dropped' = pulled /\ pulled' = <<>>
        /\ UNCHANGED <<conf, reader, rows, batch, loaded>>
    BY <1>5 DEF ScatterEnd, packingVars
  <2>2. StreamOver'
    BY <2>1 DEF StreamOver, LoaderEnded, StreamEnded
  <2> QED
    BY <1>2, <2>2 DEF RanksInv
<1>6. CASE \A r \in RankSet : pc'[r] = "done" => pc[r] = "done"
  <2>1. ASSUME NEW r \in RankSet, pc'[r] = "done" PROVE StreamOver'
    BY <1>1, <1>6, <2>1, StreamOverStays
  <2> QED
    BY <1>2, <2>1 DEF RanksInv
<1> QED
  BY <1>4, <1>5, <1>6

LEMMA RanksMap ==
    ASSUME TypeInv, TypeInv', HandsInv, RanksInv, [Next]_vars, ~conf.streaming
    PROVE  RanksInv'
<1>1. \A r \in RankSet : RankOf(r)
  BY DEF RanksInv
<1>2. conf' = conf /\ RankSet' = RankSet
  BY ConfStays DEF RankSet
<1> SUFFICES ASSUME NEW r \in RankSet PROVE RankOf(r)'
  BY <1>2 DEF RanksInv
<1>3. RankOf(r)
  BY <1>1
<1>4. CASE UNCHANGED <<conf, packed, ended, order, trained, pc, hand>>
  BY <1>3, <1>4, RankStays
<1>5. CASE PackingNext
  <2>1. UNCHANGED <<pc, hand, trained, order>>
    BY <1>5 DEF PackingNext
  <2>2. ASSUME NEW k \in Workers, Collect(k) PROVE RankOf(r)'
    <3>1. ended < NumWorkers
      BY <2>2 DEF Collect
    <3>2. ~Packed
      <4>1. NumWorkers \in Nat
        BY ConfFacts DEF TypeInv
      <4> QED
        BY <3>1, <4>1 DEF Packed
    <3>3. pc[r] = "next" /\ trained[r] = <<>>
      BY <1>3, <3>2 DEF RankOf
    <3> QED
      BY <1>2, <1>3, <2>1, <3>3, RankWaits
  <2>3. CASE \A k \in Workers : ~Collect(k)
    <3>1. UNCHANGED <<conf, packed, ended>>
      BY <1>5, <2>3 DEF PackingNext, PackChunk, PutInterval, Fetch, PackInterval, TakeSample, Encode, mapVars
    <3> QED
      BY <1>4, <2>1, <3>1, SMTT(30)
  <2> QED
    BY <2>2, <2>3
<1>6. CASE BuildLoader
  <2>1. UNCHANGED <<packed, ended, pc, hand, trained>> /\ Packed /\ order = <<>>
    BY <1>6 DEF BuildLoader, packingVars
  <2>2. trained[r] = <<>> /\ pc[r] # "train"
    BY <1>3, <2>1 DEF RankOf
  <2>3. NumWorkers' = NumWorkers /\ Workers' = Workers
    BY <1>2, Stays
  <2>4. PackedIdx' = PackedIdx
    BY <2>1, <2>3 DEF PackedIdx
  <2>5. Packed' /\ TotalSamples' = TotalSamples
    BY <1>2, <2>1, <2>3, <2>4 DEF Packed, TotalSamples
  <2>6. SamplerLen' = SamplerLen
    BY <1>2, <2>5 DEF SamplerLen
  <2> QED
    BY <1>2, <1>3, <2>1, <2>2, <2>5, <2>6, RankWaits
<1>7. ASSUME NEW q \in RankSet, NextBatch(q) PROVE RankOf(r)'
  <2>1. CASE q = r
    BY <1>3, <1>7, <2>1, RankNext
  <2>2. CASE q # r
    <3>1. UNCHANGED <<conf, packed, ended, order, trained>>
      BY <1>7 DEF NextBatch, packingVars
    <3>2. pc \in [RankSet -> {"next", "train", "done", "raised"}] /\ hand \in [RankSet -> Groups]
      BY DEF TypeInv
    <3>3. \/ \E g : hand' = [hand EXCEPT ![q] = g] /\ pc' = [pc EXCEPT ![q] = "train"]
          \/ pc' = [pc EXCEPT ![q] = "done"] /\ hand' = hand
      BY <1>7 DEF NextBatch
    <3>4. pc'[r] = pc[r] /\ hand'[r] = hand[r]
      BY <2>2, <3>2, <3>3
    <3> QED
      BY <1>3, <3>1, <3>4, RankStays
  <2> QED
    BY <2>1, <2>2
<1>8. CASE TrainStep
  BY <1>3, <1>8, RankTrains
<1>9. CASE Pull \/ UNCHANGED vars
  BY <1>4, <1>9 DEF Pull, packingVars, vars
<1>10. ~Collate /\ ~SkipRaises /\ ~Scatter /\ ~ScatterEnd
  BY DEF Collate, SkipRaises, Scatter, ScatterEnd, LoaderEnded
<1> QED
  BY <1>5, <1>6, <1>7, <1>8, <1>9, <1>10 DEF Next

LEMMA RanksStep ==
    ASSUME TypeInv, TypeInv', HandsInv, RanksInv, [Next]_vars
    PROVE  RanksInv'
<1>1. conf.streaming \in BOOLEAN
  BY ConfFacts DEF TypeInv
<1> QED
  BY <1>1, RanksStream, RanksMap

-----------------------------------------------------------------------------
(* Nothing is seen twice.                                                  *)

\* No place of the order is in two slices, or twice in one.
LEMMA SlicesApart ==
    ASSUME conf \in Settings, NEW l \in Nat, order \in Seq(1 .. l), OneToOne(order),
           NEW r \in RankSet, NEW q \in RankSet,
           NEW i \in 1 .. Len(Slice(r)), NEW j \in 1 .. Len(Slice(q)), Slice(r)[i] = Slice(q)[j]
    PROVE  r = q /\ i = j
<1>1. PICK R \in Nat \ {0}, n \in Nat : R = Ranks /\ n = Len(order)
  <2>1. Ranks \in Nat \ {0}
    BY RanksAssumption
  <2>2. Len(order) \in Nat
    BY order \in Seq(1 .. l)
  <2> QED
    BY ONLY <2>1, <2>2
<1>2. r \in 0 .. (R - 1) /\ q \in 0 .. (R - 1)
  BY <1>1 DEF RankSet
<1>3. PICK a \in Nat, b \in Nat : a = i - 1 /\ b = j - 1
  <2>1. Slice(r) \in Seq(1 .. l) /\ Slice(q) \in Seq(1 .. l)
    BY SliceFacts
  <2>2. i \in Nat \ {0} /\ j \in Nat \ {0}
    BY <2>1
  <2>3. i - 1 \in Nat /\ j - 1 \in Nat
    BY ONLY <2>2
  <2> QED
    BY <2>3
<1>4. PICK u \in 1 .. n, v \in 1 .. n : /\ u = r + 1 + a * R /\ Slice(r)[i] = order[u]
                                        /\ v = q + 1 + b * R /\ Slice(q)[j] = order[v]
  <2>1. /\ r + 1 + (i - 1) * Ranks \in 1 .. Len(order)
        /\ Slice(r)[i] = order[r + 1 + (i - 1) * Ranks]
    BY SliceFacts
  <2>2. /\ q + 1 + (j - 1) * Ranks \in 1 .. Len(order)
        /\ Slice(q)[j] = order[q + 1 + (j - 1) * Ranks]
    BY SliceFacts
  <2> QED
    BY ONLY <1>1, <1>3, <2>1, <2>2
<1>5. u = v
  BY <1>1, <1>4 DEF OneToOne
<1>6. R * a + r = R * b + q
  <2>1. a * R = R * a /\ b * R = R * b /\ R * a \in Nat /\ R * b \in Nat
    OBVIOUS
  <2>2. PICK x \in Nat, y \in Nat : x = R * a /\ y = R * b
    BY <2>1
  <2>3. r + 1 + x = q + 1 + y
    BY ONLY <1>4, <1>5, <2>1, <2>2
  <2>4. r \in Nat /\ q \in Nat
    BY ONLY <1>2, R \in Nat \ {0}
  <2>5. x + r = y + q
    BY ONLY <2>3, <2>4, x \in Nat, y \in Nat
  <2> QED
    BY ONLY <2>2, <2>5
<1>7. /\ (R * a + r) \div R = a /\ (R * a + r) % R = r
      /\ (R * b + q) \div R = b /\ (R * b + q) % R = q
  BY <1>2, Quotient
<1>8. a = b /\ r = q
  BY ONLY <1>6, <1>7
<1>9. i = j
  <2>1. i \in Nat /\ j \in Nat
    BY SliceFacts
  <2> QED
    BY ONLY <1>3, <1>8, <2>1
<1> QED
  BY <1>8, <1>9

\* The places of the groups that a rank has seen: they lead to a group, and not two of
\* them, of one rank or of two, to the same.
PlacesSeen(r) == Part(r, Had(r))

LEMMA PlacesApart ==
    ASSUME TypeInv, NEW l \in Nat, l = Len(PackedIdx), NEW r \in RankSet, NEW q \in RankSet
    PROVE  /\ PlacesSeen(r) \in Seq(1 .. l)
           /\ \A i \in 1 .. Len(PlacesSeen(r)), j \in 1 .. Len(PlacesSeen(q)) :
                  PlacesSeen(r)[i] = PlacesSeen(q)[j] => r = q /\ i = j
<1>1. PICK c \in Nat \ {0}, k \in Nat, d \in Nat : c = conf.batch /\ k = conf.skip /\ d = c * k
  <2>1. PICK c \in Nat \ {0}, k \in Nat : c = conf.batch /\ k = conf.skip
    BY ConfFacts DEF TypeInv
  <2>2. c * k \in Nat
    OBVIOUS
  <2> QED
    BY <2>1, <2>2
<1>2. conf \in Settings /\ order \in Seq(1 .. l) /\ OneToOne(order)
  BY OrderType DEF TypeInv
<1>3. PICK m \in Nat, n \in Nat : m = Had(r) /\ n = Had(q)
  <2>1. trained[r] \in Seq(Groups) /\ trained[q] \in Seq(Groups)
    BY DEF TypeInv
  <2>2. Len(trained[r]) \in Nat /\ Len(trained[q]) \in Nat
    BY <2>1
  <2>3. PICK a \in Nat, b \in Nat : a = Len(trained[r]) /\ b = Len(trained[q])
    BY <2>2
  <2>4. Had(r) = a + (IF pc[r] = "train" THEN 1 ELSE 0) /\ Had(q) = b + (IF pc[q] = "train" THEN 1 ELSE 0)
    BY <2>3 DEF Had
  <2> QED
    BY ONLY <2>4, a \in Nat, b \in Nat
<1>4. /\ Part(r, m) \in Seq(1 .. l)
      /\ \A i \in 1 .. Len(Part(r, m)) : d + i \in 1 .. Len(Slice(r)) /\ Part(r, m)[i] = Slice(r)[d + i]
  <2>1. Part(r, m) \in Seq(1 .. l)
    BY <1>1, <1>2, PartFacts
  <2>2. PartAfter(r, m, d)
    BY <1>1, <1>2, PartFacts
  <2> QED
    BY ONLY <2>1, <2>2 DEF PartAfter
<1>5. \A j \in 1 .. Len(Part(q, n)) : d + j \in 1 .. Len(Slice(q)) /\ Part(q, n)[j] = Slice(q)[d + j]
  <2>1. PartAfter(q, n, d)
    BY <1>1, <1>2, PartFacts
  <2> QED
    BY ONLY <2>1 DEF PartAfter
<1>6. ASSUME NEW i \in 1 .. Len(Part(r, m)), NEW j \in 1 .. Len(Part(q, n)), Part(r, m)[i] = Part(q, n)[j]
      PROVE  r = q /\ i = j
  <2>1. PICK x \in 1 .. Len(Slice(r)), y \in 1 .. Len(Slice(q)) :
            x = d + i /\ y = d + j /\ Slice(r)[x] = Slice(q)[y]
    BY ONLY <1>4, <1>5, <1>6, i \in 1 .. Len(Part(r, m)), j \in 1 .. Len(Part(q, n))
  <2>2. r = q /\ x = y
    BY <1>2, <2>1, SlicesApart
  <2>3. i \in Int /\ j \in Int
    OBVIOUS
  <2> QED
    BY ONLY <2>1, <2>2, <2>3, d \in Nat
<1> QED
  BY <1>3, <1>4, <1>6 DEF PlacesSeen

\* What a rank has seen has no sample twice, and none that another rank has seen.
LEMMA SeenApart ==
    ASSUME TypeInv, MapInv, RanksInv, ~conf.streaming, NEW r \in RankSet, NEW q \in RankSet
    PROVE  /\ OneToOne(FlattenSeq(Seen(r)))
           /\ r # q => ToSet(FlattenSeq(Seen(r))) \cap ToSet(FlattenSeq(Seen(q))) = {}
<1>1. PICK S : Groups = Seq(Seq(S)) /\ S = 1 .. N
  BY DEF Groups
<1>2. PICK gs \in Seq(Seq(S)), l \in Nat : gs = PackedIdx /\ l = Len(gs) /\ OneToOne(FlattenSeq(gs))
  <2>1. PackedIdx \in Seq(Seq(S)) /\ OneToOne(FlattenSeq(PackedIdx))
    BY <1>1, PackedOnce DEF InGroups
  <2> QED
    BY <2>1
<1>3. /\ \A i \in 1 .. l : OneToOne(gs[i])
      /\ \A i, j \in 1 .. l : i # j => ToSet(gs[i]) \cap ToSet(gs[j]) = {}
  BY <1>2, PiecesApart
<1>4. PICK p \in Seq(1 .. l), u \in Seq(1 .. l) : p = PlacesSeen(r) /\ u = PlacesSeen(q)
  BY <1>2, PlacesApart
<1>5. \A i, j \in 1 .. Len(p) : p[i] = p[j] => i = j
  BY <1>2, <1>4, PlacesApart
<1>6. \A i \in 1 .. Len(p), j \in 1 .. Len(u) : p[i] = u[j] => r = q
  BY <1>2, <1>4, PlacesApart
<1>7. Seen(r) = GroupsAt(p) /\ Seen(q) = GroupsAt(u)
  BY <1>4 DEF RanksInv, RankOf, PlacesSeen
<1>8. PICK m \in Nat, n \in Nat : m = Len(p) /\ n = Len(u)
  OBVIOUS
<1>9. PICK a, b : a = [i \in 1 .. m |-> gs[p[i]]] /\ b = [j \in 1 .. n |-> gs[u[j]]]
  OBVIOUS
<1>10. Seen(r) = a /\ Seen(q) = b
  BY <1>2, <1>7, <1>8, <1>9 DEF GroupsAt
<1>11. a \in Seq(Seq(S)) /\ b \in Seq(Seq(S))
  <2>1. [i \in 1 .. Len(p) |-> gs[p[i]]] \in Seq(Seq(S))
    BY <1>2, GroupsAtType
  <2>2. [j \in 1 .. Len(u) |-> gs[u[j]]] \in Seq(Seq(S))
    BY <1>2, GroupsAtType
  <2> QED
    BY <1>8, <1>9, <2>1, <2>2
<1>12. Len(a) = m /\ Len(b) = n
  <2>1. DOMAIN a = 1 .. m /\ DOMAIN b = 1 .. n
    BY <1>9
  <2> QED
    BY ONLY <1>11, <2>1, m \in Nat, n \in Nat
<1>13. /\ \A i \in 1 .. m : p[i] \in 1 .. l /\ a[i] = gs[p[i]]
       /\ \A j \in 1 .. n : u[j] \in 1 .. l /\ b[j] = gs[u[j]]
  <2>1. \A i \in 1 .. m : p[i] \in 1 .. l
    BY <1>8, ElementIn
  <2>2. \A j \in 1 .. n : u[j] \in 1 .. l
    BY <1>8, ElementIn
  <2> QED
    BY <1>9, <2>1, <2>2
<1>14. OneToOne(FlattenSeq(a))
  <2>1. \A i \in 1 .. Len(a) : OneToOne(a[i])
    BY <1>3, <1>12, <1>13
  <2>2. \A i, j \in 1 .. Len(a) : i # j => ToSet(a[i]) \cap ToSet(a[j]) = {}
    <3> SUFFICES ASSUME NEW i \in 1 .. m, NEW j \in 1 .. m, i # j
                 PROVE  ToSet(a[i]) \cap ToSet(a[j]) = {}
      BY <1>12
    <3>1. p[i] # p[j]
      BY <1>5, <1>8
    <3>2. p[i] \in 1 .. l /\ p[j] \in 1 .. l /\ a[i] = gs[p[i]] /\ a[j] = gs[p[j]]
      BY ONLY <1>13, i \in 1 .. m, j \in 1 .. m
    <3>3. ToSet(gs[p[i]]) \cap ToSet(gs[p[j]]) = {}
      BY ONLY <1>3, <3>1, <3>2
    <3> QED
      BY ONLY <3>2, <3>3
  <2> QED
    BY <1>11, <2>1, <2>2, FlattenOneToOne
<1>15. ASSUME r # q PROVE ToSet(FlattenSeq(a)) \cap ToSet(FlattenSeq(b)) = {}
  <2> SUFFICES ASSUME NEW x \in ToSet(FlattenSeq(a)), x \in ToSet(FlattenSeq(b)) PROVE FALSE
    OBVIOUS
  <2>1. ToSet(FlattenSeq(a)) = InPieces(a, m) /\ ToSet(FlattenSeq(b)) = InPieces(b, n)
    BY <1>11, <1>12, FlattenElements
  <2>2. PICK i \in 1 .. m : x \in ToSet(a[i])
    BY <2>1 DEF InPieces
  <2>3. PICK j \in 1 .. n : x \in ToSet(b[j])
    BY <2>1 DEF InPieces
  <2>4. p[i] # u[j]
    BY <1>6, <1>8, <1>15
  <2> QED
    <3>1. PICK e \in 1 .. l, f \in 1 .. l : e = p[i] /\ f = u[j]
      BY <1>13
    <3>2. a[i] = gs[e] /\ b[j] = gs[f]
      BY <1>13, <3>1
    <3>3. ToSet(gs[e]) \cap ToSet(gs[f]) = {}
      BY <1>3, <2>4, <3>1
    <3> QED
      BY <2>2, <2>3, <3>2, <3>3
<1> QED
  BY <1>10, <1>14, <1>15

\* What has reached the ranks is what each has seen.
LEMMA OnRanksSeen ==
    ASSUME TypeInv
    PROVE  /\ RankItems(trained, hand) \in Seq(Seq(1 .. N)) /\ Len(RankItems(trained, hand)) = Ranks
           /\ \A i \in 1 .. Ranks : RankItems(trained, hand)[i] = FlattenSeq(Seen(i - 1))
           /\ OnRanks = FlattenSeq(RankItems(trained, hand)) /\ OnRanks \in Seq(1 .. N)
<1>1. trained \in [RankSet -> Seq(Groups)] /\ hand \in [RankSet -> Groups]
  BY DEF TypeInv
<1>2. /\ RankItems(trained, hand) \in Seq(Seq(1 .. N)) /\ Len(RankItems(trained, hand)) = Ranks
      /\ \A i \in 1 .. Ranks : RankItems(trained, hand)[i] = InBatches(Append(trained[i - 1], hand[i - 1]))
      /\ OnRanks = FlattenSeq(RankItems(trained, hand)) /\ OnRanks \in Seq(1 .. N)
  BY <1>1, OnRanksFacts, OnRanksReached
<1>3. ASSUME NEW i \in 1 .. Ranks PROVE InBatches(Append(trained[i - 1], hand[i - 1])) = FlattenSeq(Seen(i - 1))
  <2>1. PICK R \in Nat : R = Ranks
    BY RanksAssumption
  <2>2. i - 1 \in RankSet
    BY <2>1 DEF RankSet
  <2>3. PICK S : Groups = Seq(S)
    BY DEF Groups
  <2>4. PICK td \in Seq(Seq(S)), g \in Seq(S) : td = trained[i - 1] /\ g = hand[i - 1]
    BY <1>1, <2>2, <2>3
  <2>5. FlattenSeq(Append(td, g)) = FlattenSeq(td) \o g
    BY FlattenAppend
  <2> QED
    BY <2>4, <2>5 DEF InBatches, Seen
<1> QED
  BY <1>2, <1>3

LEMMA OnRanksOnce ==
    ASSUME TypeInv, StreamInv, MapInv, RanksInv
    PROVE  IsInjective(OnRanks)
<1>0. PICK S : S = 1 .. N
  OBVIOUS
<1>1. PICK R \in Nat : S = 1 .. N /\ R = Ranks
  BY <1>0, RanksAssumption
<1>2. PICK t \in Seq(Seq(S)), all \in Seq(S) :
          /\ t = RankItems(trained, hand) /\ Len(t) = R /\ all = OnRanks /\ all = FlattenSeq(t)
          /\ \A i \in 1 .. R : t[i] = FlattenSeq(Seen(i - 1))
  BY <1>1, OnRanksSeen
<1>3. CASE conf.streaming
  <2>1. ASSUME NEW x \in S PROVE Times(x, all) <= 1
    <3>1. InReader(x) + InLoader(x) <= 1
      BY <1>1, <1>3, <2>1 DEF StreamInv, Conservation
    <3>2. PICK l1 \in Nat, l2 \in Nat, l3 \in Nat, l4 \in Nat, l5 \in Nat, l6 \in Nat, l7 \in Nat :
              /\ l1 = Times(x, InGroups(rows)) /\ l2 = Times(x, InGroups(batch))
              /\ l3 = Times(x, InBatches(loaded)) /\ l4 = Times(x, InBatches(pulled))
              /\ l5 = Times(x, InBatches(skipped)) /\ l6 = Times(x, InBatches(dropped))
              /\ l7 = Times(x, OnRanks)
      BY LoaderTypes
    <3>3. InLoader(x) = l1 + l2 + l3 + l4 + l5 + l6 + l7
      BY ONLY <3>2 DEF InLoader
    <3>4. PICK k1 \in Nat, k2 \in Nat, k3 \in Nat, k4 \in Nat, k5 \in Nat :
              /\ k1 = Times(x, Waiting) /\ k2 = Times(x, AtWork) /\ k3 = HasResult(x)
              /\ k4 = Times(x, reader.res) /\ k5 = Times(x, reader.data)
      <4>1. HasResult(x) \in Nat
        BY DEF HasResult
      <4> QED
        BY <4>1, ReaderTypes
    <3>5. InReader(x) = k1 + k2 + k3 + k4 + k5
      BY ONLY <3>4 DEF InReader
    <3>6. PICK a \in Nat, b \in Nat : a = k1 + k2 + k3 + k4 + k5 /\ b = l1 + l2 + l3 + l4 + l5 + l6
      <4>1. k1 + k2 + k3 + k4 + k5 \in Nat /\ l1 + l2 + l3 + l4 + l5 + l6 \in Nat
        OBVIOUS
      <4> QED
        BY <4>1
    <3>7. InReader(x) = a /\ InLoader(x) = b + l7
      BY ONLY <3>3, <3>5, <3>6
    <3>8. a + (b + l7) <= 1
      BY ONLY <3>1, <3>7
    <3>9. l7 <= 1
      BY ONLY <3>8, a \in Nat, b \in Nat, l7 \in Nat
    <3> QED
      BY <1>2, <3>2, <3>9
  <2>2. OneToOne(all)
    BY <2>1, TimesOneToOne
  <2> QED
    <3>1. IsInjective(all)
      BY <2>2 DEF OneToOne, IsInjective
    <3> QED
      BY <1>2, <3>1
<1>4. CASE ~conf.streaming
  <2>1. \A i \in 1 .. R : i - 1 \in RankSet
    BY <1>1 DEF RankSet
  <2>2. \A i \in 1 .. Len(t) : OneToOne(t[i])
    BY <1>2, <1>4, <2>1, SeenApart
  <2>3. \A i, j \in 1 .. Len(t) : i # j => ToSet(t[i]) \cap ToSet(t[j]) = {}
    <3> SUFFICES ASSUME NEW i \in 1 .. R, NEW j \in 1 .. R, i # j
                 PROVE  ToSet(t[i]) \cap ToSet(t[j]) = {}
      BY <1>2
    <3>1. PICK r \in RankSet, q \in RankSet : r = i - 1 /\ q = j - 1
      BY <2>1
    <3>2. r # q
      BY ONLY <3>1, i # j, i \in 1 .. R, j \in 1 .. R, R \in Nat
    <3>3. t[i] = FlattenSeq(Seen(r)) /\ t[j] = FlattenSeq(Seen(q))
      BY <1>2, <3>1
    <3> QED
      BY <1>4, <3>2, <3>3, SeenApart
  <2>4. OneToOne(FlattenSeq(t))
    BY <2>2, <2>3, FlattenOneToOne
  <2> QED
    <3>1. all = FlattenSeq(t)
      BY <1>2
    <3>2. OneToOne(all)
      BY <2>4, <3>1
    <3>3. IsInjective(all)
      BY <3>2 DEF OneToOne, IsInjective
    <3> QED
      BY <1>2, <3>3
<1> QED
  BY <1>3, <1>4

-----------------------------------------------------------------------------
(* What is left when an epoch is over.                                     *)

\* A rank that is done with a data set with a length has had all samples that every rank
\* has, but for those that are skipped and an incomplete last batch.
LEMMA RankHasAll ==
    ASSUME TypeInv, HandsInv, RanksInv, ~conf.streaming, NEW r \in RankSet, pc[r] = "done",
           NEW c \in Nat \ {0}, c = conf.batch, NEW k \in Nat, k = conf.skip
    PROVE  /\ Len(FlattenSeq(trained[r])) \in Nat
           /\ TotalSamples <= c * k + Len(FlattenSeq(trained[r])) + (IF conf.dropLast THEN c - 1 ELSE 0)
<1>0. conf \in Settings /\ packed \in [Workers -> Groups]
  BY DEF TypeInv
<1>1. PICK ts \in Nat, sl \in Nat, d \in Nat, l \in Nat :
          /\ ts = TotalSamples /\ sl = SamplerLen /\ d = (IF conf.dropLast THEN c - 1 ELSE 0)
          /\ ts <= c * sl + d /\ l = Len(PackedIdx)
  <2>1. /\ TotalSamples \in Nat /\ SamplerLen \in Nat /\ Len(PackedIdx) \in Nat
        /\ TotalSamples <= c * SamplerLen + (IF conf.dropLast THEN c - 1 ELSE 0)
    BY <1>0, SamplerFacts
  <2>2. (IF conf.dropLast THEN c - 1 ELSE 0) \in Nat
    OBVIOUS
  <2> QED
    BY ONLY <2>1, <2>2
<1>2. PICK T : T = Seq(1 .. N)
  OBVIOUS
<1>3. PICK td \in Seq(Seq(T)), m \in Nat : td = trained[r] /\ m = Len(td)
  <2>1. trained[r] \in Seq(Seq(T))
    BY <1>2 DEF TypeInv, Groups
  <2> QED
    BY <2>1
<1>4. FlattenSeq(td) \in Seq(T)
  BY FlattenType
<1>5. PICK w \in Nat : w = Len(FlattenSeq(td))
  BY <1>4
<1>6. /\ order # <<>> \/ td = <<>>
      /\ Seen(r) = GroupsAt(Part(r, Had(r)))
      /\ k + m >= sl
  <2>1. RankOf(r)
    BY DEF RanksInv
  <2>2. trained[r] # <<>> => order # <<>>
    BY <2>1 DEF RankOf
  <2>3. Seen(r) = GroupsAt(Part(r, Had(r)))
    BY <2>1 DEF RankOf
  <2>4. conf.skip + Len(trained[r]) >= SamplerLen
    BY <2>1 DEF RankOf
  <2> QED
    BY <1>1, <1>3, <2>2, <2>3, <2>4
<1>7. PICK a \in Nat, b \in Nat, e \in Nat : a = c * k /\ b = c * (k + m) /\ e = c * sl /\ e <= b
  <2>1. c * k \in Nat /\ c * (k + m) \in Nat /\ c * sl \in Nat
    BY ONLY c \in Nat \ {0}, k \in Nat, m \in Nat, sl \in Nat
  <2>2. k + m \in Nat /\ sl <= k + m
    BY ONLY <1>6, k \in Nat, m \in Nat, sl \in Nat
  <2>3. c * sl <= c * (k + m)
    BY <2>2, Monotone
  <2> QED
    BY ONLY <2>1, <2>3
<1>8. CASE td = <<>>
  <2>1. m = 0
    BY <1>3, <1>8
  <2>2. b = a
    BY ONLY <2>1, <1>7, k \in Nat
  <2>3. ts <= a + w + d
    BY ONLY <2>2, <1>1, <1>7, a \in Nat, b \in Nat, e \in Nat, d \in Nat, w \in Nat, ts \in Nat
  <2> QED
    BY ONLY <1>1, <1>3, <1>5, <1>7, <2>3
<1>9. CASE order # <<>>
  <2>1. /\ order \in Seq(1 .. l) /\ Ranks * ts <= Len(order)
    <3>1. order \in Orders
      BY <1>9 DEF TypeInv
    <3> QED
      BY <1>0, <1>1, <3>1, OrdersFacts
  <2>2. ts <= Len(Slice(r)) /\ Len(Slice(r)) \in Nat
    BY <1>0, <2>1, SliceFacts
  <2>3. PICK p \in Seq(1 .. l), v \in Nat : p = Part(r, m) /\ v = Len(p)
    <3>1. Part(r, m) \in Seq(1 .. l)
      BY <1>0, <2>1, PartFacts
    <3>2. PICK p \in Seq(1 .. l) : p = Part(r, m)
      BY <3>1
    <3> QED
      BY <3>2
  <2>4. \A x \in Nat : x <= b /\ x <= Len(Slice(r)) => x <= a + v
    <3>1. \A x \in Nat : x <= c * (k + m) /\ x <= Len(Slice(r)) => x <= c * k + Len(Part(r, m))
      BY <1>0, <2>1, PartFacts
    <3> QED
      BY ONLY <1>7, <2>3, <3>1
  <2>5. PICK x \in Nat : x <= ts /\ x <= e /\ ts <= x + d
    <3>0. ts <= e + d
      BY ONLY <1>1, <1>7
    <3>1. CASE ts <= e
      <4>1. ts <= ts /\ ts <= ts + d
        BY ONLY ts \in Nat, d \in Nat
      <4> QED
        BY ONLY <3>1, <4>1, ts \in Nat
    <3>2. CASE e <= ts
      <4>1. e <= e
        BY ONLY e \in Nat
      <4> QED
        BY ONLY <3>0, <3>2, <4>1, e \in Nat
    <3>3. ts <= e \/ e <= ts
      BY ONLY ts \in Nat, e \in Nat
    <3> QED
      BY ONLY <3>1, <3>2, <3>3
  <2>6. x <= a + v
    <3>1. e <= b
      BY ONLY <1>7
    <3>2. x <= b
      BY ONLY <2>5, <3>1, x \in Nat, e \in Nat, b \in Nat
    <3>3. x <= Len(Slice(r))
      BY ONLY <2>2, <2>5, x \in Nat, ts \in Nat
    <3> QED
      BY ONLY <2>4, <3>2, <3>3, x \in Nat
  <2>7. w = v
    <3>1. pc[r] # "train" /\ hand[r] = <<>>
      BY DEF HandsInv
    <3>2. Had(r) = m
      BY <1>3, <3>1 DEF Had
    <3>3. Seen(r) = FlattenSeq(td)
      <4>1. FlattenSeq(td) \o <<>> = FlattenSeq(td)
        BY <1>4, ConcatEmptySeq
      <4> QED
        BY <1>3, <3>1, <4>1 DEF Seen
    <3>4. FlattenSeq(td) = GroupsAt(p)
      BY <1>6, <2>3, <3>2, <3>3
    <3>5. GroupsAt(p) = [j \in 1 .. v |-> PackedIdx[p[j]]]
      BY <2>3 DEF GroupsAt
    <3>6. DOMAIN FlattenSeq(td) = 1 .. v
      BY <3>4, <3>5
    <3>7. Len(FlattenSeq(td)) = v
      BY ONLY <1>4, <3>6, v \in Nat
    <3> QED
      BY <1>5, <3>7
  <2>8. ts <= a + w + d
    BY ONLY <2>5, <2>6, <2>7, x \in Nat, ts \in Nat, a \in Nat, d \in Nat, v \in Nat
  <2> QED
    BY ONLY <1>1, <1>3, <1>5, <1>7, <2>8
<1> QED
  BY <1>6, <1>8, <1>9

\* When the epoch is over, the groups that were not trained are the tail and those skipped.
LEMMA MapTail ==
    ASSUME TypeInv, HandsInv, RanksInv, Over, ~conf.streaming,
           NEW groups, groups = FlattenSeq(FlattenSeq([i \in 1 .. Ranks |-> trained[i - 1]]))
    PROVE  Len(PackedIdx) - Len(groups) <=
               (IF conf.dropLast THEN Ranks * conf.batch - 1 ELSE Ranks - 1)
               + conf.skip * Ranks * conf.batch
<1>1. PICK R \in Nat \ {0}, c \in Nat \ {0}, k \in Nat, d \in Nat, a \in Nat :
          /\ R = Ranks /\ c = conf.batch /\ k = conf.skip
          /\ d = (IF conf.dropLast THEN c - 1 ELSE 0) /\ a = c * k
  <2>1. PICK R \in Nat \ {0}, c \in Nat \ {0}, k \in Nat : R = Ranks /\ c = conf.batch /\ k = conf.skip
    BY ConfFacts DEF TypeInv
  <2>2. PICK d \in Nat : d = (IF conf.dropLast THEN c - 1 ELSE 0)
    <3>1. (IF conf.dropLast THEN c - 1 ELSE 0) \in Nat
      OBVIOUS
    <3> QED
      BY <3>1
  <2>3. c * k \in Nat
    OBVIOUS
  <2> QED
    BY <2>1, <2>2, <2>3
<1>2. PICK T : T = Seq(1 .. N)
  OBVIOUS
<1>3. PICK s \in Seq(Seq(Seq(T))) : /\ s = [i \in 1 .. Ranks |-> trained[i - 1]] /\ Len(s) = R
                                    /\ \A i \in 1 .. R : i - 1 \in RankSet /\ s[i] = trained[i - 1]
  <2>1. \A i \in 1 .. R : i - 1 \in RankSet
    BY <1>1 DEF RankSet
  <2>2. trained \in [RankSet -> Seq(Seq(T))]
    BY <1>2 DEF TypeInv, Groups
  <2>3. PICK s : s = [i \in 1 .. R |-> trained[i - 1]]
    OBVIOUS
  <2>4. s \in [1 .. R -> Seq(Seq(T))]
    BY <2>1, <2>2, <2>3
  <2>5. s \in Seq(Seq(Seq(T))) /\ Len(s) = R
    BY ONLY <2>4, R \in Nat \ {0}
  <2> QED
    BY <1>1, <2>1, <2>3, <2>5
<1>4. PICK t \in Seq(Seq(T)) : /\ Len(t) = R /\ \A i \in 1 .. R : t[i] = FlattenSeq(s[i])
                               /\ groups = FlattenSeq(t)
  <2>1. PICK t : t = [i \in 1 .. Len(s) |-> FlattenSeq(s[i])]
    OBVIOUS
  <2>2. t \in Seq(Seq(T)) /\ Len(t) = Len(s) /\ FlattenSeq(FlattenSeq(s)) = FlattenSeq(t)
    BY <2>1, FlattenTwice
  <2>3. \A i \in 1 .. R : t[i] = FlattenSeq(s[i])
    BY <1>3, <2>1
  <2> QED
    BY <1>3, <2>2, <2>3
<1>5. PICK ts \in Nat, l \in Nat : /\ ts = TotalSamples /\ l = Len(PackedIdx)
                                   /\ l <= R * ts + (R - 1)
  <2>1. conf \in Settings /\ packed \in [Workers -> Groups]
    BY DEF TypeInv
  <2> QED
    BY <1>1, <2>1, SamplerFacts
<1>6. PICK g \in Nat : ts <= a + d + g /\ (g = 0 \/ ts = a + d + g)
  <2>1. CASE ts <= a + d
    <3>1. ts <= a + d + 0 /\ 0 \in Nat
      BY ONLY <2>1, ts \in Nat, a \in Nat, d \in Nat
    <3> QED
      BY ONLY <3>1
  <2>2. CASE a + d <= ts
    <3>1. PICK g \in Nat : g = ts - (a + d)
      <4>1. ts - (a + d) \in Nat
        BY ONLY <2>2, ts \in Nat, a \in Nat, d \in Nat
      <4> QED
        BY <4>1
    <3>2. ts <= a + d + g /\ ts = a + d + g
      BY ONLY <3>1, ts \in Nat, a \in Nat, d \in Nat, g \in Nat
    <3> QED
      BY <3>2
  <2>3. ts <= a + d \/ a + d <= ts
    BY ONLY ts \in Nat, a \in Nat, d \in Nat
  <2> QED
    BY ONLY <2>1, <2>2, <2>3
<1>7. \A i \in 1 .. Len(t) : g <= Len(t[i])
  <2> SUFFICES ASSUME NEW i \in 1 .. R PROVE g <= Len(t[i])
    BY <1>4
  <2>1. PICK r \in RankSet : r = i - 1
    BY <1>3
  <2>2. t[i] = FlattenSeq(trained[r])
    BY <1>3, <1>4, <2>1
  <2>3. pc[r] = "done"
    BY DEF Over
  <2>4. /\ Len(FlattenSeq(trained[r])) \in Nat
        /\ TotalSamples <= c * k + Len(FlattenSeq(trained[r])) + (IF conf.dropLast THEN c - 1 ELSE 0)
    BY <1>1, <2>3, RankHasAll
  <2>5. PICK w \in Nat : w = Len(t[i])
    BY <2>2, <2>4
  <2>6. ts <= a + w + d
    BY ONLY <1>1, <1>5, <2>2, <2>4, <2>5
  <2>7. g <= w
    BY ONLY <1>6, <2>6, ts \in Nat, a \in Nat, d \in Nat, w \in Nat, g \in Nat
  <2> QED
    BY <2>5, <2>7
<1>8. PICK n \in Nat : n = Len(groups)
  <2>1. FlattenSeq(t) \in Seq(T)
    BY FlattenType
  <2> QED
    <3>1. PICK f \in Seq(T) : f = FlattenSeq(t)
      BY <2>1
    <3>2. Len(f) \in Nat
      OBVIOUS
    <3> QED
      BY <1>4, <3>1, <3>2
<1>9. g * R <= n
  <2>1. g * Len(t) <= Len(FlattenSeq(t))
    BY <1>7, FlattenLeast
  <2> QED
    BY <1>4, <1>8, <2>1
<1>10. PICK x \in Nat, y \in Nat, z \in Nat : x = R * a /\ y = R * d /\ z = R * g
  <2>1. R * a \in Nat /\ R * d \in Nat /\ R * g \in Nat
    OBVIOUS
  <2> QED
    BY <2>1
<1>11. l <= x + y + z + (R - 1)
  <2>1. PICK u \in Nat : u = a + d + g
    <3>1. a + d + g \in Nat
      OBVIOUS
    <3> QED
      BY <3>1
  <2>2. R * ts <= R * u
    BY <1>6, <2>1, Monotone
  <2>3. R * u = x + y + z
    BY ONLY <1>10, <2>1, R \in Nat \ {0}, a \in Nat, d \in Nat, g \in Nat
  <2>4. PICK h \in Nat : h = R * ts
    <3>1. R * ts \in Nat
      OBVIOUS
    <3> QED
      BY <3>1
  <2>5. l <= h + (R - 1) /\ h <= x + y + z
    BY ONLY <1>5, <2>2, <2>3, <2>4
  <2> QED
    BY ONLY <2>5, l \in Nat, h \in Nat, x \in Nat, y \in Nat, z \in Nat, R \in Nat \ {0}
<1>12. z <= n
  <2>1. g * R = R * g
    BY ONLY R \in Nat \ {0}, g \in Nat
  <2>2. z = R * g
    BY ONLY <1>10
  <2> QED
    BY ONLY <1>9, <2>1, <2>2
<1>13. x = k * R * c
  <2>1. R * (c * k) = k * R * c
    BY ONLY R \in Nat \ {0}, c \in Nat \ {0}, k \in Nat
  <2>2. x = R * a /\ a = c * k
    BY ONLY <1>1, <1>10
  <2> QED
    BY ONLY <2>1, <2>2
<1>14. y + (R - 1) = IF conf.dropLast THEN R * c - 1 ELSE R - 1
  <2>1. CASE conf.dropLast
    <3>1. R * (c - 1) = R * c - R
      BY ONLY R \in Nat \ {0}, c \in Nat \ {0}
    <3>2. R * c \in Nat
      OBVIOUS
    <3>3. y = R * c - R
      BY <1>1, <1>10, <2>1, <3>1
    <3>4. y + (R - 1) = R * c - 1
      BY ONLY <3>2, <3>3, R \in Nat \ {0}
    <3> QED
      BY <2>1, <3>4
  <2>2. CASE ~conf.dropLast
    <3>1. R * 0 = 0
      BY ONLY R \in Nat \ {0}
    <3>2. y = 0
      BY <1>1, <1>10, <2>2, <3>1
    <3>3. y + (R - 1) = R - 1
      BY ONLY <3>2, R \in Nat \ {0}
    <3> QED
      BY <2>2, <3>3
  <2> QED
    BY <2>1, <2>2
<1>15. l - n <= (y + (R - 1)) + x
  BY ONLY <1>11, <1>12, l \in Nat, n \in Nat, x \in Nat, y \in Nat, z \in Nat, R \in Nat \ {0}
<1> QED
  BY ONLY <1>1, <1>5, <1>8, <1>13, <1>14, <1>15

\* When the epoch of a stream is over, what could be encoded was trained on, skipped or
\* dropped at the end.
LEMMA StreamTail ==
    ASSUME TypeInv, ReaderInv, StreamInv, RanksInv, Over, conf.streaming
    PROVE  /\ Len(dropped) < Ranks /\ reader.pos = N
           /\ \A x \in 1 .. N : conf.quality[x] = "ok" =>
                  x \in ToSet(OnRanks \o InBatches(skipped \o dropped))
<1>1. StreamOver
  <2>1. 0 \in RankSet
    <3>1. Ranks \in Nat \ {0}
      BY RanksAssumption
    <3> QED
      BY ONLY <3>1 DEF RankSet
  <2> QED
    BY <2>1 DEF Over, RanksInv
<1>2. /\ Len(dropped) < Ranks /\ reader.pc = "end" /\ rows = <<>> /\ batch = <<>>
      /\ loaded = <<>> /\ pulled = <<>>
  BY <1>1 DEF StreamOver, LoaderEnded, StreamEnded
<1>3. reader.pos = N /\ reader.data = <<>> /\ reader.res = <<>>
  BY <1>2 DEF ReaderInv
<1>4. inQueue = <<>> /\ Busy = {} /\ results = {}
  BY <1>2, NothingUnderWay
<1>5. PICK S : S = 1 .. N
  OBVIOUS
<1>6. ASSUME NEW x \in 1 .. N PROVE InReader(x) = 0
  <2>0. x \in Nat \ {0}
    BY ConfFacts DEF TypeInv
  <2>1. Waiting = <<>>
    BY <1>4 DEF Waiting
  <2>2. Times(x, AtWork) = 0
    <3>1. PICK M \in Nat : M = N
      BY ConfFacts DEF TypeInv
    <3>2. PICK w \in Seq(0 .. M), n \in Nat : w = AtWork /\ n = Len(w) /\ n = Procs
      BY <3>1, AtWorkFacts
    <3>3. \A p \in 1 .. n : w[p] = 0
      <4> TAKE p \in 1 .. n
      <4>1. w[p] = proc[p].sample
        BY <3>2, AtWorkFacts
      <4>2. proc[p] \in {Idle, Dead}
        BY <1>4, <3>2 DEF Busy
      <4>3. Idle.sample = 0 /\ Dead.sample = 0
        BY DEF Idle, Dead, NoSample
      <4> QED
        BY <4>1, <4>2, <4>3
    <3>4. ToSet(w) = {w[p] : p \in 1 .. n}
      <4>1. ToSet(w) = {w[p] : p \in 1 .. Len(w)}
        BY ElementsOf
      <4>2. n = Len(w)
        BY <3>2
      <4> QED
        BY ONLY <4>1, <4>2
    <3>5. x \notin ToSet(w)
      BY <2>0, <3>3, <3>4
    <3> QED
      BY <3>2, <3>5, TimesAbsent
  <2>3. HasResult(x) = 0
    BY <1>4 DEF HasResult
  <2>4. Times(x, Waiting) = 0 /\ Times(x, reader.res) = 0 /\ Times(x, reader.data) = 0
    BY <1>3, <2>1, TimesEmpty
  <2> QED
    BY ONLY <2>2, <2>3, <2>4 DEF InReader
<1>7. ASSUME NEW x \in 1 .. N, conf.quality[x] = "ok"
      PROVE  x \in ToSet(OnRanks \o InBatches(skipped \o dropped))
  <2>1. InReader(x) + InLoader(x) = 1
    <3>1. Conservation(x, InReader(x) + InLoader(x))
      BY DEF StreamInv
    <3>2. x <= reader.pos
      BY <1>3, ConfFacts DEF TypeInv
    <3> QED
      BY <1>7, <3>1, <3>2 DEF Conservation, IsOk
  <2>2. PICK u \in Nat, v \in Nat, w \in Nat :
            u = Times(x, InBatches(skipped)) /\ v = Times(x, InBatches(dropped)) /\ w = Times(x, OnRanks)
    BY LoaderTypes
  <2>3. InLoader(x) = u + v + w
    <3>1. /\ Times(x, InGroups(rows)) = 0 /\ Times(x, InGroups(batch)) = 0
          /\ Times(x, InBatches(loaded)) = 0 /\ Times(x, InBatches(pulled)) = 0
      BY <1>2, InNone, TimesEmpty
    <3>2. InLoader(x) = 0 + 0 + 0 + 0 + u + v + w
      BY ONLY <2>2, <3>1 DEF InLoader
    <3> QED
      BY ONLY <3>2, u \in Nat, v \in Nat, w \in Nat
  <2>4. u + v + w = 1
    BY ONLY <1>6, <2>1, <2>3, x \in 1 .. N, u \in Nat, v \in Nat, w \in Nat
  <2>5. PICK sk \in Seq(Seq(Seq(S))), dr \in Seq(Seq(Seq(S))) : sk = skipped /\ dr = dropped
    BY <1>5 DEF TypeInv, Groups
  <2>6. /\ sk \o dr \in Seq(Seq(Seq(S)))
        /\ Times(x, InBatches(sk \o dr)) = u + v
    BY <2>2, <2>5, InBatchesConcat
  <2>7. InBatches(sk \o dr) \in Seq(S)
    BY <2>6, InBatchesIn
  <2>8. OnRanks \in Seq(S)
    BY <1>5, OnRanksSeen
  <2>9. PICK on \in Seq(S), rest \in Seq(S) : on = OnRanks /\ rest = InBatches(sk \o dr)
    BY <2>7, <2>8
  <2>10. /\ on \o rest \in Seq(S)
         /\ Times(x, on \o rest) = Times(x, on) + Times(x, rest)
    BY ConcatTimes
  <2>11. Times(x, on) = w /\ Times(x, rest) = u + v
    BY <2>2, <2>6, <2>9
  <2>12. Times(x, on \o rest) # 0
    BY ONLY <2>4, <2>10, <2>11, u \in Nat, v \in Nat, w \in Nat
  <2>13. PICK both \in Seq(S) : both = on \o rest
    BY <2>10
  <2>14. x \in ToSet(both)
    BY <2>12, <2>13, TimesPresent
  <2> QED
    BY <2>5, <2>9, <2>13, <2>14
<1> QED
  BY <1>2, <1>3, <1>7

-----------------------------------------------------------------------------
(* The theorems.                                                           *)

\* A sample of the interval is its number, so those that are kept are in order.
LEMMA SortedInterval ==
    ASSUME TypeInv, ReaderInv
    PROVE  IsSorted(Encoded(reader.res), <)
<1>1. PICK M \in Nat : M = N
  BY ConfFacts DEF TypeInv
<1>2. PICK res \in Seq(Nat) : res = reader.res
  <2>1. reader.res \in Seq(0 .. M)
    BY <1>1 DEF TypeInv
  <2>2. \A v \in Seq(0 .. M) : v \in Seq(Nat)
    OBVIOUS
  <2> QED
    BY <2>1, <2>2
<1>3. PICK base \in Nat : base = Base
  BY DEF ReaderInv
<1>4. \A k \in 1 .. Len(res) : res[k] # 0 => res[k] = base + k
  BY <1>2, <1>3 DEF ReaderInv, NoSample
<1>5. \A j, k \in 1 .. Len(res) : j < k /\ res[j] \notin {0} /\ res[k] \notin {0} => res[j] < res[k]
  <2> TAKE j, k \in 1 .. Len(res)
  <2> HAVE j < k /\ res[j] \notin {0} /\ res[k] \notin {0}
  <2>1. res[j] = base + j /\ res[k] = base + k /\ j < k
    BY <1>4
  <2>2. j \in Nat /\ k \in Nat
    OBVIOUS
  <2> QED
    BY ONLY <2>1, <2>2, base \in Nat
<1>6. Increasing(Without(res, {0}))
  BY <1>5, WithoutIncreasing
<1>7. Encoded(reader.res) = Without(res, {0})
  BY <1>2 DEF Encoded, NoSample
<1> QED
  BY <1>6, <1>7 DEF Increasing, IsSorted

\* TypeOK: no group and no sample that does not exist is ever dealt, sent or trained
\* on.  That the order is one of at most N groups takes the conservation of the samples.
THEOREM DataTypes == Spec => []TypeOK
<1>1. Init => TypeInv /\ ReaderInv /\ MapInv
  BY TypeInit, ReaderInit, MapInit
<1>2. TypeInv /\ ReaderInv /\ MapInv /\ [Next]_vars => (TypeInv /\ ReaderInv /\ MapInv)'
  BY TypeStep, ReaderStep, MapStep
<1>3. TypeInv /\ ReaderInv /\ MapInv => TypeOK
  BY TypesHold
<1> QED
  BY <1>1, <1>2, <1>3, PTL DEF Spec

\* Reproducible: whichever process was faster, an interval is packed in the order of
\* the data set.
THEOREM PackedInOrder == Spec => []Reproducible
<1>1. Init => TypeInv /\ ReaderInv
  BY TypeInit, ReaderInit
<1>2. TypeInv /\ ReaderInv /\ [Next]_vars => (TypeInv /\ ReaderInv)'
  BY TypeStep, ReaderStep
<1>3. TypeInv /\ ReaderInv => Reproducible
  BY SortedInterval DEF Reproducible
<1> QED
  BY <1>1, <1>2, <1>3, PTL DEF Spec

\* Conserved: from the data set to the ranks no sample is lost or repeated.
THEOREM NoSampleLost == Spec => []Conserved
<1>1. Init => TypeInv /\ ReaderInv /\ HandsInv /\ StreamInv /\ MapInv
  BY TypeInit, ReaderInit, HandsInit, StreamInit, MapInit
<1>2. TypeInv /\ ReaderInv /\ HandsInv /\ StreamInv /\ MapInv /\ [Next]_vars =>
          (TypeInv /\ ReaderInv /\ HandsInv /\ StreamInv /\ MapInv)'
  BY TypeStep, ReaderStep, HandsStep, StreamStep, MapStep
<1>3. TypeInv /\ StreamInv /\ MapInv => Conserved
  <2> SUFFICES ASSUME TypeInv, StreamInv, MapInv PROVE Conserved
    OBVIOUS
  <2>1. CASE conf.streaming
    BY <2>1, StreamConserved
  <2>2. CASE ~conf.streaming
    <3>1. \A k \in Workers : Once(AtWorker(k), ToSet(Share(k)))
      BY <2>2, MapConserved
    <3> QED
      BY <2>2, <3>1 DEF Conserved
  <2> QED
    BY <2>1, <2>2
<1> QED
  BY <1>1, <1>2, <1>3, PTL DEF Spec

\* TailOnly: every group is trained on one rank, once, but for what a resume skips and a
\* tail of less than one batch per rank.
THEOREM OnlyTheTail == Spec => []TailOnly
<1>1. Init => TypeInv /\ ReaderInv /\ HandsInv /\ StreamInv /\ MapInv /\ RanksInv
  BY TypeInit, ReaderInit, HandsInit, StreamInit, MapInit, RanksInit
<1>2. TypeInv /\ ReaderInv /\ HandsInv /\ StreamInv /\ MapInv /\ [Next]_vars =>
          (TypeInv /\ ReaderInv /\ HandsInv /\ StreamInv /\ MapInv)'
  BY TypeStep, ReaderStep, HandsStep, StreamStep, MapStep
<1>3. TypeInv /\ TypeInv' /\ HandsInv /\ RanksInv /\ [Next]_vars => RanksInv'
  BY RanksStep
<1>4. TypeInv /\ ReaderInv /\ HandsInv /\ StreamInv /\ MapInv /\ RanksInv => TailOnly
  <2> SUFFICES ASSUME TypeInv, ReaderInv, HandsInv, StreamInv, MapInv, RanksInv PROVE TailOnly
    OBVIOUS
  <2>1. IsInjective(OnRanks)
    BY OnRanksOnce
  <2>2. ASSUME Over, ~conf.streaming,
               NEW groups, groups = FlattenSeq(FlattenSeq([i \in 1 .. Ranks |-> trained[i - 1]]))
        PROVE  Len(PackedIdx) - Len(groups) <=
                   (IF conf.dropLast THEN Ranks * conf.batch - 1 ELSE Ranks - 1)
                   + conf.skip * Ranks * conf.batch
    BY <2>2, MapTail
  <2>3. ASSUME Over, conf.streaming
        PROVE  /\ Len(dropped) < Ranks /\ reader.pos = N
               /\ \A x \in 1 .. N : conf.quality[x] = "ok" =>
                      x \in ToSet(OnRanks \o InBatches(skipped \o dropped))
    BY <2>3, StreamTail
  <2> QED
    BY ONLY <2>1, <2>2, <2>3 DEF TailOnly
<1> QED
  BY <1>1, <1>2, <1>3, <1>4, PTL DEF Spec

=============================================================================
