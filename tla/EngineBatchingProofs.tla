------------------------- MODULE EngineBatchingProofs -------------------------
(***************************************************************************)
(* EngineBatching for every set of callers, every engine and any number of *)
(* rows: no request is lost or run under another config, every answer goes *)
(* to the request it was made for, and, if streams are not batched, the    *)
(* engine is an AnswerService.                                             *)
(***************************************************************************)
EXTENDS EngineBatching, SequenceTheorems, FiniteSetTheorems, TLAPS

-----------------------------------------------------------------------------
(* The inductive invariant.                                                *)

Phases == {"empty", "fetched", "streaming", "ending"} \cup RowPhases

Batch == [reqs : Seq(Requests), good : Seq(Requests), errs : Seq(Nat), phase : Phases,
          rows : 0 .. Rows, row : Seq(Item), left : Seq(Nat)]

Types ==
    /\ conf \in Settings
    /\ status \in [Requests -> {"new", "put", "waiting", "done"}]
    /\ queue \in Seq(Requests)
    /\ pool \in Seq(Group)
    /\ worker \in {"absent", "running", "dead"}
    /\ batch \in Batch
    /\ inbox \in [Requests -> Seq(Item)]
    /\ got \in [Requests -> Seq(Item)]

\* Positions in a list of n, in ascending order.
Ascending(e, n) ==
    /\ \A a \in 1 .. Len(e) : e[a] >= 1 /\ e[a] + (Len(e) - a) <= n
    /\ \A a, b \in 1 .. Len(e) : a < b => e[a] + (b - a) <= e[b]

\* Without the positions in e, s of which come before p, what belongs at the first n
\* positions is in x.
Between(e, s, p) == (s >= 1 => e[s] < p) /\ (s < Len(e) => p < e[s + 1])
Fits(x, e, n, allowed) ==
    \A s \in 0 .. Len(e), p \in 1 .. n : Between(e, s, p) => x[p - s] \in allowed[p]

\* What may stand for a request in a row: nothing yet, or what was made for it.
ResultOf(r) == {x \in Item : x.of = r /\ x.kind # None} \cup {End}
Own == [p \in DOMAIN batch.reqs |-> {batch.reqs[p]}]
Results == [p \in DOMAIN batch.reqs |-> ResultOf(batch.reqs[p])]

\* Every request of a batch has a result at its position, or is an error that is inserted
\* there, in ascending order.
BatchInv ==
    LET n == Len(batch.reqs)
        m == Len(batch.good) + Len(batch.errs)
    IN /\ batch.phase = "empty" => batch = NoBatch
       /\ batch.phase # "empty" => batch.reqs # <<>>
       /\ m <= n /\ Ascending(batch.errs, m) /\ Fits(batch.good, batch.errs, m, Own)
       /\ batch.phase \notin {"empty", "fetched"} => m = n
       /\ batch.phase \in RowPhases =>
            /\ Len(batch.row) + Len(batch.left) = n
            /\ Ascending(batch.left, n) /\ Fits(batch.row, batch.left, n, Results)
       /\ batch.phase \notin RowPhases => batch.left = <<>>
       /\ batch.phase = "text" => batch.rows < Rows
       /\ batch.phase = "full" => ~Streaming
       /\ batch.phase \in {"text", "streaming", "final", "ending"} => Streaming

Distinct(s) == \A i, j \in 1 .. Len(s) : s[i] = s[j] => i = j

\* The groups of a pool have configs of their own, and requests of their config.
PoolOk(p) ==
    /\ \A g \in 1 .. Len(p) : /\ p[g].data # <<>> /\ Distinct(p[g].data)
                           /\ \A i \in 1 .. Len(p[g].data) : conf.config[p[g].data[i]] = p[g].config
    /\ \A g, h \in 1 .. Len(p) : p[g].config = p[h].config => g = h

OneConfigBatch == \A i, j \in 1 .. Len(batch.reqs) : conf.config[batch.reqs[i]] = conf.config[batch.reqs[j]]

InQueue(r) == \E i \in 1 .. Len(queue) : queue[i] = r
In(p, r) == \E g \in 1 .. Len(p) : \E i \in 1 .. Len(p[g].data) : p[g].data[i] = r
InBatch(r) == \E i \in 1 .. Len(batch.reqs) : batch.reqs[i] = r

\* What is in the asyncio queue of r is all there will be: None ends a stream.
Ended(s, r) == s # <<>> /\ (IsStream(r) => s[Len(s)] = End)

\* A request that waits for a result is in one place.
Placed(r) ==
    /\ InQueue(r) => ~In(pool, r) /\ ~InBatch(r)
    /\ In(pool, r) => ~InBatch(r)
    /\ InQueue(r) \/ In(pool, r) =>
         status[r] \in {"put", "waiting"} /\ inbox[r] = <<>> /\ got[r] = <<>>
    /\ InBatch(r) => status[r] # "new"
    /\ status[r] \in {"put", "waiting"} => InQueue(r) \/ In(pool, r) \/ InBatch(r) \/ Ended(inbox[r], r)
    /\ status[r] = "new" => inbox[r] = <<>> /\ got[r] = <<>>

PlaceInv ==
    /\ Distinct(queue) /\ PoolOk(pool) /\ Distinct(batch.reqs) /\ OneConfigBatch
    /\ \A r \in Requests : Placed(r)

-----------------------------------------------------------------------------
(* Lists of positions.                                                     *)

\* The position that is looked at next is later than those that are kept.
LEMMA AscendingAppend ==
    ASSUME NEW e \in Seq(Nat), NEW m \in Nat, Ascending(e, m)
    PROVE  /\ Ascending(e, m + 1)
           /\ Ascending(Append(e, m + 1), m + 1)
<1>1. Ascending(e, m + 1)
    BY DEF Ascending
<1>0. PICK f : f = Append(e, m + 1)
    OBVIOUS
<1>2. /\ f \in Seq(Nat) /\ Len(f) = Len(e) + 1
      /\ Len(e) \in Nat /\ f[Len(e) + 1] = m + 1
      /\ \A a \in 1 .. Len(e) : f[a] = e[a] /\ e[a] \in Nat
    BY <1>0, AppendProperties, ElementOfSeq, LenProperties
<1>3. PICK l \in Nat : l = Len(e) /\ l + 1 = Len(f)
    BY <1>2
<1>4. \A a \in 1 .. l : f[a] = e[a] /\ e[a] \in Nat /\ e[a] >= 1 /\ e[a] + (l - a) <= m
    BY <1>2, <1>3 DEF Ascending
<1>5. \A a, b \in 1 .. l : a < b => e[a] + (b - a) <= e[b]
    BY <1>3 DEF Ascending
<1>6. f[l + 1] = m + 1
    BY <1>2, <1>3
<1>7. ASSUME NEW a \in 1 .. l + 1
      PROVE  f[a] >= 1 /\ f[a] + ((l + 1) - a) <= m + 1
    <2>1. CASE a = l + 1
        BY <1>6, <2>1
    <2>2. CASE a \in 1 .. l
        <3>1. f[a] = e[a] /\ e[a] \in Nat /\ e[a] >= 1 /\ e[a] + (l - a) <= m
            BY <1>4, <2>2
        <3> QED BY ONLY <3>1, <2>2, l \in Nat, m \in Nat
    <2>3. a = l + 1 \/ a \in 1 .. l
        BY ONLY a \in 1 .. l + 1, l \in Nat
    <2> QED BY <2>1, <2>2, <2>3
<1>8. ASSUME NEW a \in 1 .. l + 1, NEW b \in 1 .. l + 1, a < b
      PROVE  f[a] + (b - a) <= f[b]
    <2>1. a \in 1 .. l /\ (b = l + 1 \/ b \in 1 .. l)
        BY ONLY a \in 1 .. l + 1, b \in 1 .. l + 1, a < b, l \in Nat
    <2>2. f[a] = e[a] /\ e[a] \in Nat /\ e[a] + (l - a) <= m
        BY <1>4, <2>1
    <2>3. CASE b = l + 1
        BY ONLY <2>1, <2>2, <2>3, <1>6, l \in Nat, m \in Nat
    <2>4. CASE b \in 1 .. l
        <3>1. f[b] = e[b] /\ e[a] + (b - a) <= e[b]
            BY <1>4, <1>5, <1>8, <2>1, <2>4
        <3> QED BY ONLY <3>1, <2>2
    <2> QED BY <2>1, <2>3, <2>4
<1>9. Ascending(f, m + 1)
    BY ONLY <1>3, <1>7, <1>8 DEF Ascending
<1> QED BY <1>0, <1>1, <1>9

\* What is left of a list of positions is one again.
LEMMA AscendingTail ==
    ASSUME NEW e \in Seq(Nat), NEW n \in Nat, Ascending(e, n), e # <<>>
    PROVE  /\ Tail(e) \in Seq(Nat) /\ Len(Tail(e)) = Len(e) - 1 /\ Ascending(Tail(e), n)
           /\ Head(e) = e[1] /\ Head(e) \in 1 .. n /\ Head(e) + (Len(e) - 1) <= n
           /\ \A a \in 1 .. Len(e) - 1 : Tail(e)[a] = e[a + 1]
<1>1. /\ Tail(e) \in Seq(Nat) /\ Len(Tail(e)) = Len(e) - 1 /\ Len(e) \in Nat /\ Len(e) >= 1
      /\ Head(e) = e[1] /\ \A a \in 1 .. Len(e) - 1 : Tail(e)[a] = e[a + 1]
    BY HeadTailProperties, LenProperties, EmptySeq
<1>2. \A a \in 1 .. Len(e) : e[a] \in Nat
    BY ElementOfSeq, <1>1
<1>3. e[1] \in 1 .. n /\ e[1] + (Len(e) - 1) <= n
    BY <1>1, <1>2 DEF Ascending
<1>4. \A a \in 1 .. Len(Tail(e)) : Tail(e)[a] >= 1 /\ Tail(e)[a] + (Len(Tail(e)) - a) <= n
    <2> SUFFICES ASSUME NEW a \in 1 .. Len(e) - 1
                 PROVE  Tail(e)[a] >= 1 /\ Tail(e)[a] + (Len(Tail(e)) - a) <= n
        BY <1>1
    <2>1. a + 1 \in 1 .. Len(e)
        BY <1>1
    <2>2. e[a + 1] >= 1 /\ e[a + 1] + (Len(e) - (a + 1)) <= n
        BY <2>1 DEF Ascending
    <2> QED BY <2>1, <2>2, <1>1, <1>2
<1>5. \A a, b \in 1 .. Len(Tail(e)) : a < b => Tail(e)[a] + (b - a) <= Tail(e)[b]
    <2> SUFFICES ASSUME NEW a \in 1 .. Len(e) - 1, NEW b \in 1 .. Len(e) - 1, a < b
                 PROVE  Tail(e)[a] + (b - a) <= Tail(e)[b]
        BY <1>1
    <2>1. a + 1 \in 1 .. Len(e) /\ b + 1 \in 1 .. Len(e) /\ a + 1 < b + 1
        BY <1>1
    <2>2. e[a + 1] + ((b + 1) - (a + 1)) <= e[b + 1]
        BY <2>1 DEF Ascending
    <2> QED BY <2>1, <2>2, <1>1, <1>2
<1> QED BY <1>1, <1>3, <1>4, <1>5 DEF Ascending

\* Behind s of the positions, the place of p in the list without them exists.
LEMMA BetweenIndex ==
    ASSUME NEW e \in Seq(Nat), NEW n \in Nat, Ascending(e, n), NEW l \in Nat, l + Len(e) = n,
           NEW s \in 0 .. Len(e), NEW p \in 1 .. n, Between(e, s, p)
    PROVE  p - s \in 1 .. l
<1>1. Len(e) \in Nat /\ \A a \in 1 .. Len(e) : e[a] \in Nat
    BY LenProperties, ElementOfSeq
<1> s \in Nat /\ s <= Len(e) /\ p \in Nat
    BY <1>1
<1>2. p - s >= 1
    <2>1. CASE s = 0
        BY <2>1
    <2>2. CASE s = 1
        BY <2>2, <1>1 DEF Between, Ascending
    <2>3. CASE s > 1
        <3>1. 1 \in 1 .. Len(e) /\ s \in 1 .. Len(e)
            BY <2>3, <1>1
        <3>2. e[1] >= 1 /\ e[1] + (s - 1) <= e[s]
            BY <3>1, <2>3 DEF Ascending
        <3>3. e[s] < p
            BY <2>3 DEF Between
        <3> QED BY <3>1, <3>2, <3>3, <1>1
    <2> QED BY <2>1, <2>2, <2>3, <1>1
<1>3. p - s <= l
    <2>1. CASE s = Len(e)
        BY <2>1
    <2>2. CASE s < Len(e)
        <3>1. s + 1 \in 1 .. Len(e)
            BY <2>2, <1>1
        <3>2. e[s + 1] + (Len(e) - (s + 1)) <= n
            BY <3>1 DEF Ascending
        <3>3. p < e[s + 1]
            BY <2>2 DEF Between
        <3> QED BY <3>1, <3>2, <3>3, <1>1
    <2> QED BY <2>1, <2>2, <1>1
<1> QED BY <1>2, <1>3, <1>1

\* The next position is taken by a result.
LEMMA FitsGood ==
    ASSUME NEW T, NEW x \in Seq(T), NEW e \in Seq(Nat), NEW m \in Nat, Ascending(e, m), Len(x) + Len(e) = m,
           NEW allowed, Fits(x, e, m, allowed), NEW y \in T, y \in allowed[m + 1]
    PROVE  Fits(Append(x, y), e, m + 1, allowed)
<1>0. PICK z : z = Append(x, y)
    OBVIOUS
<1>1. /\ Len(e) \in Nat /\ Len(x) \in Nat
      /\ \A a \in 1 .. Len(e) : e[a] \in Nat
      /\ z[Len(x) + 1] = y /\ \A k \in 1 .. Len(x) : z[k] = x[k]
    BY <1>0, LenProperties, ElementOfSeq, AppendProperties
<1> SUFFICES ASSUME NEW s \in 0 .. Len(e), NEW p \in 1 .. m + 1, Between(e, s, p)
             PROVE  z[p - s] \in allowed[p]
    BY <1>0 DEF Fits
<1> s \in Nat /\ s <= Len(e) /\ p \in Nat
    BY <1>1
<1>2. CASE p \in 1 .. m
    <2>1. p - s \in 1 .. Len(x)
        BY <1>2, <1>1, BetweenIndex
    <2>2. x[p - s] \in allowed[p]
        BY <1>2 DEF Fits
    <2> QED BY <2>1, <2>2, <1>1
<1>3. CASE p = m + 1
    <2>1. s = Len(e)
        <3> SUFFICES ASSUME s # Len(e) PROVE FALSE
            OBVIOUS
        <3>0. s < Len(e)
            BY <1>1
        <3>1. s + 1 \in 1 .. Len(e)
            BY <3>0, <1>1
        <3>2. e[s + 1] + (Len(e) - (s + 1)) <= m
            BY <3>1 DEF Ascending
        <3>3. p < e[s + 1]
            BY <3>0 DEF Between
        <3> QED BY <3>0, <3>1, <3>2, <3>3, <1>1, <1>3
    <2> QED BY <2>1, <1>1, <1>3
<1> QED BY <1>2, <1>3

\* The next position is that of an error.
LEMMA FitsErr ==
    ASSUME NEW x, NEW e \in Seq(Nat), NEW m \in Nat, Ascending(e, m), NEW allowed, Fits(x, e, m, allowed)
    PROVE  Fits(x, Append(e, m + 1), m + 1, allowed)
<1> DEFINE f == Append(e, m + 1)
<1>1. /\ Len(f) = Len(e) + 1 /\ Len(e) \in Nat /\ f[Len(e) + 1] = m + 1
      /\ \A a \in 1 .. Len(e) : f[a] = e[a]
    BY AppendProperties, LenProperties
<1> SUFFICES ASSUME NEW s \in 0 .. Len(f), NEW p \in 1 .. m + 1, Between(f, s, p)
             PROVE  x[p - s] \in allowed[p]
    BY DEF Fits
<1>2. s # Len(e) + 1
    BY <1>1 DEF Between
<1>3. s \in 0 .. Len(e)
    BY <1>1, <1>2
<1>4. s >= 1 => e[s] < p
    BY <1>1, <1>3 DEF Between
<1>5. CASE s < Len(e)
    <2>1. s + 1 \in 1 .. Len(e) /\ e[s + 1] \in Nat
        BY <1>1, <1>5, ElementOfSeq, LenProperties
    <2>2. p < e[s + 1] /\ Between(e, s, p)
        BY <1>1, <1>3, <1>4, <1>5 DEF Between
    <2>3. e[s + 1] + (Len(e) - (s + 1)) <= m
        BY <2>1 DEF Ascending
    <2>4. p \in 1 .. m
        BY <2>1, <2>2, <2>3, <1>1, <1>5
    <2> QED BY <2>2, <2>4, <1>3 DEF Fits
<1>6. CASE s = Len(e)
    <2>1. p < m + 1
        BY <1>1, <1>6 DEF Between
    <2>2. Between(e, s, p)
        BY <1>4, <1>6, <1>1 DEF Between
    <2> QED BY <2>1, <2>2, <1>3 DEF Fits
<1> QED BY <1>3, <1>5, <1>6, <1>1

\* z is x with y inserted: y is at its position, what was from there on is one further.
Inserted(z, x, i, y) ==
    /\ Len(z) = Len(x) + 1 /\ z[i] = y
    /\ \A k \in 1 .. i - 1 : z[k] = x[k]
    /\ \A k \in i + 1 .. Len(x) + 1 : z[k] = x[k - 1]

LEMMA InsertFacts ==
    ASSUME NEW x \in Seq(Item), NEW y \in Item, NEW i \in 1 .. Len(x) + 1
    PROVE  InsertAt(x, i, y) \in Seq(Item) /\ Inserted(InsertAt(x, i, y), x, i, y)
<1> DEFINE a == SubSeq(x, 1, i - 1)
           b == SubSeq(x, i, Len(x))
<1>1. Len(x) \in Nat /\ \A k \in 1 .. Len(x) : x[k] \in Item
    BY ElementOfSeq, LenProperties
<1>2. a \in Seq(Item) /\ Len(a) = i - 1 /\ \A k \in 1 .. i - 1 : a[k] = x[k]
    <2>1. /\ a \in Seq(Item) /\ Len(a) = IF 1 <= i - 1 THEN (i - 1) - 1 + 1 ELSE 0
          /\ \A k \in 1 .. (i - 1) - 1 + 1 : a[k] = x[1 + k - 1]
        BY <1>1, SubSeqProperties
    <2> QED BY <2>1, <1>1
<1>3. b \in Seq(Item) /\ Len(b) = Len(x) - i + 1 /\ \A k \in 1 .. Len(x) - i + 1 : b[k] = x[i + k - 1]
    <2>1. /\ b \in Seq(Item) /\ Len(b) = IF i <= Len(x) THEN Len(x) - i + 1 ELSE 0
          /\ \A k \in 1 .. Len(x) - i + 1 : b[k] = x[i + k - 1]
        BY <1>1, SubSeqProperties
    <2> QED BY <2>1, <1>1
<1> HIDE DEF a, b
<1>4. <<y>> \in Seq(Item) /\ Len(<<y>>) = 1 /\ <<y>>[1] = y
    OBVIOUS
<1>5. PICK ay : ay = a \o <<y>>
    OBVIOUS
<1>6. /\ ay \in Seq(Item) /\ Len(ay) = i
      /\ \A k \in 1 .. i : ay[k] = IF k <= i - 1 THEN a[k] ELSE <<y>>[k - (i - 1)]
    <2>1. /\ a \o <<y>> \in Seq(Item) /\ Len(a \o <<y>>) = Len(a) + Len(<<y>>)
          /\ \A k \in 1 .. Len(a) + Len(<<y>>) :
                 (a \o <<y>>)[k] = IF k <= Len(a) THEN a[k] ELSE <<y>>[k - Len(a)]
        BY <1>2, <1>4, ConcatProperties
    <2> QED BY <2>1, <1>2, <1>4, <1>5, <1>1
<1>7. PICK z : z = ay \o b
    OBVIOUS
<1>8. /\ z \in Seq(Item) /\ Len(z) = Len(x) + 1
      /\ \A k \in 1 .. Len(x) + 1 : z[k] = IF k <= i THEN ay[k] ELSE b[k - i]
    <2>1. /\ ay \o b \in Seq(Item) /\ Len(ay \o b) = Len(ay) + Len(b)
          /\ \A k \in 1 .. Len(ay) + Len(b) : (ay \o b)[k] = IF k <= Len(ay) THEN ay[k] ELSE b[k - Len(ay)]
        BY <1>3, <1>6, ConcatProperties
    <2> QED BY <2>1, <1>3, <1>6, <1>7, <1>1
<1>9. InsertAt(x, i, y) = z
    BY <1>5, <1>7 DEF InsertAt, a, b
<1>10. z[i] = y
    <2>1. i \in 1 .. i /\ i \in 1 .. Len(x) + 1 /\ i <= i /\ ~(i <= i - 1) /\ i - (i - 1) = 1
        BY <1>1
    <2>2. z[i] = ay[i]
        BY ONLY <2>1, <1>8
    <2>3. ay[i] = <<y>>[1]
        BY ONLY <2>1, <1>6
    <2> QED BY <2>2, <2>3, <1>4
<1>11. ASSUME NEW k \in 1 .. i - 1
       PROVE  z[k] = x[k]
    <2>1. k \in 1 .. i /\ k \in 1 .. Len(x) + 1 /\ k <= i /\ k <= i - 1
        BY <1>1
    <2>2. z[k] = ay[k]
        BY ONLY <2>1, <1>8
    <2>3. ay[k] = a[k]
        BY ONLY <2>1, <1>6
    <2> QED BY <2>2, <2>3, <1>2
<1>12. \A k \in i + 1 .. Len(x) + 1 : z[k] = x[k - 1]
    <2> SUFFICES ASSUME NEW k \in i + 1 .. Len(x) + 1 PROVE z[k] = x[k - 1]
        OBVIOUS
    <2>1. z[k] = b[k - i] /\ k - i \in 1 .. Len(x) - i + 1
        BY <1>8, <1>1
    <2>2. b[k - i] = x[i + (k - i) - 1]
        BY <2>1, <1>3
    <2> QED BY <2>1, <2>2, <1>1
<1> QED BY <1>8, <1>9, <1>10, <1>11, <1>12 DEF Inserted

\* An error that is inserted has its position, and so has what comes after it.
LEMMA FitsInsert ==
    ASSUME NEW x \in Seq(Item), NEW e \in Seq(Nat), NEW n \in Nat, Ascending(e, n), e # <<>>,
           Len(x) + Len(e) = n, NEW allowed, Fits(x, e, n, allowed),
           NEW y \in Item, y \in allowed[Head(e)]
    PROVE  /\ InsertAt(x, Head(e), y) \in Seq(Item)
           /\ Inserted(InsertAt(x, Head(e), y), x, Head(e), y)
           /\ Fits(InsertAt(x, Head(e), y), Tail(e), n, allowed)
<1>1. PICK i, f : i = Head(e) /\ f = Tail(e)
    OBVIOUS
<1>2. /\ f \in Seq(Nat) /\ i \in Nat /\ 1 <= i /\ i + (Len(e) - 1) <= n
      /\ \A a \in 1 .. Len(e) - 1 : f[a] = e[a + 1]
    BY <1>1, AscendingTail
<1>3. Len(f) = Len(e) - 1 /\ i = e[1]
    BY <1>1, AscendingTail
<1>4. /\ Len(e) \in Nat /\ Len(e) >= 1 /\ Len(x) \in Nat
      /\ \A a \in 1 .. Len(e) : e[a] \in Nat
    BY EmptySeq, LenProperties, ElementOfSeq
<1>5. i \in 1 .. Len(x) + 1
    BY <1>2, <1>4
<1>6. PICK z : z = InsertAt(x, i, y)
    OBVIOUS
<1>6a. z \in Seq(Item) /\ Inserted(z, x, i, y)
    <2>1. InsertAt(x, i, y) \in Seq(Item) /\ Inserted(InsertAt(x, i, y), x, i, y)
        BY ONLY x \in Seq(Item), y \in Item, <1>5, InsertFacts
    <2> QED BY <2>1, <1>6
<1>7. /\ z \in Seq(Item) /\ Len(z) = Len(x) + 1 /\ z[i] = y
      /\ \A k \in 1 .. i - 1 : z[k] = x[k]
      /\ \A k \in i + 1 .. Len(x) + 1 : z[k] = x[k - 1]
    BY <1>6a, <1>6 DEF Inserted
\* behind the position of the error
<1>8. ASSUME NEW s \in Nat, s + 1 <= Len(e), NEW p \in 1 .. n, Between(e, s + 1, p)
      PROVE  z[p - s] \in allowed[p]
    <2>1. s + 1 \in 0 .. Len(e)
        BY <1>4, <1>8
    <2>2. x[p - (s + 1)] \in allowed[p]
        BY <2>1, <1>8 DEF Fits
    <2>3. p - (s + 1) \in 1 .. Len(x)
        BY <2>1, <1>4, <1>8, BetweenIndex
    <2>4. e[s + 1] < p /\ e[s + 1] \in Nat
        BY <1>4, <1>8 DEF Between
    <2>5. e[1] + s <= e[s + 1]
        <3>1. CASE s = 0
            BY <3>1, <1>4
        <3>2. CASE s >= 1
            <4>1. 1 \in 1 .. Len(e) /\ s + 1 \in 1 .. Len(e) /\ 1 < s + 1
                BY <3>2, <1>4, <1>8
            <4>2. e[1] + ((s + 1) - 1) <= e[s + 1]
                BY <4>1 DEF Ascending
            <4> QED BY <4>2
        <3> QED BY <3>1, <3>2
    <2>6. p - s > i
        <3>1. e[1] = i
            BY <1>3
        <3> QED BY <3>1, <2>4, <2>5, <1>2, <1>8
    <2>7. p - s \in i + 1 .. Len(x) + 1 /\ (p - s) - 1 = p - (s + 1)
        BY <2>3, <2>6, <1>2, <1>4
    <2> QED BY <2>2, <2>7, <1>7
\* before it
<1>9. ASSUME NEW p \in 1 .. n, p < i
      PROVE  z[p] \in allowed[p]
    <2>1. Between(e, 0, p) /\ 0 \in 0 .. Len(e)
        BY <1>3, <1>4, <1>9 DEF Between
    <2>2. x[p - 0] \in allowed[p]
        BY <2>1 DEF Fits
    <2>3. p \in 1 .. i - 1
        BY <1>2, <1>9
    <2> QED BY <2>2, <2>3, <1>7
<1>10. ASSUME NEW s \in 0 .. Len(f), NEW p \in 1 .. n, Between(f, s, p)
       PROVE  z[p - s] \in allowed[p]
    <2>1. s \in Nat /\ s + 1 <= Len(e)
        BY <1>3, <1>4
    <2>2. s + 1 < Len(e) => p < e[(s + 1) + 1]
        <3> SUFFICES ASSUME s + 1 < Len(e) PROVE p < e[(s + 1) + 1]
            OBVIOUS
        <3>1. s + 1 \in 1 .. Len(e) - 1 /\ s < Len(f)
            BY <2>1, <1>3, <1>4
        <3>2. f[s + 1] = e[(s + 1) + 1]
            BY <3>1, <1>2
        <3> QED BY <3>1, <3>2, <1>10 DEF Between
    <2>3. CASE s >= 1
        <3>1. s \in 1 .. Len(e) - 1
            BY <2>1, <2>3, <1>4
        <3>2. f[s] = e[s + 1] /\ f[s] < p
            BY <3>1, <2>3, <1>2, <1>10 DEF Between
        <3>3. Between(e, s + 1, p)
            BY <3>2, <2>2 DEF Between
        <3> QED BY <3>3, <2>1, <1>8
    <2>4. CASE s = 0 /\ p > i
        <3>1. e[s + 1] < p
            BY <2>4, <1>3, <1>2
        <3>2. Between(e, s + 1, p)
            BY <3>1, <2>2 DEF Between
        <3> QED BY <3>2, <2>1, <1>8
    <2>5. CASE s = 0 /\ p = i
        <3>1. p - s = i /\ y \in allowed[p]
            BY <2>5, <1>1, <1>2
        <3> QED BY <3>1, <1>7
    <2>6. CASE s = 0 /\ p < i
        <3>1. p - s = p
            BY <2>6
        <3> QED BY <3>1, <2>6, <1>9
    <2>7. s = 0 \/ s >= 1
        BY <2>1
    <2>8. p > i \/ p = i \/ p < i
        BY <1>2
    <2> QED BY <2>3, <2>4, <2>5, <2>6, <2>7, <2>8
<1>11. Fits(z, f, n, allowed)
    BY <1>10 DEF Fits
<1> QED BY <1>1, <1>6, <1>6a, <1>11

\* A list of results without the errors, from one of the inputs without the errors.
LEMMA FitsMap ==
    ASSUME NEW T, NEW x \in Seq(T), NEW e \in Seq(Nat), NEW n \in Nat, Ascending(e, n), Len(x) + Len(e) = n,
           NEW from, Fits(x, e, n, from), NEW to, NEW z,
           \A p \in 1 .. n, k \in 1 .. Len(x) : x[k] \in from[p] => z[k] \in to[p]
    PROVE  Fits(z, e, n, to)
<1> SUFFICES ASSUME NEW s \in 0 .. Len(e), NEW p \in 1 .. n, Between(e, s, p)
             PROVE  z[p - s] \in to[p]
    BY DEF Fits
<1>1. p - s \in 1 .. Len(x)
    BY BetweenIndex, LenProperties
<1>2. x[p - s] \in from[p]
    BY DEF Fits
<1> QED BY <1>1, <1>2

\* With no error left there is a result at every position.
LEMMA FitsAll ==
    ASSUME NEW x, NEW n \in Nat, NEW allowed, Fits(x, <<>>, n, allowed)
    PROVE  \A p \in 1 .. n : x[p] \in allowed[p]
<1> SUFFICES ASSUME NEW p \in 1 .. n PROVE x[p] \in allowed[p]
    OBVIOUS
<1>1. Len(<<>>) = 0
    OBVIOUS
<1>2. Between(<<>>, 0, p) /\ 0 \in 0 .. Len(<<>>)
    BY <1>1 DEF Between
<1>3. x[p - 0] \in allowed[p]
    BY <1>2 DEF Fits
<1> QED BY <1>3

-----------------------------------------------------------------------------
(* Sequences and the task pool.                                            *)

\* A function on 1 .. n is a sequence.
LEMMA SeqOfFcn ==
    ASSUME NEW S, NEW n \in Nat, NEW f \in [1 .. n -> S]
    PROVE  f \in Seq(S) /\ Len(f) = n
<1>1. f \in Seq(S)
    BY SeqDef
<1>2. 1 .. Len(f) = 1 .. n /\ Len(f) \in Nat
    BY <1>1, LenProperties
<1>3. Len(f) = n
    <2>1. n > 0 => n \in 1 .. Len(f)
        BY <1>2
    <2>2. Len(f) > 0 => Len(f) \in 1 .. n
        BY <1>2
    <2> QED BY <2>1, <2>2, <1>2
<1> QED BY <1>1, <1>3

\* A sequence with elements in S.
LEMMA SeqOfElements ==
    ASSUME NEW T, NEW s \in Seq(T), NEW S, \A i \in 1 .. Len(s) : s[i] \in S
    PROVE  s \in Seq(S)
<1>1. s \in [1 .. Len(s) -> T] /\ Len(s) \in Nat
    BY LenProperties
<1>2. s \in [1 .. Len(s) -> S]
    BY <1>1
<1> QED BY <1>1, <1>2, SeqOfFcn

LEMMA DistinctAppend ==
    ASSUME NEW T, NEW s \in Seq(T), Distinct(s), NEW y \in T, \A i \in 1 .. Len(s) : s[i] # y
    PROVE  Distinct(Append(s, y))
<1>1. PICK z : z = Append(s, y)
    OBVIOUS
<1>2. Len(s) \in Nat /\ Len(z) = Len(s) + 1 /\ z[Len(s) + 1] = y /\ \A i \in 1 .. Len(s) : z[i] = s[i]
    BY <1>1, AppendProperties, LenProperties
<1>3. ASSUME NEW i \in 1 .. Len(z), NEW j \in 1 .. Len(z), z[i] = z[j]
      PROVE  i = j
    <2>1. (i \in 1 .. Len(s) \/ i = Len(s) + 1) /\ (j \in 1 .. Len(s) \/ j = Len(s) + 1)
        BY <1>2
    <2>2. CASE i \in 1 .. Len(s) /\ j \in 1 .. Len(s)
        BY <2>2, <1>2, <1>3 DEF Distinct
    <2> QED BY <2>1, <2>2, <1>2, <1>3
<1> QED BY <1>1, <1>3 DEF Distinct

\* The first n of a list, and the rest.
LEMMA Slices ==
    ASSUME NEW T, NEW s \in Seq(T), Distinct(s), NEW n \in 1 .. Len(s)
    PROVE  /\ SubSeq(s, 1, n) \in Seq(T) /\ Len(SubSeq(s, 1, n)) = n
           /\ \A i \in 1 .. n : SubSeq(s, 1, n)[i] = s[i]
           /\ Distinct(SubSeq(s, 1, n))
           /\ SubSeq(s, n + 1, Len(s)) \in Seq(T) /\ Len(SubSeq(s, n + 1, Len(s))) = Len(s) - n
           /\ \A i \in 1 .. Len(s) - n : SubSeq(s, n + 1, Len(s))[i] = s[n + i]
           /\ Distinct(SubSeq(s, n + 1, Len(s)))
<1>1. Len(s) \in Nat /\ n \in Nat /\ n <= Len(s) /\ 1 <= n /\ \A i \in 1 .. Len(s) : s[i] \in T
    BY ElementOfSeq, LenProperties
<1>2. PICK a, b : a = SubSeq(s, 1, n) /\ b = SubSeq(s, n + 1, Len(s))
    OBVIOUS
<1>3. /\ a \in Seq(T) /\ Len(a) = n
      /\ \A i \in 1 .. n : a[i] = s[i]
    <2>1. /\ SubSeq(s, 1, n) \in Seq(T) /\ Len(SubSeq(s, 1, n)) = IF 1 <= n THEN n - 1 + 1 ELSE 0
          /\ \A i \in 1 .. n - 1 + 1 : SubSeq(s, 1, n)[i] = s[1 + i - 1]
        <3>1. \A i \in 1 .. n : s[i] \in T
            BY <1>1
        <3> QED BY <3>1, <1>1, SubSeqProperties
    <2> QED BY <2>1, <1>1, <1>2
<1>4. /\ b \in Seq(T) /\ Len(b) = Len(s) - n
      /\ \A i \in 1 .. Len(s) - n : b[i] = s[n + i]
    <2>1. /\ SubSeq(s, n + 1, Len(s)) \in Seq(T)
          /\ Len(SubSeq(s, n + 1, Len(s))) = IF n + 1 <= Len(s) THEN Len(s) - (n + 1) + 1 ELSE 0
          /\ \A i \in 1 .. Len(s) - (n + 1) + 1 : SubSeq(s, n + 1, Len(s))[i] = s[n + 1 + i - 1]
        <3>1. \A i \in n + 1 .. Len(s) : s[i] \in T
            BY <1>1
        <3> QED BY <3>1, <1>1, SubSeqProperties
    <2>2. \A i \in 1 .. Len(s) - n : b[i] = s[n + i]
        <3> SUFFICES ASSUME NEW i \in 1 .. Len(s) - n PROVE b[i] = s[n + i]
            OBVIOUS
        <3>1. i \in 1 .. Len(s) - (n + 1) + 1 /\ n + 1 + i - 1 = n + i
            BY <1>1
        <3> QED BY <3>1, <2>1, <1>2
    <2> QED BY <2>1, <2>2, <1>1, <1>2
<1>5. Distinct(a)
    BY <1>1, <1>3 DEF Distinct
<1>6. Distinct(b)
    <2> SUFFICES ASSUME NEW i \in 1 .. Len(b), NEW j \in 1 .. Len(b), b[i] = b[j] PROVE i = j
        BY DEF Distinct
    <2>1. n + i \in 1 .. Len(s) /\ n + j \in 1 .. Len(s) /\ s[n + i] = s[n + j]
        BY <1>1, <1>4
    <2>2. n + i = n + j
        BY <2>1 DEF Distinct
    <2> QED BY <2>2, <1>1, <1>4
<1> QED BY <1>2, <1>3, <1>4, <1>5, <1>6

\* A group of one config, in an order.
LEMMA GroupFacts ==
    ASSUME NEW p \in Seq(Group), NEW g \in 1 .. Len(p)
    PROVE  /\ p[g] \in Group /\ p[g].config \in STRING /\ p[g].data \in Seq(Requests) /\ Len(p[g].data) \in Nat
           /\ \A i \in 1 .. Len(p[g].data) : p[g].data[i] \in Requests
<1>1. p[g] \in Group
    BY ElementOfSeq
<1>2. p[g].config \in STRING /\ p[g].data \in Seq(Requests)
    BY <1>1 DEF Group
<1> QED BY <1>1, <1>2, LenProperties, ElementOfSeq

\* A request that enters the pool joins the group of its config, or makes a new one.
LEMMA AddToPoolFacts ==
    ASSUME NEW p \in Seq(Group), PoolOk(p), NEW r \in Requests, ~In(p, r), conf.config[r] \in STRING
    PROVE  /\ AddToPool(p, r) \in Seq(Group) /\ PoolOk(AddToPool(p, r)) /\ AddToPool(p, r) # <<>>
           /\ \A q : In(AddToPool(p, r), q) <=> In(p, q) \/ q = r
<1> DEFINE c == conf.config[r]
<1>1. PICK z : z = AddToPool(p, r)
    OBVIOUS
<1>2. Len(p) \in Nat
    BY LenProperties
<1>3. CASE \E h \in DOMAIN p : p[h].config = c
    <2>1. PICK h \in 1 .. Len(p) : p[h].config = c
        BY <1>3, LenProperties
    <2>2. PICK d : d = Append(p[h].data, r)
        OBVIOUS
    <2>3. /\ d \in Seq(Requests) /\ Len(d) = Len(p[h].data) + 1 /\ d[Len(p[h].data) + 1] = r
          /\ \A i \in 1 .. Len(p[h].data) : d[i] = p[h].data[i]
        BY <2>2, GroupFacts, AppendProperties
    <2>4. \A g \in 1 .. Len(p) : p[g].config = c <=> g = h
        BY <2>1, <1>3 DEF PoolOk
    <2>5. z = [g \in DOMAIN p |-> IF p[g].config = c THEN [p[g] EXCEPT !.data = Append(@, r)] ELSE p[g]]
        BY <1>1, <1>3 DEF AddToPool
    <2>6. DOMAIN p = 1 .. Len(p)
        BY LenProperties
    <2>7. z = [g \in 1 .. Len(p) |-> IF p[g].config = c THEN [p[g] EXCEPT !.data = Append(@, r)] ELSE p[g]]
        BY <2>5, <2>6
    <2>8. z[h] = [config |-> c, data |-> d]
        <3>1. z[h] = [p[h] EXCEPT !.data = Append(@, r)]
            BY <2>1, <2>7
        <3>2. p[h] \in [config : STRING, data : Seq(Requests)]
            BY GroupFacts DEF Group
        <3> QED BY <3>1, <3>2, <2>1, <2>2
    <2>9. \A g \in 1 .. Len(p) : g # h => z[g] = p[g]
        BY <2>7, <2>4
    <2>10. \A g \in 1 .. Len(p) : z[g] \in Group
        <3> SUFFICES ASSUME NEW g \in 1 .. Len(p) PROVE z[g] \in Group
            OBVIOUS
        <3>1. [config |-> c, data |-> d] \in Group
            BY <2>3 DEF Group
        <3> QED BY <3>1, <2>8, <2>9, GroupFacts
    <2>11. z \in Seq(Group) /\ Len(z) = Len(p)
        <3>1. z \in [1 .. Len(p) -> Group]
            BY <2>7, <2>10
        <3> QED BY <3>1, <1>2, SeqOfFcn
    <2>12. \A g \in 1 .. Len(p) : z[g].config = p[g].config
        BY <2>1, <2>8, <2>9
    <2>13. z[h].data = d /\ \A g \in 1 .. Len(p) : g # h => z[g].data = p[g].data
        BY <2>8, <2>9
    <2>14. ASSUME NEW g \in 1 .. Len(p)
           PROVE  /\ z[g].data # <<>> /\ Distinct(z[g].data)
                  /\ \A i \in 1 .. Len(z[g].data) : conf.config[z[g].data[i]] = z[g].config
        <3>1. CASE g = h
            <4>1. d # <<>>
                BY <2>3, GroupFacts, EmptySeq
            <4>2. \A i \in 1 .. Len(p[h].data) : p[h].data[i] # r
                BY DEF In
            <4>3. Distinct(p[h].data)
                BY DEF PoolOk
            <4>4. Distinct(d)
                BY <4>2, <4>3, <2>2, GroupFacts, DistinctAppend
            <4>5. \A i \in 1 .. Len(d) : conf.config[d[i]] = c
                <5> SUFFICES ASSUME NEW i \in 1 .. Len(d) PROVE conf.config[d[i]] = c
                    OBVIOUS
                <5>1. i \in 1 .. Len(p[h].data) \/ i = Len(p[h].data) + 1
                    BY <2>3, GroupFacts
                <5>2. CASE i \in 1 .. Len(p[h].data)
                    <6>1. conf.config[p[h].data[i]] = p[h].config
                        BY <5>2 DEF PoolOk
                    <6> QED BY <6>1, <5>2, <2>1, <2>3
                <5> QED BY <5>1, <5>2, <2>3
            <4> QED BY <3>1, <4>1, <4>4, <4>5, <2>8
        <3>2. CASE g # h
            BY <3>2, <2>9 DEF PoolOk
        <3> QED BY <3>1, <3>2
    <2>15. PoolOk(z)
        BY <2>11, <2>12, <2>14 DEF PoolOk
    <2>16. ASSUME NEW q PROVE In(z, q) <=> In(p, q) \/ q = r
        <3>1. ASSUME In(z, q) PROVE In(p, q) \/ q = r
            <4>0. PICK g \in 1 .. Len(z) : \E i \in 1 .. Len(z[g].data) : z[g].data[i] = q
                BY ONLY <3>1 DEF In
            <4>1. PICK i \in 1 .. Len(z[g].data) : z[g].data[i] = q
                BY ONLY <4>0
            <4>2. g \in 1 .. Len(p) /\ i \in 1 .. Len(z[g].data) /\ z[g].data[i] = q
                BY <4>0, <4>1, <2>11
            <4>3. CASE g # h
                BY <4>2, <4>3, <2>13 DEF In
            <4>4. CASE g = h
                <5>1. i \in 1 .. Len(p[h].data) \/ i = Len(p[h].data) + 1
                    BY <4>2, <4>4, <2>13, <2>3, GroupFacts
                <5>2. CASE i \in 1 .. Len(p[h].data)
                    <6>1. p[h].data[i] = q
                        BY <5>2, <4>2, <4>4, <2>13, <2>3
                    <6> QED BY <6>1, <5>2 DEF In
                <5>3. CASE i = Len(p[h].data) + 1
                    BY <5>3, <4>2, <4>4, <2>13, <2>3
                <5> QED BY <5>1, <5>2, <5>3
            <4> QED BY <4>3, <4>4
        <3>2. ASSUME In(p, q) PROVE In(z, q)
            <4>0. PICK g \in 1 .. Len(p) : \E i \in 1 .. Len(p[g].data) : p[g].data[i] = q
                BY ONLY <3>2 DEF In
            <4>1. PICK i \in 1 .. Len(p[g].data) : p[g].data[i] = q
                BY ONLY <4>0
            <4>2. i \in 1 .. Len(z[g].data) /\ z[g].data[i] = q
                <5>1. CASE g # h
                    BY <5>1, <4>1, <2>13
                <5>2. CASE g = h
                    <6>1. i \in 1 .. Len(d) /\ d[i] = q
                        BY <5>2, <4>1, <2>3, GroupFacts
                    <6> QED BY <6>1, <5>2, <2>13
                <5> QED BY <5>1, <5>2
            <4> QED BY <4>2, <2>11 DEF In
        <3>3. ASSUME q = r PROVE In(z, q)
            <4>1. Len(p[h].data) + 1 \in 1 .. Len(z[h].data) /\ z[h].data[Len(p[h].data) + 1] = q
                BY <3>3, <2>3, <2>13, GroupFacts
            <4> QED BY <4>1, <2>11 DEF In
        <3> QED BY <3>1, <3>2, <3>3
    <2>17. z # <<>>
        BY <2>1, <2>11, <1>2, EmptySeq
    <2> QED BY <1>1, <2>11, <2>15, <2>16, <2>17
<1>4. CASE ~\E h \in DOMAIN p : p[h].config = c
    <2>1. PICK new : new = [config |-> c, data |-> <<r>>]
        OBVIOUS
    <2>2. /\ new \in Group /\ new.config = c /\ new.data = <<r>>
        BY <2>1 DEF Group
    <2>3. Len(<<r>>) = 1 /\ <<r>>[1] = r /\ <<r>> # <<>> /\ Distinct(<<r>>)
        BY DEF Distinct
    <2>4. z = Append(p, new)
        BY <1>1, <1>4, <2>1 DEF AddToPool
    <2>5. /\ z \in Seq(Group) /\ Len(z) = Len(p) + 1 /\ z[Len(p) + 1] = new
          /\ \A g \in 1 .. Len(p) : z[g] = p[g]
        BY <2>2, <2>4, AppendProperties
    <2>6. \A g \in 1 .. Len(z) : g \in 1 .. Len(p) \/ g = Len(p) + 1
        BY <2>5, <1>2
    <2>7. \A g \in 1 .. Len(p) : p[g].config # c
        BY <1>4, LenProperties
    <2>8. ASSUME NEW g \in 1 .. Len(z)
          PROVE  /\ z[g].data # <<>> /\ Distinct(z[g].data)
                 /\ \A i \in 1 .. Len(z[g].data) : conf.config[z[g].data[i]] = z[g].config
        <3>1. CASE g \in 1 .. Len(p)
            BY <3>1, <2>5 DEF PoolOk
        <3>2. CASE g = Len(p) + 1
            <4>1. \A i \in 1 .. Len(<<r>>) : i = 1
                BY <2>3
            <4> QED BY <4>1, <3>2, <2>2, <2>3, <2>5
        <3> QED BY <3>1, <3>2, <2>6
    <2>9. ASSUME NEW g \in 1 .. Len(z), NEW h \in 1 .. Len(z), z[g].config = z[h].config
          PROVE  g = h
        BY <2>2, <2>5, <2>6, <2>7, <2>9 DEF PoolOk
    <2>10. PoolOk(z)
        BY <2>8, <2>9 DEF PoolOk
    <2>11. ASSUME NEW q PROVE In(z, q) <=> In(p, q) \/ q = r
        <3>1. ASSUME In(z, q) PROVE In(p, q) \/ q = r
            <4>0. PICK g \in 1 .. Len(z) : \E i \in 1 .. Len(z[g].data) : z[g].data[i] = q
                BY ONLY <3>1 DEF In
            <4>1. PICK i \in 1 .. Len(z[g].data) : z[g].data[i] = q
                BY ONLY <4>0
            <4>2. CASE g \in 1 .. Len(p)
                BY <4>1, <4>2, <2>5 DEF In
            <4>3. CASE g = Len(p) + 1
                <5>1. i = 1
                    BY <4>1, <4>3, <2>2, <2>3, <2>5
                <5> QED BY <5>1, <4>1, <4>3, <2>2, <2>3, <2>5
            <4> QED BY <4>2, <4>3, <2>6
        <3>2. ASSUME In(p, q) PROVE In(z, q)
            <4>0. PICK g \in 1 .. Len(p) : \E i \in 1 .. Len(p[g].data) : p[g].data[i] = q
                BY ONLY <3>2 DEF In
            <4>1. PICK i \in 1 .. Len(p[g].data) : p[g].data[i] = q
                BY ONLY <4>0
            <4>2. g \in 1 .. Len(z)
                BY <2>5, <1>2
            <4> QED BY <4>1, <4>2, <2>5 DEF In
        <3>3. ASSUME q = r PROVE In(z, q)
            <4>1. Len(p) + 1 \in 1 .. Len(z) /\ 1 \in 1 .. Len(<<r>>)
                BY <2>3, <2>5, <1>2
            <4> QED BY <4>1, <3>3, <2>2, <2>3, <2>5 DEF In
        <3> QED BY <3>1, <3>2, <3>3
    <2>12. z # <<>>
        BY <2>5, <1>2, EmptySeq
    <2> QED BY <1>1, <2>5, <2>10, <2>11, <2>12
<1> QED BY <1>3, <1>4

\* What stays of the pool when the first n requests of its oldest group are taken.
LEMMA RemainingFacts ==
    ASSUME NEW p \in Seq(Group), PoolOk(p), p # <<>>, NEW n \in 1 .. Len(p[1].data)
    PROVE  /\ Remaining(p, n) \in Seq(Group) /\ PoolOk(Remaining(p, n))
           /\ \A q : In(Remaining(p, n), q) <=> In(p, q) /\ ~\E i \in 1 .. n : p[1].data[i] = q
<1>1. PICK z, f : z = Remaining(p, n) /\ f = p[1].data
    OBVIOUS
<1>2. Len(p) \in Nat /\ Len(p) >= 1 /\ 1 \in 1 .. Len(p)
    BY LenProperties, EmptySeq
<1>3. f \in Seq(Requests) /\ Len(f) \in Nat /\ Distinct(f) /\ n \in 1 .. Len(f)
    BY <1>1, <1>2, GroupFacts DEF PoolOk
<1>4. \A q : (\E i \in 1 .. n : p[1].data[i] = q) <=> \E i \in 1 .. n : f[i] = q
    BY <1>1
\* the requests of the other groups are not among those that are taken
<1>5. ASSUME NEW g \in 1 .. Len(p), g # 1, NEW i \in 1 .. Len(p[g].data), NEW j \in 1 .. Len(f),
             p[g].data[i] = f[j]
      PROVE  FALSE
    <2>1. conf.config[f[j]] = p[1].config
        BY <1>1, <1>2 DEF PoolOk
    <2>2. conf.config[p[g].data[i]] = p[g].config
        BY DEF PoolOk
    <2>3. p[g].config = p[1].config
        BY <2>1, <2>2, <1>5
    <2> QED BY <2>3, <1>2, <1>5 DEF PoolOk
<1>6. CASE n < Len(f)
    <2>1. PICK d : d = SubSeq(f, n + 1, Len(f))
        OBVIOUS
    <2>2. /\ d \in Seq(Requests) /\ Len(d) = Len(f) - n /\ Distinct(d)
          /\ \A i \in 1 .. Len(f) - n : d[i] = f[n + i]
        BY <2>1, <1>3, Slices
    <2>3. z = [p EXCEPT ![1].data = SubSeq(@, n + 1, Len(@))]
        BY <1>1, <1>6 DEF Remaining
    <2>4. PICK new : new = [p[1] EXCEPT !.data = d]
        OBVIOUS
    <2>5. z = [p EXCEPT ![1] = new]
        BY <2>1, <2>3, <2>4, <1>1
    <2>6. new = [config |-> p[1].config, data |-> d] /\ new \in Group
        <3>1. p[1] \in [config : STRING, data : Seq(Requests)]
            BY <1>2, GroupFacts DEF Group
        <3> QED BY <3>1, <2>2, <2>4 DEF Group
    <2>7. /\ z \in Seq(Group) /\ Len(z) = Len(p) /\ z[1] = new
          /\ \A g \in 1 .. Len(p) : g # 1 => z[g] = p[g]
        BY <1>2, <2>5, <2>6, ExceptSeq
    <2>8. z[1].data = d /\ z[1].config = p[1].config /\ \A g \in 1 .. Len(p) : z[g].config = p[g].config
        BY <2>6, <2>7
    <2>9. ASSUME NEW g \in 1 .. Len(z)
          PROVE  /\ z[g].data # <<>> /\ Distinct(z[g].data)
                 /\ \A i \in 1 .. Len(z[g].data) : conf.config[z[g].data[i]] = z[g].config
        <3>0. g \in 1 .. Len(p)
            BY <2>7
        <3>1. CASE g = 1
            <4>1. d # <<>>
                BY <2>2, <1>3, <1>6, EmptySeq
            <4>2. \A i \in 1 .. Len(d) : conf.config[d[i]] = p[1].config
                <5> SUFFICES ASSUME NEW i \in 1 .. Len(d) PROVE conf.config[d[i]] = p[1].config
                    OBVIOUS
                <5>1. n + i \in 1 .. Len(f) /\ d[i] = f[n + i]
                    BY <2>2, <1>3
                <5>2. conf.config[f[n + i]] = p[1].config
                    BY <5>1, <1>1, <1>2 DEF PoolOk
                <5> QED BY <5>1, <5>2
            <4> QED BY <3>1, <4>1, <4>2, <2>2, <2>8
        <3>2. CASE g # 1
            BY <3>0, <3>2, <2>7 DEF PoolOk
        <3> QED BY <3>1, <3>2
    <2>10. \A g, h \in 1 .. Len(z) : z[g].config = z[h].config => g = h
        <3> SUFFICES ASSUME NEW g \in 1 .. Len(z), NEW h \in 1 .. Len(z), z[g].config = z[h].config PROVE g = h
            OBVIOUS
        <3>1. g \in 1 .. Len(p) /\ h \in 1 .. Len(p)
            BY <2>7
        <3> QED BY <3>1, <2>8 DEF PoolOk
    <2>11. PoolOk(z)
        BY <2>9, <2>10 DEF PoolOk
    <2>12. ASSUME NEW q, In(z, q) PROVE In(p, q) /\ ~\E i \in 1 .. n : f[i] = q
        <3>0. PICK g \in 1 .. Len(z) : \E i \in 1 .. Len(z[g].data) : z[g].data[i] = q
            BY ONLY <2>12 DEF In
        <3>1. PICK i \in 1 .. Len(z[g].data) : z[g].data[i] = q
            BY ONLY <3>0
        <3>2. g \in 1 .. Len(p)
            BY <2>7
        <3>3. CASE g = 1
            <4>1. n + i \in 1 .. Len(f) /\ i \in 1 .. Len(f) - n /\ f[n + i] = q /\ n + i > n
                BY <3>1, <3>3, <2>2, <2>8, <1>3
            <4>2. In(p, q)
                BY <4>1, <1>1, <1>2 DEF In
            <4>3. ASSUME NEW j \in 1 .. n, f[j] = q PROVE FALSE
                <5>1. j \in 1 .. Len(f) /\ j # n + i
                    BY <4>1, <1>3
                <5> QED BY <4>1, <4>3, <5>1, <1>3 DEF Distinct
            <4> QED BY <4>2, <4>3
        <3>4. CASE g # 1
            <4>1. i \in 1 .. Len(p[g].data) /\ p[g].data[i] = q
                BY <3>1, <3>2, <3>4, <2>7
            <4>2. In(p, q)
                BY <3>2, <4>1 DEF In
            <4>3. ASSUME NEW j \in 1 .. n, f[j] = q PROVE FALSE
                <5>1. j \in 1 .. Len(f)
                    BY <1>3
                <5> QED BY <5>1, <4>1, <4>3, <3>2, <3>4, <1>5
            <4> QED BY <4>2, <4>3
        <3> QED BY <3>3, <3>4
    <2>13. ASSUME NEW q, In(p, q), ~\E i \in 1 .. n : f[i] = q PROVE In(z, q)
        <3>0. PICK g \in 1 .. Len(p) : \E i \in 1 .. Len(p[g].data) : p[g].data[i] = q
            BY ONLY <2>13 DEF In
        <3>1. PICK i \in 1 .. Len(p[g].data) : p[g].data[i] = q
            BY ONLY <3>0
        <3>2. g \in 1 .. Len(z)
            BY <2>7
        <3>3. CASE g = 1
            <4>1. i \in 1 .. Len(f) /\ f[i] = q
                BY <3>1, <3>3, <1>1
            <4>2. ~(i \in 1 .. n)
                BY <4>1, <2>13
            <4>3. i - n \in 1 .. Len(f) - n /\ n + (i - n) = i
                BY <4>1, <4>2, <1>3
            <4>4. i - n \in 1 .. Len(d) /\ d[i - n] = q
                BY <4>1, <4>3, <2>2
            <4> QED BY <4>4, <3>2, <3>3, <2>8 DEF In
        <3>4. CASE g # 1
            <4>1. i \in 1 .. Len(z[g].data) /\ z[g].data[i] = q
                BY <3>1, <3>4, <2>7
            <4> QED BY <3>2, <4>1 DEF In
        <3> QED BY <3>3, <3>4
    <2> QED BY <1>1, <1>4, <2>7, <2>11, <2>12, <2>13
<1>7. CASE ~(n < Len(f))
    <2>1. n = Len(f)
        BY <1>3, <1>7
    <2>2. z = Tail(p)
        BY <1>1, <1>7 DEF Remaining
    <2>3. z \in Seq(Group) /\ Len(z) = Len(p) - 1 /\ \A g \in 1 .. Len(p) - 1 : z[g] = p[g + 1]
        BY <2>2, HeadTailProperties
    <2>4. \A g \in 1 .. Len(z) : g + 1 \in 1 .. Len(p) /\ z[g] = p[g + 1] /\ g + 1 # 1 /\ g \in Nat
        BY <2>3, <1>2
    <2>5. ASSUME NEW g \in 1 .. Len(z)
          PROVE  /\ z[g].data # <<>> /\ Distinct(z[g].data)
                 /\ \A i \in 1 .. Len(z[g].data) : conf.config[z[g].data[i]] = z[g].config
        <3>1. g + 1 \in 1 .. Len(p) /\ z[g] = p[g + 1]
            BY <2>4
        <3>2. /\ p[g + 1].data # <<>> /\ Distinct(p[g + 1].data)
              /\ \A i \in 1 .. Len(p[g + 1].data) : conf.config[p[g + 1].data[i]] = p[g + 1].config
            BY <3>1 DEF PoolOk
        <3> QED BY <3>1, <3>2
    <2>6. ASSUME NEW g \in 1 .. Len(z), NEW h \in 1 .. Len(z), z[g].config = z[h].config PROVE g = h
        <3>1. /\ g + 1 \in 1 .. Len(p) /\ h + 1 \in 1 .. Len(p)
              /\ p[g + 1].config = p[h + 1].config /\ g \in Nat /\ h \in Nat
            BY <2>4, <2>6
        <3>2. g + 1 = h + 1
            BY <3>1 DEF PoolOk
        <3> QED BY <3>1, <3>2
    <2>7. PoolOk(z)
        BY <2>5, <2>6 DEF PoolOk
    <2>8. ASSUME NEW q, In(z, q) PROVE In(p, q) /\ ~\E i \in 1 .. n : f[i] = q
        <3>0. PICK g \in 1 .. Len(z) : \E i \in 1 .. Len(z[g].data) : z[g].data[i] = q
            BY ONLY <2>8 DEF In
        <3>1. PICK i \in 1 .. Len(z[g].data) : z[g].data[i] = q
            BY ONLY <3>0
        <3>2. PICK h \in 1 .. Len(p) : h = g + 1 /\ h # 1 /\ z[g] = p[h]
            BY <2>4
        <3>3. i \in 1 .. Len(p[h].data) /\ p[h].data[i] = q
            BY <3>1, <3>2
        <3>4. In(p, q)
            BY <3>3 DEF In
        <3>5. ASSUME NEW j \in 1 .. n, f[j] = q PROVE FALSE
            <4>1. j \in 1 .. Len(f)
                BY <2>1
            <4> QED BY <4>1, <3>2, <3>3, <3>5, <1>5
        <3> QED BY <3>4, <3>5
    <2>9. ASSUME NEW q, In(p, q), ~\E i \in 1 .. n : f[i] = q PROVE In(z, q)
        <3>0. PICK g \in 1 .. Len(p) : \E i \in 1 .. Len(p[g].data) : p[g].data[i] = q
            BY ONLY <2>9 DEF In
        <3>1. PICK i \in 1 .. Len(p[g].data) : p[g].data[i] = q
            BY ONLY <3>0
        <3>2. g # 1
            BY <3>1, <2>1, <2>9, <1>1
        <3>3. PICK h \in 1 .. Len(z) : h + 1 = g
            <4>1. g - 1 \in 1 .. Len(z) /\ (g - 1) + 1 = g
                BY <3>2, <2>3, <1>2
            <4> QED BY <4>1
        <3>4. i \in 1 .. Len(z[h].data) /\ z[h].data[i] = q
            BY <3>1, <3>3, <2>4
        <3> QED BY <3>4 DEF In
    <2> QED BY <1>1, <1>4, <2>3, <2>7, <2>8, <2>9
<1> QED BY <1>6, <1>7

-----------------------------------------------------------------------------
(* What the steps of the worker do to the batch.                           *)

LEMMA BatchFacts ==
    ASSUME Types
    PROVE  /\ batch.reqs \in Seq(Requests) /\ Len(batch.reqs) \in Nat
           /\ \A i \in 1 .. Len(batch.reqs) : batch.reqs[i] \in Requests
           /\ batch.good \in Seq(Requests) /\ Len(batch.good) \in Nat
           /\ \A i \in 1 .. Len(batch.good) : batch.good[i] \in Requests
           /\ batch.errs \in Seq(Nat) /\ Len(batch.errs) \in Nat
           /\ batch.left \in Seq(Nat) /\ Len(batch.left) \in Nat
           /\ batch.row \in Seq(Item) /\ Len(batch.row) \in Nat
           /\ batch.phase \in Phases /\ batch.rows \in 0 .. Rows
           /\ batch = [reqs |-> batch.reqs, good |-> batch.good, errs |-> batch.errs, phase |-> batch.phase,
                       rows |-> batch.rows, row |-> batch.row, left |-> batch.left]
<1>1. batch \in Batch
    BY DEF Types
<1>2. /\ batch.reqs \in Seq(Requests) /\ batch.good \in Seq(Requests)
      /\ batch.errs \in Seq(Nat) /\ batch.left \in Seq(Nat) /\ batch.row \in Seq(Item)
      /\ batch.phase \in Phases /\ batch.rows \in 0 .. Rows
      /\ batch = [reqs |-> batch.reqs, good |-> batch.good, errs |-> batch.errs, phase |-> batch.phase,
                  rows |-> batch.rows, row |-> batch.row, left |-> batch.left]
    BY <1>1 DEF Batch
<1>3. /\ Len(batch.reqs) \in Nat /\ \A i \in 1 .. Len(batch.reqs) : batch.reqs[i] \in Requests
      /\ Len(batch.good) \in Nat /\ \A i \in 1 .. Len(batch.good) : batch.good[i] \in Requests
    BY <1>2, LenProperties, ElementOfSeq
<1>4. Len(batch.errs) \in Nat /\ Len(batch.left) \in Nat /\ Len(batch.row) \in Nat
    BY <1>2, LenProperties
<1> QED BY <1>2, <1>3, <1>4

LEMMA NoBatchType == NoBatch \in Batch
<1>1. <<>> \in Seq(Requests) /\ <<>> \in Seq(Nat) /\ <<>> \in Seq(Item)
    BY EmptySeq
<1>2. 0 \in 0 .. Rows
    BY RowsAssumption
<1> QED BY <1>1, <1>2 DEF NoBatch, Batch, Phases

LEMMA NoBatchInv ==
    ASSUME batch' = NoBatch
    PROVE  BatchInv'
<1>1. /\ batch'.phase = "empty" /\ batch'.reqs = <<>> /\ batch'.good = <<>> /\ batch'.errs = <<>>
      /\ batch'.left = <<>>
    BY DEF NoBatch
<1>2. Len(<<>>) = 0
    OBVIOUS
<1>3. Ascending(<<>>, 0)
    BY <1>2 DEF Ascending
<1>4. \A x, a : Fits(x, <<>>, 0, a)
    BY DEF Fits
<1>5. "empty" \notin RowPhases
    BY DEF RowPhases
<1> QED BY <1>1, <1>2, <1>3, <1>4, <1>5 DEF BatchInv

\* Steps that leave the batch alone.
LEMMA BatchSame ==
    ASSUME BatchInv, UNCHANGED <<conf, batch>>
    PROVE  BatchInv'
BY DEF BatchInv, Own, Results, Streaming, IsStream

\* A request is encoded, or its exception is kept with its position.
LEMMA EncodeFacts ==
    ASSUME Types, BatchInv, Encode
    PROVE  /\ batch' \in Batch /\ BatchInv' /\ batch'.reqs = batch.reqs
           /\ batch'.phase = "fetched" /\ batch'.row = batch.row
<1>1. PICK n, m : n = Len(batch.reqs) /\ m = Len(batch.good) + Len(batch.errs)
    OBVIOUS
<1>2. /\ n \in Nat /\ m \in Nat /\ m <= n /\ Ascending(batch.errs, m) /\ Fits(batch.good, batch.errs, m, Own)
      /\ batch.phase = "fetched" /\ batch.reqs # <<>> /\ batch.left = <<>>
    BY <1>1, BatchFacts DEF BatchInv, Encode, RowPhases
<1>3. NextInput = m + 1 /\ m + 1 <= n
    BY <1>1, <1>2, BatchFacts DEF Encode, Encoded, NextInput
<1>4. m + 1 \in 1 .. n /\ m + 1 \in Nat
    BY <1>2, <1>3
<1>5. batch.reqs[m + 1] \in Requests
    BY <1>1, <1>4, BatchFacts
<1>6. Own[m + 1] = {batch.reqs[m + 1]}
    <2>1. DOMAIN batch.reqs = 1 .. n
        BY <1>1, BatchFacts, LenProperties
    <2> QED BY <2>1, <1>4 DEF Own
<1>7. Ascending(batch.errs, m + 1) /\ Ascending(Append(batch.errs, m + 1), m + 1)
    BY <1>2, BatchFacts, AscendingAppend
<1>8. "fetched" \notin RowPhases /\ "fetched" \in Phases
    BY DEF RowPhases, Phases
<1>9. CASE batch' = [batch EXCEPT !.good = Append(@, batch.reqs[NextInput])]
    <2>1. PICK good : good = Append(batch.good, batch.reqs[m + 1])
        OBVIOUS
    <2>2. good \in Seq(Requests) /\ Len(good) = Len(batch.good) + 1
        BY <2>1, <1>5, BatchFacts, AppendProperties
    <2>3. Fits(good, batch.errs, m + 1, Own)
        <3>1. batch.good \in Seq(Requests) /\ batch.errs \in Seq(Nat)
            BY BatchFacts
        <3>2. Len(batch.good) + Len(batch.errs) = m
            BY <1>1
        <3>3. m \in Nat /\ Ascending(batch.errs, m) /\ Fits(batch.good, batch.errs, m, Own)
            BY <1>2
        <3>4. batch.reqs[m + 1] \in Own[m + 1]
            BY <1>6
        <3>5. Fits(Append(batch.good, batch.reqs[m + 1]), batch.errs, m + 1, Own)
            BY ONLY <3>1, <3>2, <3>3, <3>4, <1>5, FitsGood
        <3> QED BY <3>5, <2>1
    <2>4. batch' = [reqs |-> batch.reqs, good |-> good, errs |-> batch.errs, phase |-> batch.phase,
                    rows |-> batch.rows, row |-> batch.row, left |-> batch.left]
        BY <2>1, <1>3, <1>9, BatchFacts
    <2>5. batch' \in Batch
        BY <2>2, <2>4, BatchFacts DEF Batch
    <2>6. /\ batch'.reqs = batch.reqs /\ batch'.good = good /\ batch'.errs = batch.errs
          /\ batch'.phase = "fetched" /\ batch'.left = <<>> /\ batch'.row = batch.row
          /\ batch'.rows = batch.rows
        BY <2>4, <1>2
    <2>7. Own' = Own
        BY <2>6 DEF Own
    <2>8. Len(good) + Len(batch.errs) = m + 1
        BY <2>2, <1>1, BatchFacts
    <2>9. BatchInv'
        BY <2>3, <2>6, <2>7, <2>8, <1>1, <1>2, <1>3, <1>7, <1>8 DEF BatchInv
    <2> QED BY <2>5, <2>6, <2>9
<1>10. CASE batch' = [batch EXCEPT !.errs = Append(@, NextInput)]
    <2>1. PICK errs : errs = Append(batch.errs, m + 1)
        OBVIOUS
    <2>2. errs \in Seq(Nat) /\ Len(errs) = Len(batch.errs) + 1
        BY <2>1, <1>4, BatchFacts, AppendProperties
    <2>3. Fits(batch.good, errs, m + 1, Own)
        BY <2>1, <1>2, BatchFacts, FitsErr
    <2>4. batch' = [reqs |-> batch.reqs, good |-> batch.good, errs |-> errs, phase |-> batch.phase,
                    rows |-> batch.rows, row |-> batch.row, left |-> batch.left]
        BY <2>1, <1>3, <1>10, BatchFacts
    <2>5. batch' \in Batch
        BY <2>2, <2>4, BatchFacts DEF Batch
    <2>6. /\ batch'.reqs = batch.reqs /\ batch'.good = batch.good /\ batch'.errs = errs
          /\ batch'.phase = "fetched" /\ batch'.left = <<>> /\ batch'.row = batch.row
          /\ batch'.rows = batch.rows
        BY <2>4, <1>2
    <2>7. Own' = Own
        BY <2>6 DEF Own
    <2>8. Len(batch.good) + Len(errs) = m + 1
        BY <2>2, <1>1, BatchFacts
    <2>9. BatchInv'
        BY <2>1, <2>3, <2>6, <2>7, <2>8, <1>1, <1>2, <1>3, <1>7, <1>8 DEF BatchInv
    <2> QED BY <2>5, <2>6, <2>9
<1> QED BY <1>9, <1>10 DEF Encode

\* A row has a result for every request that was encoded, and all errors are to be inserted.
LEMMA GenerateFacts ==
    ASSUME Types, BatchInv, NEW ph \in RowPhases, NEW kind \in [Requests -> Kinds], Generate(ph, kind),
           batch.phase \in {"fetched", "streaming"}, ph = "full" <=> ~Streaming,
           ph = "text" => batch.rows < Rows
    PROVE  /\ batch' \in Batch /\ BatchInv' /\ batch'.reqs = batch.reqs /\ batch'.phase = ph
           /\ Len(batch'.row) = Len(batch.good)
           /\ \A k \in 1 .. Len(batch.good) :
                batch'.row[k] = IF kind[batch.good[k]] = None THEN End
                                ELSE [of |-> batch.good[k], kind |-> kind[batch.good[k]]]
<1>1. PICK n : n = Len(batch.reqs)
    OBVIOUS
<1>2. PICK row : row = [k \in DOMAIN batch.good |->
                            LET r == batch.good[k]
                            IN IF kind[r] = None THEN End ELSE [of |-> r, kind |-> kind[r]]]
    OBVIOUS
<1>3. /\ n \in Nat /\ batch.reqs # <<>> /\ Len(batch.good) + Len(batch.errs) = n
      /\ Ascending(batch.errs, n) /\ Fits(batch.good, batch.errs, n, Own)
    <2>1. Len(batch.good) + Len(batch.errs) = n
        <3>1. Len(batch.good) + Len(batch.errs) <= n
            BY <1>1 DEF BatchInv
        <3>2. Len(batch.good) + Len(batch.errs) + 1 > n
            BY <1>1 DEF Generate, Encoded, NextInput
        <3> QED BY <3>1, <3>2, <1>1, BatchFacts
    <2> QED BY <2>1, <1>1, BatchFacts DEF BatchInv
<1>4. DOMAIN batch.good = 1 .. Len(batch.good)
    BY BatchFacts, LenProperties
<1>5. \A k \in 1 .. Len(batch.good) :
          row[k] = IF kind[batch.good[k]] = None THEN End
                   ELSE [of |-> batch.good[k], kind |-> kind[batch.good[k]]]
    BY <1>2, <1>4
<1>6. ASSUME NEW k \in 1 .. Len(batch.good)
      PROVE  row[k] \in ResultOf(batch.good[k]) /\ row[k] \in Item
    <2>1. batch.good[k] \in Requests /\ kind[batch.good[k]] \in Kinds
        BY BatchFacts
    <2>2. End \in Item
        BY DEF End, Item, Kinds
    <2>3. CASE kind[batch.good[k]] = None
        BY <2>2, <2>3, <1>5 DEF ResultOf
    <2>4. CASE kind[batch.good[k]] # None
        <3>1. row[k] = [of |-> batch.good[k], kind |-> kind[batch.good[k]]]
            BY <2>4, <1>5
        <3>2. row[k] \in Item /\ row[k].of = batch.good[k] /\ row[k].kind # None
            BY <3>1, <2>1, <2>4 DEF Item
        <3> QED BY <3>2 DEF ResultOf
    <2> QED BY <2>3, <2>4
<1>7. row \in Seq(Item) /\ Len(row) = Len(batch.good)
    <2>1. row \in [1 .. Len(batch.good) -> Item]
        BY <1>2, <1>4, <1>6
    <2> QED BY <2>1, BatchFacts, SeqOfFcn
<1>8. batch' = [reqs |-> batch.reqs, good |-> batch.good, errs |-> batch.errs, phase |-> ph,
                rows |-> batch.rows, row |-> row, left |-> batch.errs]
    <2>1. batch' = [batch EXCEPT !.phase = ph, !.left = batch.errs, !.row = row]
        BY <1>2 DEF Generate
    <2> QED BY <2>1, BatchFacts
<1>9. batch' \in Batch
    BY <1>7, <1>8, BatchFacts DEF Batch, Phases
<1>10. /\ batch'.reqs = batch.reqs /\ batch'.good = batch.good /\ batch'.errs = batch.errs
       /\ batch'.phase = ph /\ batch'.left = batch.errs /\ batch'.row = row /\ conf' = conf
       /\ batch'.rows = batch.rows
    <2>1. conf' = conf
        BY DEF Generate
    <2> QED BY <2>1, <1>8
<1>11. Own' = Own /\ Results' = Results /\ (Streaming' <=> Streaming)
    BY <1>10 DEF Own, Results, Streaming, IsStream
<1>12. Fits(row, batch.errs, n, Results)
    <2>1. DOMAIN batch.reqs = 1 .. n
        BY <1>1, BatchFacts, LenProperties
    <2>2. ASSUME NEW p \in 1 .. n, NEW k \in 1 .. Len(batch.good), batch.good[k] \in Own[p]
          PROVE  row[k] \in Results[p]
        <3>1. Own[p] = {batch.reqs[p]} /\ Results[p] = ResultOf(batch.reqs[p])
            BY <2>1 DEF Own, Results
        <3>2. batch.good[k] = batch.reqs[p]
            BY <3>1, <2>2
        <3>3. row[k] \in ResultOf(batch.good[k])
            BY <1>6
        <3> QED BY <3>1, <3>2, <3>3
    <2>3. PICK own, res : own = Own /\ res = Results
        OBVIOUS
    <2>4. \A p \in 1 .. n, k \in 1 .. Len(batch.good) : batch.good[k] \in own[p] => row[k] \in res[p]
        BY <2>2, <2>3
    <2>5. Fits(batch.good, batch.errs, n, own)
        BY <2>3, <1>3
    <2>6. Fits(row, batch.errs, n, res)
        BY <2>4, <2>5, <1>3, BatchFacts, FitsMap
    <2> QED BY <2>3, <2>6
<1>13. Len(row) + Len(batch.errs) = n
    BY <1>3, <1>7
<1>14. ph \notin {"empty", "fetched", "streaming", "ending"}
    BY DEF RowPhases
<1>15. (ph = "full" => ~Streaming') /\ (ph \in {"text", "streaming", "final", "ending"} => Streaming')
    BY <1>11, <1>14
<1>16. BatchInv'
    BY <1>1, <1>3, <1>10, <1>11, <1>12, <1>13, <1>14, <1>15 DEF BatchInv
<1> QED BY <1>5, <1>7, <1>9, <1>10, <1>16

\* An error that is inserted is at its position.
LEMMA AddErrorFacts ==
    ASSUME Types, BatchInv, AddError
    PROVE  /\ batch' \in Batch /\ BatchInv' /\ batch'.reqs = batch.reqs /\ batch'.phase = batch.phase
           /\ batch.phase \in RowPhases
           /\ \A k \in 1 .. Len(batch'.row) :
                \/ batch'.row[k].kind = "error"
                \/ \E j \in 1 .. Len(batch.row) : batch'.row[k] = batch.row[j]
<1>1. PICK n, i, y : n = Len(batch.reqs) /\ i = Head(batch.left) /\ y = [of |-> batch.reqs[i], kind |-> "error"]
    OBVIOUS
<1>2. /\ n \in Nat /\ batch.phase \in RowPhases /\ batch.left # <<>> /\ Len(batch.row) + Len(batch.left) = n
      /\ Ascending(batch.left, n) /\ Fits(batch.row, batch.left, n, Results) /\ batch.reqs # <<>>
    <2>1. batch.phase \in RowPhases /\ batch.left # <<>>
        BY DEF AddError
    <2>2. batch.phase # "empty"
        BY <2>1 DEF RowPhases
    <2> QED BY <2>1, <2>2, <1>1, BatchFacts DEF BatchInv
<1>3. /\ Tail(batch.left) \in Seq(Nat) /\ Len(Tail(batch.left)) = Len(batch.left) - 1
      /\ Ascending(Tail(batch.left), n) /\ i \in 1 .. n /\ i + (Len(batch.left) - 1) <= n
    BY <1>1, <1>2, BatchFacts, AscendingTail
<1>4. y \in Item /\ y.kind = "error" /\ y \in ResultOf(batch.reqs[i])
    <2>1. batch.reqs[i] \in Requests
        BY <1>1, <1>3, BatchFacts
    <2>2. y \in Item /\ y.of = batch.reqs[i] /\ y.kind = "error"
        BY <2>1, <1>1 DEF Item, Kinds
    <2>3. "error" # None
        BY DEF None
    <2> QED BY <2>2, <2>3 DEF ResultOf
<1>5. PICK res : res = Results
    OBVIOUS
<1>6. y \in res[i]
    <2>1. DOMAIN batch.reqs = 1 .. n
        BY <1>1, BatchFacts, LenProperties
    <2>2. Results[i] = ResultOf(batch.reqs[i])
        BY <2>1, <1>3 DEF Results
    <2> QED BY <2>2, <1>4, <1>5
<1>7. PICK row : row = InsertAt(batch.row, i, y)
    OBVIOUS
<1>8. row \in Seq(Item) /\ Inserted(row, batch.row, i, y) /\ Fits(row, Tail(batch.left), n, res)
    <2>1. Fits(batch.row, batch.left, n, res)
        BY <1>2, <1>5
    <2>2. y \in res[Head(batch.left)]
        BY <1>1, <1>6
    <2>3. /\ InsertAt(batch.row, Head(batch.left), y) \in Seq(Item)
          /\ Inserted(InsertAt(batch.row, Head(batch.left), y), batch.row, Head(batch.left), y)
          /\ Fits(InsertAt(batch.row, Head(batch.left), y), Tail(batch.left), n, res)
        <3>1. /\ batch.row \in Seq(Item) /\ batch.left \in Seq(Nat) /\ n \in Nat /\ y \in Item
              /\ Ascending(batch.left, n) /\ batch.left # <<>> /\ Len(batch.row) + Len(batch.left) = n
            BY <1>2, <1>4, BatchFacts
        <3> QED BY ONLY <3>1, <2>1, <2>2, FitsInsert
    <2> QED BY <2>3, <1>1, <1>7
<1>8a. Len(row) = Len(batch.row) + 1
    BY <1>8 DEF Inserted
<1>9. \A k \in 1 .. Len(row) : row[k] = y \/ \E j \in 1 .. Len(batch.row) : row[k] = batch.row[j]
    <2>1. i \in 1 .. Len(batch.row) + 1
        BY <1>2, <1>3, BatchFacts
    <2>2. /\ row[i] = y
          /\ \A k \in 1 .. i - 1 : row[k] = batch.row[k]
          /\ \A k \in i + 1 .. Len(batch.row) + 1 : row[k] = batch.row[k - 1]
        BY <1>8 DEF Inserted
    <2>3. ASSUME NEW k \in 1 .. Len(row)
          PROVE  row[k] = y \/ \E j \in 1 .. Len(batch.row) : row[k] = batch.row[j]
        <3>0. k \in 1 .. Len(batch.row) + 1 /\ i \in 1 .. Len(batch.row) + 1 /\ Len(batch.row) \in Nat
            BY <2>1, <1>8a, BatchFacts
        <3>1. CASE k < i
            <4>1. k \in 1 .. i - 1 /\ k \in 1 .. Len(batch.row)
                BY <3>0, <3>1
            <4> QED BY <4>1, <2>2
        <3>2. CASE k = i
            BY <3>2, <2>2
        <3>3. CASE k > i
            <4>1. k \in i + 1 .. Len(batch.row) + 1 /\ k - 1 \in 1 .. Len(batch.row)
                BY <3>0, <3>3
            <4> QED BY <4>1, <2>2
        <3> QED BY <3>0, <3>1, <3>2, <3>3
    <2> QED BY <2>3
<1>10. batch' = [reqs |-> batch.reqs, good |-> batch.good, errs |-> batch.errs, phase |-> batch.phase,
                 rows |-> batch.rows, row |-> row, left |-> Tail(batch.left)]
    <2>1. batch' = [batch EXCEPT !.row = InsertAt(@, i, y), !.left = Tail(@)]
        BY <1>1 DEF AddError
    <2> QED BY <2>1, <1>7, BatchFacts
<1>11. batch' \in Batch
    BY <1>3, <1>8, <1>10, BatchFacts DEF Batch
<1>12. /\ batch'.reqs = batch.reqs /\ batch'.good = batch.good /\ batch'.errs = batch.errs
       /\ batch'.phase = batch.phase /\ batch'.left = Tail(batch.left) /\ batch'.row = row /\ conf' = conf
       /\ batch'.rows = batch.rows
    <2>1. conf' = conf
        BY DEF AddError
    <2> QED BY <2>1, <1>10
<1>13. Own' = Own /\ Results' = res /\ (Streaming' <=> Streaming)
    BY <1>5, <1>12 DEF Own, Results, Streaming, IsStream
<1>14. Len(row) + Len(Tail(batch.left)) = n
    BY <1>2, <1>3, <1>8a, BatchFacts
<1>15. BatchInv'
    <2>1. batch.phase \notin {"empty", "fetched", "streaming", "ending"}
        BY <1>2 DEF RowPhases
    <2> QED BY <2>1, <1>1, <1>2, <1>3, <1>8, <1>12, <1>13, <1>14 DEF BatchInv
<1> QED BY <1>2, <1>4, <1>9, <1>11, <1>12, <1>15

\* Every request of the batch gets the result at its position, others get nothing.
LEMMA DeliverFacts ==
    ASSUME Types, Distinct(batch.reqs), NEW row \in Seq(Item), Len(row) = Len(batch.reqs), Deliver(row)
    PROVE  /\ inbox' \in [Requests -> Seq(Item)]
           /\ \A i \in 1 .. Len(batch.reqs) : inbox'[batch.reqs[i]] = Append(inbox[batch.reqs[i]], row[i])
           /\ \A r \in Requests : ~InBatch(r) => inbox'[r] = inbox[r]
<1> DEFINE at(r) == CHOOSE i \in DOMAIN batch.reqs : batch.reqs[i] = r
           there(r) == \E i \in DOMAIN row \cap DOMAIN batch.reqs : batch.reqs[i] = r
<1>1. inbox' = [r \in Requests |-> IF there(r) THEN Append(inbox[r], row[at(r)]) ELSE inbox[r]]
    BY DEF Deliver
<1>2. DOMAIN batch.reqs = 1 .. Len(batch.reqs) /\ DOMAIN row = 1 .. Len(batch.reqs)
    BY BatchFacts, LenProperties
<1>3. \A i \in 1 .. Len(batch.reqs) : row[i] \in Item
    BY ElementOfSeq
<1>4. \A r \in Requests : there(r) <=> InBatch(r)
    BY <1>2 DEF InBatch
<1>5. ASSUME NEW r \in Requests, NEW i \in 1 .. Len(batch.reqs), batch.reqs[i] = r
      PROVE  at(r) = i
    <2>1. at(r) \in DOMAIN batch.reqs /\ batch.reqs[at(r)] = r
        BY <1>2, <1>5
    <2>2. at(r) \in 1 .. Len(batch.reqs)
        BY <2>1, <1>2
    <2> HIDE DEF at
    <2> QED BY <2>1, <2>2, <1>5 DEF Distinct
<1> HIDE DEF at, there
<1>6. inbox \in [Requests -> Seq(Item)]
    BY DEF Types
<1>7. ASSUME NEW i \in 1 .. Len(batch.reqs)
      PROVE  inbox'[batch.reqs[i]] = Append(inbox[batch.reqs[i]], row[i])
    <2>1. PICK r \in Requests : r = batch.reqs[i]
        BY BatchFacts
    <2>2. at(r) = i /\ there(r)
        BY <2>1, <1>4, <1>5 DEF InBatch
    <2> QED BY <2>1, <2>2, <1>1
<1>8. \A r \in Requests : ~InBatch(r) => inbox'[r] = inbox[r]
    BY <1>1, <1>4
<1>9. ASSUME NEW r \in Requests
      PROVE  inbox'[r] \in Seq(Item)
    <2>1. CASE InBatch(r)
        <3>1. PICK i \in 1 .. Len(batch.reqs) : batch.reqs[i] = r
            BY <2>1 DEF InBatch
        <3>2. inbox'[r] = Append(inbox[r], row[i])
            BY <3>1, <1>7
        <3>3. inbox[r] \in Seq(Item) /\ row[i] \in Item
            BY <1>3, <1>6
        <3> QED BY <3>2, <3>3, AppendProperties
    <2>2. CASE ~InBatch(r)
        BY <2>2, <1>6, <1>8
    <2> QED BY <2>1, <2>2
<1>10. inbox' \in [Requests -> Seq(Item)]
    BY <1>1, <1>9
<1> QED BY <1>7, <1>8, <1>10

\* A complete row has, at every position, what was made for the request there.
LEMMA SendFacts ==
    ASSUME Types, BatchInv, Send
    PROVE  /\ batch.phase \in RowPhases /\ Len(batch.row) = Len(batch.reqs)
           /\ \A i \in 1 .. Len(batch.reqs) : batch.row[i] \in ResultOf(batch.reqs[i])
           /\ batch' \in Batch /\ BatchInv'
           /\ batch.phase = "full" => batch' = NoBatch /\ ~Streaming
           /\ batch.phase # "full" => batch'.reqs = batch.reqs /\ Streaming
           /\ batch.phase = "text" => batch'.phase = "streaming"
           /\ batch.phase = "final" => batch'.phase = "ending"
<1>1. PICK n, res : n = Len(batch.reqs) /\ res = Results
    OBVIOUS
<1>2. /\ batch.phase \in RowPhases /\ batch.left = <<>>
      /\ batch.phase \notin {"empty", "fetched", "streaming", "ending"}
    BY DEF Send, RowPhases
<1>3. /\ n \in Nat /\ batch.reqs # <<>> /\ Len(batch.row) + Len(batch.left) = n
      /\ Fits(batch.row, batch.left, n, res)
      /\ Len(batch.good) + Len(batch.errs) = n
      /\ Ascending(batch.errs, n) /\ Fits(batch.good, batch.errs, n, Own)
    BY <1>1, <1>2, BatchFacts DEF BatchInv
<1>4. Len(batch.left) = 0 /\ Len(batch.row) = n
    <2>1. Len(batch.left) = 0
        BY <1>2, EmptySeq
    <2> QED BY <2>1, <1>3, BatchFacts
<1>5. ASSUME NEW i \in 1 .. n
      PROVE  batch.row[i] \in ResultOf(batch.reqs[i])
    <2>1. Fits(batch.row, <<>>, n, res)
        BY <1>2, <1>3
    <2>2. batch.row[i] \in res[i]
        BY <2>1, <1>3, FitsAll
    <2>3. DOMAIN batch.reqs = 1 .. n
        BY <1>1, BatchFacts, LenProperties
    <2>4. Results[i] = ResultOf(batch.reqs[i])
        BY <2>3 DEF Results
    <2> QED BY <2>2, <2>4, <1>1
<1>6. CASE batch.phase = "full"
    <2>1. batch' = NoBatch
        BY <1>6 DEF Send
    <2>2. ~Streaming
        BY <1>6 DEF BatchInv
    <2> QED BY <2>1, <2>2, <1>1, <1>2, <1>4, <1>5, <1>6, NoBatchType, NoBatchInv
<1>7. ASSUME batch.phase # "full", NEW ph \in {"streaming", "ending"}, NEW rows \in 0 .. Rows,
             batch' = [reqs |-> batch.reqs, good |-> batch.good, errs |-> batch.errs, phase |-> ph,
                       rows |-> rows, row |-> <<>>, left |-> batch.left]
      PROVE  batch' \in Batch /\ BatchInv' /\ batch'.reqs = batch.reqs /\ batch'.phase = ph /\ Streaming
    <2>1. <<>> \in Seq(Item)
        BY EmptySeq
    <2>2. batch' \in Batch
        BY <2>1, <1>7, BatchFacts DEF Batch, Phases
    <2>3. /\ batch'.reqs = batch.reqs /\ batch'.good = batch.good /\ batch'.errs = batch.errs
          /\ batch'.phase = ph /\ batch'.left = <<>>
        BY <1>2, <1>7
    <2>4. conf' = conf
        BY DEF Send
    <2>5. Own' = Own /\ (Streaming' <=> Streaming)
        BY <2>3, <2>4 DEF Own, Streaming, IsStream
    <2>6. Streaming
        BY <1>2, <1>7 DEF BatchInv, RowPhases
    <2>7. ph \notin RowPhases /\ ph \notin {"empty", "fetched", "text", "full"}
        BY DEF RowPhases
    <2>8. BatchInv'
        BY <2>3, <2>5, <2>6, <2>7, <1>1, <1>3 DEF BatchInv
    <2> QED BY <2>2, <2>3, <2>6, <2>8
<1>8. CASE batch.phase = "text"
    <2>1. batch' = [batch EXCEPT !.phase = "streaming", !.rows = @ + 1, !.row = <<>>]
        BY <1>8 DEF Send
    <2>2. batch' = [reqs |-> batch.reqs, good |-> batch.good, errs |-> batch.errs, phase |-> "streaming",
                    rows |-> batch.rows + 1, row |-> <<>>, left |-> batch.left]
        BY <2>1, BatchFacts
    <2>3. batch.rows + 1 \in 0 .. Rows
        <3>1. batch.rows < Rows
            BY <1>8 DEF BatchInv
        <3> QED BY <3>1, BatchFacts, RowsAssumption
    <2>4. batch' \in Batch /\ BatchInv' /\ batch'.reqs = batch.reqs /\ batch'.phase = "streaming" /\ Streaming
        BY <2>2, <2>3, <1>7, <1>8
    <2> QED BY <2>4, <1>1, <1>2, <1>4, <1>5, <1>8
<1>9. CASE batch.phase = "final"
    <2>1. batch' = [batch EXCEPT !.phase = "ending", !.row = <<>>]
        BY <1>9 DEF Send
    <2>2. batch' = [reqs |-> batch.reqs, good |-> batch.good, errs |-> batch.errs, phase |-> "ending",
                    rows |-> batch.rows, row |-> <<>>, left |-> batch.left]
        BY <2>1, BatchFacts
    <2>3. batch.rows \in 0 .. Rows
        BY BatchFacts
    <2>4. batch' \in Batch /\ BatchInv' /\ batch'.reqs = batch.reqs /\ batch'.phase = "ending" /\ Streaming
        BY <2>2, <2>3, <1>7, <1>9
    <2> QED BY <2>4, <1>1, <1>2, <1>4, <1>5, <1>9
<1> QED BY <1>2, <1>6, <1>8, <1>9 DEF RowPhases

\* The batch that is fetched is the front of the oldest group.
LEMMA FetchFacts ==
    ASSUME Types, PoolOk(pool), Fetch
    PROVE  /\ pool \in Seq(Group) /\ pool # <<>> /\ queue = <<>>
           /\ batch' \in Batch /\ BatchInv' /\ batch'.phase = "fetched"
           /\ \E n \in 1 .. Len(pool[1].data) :
                /\ batch'.reqs = SubSeq(pool[1].data, 1, n)
                /\ pool' = Remaining(pool, n)
                /\ conf.maxBatch = 1 => n = 1
<1>1. pool \in Seq(Group) /\ pool # <<>> /\ queue = <<>>
    BY DEF Types, Fetch
<1>2. Len(pool) \in Nat /\ 1 \in 1 .. Len(pool)
    BY <1>1, LenProperties, EmptySeq
<1>3. PICK data, n : data = pool[1].data /\ n = BatchLength(data)
    OBVIOUS
<1>4. data \in Seq(Requests) /\ Len(data) \in Nat /\ Len(data) >= 1 /\ Distinct(data)
    <2>1. data # <<>> /\ Distinct(data) /\ data \in Seq(Requests)
        BY <1>1, <1>2, <1>3, GroupFacts DEF PoolOk
    <2> QED BY <2>1, LenProperties, EmptySeq
<1>5. n \in 1 .. Len(data) /\ (conf.maxBatch = 1 => n = 1)
    <2>1. conf.maxBatch \in Int
        <3>1. conf \in Setting
            BY SettingsAssumption DEF Types
        <3> QED BY <3>1 DEF Setting
    <2> QED BY <2>1, <1>3, <1>4 DEF BatchLength
<1>6. PICK reqs : reqs = SubSeq(data, 1, n)
    OBVIOUS
<1>7. reqs \in Seq(Requests) /\ Len(reqs) = n
    BY <1>4, <1>5, <1>6, Slices
<1>8. /\ batch' = [NoBatch EXCEPT !.reqs = reqs, !.phase = "fetched"]
      /\ pool' = Remaining(pool, n)
    BY <1>3, <1>6 DEF Fetch
<1>9. batch' = [reqs |-> reqs, good |-> <<>>, errs |-> <<>>, phase |-> "fetched",
                rows |-> 0, row |-> <<>>, left |-> <<>>]
    BY <1>8 DEF NoBatch
<1>10. batch' \in Batch
    <2>1. <<>> \in Seq(Requests) /\ <<>> \in Seq(Nat) /\ <<>> \in Seq(Item)
        BY EmptySeq
    <2>2. 0 \in 0 .. Rows
        BY RowsAssumption
    <2> QED BY <2>1, <2>2, <1>7, <1>9 DEF Batch, Phases
<1>11. BatchInv'
    <2>1. /\ batch'.reqs = reqs /\ batch'.good = <<>> /\ batch'.errs = <<>> /\ batch'.phase = "fetched"
          /\ batch'.left = <<>>
        BY <1>9
    <2>2. Len(<<>>) = 0 /\ reqs # <<>> /\ 0 <= Len(reqs)
        BY <1>5, <1>7, EmptySeq
    <2>3. Ascending(<<>>, 0)
        BY <2>2 DEF Ascending
    <2>4. \A x, a : Fits(x, <<>>, 0, a)
        BY DEF Fits
    <2>5. "fetched" \notin RowPhases
        BY DEF RowPhases
    <2> QED BY <2>1, <2>2, <2>3, <2>4, <2>5 DEF BatchInv
<1>12. batch'.reqs = reqs /\ batch'.phase = "fetched"
    BY <1>9
<1> QED BY <1>1, <1>3, <1>5, <1>6, <1>8, <1>10, <1>11, <1>12

\* A row that is begun: what the three ways to begin one have in common, and apart.
LEMMA RowFacts ==
    ASSUME Types, BatchInv, InferFull \/ StreamRow \/ LastRow
    PROVE  /\ batch' \in Batch /\ BatchInv' /\ batch'.reqs = batch.reqs /\ batch' # NoBatch
           /\ batch.phase \in {"fetched", "streaming"} /\ batch'.phase \in RowPhases
           /\ Len(batch'.row) = Len(batch.good)
           /\ batch'.phase = "full" => \A k \in 1 .. Len(batch'.row) : batch'.row[k].kind = "full"
           /\ batch'.phase = "final" => \A k \in 1 .. Len(batch'.row) : batch'.row[k].kind = "final"
           /\ batch'.phase = "text" => \E k \in 1 .. Len(batch'.row) : batch'.row[k].kind = "text"
           /\ UNCHANGED <<conf, status, queue, pool, worker, inbox, got>>
<1>1. {"full", "text", "final", None} \subseteq Kinds /\ None \notin {"full", "text", "final"}
    BY DEF Kinds, None
<1>2. ASSUME NEW ph \in RowPhases
      PROVE  NoBatch.phase # ph
    BY DEF NoBatch, RowPhases
<1>3. CASE InferFull
    <2>1. PICK kind \in [Requests -> Kinds] : kind = [r \in Requests |-> "full"]
        BY <1>1
    <2>2. /\ Generate("full", kind) /\ batch.phase = "fetched" /\ ~Streaming /\ "full" \in RowPhases
        BY <2>1, <1>3 DEF InferFull, RowPhases
    <2>3. /\ batch' \in Batch /\ BatchInv' /\ batch'.reqs = batch.reqs /\ batch'.phase = "full"
          /\ Len(batch'.row) = Len(batch.good)
          /\ \A k \in 1 .. Len(batch.good) :
               batch'.row[k] = IF kind[batch.good[k]] = None THEN End
                               ELSE [of |-> batch.good[k], kind |-> kind[batch.good[k]]]
        BY <2>2, GenerateFacts
    <2>4. ASSUME NEW k \in 1 .. Len(batch'.row)
          PROVE  batch'.row[k].kind = "full"
        <3>1. PICK r \in Requests : r = batch.good[k]
            BY <2>3, BatchFacts
        <3>2. kind[r] = "full" /\ kind[r] # None
            BY <2>1, <1>1
        <3>3. batch'.row[k] = [of |-> r, kind |-> "full"]
            BY <3>1, <3>2, <2>3
        <3> QED BY <3>3
    <2>5. UNCHANGED <<conf, status, queue, pool, worker, inbox, got>>
        BY <2>2 DEF Generate
    <2> QED BY <2>2, <2>3, <2>4, <2>5, <1>2
<1>4. CASE StreamRow
    <2>1. PICK T \in (SUBSET ToSet(batch.good)) \ {{}} :
             Generate("text", [r \in Requests |-> IF r \in T THEN "text" ELSE None])
        BY <1>4 DEF StreamRow
    <2>2. PICK kind \in [Requests -> Kinds] : kind = [r \in Requests |-> IF r \in T THEN "text" ELSE None]
        BY <1>1
    <2>3. /\ Generate("text", kind) /\ batch.phase \in {"fetched", "streaming"} /\ Streaming
          /\ "text" \in RowPhases /\ batch.rows < Rows
        BY <2>1, <2>2, <1>4 DEF StreamRow, RowPhases
    <2>4. /\ batch' \in Batch /\ BatchInv' /\ batch'.reqs = batch.reqs /\ batch'.phase = "text"
          /\ Len(batch'.row) = Len(batch.good)
          /\ \A k \in 1 .. Len(batch.good) :
               batch'.row[k] = IF kind[batch.good[k]] = None THEN End
                               ELSE [of |-> batch.good[k], kind |-> kind[batch.good[k]]]
        BY <2>3, GenerateFacts
    <2>5. PICK k \in 1 .. Len(batch.good) : batch.good[k] \in T
        <3>1. DOMAIN batch.good = 1 .. Len(batch.good)
            BY BatchFacts, LenProperties
        <3>2. PICK r \in T : r \in ToSet(batch.good)
            BY <2>1
        <3> QED BY <3>1, <3>2 DEF ToSet
    <2>6. batch'.row[k].kind = "text"
        <3>1. PICK r \in Requests : r = batch.good[k]
            BY BatchFacts
        <3>2. kind[r] = "text" /\ kind[r] # None
            BY <3>1, <2>2, <2>5, <1>1
        <3>3. batch'.row[k] = [of |-> r, kind |-> "text"]
            BY <3>1, <3>2, <2>4
        <3> QED BY <3>3
    <2>7. UNCHANGED <<conf, status, queue, pool, worker, inbox, got>>
        BY <2>3 DEF Generate
    <2> QED BY <2>3, <2>4, <2>5, <2>6, <2>7, <1>2
<1>5. CASE LastRow
    <2>1. PICK kind \in [Requests -> Kinds] : kind = [r \in Requests |-> "final"]
        BY <1>1
    <2>2. /\ Generate("final", kind) /\ batch.phase \in {"fetched", "streaming"} /\ Streaming
          /\ "final" \in RowPhases
        BY <2>1, <1>5 DEF LastRow, RowPhases
    <2>3. /\ batch' \in Batch /\ BatchInv' /\ batch'.reqs = batch.reqs /\ batch'.phase = "final"
          /\ Len(batch'.row) = Len(batch.good)
          /\ \A k \in 1 .. Len(batch.good) :
               batch'.row[k] = IF kind[batch.good[k]] = None THEN End
                               ELSE [of |-> batch.good[k], kind |-> kind[batch.good[k]]]
        BY <2>2, GenerateFacts
    <2>4. ASSUME NEW k \in 1 .. Len(batch'.row)
          PROVE  batch'.row[k].kind = "final"
        <3>1. PICK r \in Requests : r = batch.good[k]
            BY <2>3, BatchFacts
        <3>2. kind[r] = "final" /\ kind[r] # None
            BY <2>1, <1>1
        <3>3. batch'.row[k] = [of |-> r, kind |-> "final"]
            BY <3>1, <3>2, <2>3
        <3> QED BY <3>3
    <2>5. UNCHANGED <<conf, status, queue, pool, worker, inbox, got>>
        BY <2>2 DEF Generate
    <2> QED BY <2>2, <2>3, <2>4, <2>5, <1>2
<1> QED BY <1>3, <1>4, <1>5

\* A row of None for every request of the batch.
LEMMA EndStreamFacts ==
    ASSUME Types, BatchInv, EndStream
    PROVE  \E row \in Seq(Item) : /\ Deliver(row) /\ Len(row) = Len(batch.reqs)
                                  /\ \A i \in 1 .. Len(batch.reqs) : row[i] = End
<1>1. PICK row : row = [i \in DOMAIN batch.reqs |-> End]
    OBVIOUS
<1>2. DOMAIN batch.reqs = 1 .. Len(batch.reqs)
    BY BatchFacts, LenProperties
<1>3. End \in Item
    BY DEF End, Item, Kinds
<1>4. row \in [1 .. Len(batch.reqs) -> Item]
    BY <1>1, <1>2, <1>3
<1>5. row \in Seq(Item) /\ Len(row) = Len(batch.reqs)
    BY <1>4, BatchFacts, SeqOfFcn
<1>6. Deliver(row)
    BY <1>1 DEF EndStream
<1> QED BY <1>1, <1>2, <1>5, <1>6

-----------------------------------------------------------------------------
(* Types and the batch are kept.                                           *)

LEMMA TypesInit ==
    ASSUME Init
    PROVE  Types /\ BatchInv
<1>1. /\ \A S : <<>> \in Seq(S)
    BY EmptySeq
<1>2. Types
    BY <1>1, NoBatchType DEF Init, Types
<1>3. /\ batch.phase = "empty" /\ batch.reqs = <<>> /\ batch.good = <<>> /\ batch.errs = <<>>
      /\ batch.left = <<>> /\ batch = NoBatch
    BY DEF Init, NoBatch
<1>4. Len(<<>>) = 0
    OBVIOUS
<1>5. Ascending(<<>>, 0)
    BY <1>4 DEF Ascending
<1>6. \A x, a : Fits(x, <<>>, 0, a)
    BY DEF Fits
<1>7. "empty" \notin RowPhases
    BY DEF RowPhases
<1> QED BY <1>2, <1>3, <1>4, <1>5, <1>6, <1>7 DEF BatchInv

LEMMA TypesNext ==
    ASSUME Types, BatchInv, PlaceInv, [Next]_vars
    PROVE  Types' /\ BatchInv'
<1>1. CASE UNCHANGED vars
    BY <1>1, BatchSame DEF vars, Types
<1>2. ASSUME NEW r \in Requests, Put(r)
      PROVE  Types' /\ BatchInv'
    <2>1. Append(queue, r) \in Seq(Requests)
        BY AppendProperties DEF Types
    <2>2. status' \in [Requests -> {"new", "put", "waiting", "done"}]
        BY <1>2 DEF Put, Types
    <2> QED BY <2>1, <2>2, <1>2, BatchSame DEF Put, Types
<1>3. ASSUME NEW r \in Requests, Start(r)
      PROVE  Types' /\ BatchInv'
    <2>1. status' \in [Requests -> {"new", "put", "waiting", "done"}]
        BY <1>3 DEF Start, Types
    <2>2. worker' \in {"absent", "running", "dead"}
        BY <1>3 DEF Start, Types
    <2> QED BY <2>1, <2>2, <1>3, BatchSame DEF Start, Types
<1>4. ASSUME NEW r \in Requests, Take(r)
      PROVE  Types' /\ BatchInv'
    <2>1. inbox[r] \in Seq(Item) /\ inbox[r] # <<>> /\ got[r] \in Seq(Item)
        BY <1>4 DEF Take, Types
    <2>2. Head(inbox[r]) \in Item /\ Tail(inbox[r]) \in Seq(Item)
        BY <2>1, HeadTailProperties
    <2>3. Append(got[r], Head(inbox[r])) \in Seq(Item)
        BY <2>1, <2>2, AppendProperties
    <2>4. inbox' \in [Requests -> Seq(Item)]
        BY <2>2, <1>4 DEF Take, Types
    <2>5. got' \in [Requests -> Seq(Item)]
        BY <2>3, <1>4 DEF Take, Types
    <2>6. status' \in [Requests -> {"new", "put", "waiting", "done"}]
        BY <1>4 DEF Take, Types
    <2> QED BY <2>4, <2>5, <2>6, <1>4, BatchSame DEF Take, Types
<1>5. ASSUME NEW r \in Requests, Renew(r)
      PROVE  Types' /\ BatchInv'
    <2>1. <<>> \in Seq(Item)
        BY EmptySeq
    <2>2. inbox' \in [Requests -> Seq(Item)] /\ got' \in [Requests -> Seq(Item)]
        BY <2>1, <1>5 DEF Renew, Types
    <2>3. status' \in [Requests -> {"new", "put", "waiting", "done"}]
        BY <1>5 DEF Renew, Types
    <2> QED BY <2>2, <2>3, <1>5, BatchSame DEF Renew, Types
<1>6. CASE Drain
    <2>1. queue \in Seq(Requests) /\ queue # <<>> /\ pool \in Seq(Group) /\ PoolOk(pool)
        BY <1>6 DEF Drain, Types, PlaceInv
    <2>2. Head(queue) \in Requests /\ Tail(queue) \in Seq(Requests) /\ Head(queue) = queue[1] /\ 1 \in 1 .. Len(queue)
        BY <2>1, HeadTailProperties, LenProperties, EmptySeq
    <2>3. ~In(pool, Head(queue))
        BY <2>2 DEF PlaceInv, Placed, InQueue
    <2>4. conf.config[Head(queue)] \in STRING
        <3>1. conf \in Setting
            BY SettingsAssumption DEF Types
        <3> QED BY <3>1, <2>2 DEF Setting
    <2>5. AddToPool(pool, Head(queue)) \in Seq(Group)
        BY <2>1, <2>2, <2>3, <2>4, AddToPoolFacts
    <2> QED BY <2>2, <2>5, <1>6, BatchSame DEF Drain, Types
<1>7. CASE Fetch
    <2>1. PoolOk(pool)
        BY DEF PlaceInv
    <2>2. batch' \in Batch /\ BatchInv' /\ pool \in Seq(Group) /\ pool # <<>>
        BY <2>1, <1>7, FetchFacts
    <2>3. PICK n \in 1 .. Len(pool[1].data) : pool' = Remaining(pool, n)
        BY <2>1, <1>7, FetchFacts
    <2>4. pool' \in Seq(Group)
        BY <2>1, <2>2, <2>3, RemainingFacts
    <2> QED BY <2>2, <2>4, <1>7 DEF Fetch, Types
<1>8. CASE Encode
    <2>1. batch' \in Batch /\ BatchInv'
        BY <1>8, EncodeFacts
    <2> QED BY <2>1, <1>8 DEF Encode, Types
<1>9. CASE InferFull \/ StreamRow \/ LastRow
    <2>1. batch' \in Batch /\ BatchInv' /\ UNCHANGED <<conf, status, queue, pool, worker, inbox, got>>
        BY <1>9, RowFacts
    <2> QED BY <2>1 DEF Types
<1>10. CASE AddError
    <2>1. batch' \in Batch /\ BatchInv'
        BY <1>10, AddErrorFacts
    <2> QED BY <2>1, <1>10 DEF AddError, Types
<1>11. CASE Send
    <2>1. batch' \in Batch /\ BatchInv' /\ Len(batch.row) = Len(batch.reqs) /\ Deliver(batch.row)
        BY <1>11, SendFacts DEF Send
    <2>2. inbox' \in [Requests -> Seq(Item)]
        BY <2>1, BatchFacts, DeliverFacts DEF PlaceInv
    <2> QED BY <2>1, <2>2, <1>11 DEF Send, Types
<1>12. CASE EndStream
    <2>1. PICK row \in Seq(Item) : Deliver(row) /\ Len(row) = Len(batch.reqs)
        BY <1>12, EndStreamFacts
    <2>2. inbox' \in [Requests -> Seq(Item)]
        BY <2>1, DeliverFacts DEF PlaceInv
    <2>3. batch' = NoBatch /\ UNCHANGED <<conf, status, queue, pool, worker, got>>
        BY <1>12 DEF EndStream
    <2> QED BY <2>2, <2>3, NoBatchType, NoBatchInv DEF Types
<1>13. CASE Raise
    BY <1>13, BatchSame DEF Raise, Die, Types
<1> QED BY <1>1, <1>2, <1>3, <1>4, <1>5, <1>6, <1>7, <1>8, <1>9, <1>10, <1>11, <1>12, <1>13
        DEF Next, Worker, Infer

-----------------------------------------------------------------------------
(* Every request is in one place.                                          *)

LEMMA PlaceInit ==
    ASSUME Init
    PROVE  PlaceInv
<1>1. queue = <<>> /\ pool = <<>> /\ batch.reqs = <<>>
    BY DEF Init, NoBatch
<1>2. Len(<<>>) = 0
    OBVIOUS
<1>3. Distinct(queue) /\ PoolOk(pool) /\ Distinct(batch.reqs) /\ OneConfigBatch
    BY <1>1, <1>2 DEF Distinct, PoolOk, OneConfigBatch
<1>4. ASSUME NEW r \in Requests
      PROVE  Placed(r)
    <2>1. ~InQueue(r) /\ ~In(pool, r) /\ ~InBatch(r)
        BY <1>1, <1>2 DEF InQueue, In, InBatch
    <2>2. status[r] = "new" /\ inbox[r] = <<>> /\ got[r] = <<>>
        BY DEF Init
    <2> QED BY <2>1, <2>2 DEF Placed
<1> QED BY <1>3, <1>4 DEF PlaceInv

\* A request whose place does not change, nor what its caller can see.
LEMMA PlacedKept ==
    ASSUME NEW r \in Requests, Placed(r), conf' = conf,
           InQueue(r)' <=> InQueue(r), In(pool, r)' <=> In(pool, r), InBatch(r)' <=> InBatch(r),
           status'[r] = status[r], inbox'[r] = inbox[r], got'[r] = got[r]
    PROVE  Placed(r)'
BY DEF Placed, Ended, IsStream

\* All requests of a batch are of the kind its first one is.
LEMMA BatchStreams ==
    ASSUME Types, PlaceInv, NEW r \in Requests, InBatch(r)
    PROVE  IsStream(r) <=> Streaming
<1>1. PICK i \in 1 .. Len(batch.reqs) : batch.reqs[i] = r
    BY DEF InBatch
<1>2. 1 \in 1 .. Len(batch.reqs)
    BY <1>1, BatchFacts
<1>3. conf.config[batch.reqs[1]] = conf.config[r]
    BY <1>1, <1>2 DEF PlaceInv, OneConfigBatch
<1> QED BY <1>3 DEF Streaming, IsStream

LEMMA PlacePut ==
    ASSUME Types, PlaceInv, NEW r0 \in Requests, Put(r0)
    PROVE  PlaceInv'
<1>1. /\ status[r0] = "new" /\ queue' = Append(queue, r0)
      /\ UNCHANGED <<conf, pool, worker, batch, inbox, got>>
      /\ status' = [status EXCEPT ![r0] = "put"]
    BY DEF Put
<1>2. Placed(r0)
    BY DEF PlaceInv
<1>3. ~InQueue(r0) /\ ~In(pool, r0) /\ ~InBatch(r0) /\ inbox[r0] = <<>> /\ got[r0] = <<>>
    BY <1>1, <1>2 DEF Placed
<1>4. queue \in Seq(Requests) /\ Len(queue) \in Nat
    BY LenProperties DEF Types
<1>5. /\ Len(queue') = Len(queue) + 1 /\ queue'[Len(queue) + 1] = r0
      /\ \A i \in 1 .. Len(queue) : queue'[i] = queue[i]
    BY <1>1, <1>4, AppendProperties
<1>6. Distinct(queue')
    <2>1. \A i \in 1 .. Len(queue) : queue[i] # r0
        BY <1>3 DEF InQueue
    <2>2. Distinct(queue)
        BY DEF PlaceInv
    <2> QED BY <2>1, <2>2, <1>1, <1>4, DistinctAppend
<1>7. ASSUME NEW q
      PROVE  InQueue(q)' <=> InQueue(q) \/ q = r0
    <2>1. \A i \in 1 .. Len(queue') : i \in 1 .. Len(queue) \/ i = Len(queue) + 1
        BY <1>4, <1>5
    <2>2. \A i \in 1 .. Len(queue) : i \in 1 .. Len(queue')
        BY <1>4, <1>5
    <2>3. Len(queue) + 1 \in 1 .. Len(queue')
        BY <1>4, <1>5
    <2> QED BY <2>1, <2>2, <2>3, <1>5 DEF InQueue
<1>8. PoolOk(pool)' /\ Distinct(batch.reqs)' /\ OneConfigBatch'
    BY <1>1 DEF PlaceInv, PoolOk, OneConfigBatch
<1>9. ASSUME NEW r \in Requests
      PROVE  Placed(r)'
    <2>1. (In(pool, r)' <=> In(pool, r)) /\ (InBatch(r)' <=> InBatch(r))
        BY <1>1 DEF In, InBatch
    <2>2. CASE r = r0
        <3>1. status'[r0] = "put"
            BY <1>1 DEF Types
        <3> QED BY <2>1, <2>2, <3>1, <1>1, <1>3, <1>7 DEF Placed
    <2>3. CASE r # r0
        <3>1. status'[r] = status[r]
            BY <2>3, <1>1 DEF Types
        <3>2. InQueue(r)' <=> InQueue(r)
            BY <2>3, <1>7
        <3> QED BY <2>1, <3>1, <3>2, <1>1, PlacedKept DEF PlaceInv
    <2> QED BY <2>2, <2>3
<1> QED BY <1>6, <1>8, <1>9 DEF PlaceInv

\* The callers' steps that leave queue, pool and batch alone.
LEMMA PlaceCaller ==
    ASSUME Types, PlaceInv, NEW r0 \in Requests, Start(r0) \/ Take(r0) \/ Renew(r0)
    PROVE  PlaceInv'
<1>1. UNCHANGED <<conf, queue, pool, batch>>
    BY DEF Start, Take, Renew
<1>2. Distinct(queue)' /\ PoolOk(pool)' /\ Distinct(batch.reqs)' /\ OneConfigBatch'
    BY <1>1 DEF PlaceInv, PoolOk, OneConfigBatch
<1>3. ASSUME NEW r \in Requests
      PROVE  (InQueue(r)' <=> InQueue(r)) /\ (In(pool, r)' <=> In(pool, r)) /\ (InBatch(r)' <=> InBatch(r))
    BY <1>1 DEF InQueue, In, InBatch
<1>4. ASSUME NEW r \in Requests, r # r0
      PROVE  Placed(r)'
    <2>1. status'[r] = status[r] /\ inbox'[r] = inbox[r] /\ got'[r] = got[r]
        BY <1>4 DEF Start, Take, Renew, Types
    <2> QED BY <2>1, <1>1, <1>3, PlacedKept DEF PlaceInv
<1>5. Placed(r0)
    BY DEF PlaceInv
<1>6. CASE Start(r0)
    <2>1. status[r0] = "put" /\ status'[r0] = "waiting" /\ inbox' = inbox /\ got' = got
        BY <1>6 DEF Start, Types
    <2>2. Placed(r0)'
        BY <2>1, <1>1, <1>3, <1>5 DEF Placed, Ended, IsStream
    <2> QED BY <2>2, <1>2, <1>4 DEF PlaceInv
<1>7. CASE Take(r0)
    <2>1. /\ status[r0] = "waiting" /\ inbox[r0] # <<>> /\ inbox'[r0] = Tail(inbox[r0])
          /\ status'[r0] \in {"waiting", "done"}
          /\ status'[r0] = "waiting" => IsStream(r0) /\ Head(inbox[r0]).kind # None
        BY <1>7 DEF Take, Types
    <2>2. ~InQueue(r0) /\ ~In(pool, r0) /\ (InBatch(r0) \/ Ended(inbox[r0], r0))
        BY <2>1, <1>5 DEF Placed
    <2>3. ASSUME status'[r0] = "waiting", Ended(inbox[r0], r0)
          PROVE  Ended(inbox[r0], r0)'
        <3>1. PICK s \in Seq(Item) : s = inbox[r0] /\ s # <<>>
            BY <2>1 DEF Types
        <3>2. s[Len(s)] = End /\ Head(s).kind # None /\ IsStream(r0)
            BY <3>1, <2>1, <2>3 DEF Ended
        <3>3. /\ Len(s) \in Nat /\ Len(s) >= 1 /\ Head(s) = s[1]
              /\ Tail(s) \in Seq(Item) /\ Len(Tail(s)) = Len(s) - 1
              /\ \A i \in 1 .. Len(s) - 1 : Tail(s)[i] = s[i + 1]
            BY <3>1, HeadTailProperties, LenProperties, EmptySeq
        <3>4. Len(s) # 1
            BY <3>2, <3>3 DEF End
        <3>5. Len(s) - 1 \in 1 .. Len(s) - 1 /\ (Len(s) - 1) + 1 = Len(s)
            BY <3>3, <3>4
        <3>6. Tail(s)[Len(Tail(s))] = End
            BY <3>2, <3>3, <3>5
        <3>7. Tail(s) # <<>>
            BY <3>3, <3>4, EmptySeq
        <3>8. inbox'[r0] = Tail(s)
            BY <3>1, <2>1
        <3> QED BY <3>6, <3>7, <3>8 DEF Ended
    <2>4. Placed(r0)'
        BY <2>1, <2>2, <2>3, <1>3, <1>5 DEF Placed
    <2> QED BY <2>4, <1>2, <1>4 DEF PlaceInv
<1>8. CASE Renew(r0)
    <2>1. /\ status[r0] = "done" /\ r0 \notin ToSet(batch.reqs) /\ status'[r0] = "new"
          /\ inbox'[r0] = <<>> /\ got'[r0] = <<>>
        BY <1>8 DEF Renew, Types
    <2>2. ~InQueue(r0) /\ ~In(pool, r0)
        BY <2>1, <1>5 DEF Placed
    <2>3. ~InBatch(r0)
        <3>1. DOMAIN batch.reqs = 1 .. Len(batch.reqs)
            BY BatchFacts, LenProperties
        <3> QED BY <3>1, <2>1 DEF ToSet, InBatch
    <2>4. Placed(r0)'
        BY <2>1, <2>2, <2>3, <1>3 DEF Placed
    <2> QED BY <2>4, <1>2, <1>4 DEF PlaceInv
<1> QED BY <1>6, <1>7, <1>8

LEMMA PlaceDrain ==
    ASSUME Types, PlaceInv, Drain
    PROVE  PlaceInv'
<1>1. PICK q0 : q0 = Head(queue)
    OBVIOUS
<1>2. /\ queue # <<>> /\ queue' = Tail(queue) /\ pool' = AddToPool(pool, q0)
      /\ UNCHANGED <<conf, status, worker, batch, inbox, got>>
    BY <1>1 DEF Drain
<1>3. /\ queue \in Seq(Requests) /\ Len(queue) \in Nat /\ Len(queue) >= 1 /\ q0 = queue[1] /\ q0 \in Requests
      /\ Len(queue') = Len(queue) - 1 /\ \A i \in 1 .. Len(queue) - 1 : queue'[i] = queue[i + 1]
    BY <1>1, <1>2, HeadTailProperties, LenProperties, EmptySeq DEF Types
<1>4. InQueue(q0) /\ Placed(q0)
    <2>1. 1 \in 1 .. Len(queue)
        BY <1>3
    <2> QED BY <2>1, <1>3 DEF InQueue, PlaceInv
<1>5. /\ ~In(pool, q0) /\ ~InBatch(q0) /\ status[q0] \in {"put", "waiting"}
      /\ inbox[q0] = <<>> /\ got[q0] = <<>>
    BY <1>4 DEF Placed
<1>6. Distinct(queue)
    BY DEF PlaceInv
<1>7. ASSUME NEW q
      PROVE  InQueue(q)' <=> InQueue(q) /\ q # q0
    <2>1. ASSUME InQueue(q)' PROVE InQueue(q) /\ q # q0
        <3>1. PICK i \in 1 .. Len(queue') : queue'[i] = q
            BY <2>1 DEF InQueue
        <3>2. i + 1 \in 1 .. Len(queue) /\ queue[i + 1] = q /\ i + 1 # 1 /\ 1 \in 1 .. Len(queue)
            BY <3>1, <1>3
        <3>3. queue[i + 1] # queue[1]
            BY <3>2, <1>6 DEF Distinct
        <3> QED BY <3>2, <3>3, <1>3 DEF InQueue
    <2>2. ASSUME InQueue(q), q # q0 PROVE InQueue(q)'
        <3>1. PICK i \in 1 .. Len(queue) : queue[i] = q
            BY <2>2 DEF InQueue
        <3>2. i # 1
            BY <3>1, <2>2, <1>3
        <3>3. i - 1 \in 1 .. Len(queue) - 1 /\ (i - 1) + 1 = i
            BY <3>1, <3>2, <1>3
        <3>4. i - 1 \in 1 .. Len(queue') /\ queue'[i - 1] = q
            BY <3>1, <3>3, <1>3
        <3> QED BY <3>4 DEF InQueue
    <2> QED BY <2>1, <2>2
<1>8. Distinct(queue')
    <2> SUFFICES ASSUME NEW i \in 1 .. Len(queue'), NEW j \in 1 .. Len(queue'), queue'[i] = queue'[j]
                 PROVE  i = j
        BY DEF Distinct
    <2>1. i + 1 \in 1 .. Len(queue) /\ j + 1 \in 1 .. Len(queue) /\ queue[i + 1] = queue[j + 1]
        BY <1>3
    <2>2. i + 1 = j + 1
        BY <2>1, <1>6 DEF Distinct
    <2> QED BY <2>2, <1>3
<1>9. conf.config[q0] \in STRING
    <2>1. conf \in Setting
        BY SettingsAssumption DEF Types
    <2> QED BY <2>1, <1>3 DEF Setting
<1>10. /\ PoolOk(AddToPool(pool, q0))
       /\ \A q : In(AddToPool(pool, q0), q) <=> In(pool, q) \/ q = q0
    <2>1. pool \in Seq(Group) /\ PoolOk(pool)
        BY DEF Types, PlaceInv
    <2> QED BY <2>1, <1>3, <1>5, <1>9, AddToPoolFacts
<1>11. \A q : In(pool, q)' <=> In(pool, q) \/ q = q0
    BY <1>2, <1>10 DEF In
<1>12. PoolOk(pool)' /\ Distinct(batch.reqs)' /\ OneConfigBatch'
    BY <1>2, <1>10 DEF PlaceInv, PoolOk, OneConfigBatch
<1>13. ASSUME NEW r \in Requests
       PROVE  Placed(r)'
    <2>1. InBatch(r)' <=> InBatch(r)
        BY <1>2 DEF InBatch
    <2>2. CASE r = q0
        <3>1. ~InQueue(q0)' /\ In(pool, q0)' /\ ~InBatch(q0)'
            BY <2>1, <2>2, <1>5, <1>7, <1>11
        <3>2. status'[q0] \in {"put", "waiting"} /\ inbox'[q0] = <<>> /\ got'[q0] = <<>>
            BY <1>2, <1>5
        <3> QED BY <2>2, <3>1, <3>2 DEF Placed
    <2>3. CASE r # q0
        <3>1. (InQueue(r)' <=> InQueue(r)) /\ (In(pool, r)' <=> In(pool, r))
            BY <2>3, <1>7, <1>11
        <3> QED BY <2>1, <3>1, <1>2, PlacedKept DEF PlaceInv
    <2> QED BY <2>2, <2>3
<1> QED BY <1>8, <1>12, <1>13 DEF PlaceInv

LEMMA PlaceFetch ==
    ASSUME Types, BatchInv, PlaceInv, Fetch
    PROVE  PlaceInv'
<1>1. PoolOk(pool)
    BY DEF PlaceInv
<1>2. /\ pool \in Seq(Group) /\ pool # <<>> /\ queue = <<>> /\ batch = NoBatch
      /\ UNCHANGED <<conf, status, queue, worker, inbox, got>>
    BY <1>1, FetchFacts DEF Fetch
<1>3. PICK n \in 1 .. Len(pool[1].data) :
         /\ batch'.reqs = SubSeq(pool[1].data, 1, n)
         /\ pool' = Remaining(pool, n)
    BY <1>1, FetchFacts
<1>4. PICK data : data = pool[1].data
    OBVIOUS
<1>5. 1 \in 1 .. Len(pool)
    BY <1>2, LenProperties, EmptySeq
<1>6. data \in Seq(Requests) /\ Len(data) \in Nat /\ Distinct(data) /\ n \in 1 .. Len(data)
    BY <1>1, <1>2, <1>3, <1>4, <1>5, GroupFacts DEF PoolOk
<1>7. /\ Len(batch'.reqs) = n /\ Distinct(batch'.reqs)
      /\ \A i \in 1 .. n : batch'.reqs[i] = data[i]
    BY <1>3, <1>4, <1>6, Slices
<1>8. /\ PoolOk(Remaining(pool, n))
      /\ \A q : In(Remaining(pool, n), q) <=> In(pool, q) /\ ~\E i \in 1 .. n : data[i] = q
    BY <1>1, <1>2, <1>4, RemainingFacts
<1>9. PoolOk(pool)'
    BY <1>2, <1>3, <1>8 DEF PoolOk
<1>10. \A i \in 1 .. n : conf.config[data[i]] = pool[1].config
    <2> SUFFICES ASSUME NEW i \in 1 .. n PROVE conf.config[data[i]] = pool[1].config
        OBVIOUS
    <2>1. i \in 1 .. Len(data)
        BY <1>6
    <2> QED BY <2>1, <1>1, <1>4, <1>5 DEF PoolOk
<1>11. OneConfigBatch'
    BY <1>2, <1>7, <1>10 DEF OneConfigBatch
<1>12. ASSUME NEW r
       PROVE  /\ InBatch(r)' <=> \E i \in 1 .. n : data[i] = r
              /\ In(pool, r)' <=> In(pool, r) /\ ~InBatch(r)'
              /\ InBatch(r)' => In(pool, r)
              /\ ~InQueue(r) /\ ~InQueue(r)' /\ ~InBatch(r)
    <2>1. InBatch(r)' <=> \E i \in 1 .. n : data[i] = r
        BY <1>7 DEF InBatch
    <2>2. In(pool, r)' <=> In(Remaining(pool, n), r)
        BY <1>3 DEF In
    <2>3. (\E i \in 1 .. n : data[i] = r) => In(pool, r)
        <3> SUFFICES ASSUME NEW i \in 1 .. n, data[i] = r PROVE In(pool, r)
            OBVIOUS
        <3>1. i \in 1 .. Len(data)
            BY <1>6
        <3> QED BY <3>1, <1>4, <1>5 DEF In
    <2>4. ~InQueue(r) /\ ~InQueue(r)' /\ ~InBatch(r)
        <3>1. Len(<<>>) = 0 /\ NoBatch.reqs = <<>> /\ queue' = <<>>
            BY <1>2 DEF NoBatch
        <3> QED BY <3>1, <1>2 DEF InQueue, InBatch
    <2> QED BY <2>1, <2>2, <2>3, <2>4, <1>8
<1>13. ASSUME NEW r \in Requests
       PROVE  Placed(r)'
    <2>1. Placed(r)
        BY DEF PlaceInv
    <2>2. status'[r] = status[r] /\ inbox'[r] = inbox[r] /\ got'[r] = got[r] /\ conf' = conf
        BY <1>2
    <2>3. CASE InBatch(r)'
        <3>1. In(pool, r) /\ ~In(pool, r)' /\ ~InQueue(r)'
            BY <2>3, <1>12
        <3>2. status[r] # "new"
            BY <3>1, <2>1 DEF Placed
        <3> QED BY <2>2, <2>3, <3>1, <3>2 DEF Placed
    <2>4. CASE ~InBatch(r)'
        <3>1. (InQueue(r)' <=> InQueue(r)) /\ (In(pool, r)' <=> In(pool, r)) /\ (InBatch(r)' <=> InBatch(r))
            BY <2>4, <1>12
        <3> QED BY <2>1, <2>2, <3>1, PlacedKept
    <2> QED BY <2>3, <2>4
<1>14. Distinct(queue)'
    BY <1>2 DEF PlaceInv
<1>15. Distinct(batch.reqs)'
    BY <1>7
<1> QED BY <1>9, <1>11, <1>13, <1>14, <1>15 DEF PlaceInv

\* Steps on the batch that leave its requests and everything else alone.
LEMMA PlaceBatch ==
    ASSUME PlaceInv, batch'.reqs = batch.reqs, UNCHANGED <<conf, status, queue, pool, inbox, got>>
    PROVE  PlaceInv'
<1>1. Distinct(queue)' /\ PoolOk(pool)' /\ Distinct(batch.reqs)' /\ OneConfigBatch'
    BY DEF PlaceInv, PoolOk, OneConfigBatch
<1>2. ASSUME NEW r \in Requests
      PROVE  Placed(r)'
    <2>1. (InQueue(r)' <=> InQueue(r)) /\ (In(pool, r)' <=> In(pool, r)) /\ (InBatch(r)' <=> InBatch(r))
        BY DEF InQueue, In, InBatch
    <2> QED BY <2>1, PlacedKept DEF PlaceInv
<1> QED BY <1>1, <1>2 DEF PlaceInv

\* Results are sent: the requests of the batch keep their places, or have their last result.
LEMMA PlaceDeliver ==
    ASSUME Types, PlaceInv, NEW row \in Seq(Item), Len(row) = Len(batch.reqs), Deliver(row),
           UNCHANGED <<conf, status, queue, pool, got>>,
           \/ batch'.reqs = batch.reqs
           \/ batch' = NoBatch /\ \A i \in 1 .. Len(batch.reqs) : ~Streaming \/ row[i] = End
    PROVE  PlaceInv'
<1>1. /\ \A i \in 1 .. Len(batch.reqs) : inbox'[batch.reqs[i]] = Append(inbox[batch.reqs[i]], row[i])
      /\ \A r \in Requests : ~InBatch(r) => inbox'[r] = inbox[r]
    BY DeliverFacts DEF PlaceInv
<1>2. \A r : (InQueue(r)' <=> InQueue(r)) /\ (In(pool, r)' <=> In(pool, r))
    BY DEF InQueue, In
<1>3. Distinct(queue)' /\ PoolOk(pool)'
    BY DEF PlaceInv, PoolOk
<1>4. NoBatch.reqs = <<>> /\ Len(<<>>) = 0
    BY DEF NoBatch
<1>5. Distinct(batch.reqs)' /\ OneConfigBatch'
    <2>1. CASE batch'.reqs = batch.reqs
        BY <2>1 DEF PlaceInv, OneConfigBatch
    <2>2. CASE batch' = NoBatch
        BY ONLY <2>2, <1>4 DEF OneConfigBatch, Distinct
    <2> QED BY <2>1, <2>2
<1>6. ASSUME NEW r \in Requests, ~InBatch(r)
      PROVE  Placed(r)'
    <2>1. ~InBatch(r)'
        BY <1>4, <1>6 DEF InBatch
    <2> QED BY <2>1, <1>1, <1>2, <1>6, PlacedKept DEF PlaceInv
<1>7. ASSUME NEW r \in Requests, InBatch(r)
      PROVE  Placed(r)'
    <2>1. ~InQueue(r)' /\ ~In(pool, r)' /\ status'[r] # "new" /\ status'[r] = status[r]
        BY <1>2, <1>7 DEF PlaceInv, Placed
    <2>2. CASE batch'.reqs = batch.reqs
        <3>1. InBatch(r)'
            BY <2>2, <1>7 DEF InBatch
        <3> QED BY <2>1, <3>1 DEF Placed
    <2>3. CASE batch' = NoBatch /\ \A i \in 1 .. Len(batch.reqs) : ~Streaming \/ row[i] = End
        <3>1. PICK i \in 1 .. Len(batch.reqs) : batch.reqs[i] = r
            BY <1>7 DEF InBatch
        <3>2. PICK s \in Seq(Item) : s = inbox[r]
            BY DEF Types
        <3>3. row[i] \in Item
            BY <3>1, ElementOfSeq
        <3>4. inbox'[r] = Append(s, row[i])
            BY <3>1, <3>2, <1>1
        <3>5. Append(s, row[i])[Len(Append(s, row[i]))] = row[i] /\ Append(s, row[i]) # <<>>
            BY <3>2, <3>3, AppendProperties, LenProperties, EmptySeq
        <3>6. IsStream(r) => row[i] = End
            BY <3>1, <2>3, <1>7, BatchStreams
        <3>7. Ended(inbox[r], r)'
            BY <3>4, <3>5, <3>6 DEF Ended, IsStream
        <3>8. ~InBatch(r)'
            BY <2>3, <1>4 DEF InBatch
        <3> QED BY <2>1, <3>7, <3>8 DEF Placed
    <2> QED BY <2>2, <2>3
<1> QED BY <1>3, <1>5, <1>6, <1>7 DEF PlaceInv

LEMMA PlaceNext ==
    ASSUME Types, BatchInv, PlaceInv, [Next]_vars
    PROVE  PlaceInv'
<1>1. CASE UNCHANGED vars
    BY <1>1, PlaceBatch DEF vars
<1>2. ASSUME NEW r \in Requests, Put(r) \/ Start(r) \/ Take(r) \/ Renew(r)
      PROVE  PlaceInv'
    BY <1>2, PlacePut, PlaceCaller
<1>3. CASE Drain
    BY <1>3, PlaceDrain
<1>4. CASE Fetch
    BY <1>4, PlaceFetch
<1>5. CASE Encode
    BY <1>5, EncodeFacts, PlaceBatch DEF Encode
<1>6. CASE InferFull \/ StreamRow \/ LastRow
    BY <1>6, RowFacts, PlaceBatch
<1>7. CASE AddError
    BY <1>7, AddErrorFacts, PlaceBatch DEF AddError
<1>8. CASE Send
    <2>1. Deliver(batch.row) /\ UNCHANGED <<conf, status, queue, pool, got>>
        BY <1>8 DEF Send
    <2>2. /\ Len(batch.row) = Len(batch.reqs) /\ batch.row \in Seq(Item)
          /\ batch'.reqs = batch.reqs \/ (batch' = NoBatch /\ ~Streaming)
        BY <1>8, SendFacts, BatchFacts
    <2> QED BY <2>1, <2>2, PlaceDeliver
<1>9. CASE EndStream
    <2>1. PICK row \in Seq(Item) : /\ Deliver(row) /\ Len(row) = Len(batch.reqs)
                                   /\ \A i \in 1 .. Len(batch.reqs) : row[i] = End
        BY <1>9, EndStreamFacts
    <2>2. batch' = NoBatch /\ UNCHANGED <<conf, status, queue, pool, got>>
        BY <1>9 DEF EndStream
    <2> QED BY <2>1, <2>2, PlaceDeliver
<1>10. CASE Raise
    BY <1>10, PlaceBatch DEF Raise, Die
<1> QED BY <1>1, <1>2, <1>3, <1>4, <1>5, <1>6, <1>7, <1>8, <1>9, <1>10 DEF Next, Worker, Infer

-----------------------------------------------------------------------------
(* Theorems.                                                               *)

EngineInv == Types /\ BatchInv /\ PlaceInv

\* What the engine keeps at every step.
LEMMA EngineInductive == Spec => []EngineInv
<1>1. Init => EngineInv
    BY TypesInit, PlaceInit DEF EngineInv
<1>2. EngineInv /\ [Next]_vars => EngineInv'
    BY TypesNext, PlaceNext DEF EngineInv
<1> QED BY <1>1, <1>2, PTL DEF Spec

LEMMA TypeOKFromInv ==
    ASSUME EngineInv
    PROVE  TypeOK
<1>1. Types /\ BatchInv
    BY DEF EngineInv
<1>2. PICK n : n = Len(batch.reqs)
    OBVIOUS
<1>3. DOMAIN batch.reqs = 1 .. n
    BY <1>1, <1>2, BatchFacts, LenProperties
<1>4. ASSUME NEW e \in Seq(Nat), NEW m \in Nat, m <= n, Ascending(e, m)
      PROVE  e \in Seq(1 .. n)
    <2>1. n \in Nat /\ Len(e) \in Nat
        BY <1>1, <1>2, BatchFacts, LenProperties
    <2>2. ASSUME NEW a \in 1 .. Len(e)
          PROVE  e[a] \in 1 .. n
        <3>1. e[a] \in Nat
            BY ElementOfSeq
        <3>2. e[a] >= 1 /\ e[a] + (Len(e) - a) <= m
            BY <1>4 DEF Ascending
        <3> QED BY <3>1, <3>2, <2>1, <1>4
    <2> QED BY <2>2, SeqOfElements
<1>5. batch.errs \in Seq(1 .. n)
    <2>1. PICK m : m = Len(batch.good) + Len(batch.errs)
        OBVIOUS
    <2>2. m \in Nat /\ m <= n /\ Ascending(batch.errs, m)
        BY <2>1, <1>1, <1>2, BatchFacts DEF BatchInv
    <2> QED BY <2>2, <1>1, <1>4, BatchFacts
<1>6. batch.left \in Seq(1 .. n)
    <2>1. CASE batch.phase \in RowPhases
        <3>1. Ascending(batch.left, n) /\ n \in Nat
            BY <2>1, <1>1, <1>2, BatchFacts DEF BatchInv
        <3> QED BY <3>1, <1>1, <1>4, BatchFacts
    <2>2. CASE batch.phase \notin RowPhases
        <3>1. batch.left = <<>>
            BY <2>2, <1>1 DEF BatchInv
        <3> QED BY <3>1, EmptySeq
    <2> QED BY <2>1, <2>2
<1> QED BY <1>1, <1>3, <1>5, <1>6, BatchFacts DEF TypeOK, Types, Phases

\* In a list without repetitions there is at most one place for r.
LEMMA OnePlace ==
    ASSUME NEW T, NEW s \in Seq(T), Distinct(s), NEW r
    PROVE  Cardinality({i \in DOMAIN s : s[i] = r}) = IF \E i \in 1 .. Len(s) : s[i] = r THEN 1 ELSE 0
<1>1. PICK P : P = {i \in DOMAIN s : s[i] = r}
    OBVIOUS
<1>2. \A i : i \in P <=> i \in 1 .. Len(s) /\ s[i] = r
    BY <1>1, LenProperties
<1>3. CASE \E i \in 1 .. Len(s) : s[i] = r
    <2>1. PICK i \in 1 .. Len(s) : s[i] = r
        BY <1>3
    <2>2. \A j : j \in P <=> j = i
        BY <2>1, <1>2 DEF Distinct
    <2>3. P = {i}
        BY <2>2
    <2> QED BY <2>3, <1>1, <1>3, FS_Singleton
<1>4. CASE ~\E i \in 1 .. Len(s) : s[i] = r
    <2>1. P = {}
        BY <1>2, <1>4
    <2> QED BY <2>1, <1>1, <1>4, FS_EmptySet
<1> QED BY <1>3, <1>4

\* A list of different requests is no longer than there are requests.
LEMMA ShortList ==
    ASSUME NEW s \in Seq(Requests), Distinct(s)
    PROVE  Len(s) <= Cardinality(Requests) /\ Cardinality(Requests) \in Nat
<1>1. s \in [1 .. Len(s) -> Requests] /\ Len(s) \in Nat
    BY LenProperties
<1>2. s \in Injection(1 .. Len(s), Requests)
    BY <1>1 DEF Distinct, Injection, IsInjective
<1>3. IsFiniteSet(Requests)
    BY RequestsAssumption
<1>4. Cardinality(1 .. Len(s)) <= Cardinality(Requests)
    BY <1>2, <1>3, FS_Injection
<1>5. \A l \in Nat : Cardinality(1 .. l) = l
    <2> SUFFICES ASSUME NEW l \in Nat PROVE Cardinality(1 .. l) = l
        OBVIOUS
    <2>1. Cardinality(1 .. l) = IF 1 > l THEN 0 ELSE l - 1 + 1
        BY FS_Interval
    <2> QED BY <2>1
<1>6. Len(s) <= Cardinality(Requests)
    BY <1>1, <1>4, <1>5
<1> QED BY <1>3, <1>6, FS_CardinalityType

\* In the pool there is at most one place for r.
LEMMA OnePoolPlace ==
    ASSUME Types, PoolOk(pool), NEW r \in Requests
    PROVE  Cardinality({at \in (1 .. Len(pool)) \X (1 .. Cardinality(Requests)) :
                            at[2] \in DOMAIN pool[at[1]].data /\ pool[at[1]].data[at[2]] = r})
             = IF In(pool, r) THEN 1 ELSE 0
<1>1. PICK P : P = {at \in (1 .. Len(pool)) \X (1 .. Cardinality(Requests)) :
                        at[2] \in DOMAIN pool[at[1]].data /\ pool[at[1]].data[at[2]] = r}
    OBVIOUS
<1>2. pool \in Seq(Group)
    BY DEF Types
<1>3. ASSUME NEW g \in 1 .. Len(pool)
      PROVE  DOMAIN pool[g].data = 1 .. Len(pool[g].data)
    BY <1>2, GroupFacts, LenProperties
<1>4. ASSUME NEW at \in P
      PROVE  at[1] \in 1 .. Len(pool) /\ at[2] \in 1 .. Len(pool[at[1]].data) /\ pool[at[1]].data[at[2]] = r
             /\ at = <<at[1], at[2]>>
    BY <1>1, <1>3
<1>5. CASE In(pool, r)
    <2>1. PICK g \in 1 .. Len(pool) : \E i \in 1 .. Len(pool[g].data) : pool[g].data[i] = r
        BY ONLY <1>5 DEF In
    <2>2. PICK i \in 1 .. Len(pool[g].data) : pool[g].data[i] = r
        BY ONLY <2>1
    <2>3. Distinct(pool[g].data) /\ conf.config[r] = pool[g].config
        BY <2>2 DEF PoolOk
    <2>4. i \in 1 .. Cardinality(Requests)
        <3>1. Len(pool[g].data) <= Cardinality(Requests) /\ Cardinality(Requests) \in Nat
            BY <2>3, <1>2, GroupFacts, ShortList
        <3> QED BY <3>1, <1>2, GroupFacts
    <2>5. <<g, i>> \in P
        BY <2>2, <2>4, <1>1, <1>3
    <2>6. ASSUME NEW at \in P
          PROVE  at = <<g, i>>
        <3>0. PICK h \in 1 .. Len(pool) : \E j \in 1 .. Len(pool[h].data) : at = <<h, j>> /\ pool[h].data[j] = r
            BY <1>4
        <3>1. PICK j \in 1 .. Len(pool[h].data) : at = <<h, j>> /\ pool[h].data[j] = r
            BY <3>0
        <3>2. conf.config[r] = pool[h].config
            BY <3>1 DEF PoolOk
        <3>3. h = g
            BY <3>2, <2>3 DEF PoolOk
        <3>4. j = i
            BY <3>1, <3>3, <2>2, <2>3 DEF Distinct
        <3> QED BY <3>1, <3>3, <3>4
    <2>7. P = {<<g, i>>}
        BY <2>5, <2>6
    <2> QED BY <2>7, <1>1, <1>5, FS_Singleton
<1>6. CASE ~In(pool, r)
    <2>1. P = {}
        BY <1>4, <1>6 DEF In
    <2> QED BY <2>1, <1>1, <1>6, FS_EmptySet
<1> QED BY <1>5, <1>6

LEMMA NoneLostFromInv ==
    ASSUME EngineInv
    PROVE  NoneLost
<1> SUFFICES ASSUME NEW r \in Requests
             PROVE  /\ Places(r) <= 1
                    /\ status[r] \in {"put", "waiting"} /\ inbox[r] = <<>> => Places(r) = 1
                    /\ status[r] = "new" => Places(r) = 0
    BY DEF NoneLost
<1>1. Types /\ PlaceInv /\ Placed(r)
    BY DEF EngineInv, PlaceInv
<1>2. Cardinality({i \in DOMAIN queue : queue[i] = r}) = IF InQueue(r) THEN 1 ELSE 0
    BY <1>1, OnePlace DEF Types, PlaceInv, InQueue
<1>3. Cardinality({i \in DOMAIN batch.reqs : batch.reqs[i] = r}) = IF InBatch(r) THEN 1 ELSE 0
    BY <1>1, BatchFacts, OnePlace DEF PlaceInv, InBatch
<1>4. Places(r) = (IF InQueue(r) THEN 1 ELSE 0) + (IF In(pool, r) THEN 1 ELSE 0) + (IF InBatch(r) THEN 1 ELSE 0)
    BY <1>1, <1>2, <1>3, OnePoolPlace DEF Places, PlaceInv
<1>5. /\ InQueue(r) => ~In(pool, r) /\ ~InBatch(r)
      /\ In(pool, r) => ~InBatch(r)
      /\ status[r] \in {"put", "waiting"} /\ inbox[r] = <<>> => InQueue(r) \/ In(pool, r) \/ InBatch(r)
      /\ status[r] = "new" => ~InQueue(r) /\ ~In(pool, r) /\ ~InBatch(r)
    BY <1>1 DEF Placed, Ended
<1> QED BY <1>4, <1>5

LEMMA OneConfigFromInv ==
    ASSUME EngineInv
    PROVE  OneConfig
<1>1. Types /\ PoolOk(pool) /\ OneConfigBatch
    BY DEF EngineInv, PlaceInv
<1>2. DOMAIN batch.reqs = 1 .. Len(batch.reqs) /\ DOMAIN pool = 1 .. Len(pool)
    BY <1>1, BatchFacts, LenProperties DEF Types
<1>3. ASSUME NEW g \in DOMAIN pool
      PROVE  DOMAIN pool[g].data = 1 .. Len(pool[g].data)
    BY <1>1, <1>2, GroupFacts, LenProperties DEF Types
<1>4. \A i, j \in DOMAIN batch.reqs : conf.config[batch.reqs[i]] = conf.config[batch.reqs[j]]
    BY <1>1, <1>2 DEF OneConfigBatch
<1>5. ASSUME NEW g \in DOMAIN pool
      PROVE  /\ \A i \in DOMAIN pool[g].data : conf.config[pool[g].data[i]] = pool[g].config
             /\ \A h \in DOMAIN pool : pool[g].config = pool[h].config => g = h
    BY <1>1, <1>2, <1>3 DEF PoolOk
<1> QED BY <1>4, <1>5 DEF OneConfig

\* Every variable has its type, and the positions of errors are positions of the batch,
\* for every set of requests and every engine: _batch_encode and _add_error_list.
THEOREM EngineTypeCorrect == Spec => []TypeOK
<1>1. EngineInv => TypeOK
    BY TypeOKFromInv
<1> QED BY <1>1, EngineInductive, PTL

\* _queue, _task_pool and the batch lose no request and repeat none, whatever the configs,
\* limits, streams and errors are: NoneLost.
THEOREM EngineNoneLost == Spec => []NoneLost
<1>1. EngineInv => NoneLost
    BY NoneLostFromInv
<1> QED BY <1>1, EngineInductive, PTL

\* No batch of _fetch_infer_requests mixes request configs: OneConfig.
THEOREM EngineOneConfig == Spec => []OneConfig
<1>1. EngineInv => OneConfig
    BY OneConfigFromInv
<1> QED BY <1>1, EngineInductive, PTL

-----------------------------------------------------------------------------
(* What there is of an answer, when streams are run one at a time.         *)

NotMixed == conf.streams = {} \/ conf.maxBatch = 1

Final(x, r) == x.of = r /\ x.kind \in {"full", "final", "error"}

\* The first n of s are results of r.
ResultsOf(s, n, r) == \A i \in 1 .. n : s[i].of = r /\ s[i].kind # None

\* The last of these, or of what was read if there is none, is the last result of r.
Closed(g, s, n, r) == IF n > 0 THEN Final(s[n], r) ELSE g # <<>> /\ Final(g[Len(g)], r)

\* What the rows of a batch are made of.
RowInv ==
    /\ conf.maxBatch = 1 /\ batch.phase # "empty" => Len(batch.reqs) = 1
    /\ NotMixed /\ batch.phase = "text" => \A i \in 1 .. Len(batch.row) : batch.row[i].kind # None
    /\ batch.phase = "full" => \A i \in 1 .. Len(batch.row) : batch.row[i].kind \in {"full", "error"}
    /\ batch.phase = "final" => \A i \in 1 .. Len(batch.row) : batch.row[i].kind \in {"final", "error"}

\* The worker is done with r.
Sent(r) == status[r] \in {"put", "waiting"} /\ ~InQueue(r) /\ ~In(pool, r) /\ ~InBatch(r)

AnswerTo(r) ==
    /\ InBatch(r) =>
         /\ status[r] \in {"put", "waiting"}
         /\ ResultsOf(got[r], Len(got[r]), r) /\ ResultsOf(inbox[r], Len(inbox[r]), r)
         /\ ~IsStream(r) => got[r] = <<>> /\ inbox[r] = <<>>
         /\ batch.phase = "ending" => Closed(got[r], inbox[r], Len(inbox[r]), r)
    /\ Sent(r) /\ IsStream(r) =>
         /\ inbox[r] # <<>> /\ inbox[r][Len(inbox[r])] = End
         /\ ResultsOf(got[r], Len(got[r]), r) /\ ResultsOf(inbox[r], Len(inbox[r]) - 1, r)
         /\ Closed(got[r], inbox[r], Len(inbox[r]) - 1, r)
    /\ Sent(r) /\ ~IsStream(r) => got[r] = <<>> /\ Len(inbox[r]) = 1 /\ Final(inbox[r][1], r)
    /\ status[r] = "done" =>
         got[r] # <<>> /\ ResultsOf(got[r], Len(got[r]), r) /\ Final(got[r][Len(got[r])], r)

AnswerInv == RowInv /\ (NotMixed => \A r \in Requests : AnswerTo(r))

LEMMA RowNext ==
    ASSUME Types, BatchInv, PlaceInv, RowInv, [Next]_vars
    PROVE  RowInv'
<1>1. ASSUME conf' = conf, batch'.reqs = batch.reqs, batch'.row = batch.row, batch'.phase = batch.phase
      PROVE  RowInv'
    BY <1>1 DEF RowInv, NotMixed
<1>2. ASSUME batch' = NoBatch
      PROVE  RowInv'
    <2>1. batch'.phase = "empty"
        BY <1>2 DEF NoBatch
    <2> QED BY <2>1 DEF RowInv
<1>3. CASE UNCHANGED vars \/ Drain \/ Raise \/ \E r \in Requests : Put(r) \/ Start(r) \/ Take(r) \/ Renew(r)
    <2>1. conf' = conf /\ batch' = batch
        BY <1>3 DEF vars, Drain, Raise, Die, Put, Start, Take, Renew
    <2> QED BY <2>1, <1>1
<1>4. CASE Fetch
    <2>1. /\ batch'.phase = "fetched" /\ conf' = conf
        BY <1>4, FetchFacts DEF Fetch, PlaceInv
    <2>2. PICK n \in 1 .. Len(pool[1].data) :
             batch'.reqs = SubSeq(pool[1].data, 1, n) /\ (conf.maxBatch = 1 => n = 1)
        BY <1>4, FetchFacts DEF PlaceInv
    <2>3. Len(batch'.reqs) = n
        <3>1. pool \in Seq(Group) /\ pool # <<>> /\ PoolOk(pool)
            BY <1>4 DEF Types, PlaceInv, Fetch
        <3>2. 1 \in 1 .. Len(pool)
            BY <3>1, LenProperties, EmptySeq
        <3>3. pool[1].data \in Seq(Requests) /\ Distinct(pool[1].data)
            BY <3>1, <3>2, GroupFacts DEF PoolOk
        <3> QED BY <3>3, <2>2, Slices
    <2> QED BY <2>1, <2>2, <2>3 DEF RowInv
<1>5. CASE Encode
    <2>1. /\ batch'.reqs = batch.reqs /\ batch'.phase = batch.phase /\ batch'.row = batch.row
        BY <1>5, EncodeFacts DEF Encode
    <2>2. conf' = conf
        BY <1>5 DEF Encode
    <2> QED BY <2>1, <2>2, <1>1
<1>6. CASE InferFull \/ StreamRow \/ LastRow
    <2>1. /\ batch'.reqs = batch.reqs /\ BatchInv' /\ batch.phase \in {"fetched", "streaming"}
          /\ Len(batch'.row) = Len(batch.good) /\ conf' = conf
          /\ batch'.phase = "full" => \A k \in 1 .. Len(batch'.row) : batch'.row[k].kind = "full"
          /\ batch'.phase = "final" => \A k \in 1 .. Len(batch'.row) : batch'.row[k].kind = "final"
          /\ batch'.phase = "text" => \E k \in 1 .. Len(batch'.row) : batch'.row[k].kind = "text"
        BY <1>6, RowFacts
    <2>2. conf.maxBatch = 1 => Len(batch.reqs) = 1
        BY <2>1 DEF RowInv
    <2>3. ASSUME NotMixed', batch'.phase = "text", NEW i \in 1 .. Len(batch'.row)
          PROVE  batch'.row[i].kind # None
        <3>1. Streaming'
            BY <2>1, <2>3 DEF BatchInv
        <3>2. conf.maxBatch = 1
            BY <3>1, <2>1, <2>3 DEF NotMixed, Streaming, IsStream
        <3>3. Len(batch.good) + Len(batch.errs) <= 1
            BY <3>2, <2>2 DEF BatchInv
        <3>4. Len(batch'.row) <= 1
            BY <3>3, <2>1, BatchFacts
        <3>5. PICK k \in 1 .. Len(batch'.row) : batch'.row[k].kind = "text"
            BY <2>1, <2>3
        <3>6. i = k
            BY <3>4, <2>1, BatchFacts
        <3> QED BY <3>5, <3>6 DEF None
    <2> QED BY <2>1, <2>2, <2>3 DEF RowInv
<1>7. CASE AddError
    <2>1. /\ batch'.reqs = batch.reqs /\ batch'.phase = batch.phase /\ conf' = conf
        BY <1>7, AddErrorFacts DEF AddError
    <2>2. \A k \in 1 .. Len(batch'.row) :
             \/ batch'.row[k].kind = "error"
             \/ \E j \in 1 .. Len(batch.row) : batch'.row[k] = batch.row[j]
        BY <1>7, AddErrorFacts
    <2>3. "error" # None
        BY DEF None
    <2> QED BY <2>1, <2>2, <2>3 DEF RowInv, NotMixed
<1>8. CASE Send
    <2>1. /\ batch.phase = "full" => batch' = NoBatch
          /\ batch.phase # "full" => batch'.reqs = batch.reqs
          /\ batch.phase = "text" => batch'.phase = "streaming"
          /\ batch.phase = "final" => batch'.phase = "ending"
          /\ batch.phase \in {"full", "text", "final"}
        BY <1>8, SendFacts DEF RowPhases
    <2>2. conf' = conf
        BY <1>8 DEF Send
    <2> QED BY <2>1, <2>2, <1>2 DEF RowInv
<1>9. CASE EndStream
    BY <1>9, <1>2 DEF EndStream
<1> QED BY <1>3, <1>4, <1>5, <1>6, <1>7, <1>8, <1>9 DEF Next, Worker, Infer

\* A caller reads the first of the results that are there.
LEMMA TakeFacts ==
    ASSUME NEW s \in Seq(Item), NEW g \in Seq(Item), NEW r, NEW n \in 1 .. Len(s),
           ResultsOf(g, Len(g), r), ResultsOf(s, n, r)
    PROVE  /\ Head(s).of = r /\ Head(s).kind # None
           /\ ResultsOf(Append(g, Head(s)), Len(Append(g, Head(s))), r)
           /\ ResultsOf(Tail(s), n - 1, r)
           /\ Closed(g, s, n, r) => Closed(Append(g, Head(s)), Tail(s), n - 1, r)
<1>1. /\ Len(s) \in Nat /\ n \in Nat /\ n >= 1 /\ n <= Len(s) /\ s # <<>> /\ Len(g) \in Nat
    BY LenProperties, EmptySeq
<1>2. /\ Head(s) = s[1] /\ Head(s) \in Item
      /\ \A i \in 1 .. Len(s) - 1 : Tail(s)[i] = s[i + 1]
    BY <1>1, HeadTailProperties
<1>3. PICK h, t : h = Append(g, Head(s)) /\ t = Tail(s)
    OBVIOUS
<1>4. Len(h) = Len(g) + 1 /\ h[Len(g) + 1] = s[1] /\ \A i \in 1 .. Len(g) : h[i] = g[i]
    BY <1>2, <1>3, AppendProperties
<1>5. s[1].of = r /\ s[1].kind # None
    <2>1. 1 \in 1 .. n
        BY <1>1
    <2> QED BY <2>1 DEF ResultsOf
<1>6. ResultsOf(h, Len(h), r)
    <2> SUFFICES ASSUME NEW i \in 1 .. Len(h) PROVE h[i].of = r /\ h[i].kind # None
        BY DEF ResultsOf
    <2>1. i \in 1 .. Len(g) \/ i = Len(g) + 1
        BY <1>1, <1>4
    <2>2. CASE i \in 1 .. Len(g)
        <3>1. g[i].of = r /\ g[i].kind # None
            BY <2>2 DEF ResultsOf
        <3> QED BY <3>1, <2>2, <1>4
    <2>3. CASE i = Len(g) + 1
        BY <2>3, <1>4, <1>5
    <2> QED BY <2>1, <2>2, <2>3
<1>7. ResultsOf(t, n - 1, r)
    <2> SUFFICES ASSUME NEW i \in 1 .. n - 1 PROVE t[i].of = r /\ t[i].kind # None
        BY DEF ResultsOf
    <2>1. i \in 1 .. Len(s) - 1 /\ i + 1 \in 1 .. n
        BY <1>1
    <2>2. s[i + 1].of = r /\ s[i + 1].kind # None
        BY <2>1 DEF ResultsOf
    <2> QED BY <2>1, <2>2, <1>2, <1>3
<1>8. ASSUME Closed(g, s, n, r)
      PROVE  Closed(h, t, n - 1, r)
    <2>1. Final(s[n], r)
        BY <1>1, <1>8 DEF Closed
    <2>2. CASE n = 1
        <3>1. h[Len(h)] = s[1] /\ h # <<>>
            BY <1>1, <1>4, EmptySeq
        <3> QED BY <3>1, <2>1, <2>2 DEF Closed
    <2>3. CASE n > 1
        <3>1. n - 1 \in 1 .. Len(s) - 1 /\ (n - 1) + 1 = n /\ n - 1 > 0
            BY <2>3, <1>1
        <3>2. t[n - 1] = s[n]
            BY <3>1, <1>2, <1>3
        <3> QED BY <3>1, <3>2, <2>1 DEF Closed
    <2> QED BY <2>2, <2>3, <1>1
<1> QED BY <1>2, <1>3, <1>5, <1>6, <1>7, <1>8

\* A result that is added at the end.
LEMMA AddResult ==
    ASSUME NEW s \in Seq(Item), NEW x \in Item, NEW r, ResultsOf(s, Len(s), r)
    PROVE  /\ Len(Append(s, x)) = Len(s) + 1 /\ Append(s, x)[Len(s) + 1] = x /\ Append(s, x) # <<>>
           /\ Len(s) \in Nat
           /\ ResultsOf(Append(s, x), Len(s), r)
           /\ x.of = r /\ x.kind # None => ResultsOf(Append(s, x), Len(s) + 1, r)
           /\ \A g : Closed(g, s, Len(s), r) => Closed(g, Append(s, x), Len(s), r)
<1>1. PICK z : z = Append(s, x)
    OBVIOUS
<1>2. /\ Len(s) \in Nat /\ Len(z) = Len(s) + 1 /\ z[Len(s) + 1] = x /\ z # <<>>
      /\ \A i \in 1 .. Len(s) : z[i] = s[i]
    BY <1>1, AppendProperties, LenProperties, EmptySeq
<1>3. ResultsOf(z, Len(s), r)
    BY <1>2 DEF ResultsOf
<1>4. ASSUME x.of = r, x.kind # None PROVE ResultsOf(z, Len(s) + 1, r)
    <2> SUFFICES ASSUME NEW i \in 1 .. Len(s) + 1 PROVE z[i].of = r /\ z[i].kind # None
        BY DEF ResultsOf
    <2>1. i \in 1 .. Len(s) \/ i = Len(s) + 1
        BY <1>2
    <2> QED BY <2>1, <1>2, <1>3, <1>4 DEF ResultsOf
<1>5. ASSUME NEW g, Closed(g, s, Len(s), r) PROVE Closed(g, z, Len(s), r)
    <2>1. CASE Len(s) > 0
        <3>1. Len(s) \in 1 .. Len(s)
            BY <2>1, <1>2
        <3> QED BY <3>1, <2>1, <1>2, <1>5 DEF Closed
    <2>2. CASE ~(Len(s) > 0)
        BY <2>2, <1>5 DEF Closed
    <2> QED BY <2>1, <2>2
<1> QED BY <1>1, <1>2, <1>3, <1>4, <1>5

\* A request of which nothing changes that matters for its answer.
LEMMA AnswerKept ==
    ASSUME NEW r \in Requests, AnswerTo(r), conf' = conf, status'[r] = status[r],
           inbox'[r] = inbox[r], got'[r] = got[r], InBatch(r)' <=> InBatch(r), Sent(r)' <=> Sent(r),
           InBatch(r) /\ batch'.phase = "ending" => batch.phase = "ending"
    PROVE  AnswerTo(r)'
BY DEF AnswerTo, IsStream

LEMMA AnswerCaller ==
    ASSUME Types, PlaceInv, \A r \in Requests : AnswerTo(r),
           NEW r0 \in Requests, Put(r0) \/ Start(r0) \/ Take(r0) \/ Renew(r0)
    PROVE  \A r \in Requests : AnswerTo(r)'
<1>1. UNCHANGED <<conf, pool, batch>>
    BY DEF Put, Start, Take, Renew
<1>2. \A r : (In(pool, r)' <=> In(pool, r)) /\ (InBatch(r)' <=> InBatch(r))
    BY <1>1 DEF In, InBatch
<1>3. PlaceInv'
    BY PlacePut, PlaceCaller
<1>4. ASSUME NEW r \in Requests, r # r0
      PROVE  AnswerTo(r)'
    <2>1. status'[r] = status[r] /\ inbox'[r] = inbox[r] /\ got'[r] = got[r]
        BY <1>4 DEF Put, Start, Take, Renew, Types
    <2>2. InQueue(r)' <=> InQueue(r)
        <3>1. CASE Put(r0)
            <4>1. queue \in Seq(Requests) /\ queue' = Append(queue, r0)
                BY <3>1 DEF Put, Types
            <4>2. /\ Len(queue) \in Nat /\ Len(queue') = Len(queue) + 1 /\ queue'[Len(queue) + 1] = r0
                  /\ \A i \in 1 .. Len(queue) : queue'[i] = queue[i]
                BY <4>1, AppendProperties, LenProperties
            <4>3. ASSUME InQueue(r) PROVE InQueue(r)'
                <5>1. PICK i \in 1 .. Len(queue) : queue[i] = r
                    BY <4>3 DEF InQueue
                <5>2. i \in 1 .. Len(queue')
                    BY <4>2
                <5> QED BY <5>1, <5>2, <4>2 DEF InQueue
            <4>4. ASSUME InQueue(r)' PROVE InQueue(r)
                <5>1. PICK i \in 1 .. Len(queue') : queue'[i] = r
                    BY <4>4 DEF InQueue
                <5>2. i \in 1 .. Len(queue)
                    BY <5>1, <4>2, <1>4
                <5> QED BY <5>1, <5>2, <4>2 DEF InQueue
            <4> QED BY <4>3, <4>4
        <3>2. CASE Start(r0) \/ Take(r0) \/ Renew(r0)
            BY <3>2 DEF Start, Take, Renew, InQueue
        <3> QED BY <3>1, <3>2
    <2>3. Sent(r)' <=> Sent(r)
        BY <2>1, <2>2, <1>2 DEF Sent
    <2> QED BY <2>1, <2>3, <1>1, <1>2, AnswerKept
<1>5. AnswerTo(r0) /\ Placed(r0) /\ Placed(r0)'
    BY <1>3 DEF PlaceInv
<1>6. CASE Put(r0)
    <2>1. /\ status[r0] = "new" /\ status'[r0] = "put" /\ queue' = Append(queue, r0)
        BY <1>6 DEF Put, Types
    <2>2. ~InBatch(r0)'
        BY <2>1, <1>2, <1>5 DEF Placed
    <2>3. InQueue(r0)'
        <3>1. /\ Len(queue) \in Nat /\ Len(queue') = Len(queue) + 1 /\ queue'[Len(queue) + 1] = r0
            BY <2>1, AppendProperties, LenProperties DEF Types
        <3>2. Len(queue) + 1 \in 1 .. Len(queue')
            BY <3>1
        <3> QED BY <3>1, <3>2 DEF InQueue
    <2>4. AnswerTo(r0)'
        BY <2>1, <2>2, <2>3 DEF AnswerTo, Sent
    <2> QED BY <2>4, <1>4
<1>7. CASE Start(r0)
    <2>1. /\ status[r0] = "put" /\ status'[r0] = "waiting" /\ UNCHANGED <<queue, inbox, got>>
        BY <1>7 DEF Start, Types
    <2>2. Sent(r0)' <=> Sent(r0)
        BY <2>1, <1>2 DEF Sent, InQueue
    <2>3. AnswerTo(r0)'
        BY <2>1, <2>2, <1>1, <1>2, <1>5 DEF AnswerTo, IsStream
    <2> QED BY <2>3, <1>4
<1>8. CASE Take(r0)
    <2>1. PICK s \in Seq(Item), g \in Seq(Item) : s = inbox[r0] /\ g = got[r0]
        BY DEF Types
    <2>2. /\ status[r0] = "waiting" /\ s # <<>> /\ inbox'[r0] = Tail(s) /\ queue' = queue
          /\ Len(s) \in Nat /\ Len(s) >= 1 /\ Head(s) = s[1]
        <3>1. status[r0] = "waiting" /\ s # <<>> /\ inbox'[r0] = Tail(s) /\ queue' = queue
            BY <2>1, <1>8 DEF Take, Types
        <3> QED BY <3>1, LenProperties, EmptySeq, HeadTailProperties
    <2>3. ~InQueue(r0) /\ ~In(pool, r0) /\ ~InQueue(r0)' /\ ~In(pool, r0)'
        BY <2>1, <2>2, <1>2, <1>5 DEF Placed, InQueue
    <2>4. Tail(s) \in Seq(Item) /\ Len(Tail(s)) = Len(s) - 1
        BY <2>2, HeadTailProperties
    \* a chunk of a stream
    <2>5. ASSUME IsStream(r0), s[1].kind # None
          PROVE  status'[r0] = "waiting" /\ got'[r0] = Append(g, Head(s))
        BY <2>1, <2>2, <2>5, <1>8 DEF Take, Types
    <2>6. CASE InBatch(r0)
        <3>1. /\ ResultsOf(g, Len(g), r0) /\ ResultsOf(s, Len(s), r0) /\ IsStream(r0)
              /\ batch.phase = "ending" => Closed(g, s, Len(s), r0)
            BY <2>1, <2>2, <2>6, <1>5 DEF AnswerTo
        <3>2. Len(s) \in 1 .. Len(s)
            BY <2>2
        <3>3. /\ Head(s).of = r0 /\ Head(s).kind # None
              /\ ResultsOf(Append(g, Head(s)), Len(Append(g, Head(s))), r0)
              /\ ResultsOf(Tail(s), Len(s) - 1, r0)
              /\ Closed(g, s, Len(s), r0) => Closed(Append(g, Head(s)), Tail(s), Len(s) - 1, r0)
            BY <3>1, <3>2, TakeFacts
        <3>4. status'[r0] = "waiting" /\ got'[r0] = Append(g, Head(s))
            BY <2>2, <2>5, <3>1, <3>3
        <3>5. InBatch(r0)' /\ ~Sent(r0)' /\ IsStream(r0)'
            BY <2>6, <1>1, <1>2, <3>1 DEF Sent, IsStream
        <3>6. batch'.phase = "ending" => Closed(got'[r0], inbox'[r0], Len(inbox'[r0]), r0)
            BY <1>1, <2>2, <2>4, <3>1, <3>3, <3>4
        <3>7. ResultsOf(got'[r0], Len(got'[r0]), r0) /\ ResultsOf(inbox'[r0], Len(inbox'[r0]), r0)
            BY <2>2, <2>4, <3>3, <3>4
        <3>8. AnswerTo(r0)'
            BY <3>4, <3>5, <3>6, <3>7 DEF AnswerTo
        <3> QED BY <3>8, <1>4
    <2>7. CASE ~InBatch(r0) /\ IsStream(r0)
        <3>1. /\ s[Len(s)] = End /\ ResultsOf(g, Len(g), r0) /\ ResultsOf(s, Len(s) - 1, r0)
              /\ Closed(g, s, Len(s) - 1, r0)
            BY <2>1, <2>2, <2>3, <2>7, <1>5 DEF AnswerTo, Sent
        <3>2. ~InBatch(r0)' /\ IsStream(r0)'
            BY <2>7, <1>1, <1>2 DEF IsStream
        <3>3. CASE Len(s) = 1
            <4>1. Head(s) = End /\ End.kind = None
                BY <3>1, <3>3, <2>2 DEF End
            <4>2. status'[r0] = "done" /\ got'[r0] = g
                BY <4>1, <2>1, <2>7, <1>8 DEF Take, Types
            <4>3. g # <<>> /\ Final(g[Len(g)], r0)
                BY <3>1, <3>3 DEF Closed
            <4>4. AnswerTo(r0)'
                BY <4>2, <4>3, <3>1, <3>2 DEF AnswerTo, Sent
            <4> QED BY <4>4, <1>4
        <3>4. CASE Len(s) # 1
            <4>0. PICK n \in Nat : n = Len(s)
                BY <2>2
            <4>1. /\ Len(s) - 1 \in 1 .. Len(s) /\ Len(s) - 1 \in 1 .. Len(s) - 1
                  /\ (Len(s) - 1) + 1 = Len(s) /\ Len(s) - 1 # 0
                <5>1. n >= 1 /\ n # 1
                    BY <2>2, <3>4, <4>0
                <5>2. n - 1 \in 1 .. n /\ n - 1 \in 1 .. n - 1 /\ (n - 1) + 1 = n /\ n - 1 # 0
                    BY <5>1
                <5> QED BY ONLY <5>2, <4>0
            <4>2. /\ Head(s).of = r0 /\ Head(s).kind # None
                  /\ ResultsOf(Append(g, Head(s)), Len(Append(g, Head(s))), r0)
                  /\ ResultsOf(Tail(s), (Len(s) - 1) - 1, r0)
                  /\ Closed(Append(g, Head(s)), Tail(s), (Len(s) - 1) - 1, r0)
                BY <3>1, <4>1, TakeFacts
            <4>3. status'[r0] = "waiting" /\ got'[r0] = Append(g, Head(s))
                BY <2>2, <2>5, <2>7, <4>2
            <4>4. Tail(s)[Len(Tail(s))] = End /\ Tail(s) # <<>>
                <5>1. \A i \in 1 .. Len(s) - 1 : Tail(s)[i] = s[i + 1]
                    BY <2>2, HeadTailProperties
                <5>2. Tail(s) # <<>>
                    BY <4>1, <2>4, EmptySeq
                <5> QED BY <5>1, <4>1, <5>2, <3>1, <2>4
            <4>5. /\ inbox'[r0] # <<>> /\ inbox'[r0][Len(inbox'[r0])] = End
                  /\ ResultsOf(got'[r0], Len(got'[r0]), r0)
                  /\ ResultsOf(inbox'[r0], Len(inbox'[r0]) - 1, r0)
                  /\ Closed(got'[r0], inbox'[r0], Len(inbox'[r0]) - 1, r0)
                BY <2>2, <2>4, <4>2, <4>3, <4>4
            <4>6. AnswerTo(r0)'
                BY <4>3, <4>5, <3>2 DEF AnswerTo
            <4> QED BY <4>6, <1>4
        <3> QED BY <3>3, <3>4
    <2>8. CASE ~InBatch(r0) /\ ~IsStream(r0)
        <3>1. g = <<>> /\ Final(s[1], r0)
            BY <2>1, <2>2, <2>3, <2>8, <1>5 DEF AnswerTo, Sent
        <3>2. ~InBatch(r0)' /\ ~IsStream(r0)'
            BY <2>8, <1>1, <1>2 DEF IsStream
        <3>3. status'[r0] = "done" /\ got'[r0] = Append(<<>>, s[1])
            BY <3>1, <2>1, <2>2, <2>8, <1>8 DEF Take, Types
        <3>4. Append(<<>>, s[1]) = <<s[1]>> /\ Len(<<s[1]>>) = 1 /\ <<s[1]>>[1] = s[1] /\ <<s[1]>> # <<>>
            OBVIOUS
        <3>5. s[1].of = r0 /\ s[1].kind # None
            BY <3>1 DEF Final, None
        <3>6. ResultsOf(<<s[1]>>, 1, r0)
            <4>1. \A i \in 1 .. 1 : i = 1
                OBVIOUS
            <4> QED BY <4>1, <3>4, <3>5 DEF ResultsOf
        <3>7. /\ got'[r0] # <<>> /\ ResultsOf(got'[r0], Len(got'[r0]), r0)
              /\ Final(got'[r0][Len(got'[r0])], r0)
            BY <3>1, <3>3, <3>4, <3>6
        <3>8. AnswerTo(r0)'
            BY <3>2, <3>3, <3>7 DEF AnswerTo, Sent
        <3> QED BY <3>8, <1>4
    <2> QED BY <2>6, <2>7, <2>8
<1>9. CASE Renew(r0)
    <2>1. status[r0] = "done" /\ status'[r0] = "new"
        BY <1>9 DEF Renew, Types
    <2>2. ~InBatch(r0)'
        BY <2>1, <1>5 DEF Placed
    <2>3. AnswerTo(r0)'
        BY <2>1, <2>2 DEF AnswerTo, Sent
    <2> QED BY <2>3, <1>4
<1> QED BY <1>6, <1>7, <1>8, <1>9

\* A step of the worker that sends nothing and takes nothing from the pool.
LEMMA AnswerWork ==
    ASSUME Types, BatchInv, PlaceInv, \A r \in Requests : AnswerTo(r),
           UNCHANGED vars \/ Drain \/ Encode \/ InferFull \/ StreamRow \/ LastRow \/ AddError \/ Raise
    PROVE  \A r \in Requests : AnswerTo(r)'
<1>1. UNCHANGED <<conf, status, inbox, got>>
    BY DEF vars, Drain, Encode, InferFull, StreamRow, LastRow, Generate, AddError, Raise, Die
<1>2. /\ batch'.reqs = batch.reqs
      /\ batch'.phase = "ending" => batch.phase = "ending"
    <2>1. CASE UNCHANGED vars \/ Drain \/ Raise
        BY <2>1 DEF vars, Drain, Raise, Die
    <2>2. CASE Encode
        BY <2>2, EncodeFacts
    <2>3. CASE InferFull \/ StreamRow \/ LastRow
        BY <2>3, RowFacts DEF RowPhases
    <2>4. CASE AddError
        BY <2>4, AddErrorFacts
    <2> QED BY <2>1, <2>2, <2>3, <2>4
<1>3. \A r : InBatch(r)' <=> InBatch(r)
    BY <1>2 DEF InBatch
<1>4. ASSUME NEW r \in Requests
      PROVE  InQueue(r)' \/ In(pool, r)' <=> InQueue(r) \/ In(pool, r)
    <2>1. CASE Drain
        <3>1. /\ queue \in Seq(Requests) /\ queue # <<>> /\ queue' = Tail(queue)
              /\ pool' = AddToPool(pool, Head(queue))
            BY <2>1 DEF Drain, Types
        <3>2. /\ Len(queue) \in Nat /\ Len(queue) >= 1 /\ Len(queue') = Len(queue) - 1
              /\ Head(queue) = queue[1] /\ Head(queue) \in Requests
              /\ \A i \in 1 .. Len(queue) - 1 : queue'[i] = queue[i + 1]
            BY <3>1, HeadTailProperties, LenProperties, EmptySeq
        <3>3. 1 \in 1 .. Len(queue)
            BY <3>2
        <3>4. InQueue(Head(queue))
            BY <3>2, <3>3 DEF InQueue
        <3>5. ~In(pool, Head(queue))
            BY <3>2, <3>4 DEF PlaceInv, Placed
        <3>6. conf.config[Head(queue)] \in STRING
            BY <3>2, SettingsAssumption DEF Types, Setting
        <3>7. In(pool, r)' <=> In(pool, r) \/ r = Head(queue)
            <4>1. pool \in Seq(Group) /\ PoolOk(pool)
                BY DEF Types, PlaceInv
            <4>2. \A q : In(AddToPool(pool, Head(queue)), q) <=> In(pool, q) \/ q = Head(queue)
                BY <4>1, <3>2, <3>5, <3>6, AddToPoolFacts
            <4> QED BY <4>2, <3>1 DEF In
        <3>8. InQueue(r) <=> InQueue(r)' \/ r = Head(queue)
            <4>1. ASSUME InQueue(r) PROVE InQueue(r)' \/ r = Head(queue)
                <5>1. PICK i \in 1 .. Len(queue) : queue[i] = r
                    BY <4>1 DEF InQueue
                <5>2. CASE i = 1
                    BY <5>1, <5>2, <3>2
                <5>3. CASE i # 1
                    <6>1. i - 1 \in 1 .. Len(queue) - 1 /\ (i - 1) + 1 = i
                        BY <5>3, <3>2
                    <6>2. queue'[i - 1] = r /\ i - 1 \in 1 .. Len(queue')
                        BY <6>1, <5>1, <3>2
                    <6> QED BY <6>2 DEF InQueue
                <5> QED BY <5>2, <5>3
            <4>2. ASSUME InQueue(r)' PROVE InQueue(r)
                <5>1. PICK i \in 1 .. Len(queue') : queue'[i] = r
                    BY <4>2 DEF InQueue
                <5>2. i + 1 \in 1 .. Len(queue) /\ i \in 1 .. Len(queue) - 1
                    BY <5>1, <3>2
                <5>3. queue[i + 1] = r
                    BY <5>1, <5>2, <3>2
                <5> QED BY <5>2, <5>3 DEF InQueue
            <4> QED BY <4>1, <4>2, <3>4
        <3> QED BY <3>7, <3>8
    <2>2. CASE ~Drain
        <3>1. UNCHANGED <<queue, pool>>
            BY <2>2 DEF vars, Encode, InferFull, StreamRow, LastRow, Generate, AddError, Raise, Die
        <3> QED BY <3>1 DEF InQueue, In
    <2> QED BY <2>1, <2>2
<1>5. ASSUME NEW r \in Requests
      PROVE  AnswerTo(r)'
    <2>1. Sent(r)' <=> Sent(r)
        BY <1>1, <1>3, <1>4 DEF Sent
    <2> QED BY <2>1, <1>1, <1>2, <1>3, AnswerKept
<1> QED BY <1>5

\* The requests that are taken from the pool have no result yet.
LEMMA AnswerFetch ==
    ASSUME Types, BatchInv, PlaceInv, \A r \in Requests : AnswerTo(r), Fetch
    PROVE  \A r \in Requests : AnswerTo(r)'
<1>1. /\ pool \in Seq(Group) /\ pool # <<>> /\ PoolOk(pool) /\ batch'.phase = "fetched"
      /\ UNCHANGED <<conf, status, queue, inbox, got>>
    BY FetchFacts DEF PlaceInv, Fetch
<1>2. PICK n \in 1 .. Len(pool[1].data) :
         batch'.reqs = SubSeq(pool[1].data, 1, n) /\ pool' = Remaining(pool, n)
    BY FetchFacts DEF PlaceInv
<1>3. 1 \in 1 .. Len(pool)
    BY <1>1, LenProperties, EmptySeq
<1>4. pool[1].data \in Seq(Requests) /\ Distinct(pool[1].data) /\ Len(pool[1].data) \in Nat
    BY <1>1, <1>3, GroupFacts DEF PoolOk
<1>5. Len(batch'.reqs) = n /\ \A i \in 1 .. n : batch'.reqs[i] = pool[1].data[i]
    BY <1>2, <1>4, Slices
<1>6. \A r : InBatch(r)' <=> \E i \in 1 .. n : pool[1].data[i] = r
    BY <1>5 DEF InBatch
<1>7. \A r : In(pool, r)' <=> In(pool, r) /\ ~InBatch(r)'
    <2>1. \A q : In(Remaining(pool, n), q) <=> In(pool, q) /\ ~\E i \in 1 .. n : pool[1].data[i] = q
        BY <1>1, RemainingFacts
    <2>2. \A q : In(Remaining(pool, n), q) <=> In(pool, q) /\ ~InBatch(q)'
        BY <2>1, <1>6
    <2>3. pool' = Remaining(pool, n)
        BY <1>2
    <2> QED BY <2>2, <2>3 DEF In
<1>8. \A r : ~InBatch(r)
    <2>1. batch.reqs = <<>>
        BY DEF Fetch, NoBatch
    <2> QED BY <2>1 DEF InBatch
<1>9. ASSUME NEW r \in Requests
      PROVE  AnswerTo(r)'
    <2>1. CASE InBatch(r)'
        <3>1. PICK i \in 1 .. n : pool[1].data[i] = r
            BY <2>1, <1>6
        <3>2. i \in 1 .. Len(pool[1].data)
            BY <1>4
        <3>3. In(pool, r)
            BY <3>1, <3>2, <1>3 DEF In
        <3>4. status[r] \in {"put", "waiting"} /\ inbox[r] = <<>> /\ got[r] = <<>>
            BY <3>3 DEF PlaceInv, Placed
        <3>5. ResultsOf(<<>>, Len(<<>>), r)
            BY DEF ResultsOf
        <3> QED BY <2>1, <3>4, <3>5, <1>1 DEF AnswerTo, Sent
    <2>2. CASE ~InBatch(r)'
        <3>1. Sent(r)' <=> Sent(r)
            BY <2>2, <1>1, <1>7, <1>8 DEF Sent, InQueue
        <3> QED BY <3>1, <2>2, <1>1, <1>8, AnswerKept
    <2> QED BY <2>1, <2>2
<1> QED BY <1>9

\* A row brings every request of the batch a result that was made for it.
LEMMA AnswerSend ==
    ASSUME Types, BatchInv, PlaceInv, RowInv, NotMixed, \A r \in Requests : AnswerTo(r), Send
    PROVE  \A r \in Requests : AnswerTo(r)'
<1>1. /\ batch.phase \in RowPhases /\ Len(batch.row) = Len(batch.reqs)
      /\ \A i \in 1 .. Len(batch.reqs) : batch.row[i] \in ResultOf(batch.reqs[i])
      /\ batch.phase = "full" => batch' = NoBatch /\ ~Streaming
      /\ batch.phase # "full" => batch'.reqs = batch.reqs /\ Streaming
      /\ batch.phase = "text" => batch'.phase = "streaming"
      /\ batch.phase = "final" => batch'.phase = "ending"
    BY SendFacts
<1>2. Deliver(batch.row) /\ UNCHANGED <<conf, status, queue, pool, got>>
    BY DEF Send
<1>3. /\ \A i \in 1 .. Len(batch.reqs) : inbox'[batch.reqs[i]] = Append(inbox[batch.reqs[i]], batch.row[i])
      /\ \A r \in Requests : ~InBatch(r) => inbox'[r] = inbox[r]
    BY <1>1, <1>2, BatchFacts, DeliverFacts DEF PlaceInv
<1>4. \A r : InBatch(r)' <=> InBatch(r) /\ batch.phase # "full"
    <2>1. NoBatch.reqs = <<>>
        BY DEF NoBatch
    <2> QED BY <2>1, <1>1 DEF InBatch
<1>5. ASSUME NEW r \in Requests, ~InBatch(r)
      PROVE  AnswerTo(r)'
    <2>1. inbox'[r] = inbox[r] /\ ~InBatch(r)'
        BY <1>3, <1>4, <1>5
    <2>2. Sent(r)' <=> Sent(r)
        BY <2>1, <1>2, <1>5 DEF Sent, InQueue, In
    <2> QED BY <2>1, <2>2, <1>2, <1>5, AnswerKept
<1>6. ASSUME NEW r \in Requests, InBatch(r)
      PROVE  AnswerTo(r)'
    <2>1. PICK i \in 1 .. Len(batch.reqs) : batch.reqs[i] = r
        BY <1>6 DEF InBatch
    <2>2. PICK s \in Seq(Item), g \in Seq(Item), x \in Item : s = inbox[r] /\ g = got[r] /\ x = batch.row[i]
        BY <1>1, <2>1 DEF Types, ResultOf, End, Item, Kinds
    <2>3. x \in ResultOf(r) /\ x \in Item /\ inbox'[r] = Append(s, x) /\ got'[r] = g
        BY <2>1, <2>2, <1>1, <1>2, <1>3 DEF ResultOf, End, Item, Kinds
    <2>4. x.kind # None => x.of = r
        BY <2>3 DEF ResultOf, End
    <2>5. /\ status'[r] \in {"put", "waiting"}
          /\ IsStream(r) <=> Streaming
        BY <1>2, <1>6, BatchStreams DEF AnswerTo
    <2>6. /\ ResultsOf(g, Len(g), r) /\ ResultsOf(s, Len(s), r)
          /\ ~IsStream(r) => g = <<>> /\ s = <<>>
        BY <2>2, <1>6 DEF AnswerTo
    <2>7. IsStream(r)' <=> IsStream(r)
        BY <1>2 DEF IsStream
    <2>8. i \in 1 .. Len(batch.row)
        BY <2>1, <1>1
    <2>9. CASE batch.phase = "full"
        <3>1. x.kind \in {"full", "error"}
            BY <2>2, <2>8, <2>9 DEF RowInv
        <3>2. Final(x, r)
            BY <3>1, <2>4 DEF Final, None
        <3>3. g = <<>> /\ s = <<>> /\ ~IsStream(r)'
            BY <2>5, <2>6, <2>7, <2>9, <1>1
        <3>4. Len(Append(<<>>, x)) = 1 /\ Append(<<>>, x)[1] = x
            OBVIOUS
        <3>5. ~InBatch(r)'
            BY <2>9, <1>4
        <3>6. got'[r] = <<>> /\ Len(inbox'[r]) = 1 /\ Final(inbox'[r][1], r)
            BY <3>2, <3>3, <3>4, <2>3
        <3> QED BY <3>3, <3>5, <3>6, <2>5 DEF AnswerTo
    <2>10. CASE batch.phase # "full"
        <3>1. InBatch(r)' /\ IsStream(r)' /\ ~Sent(r)'
            BY <2>10, <2>5, <2>7, <1>1, <1>4, <1>6 DEF Sent
        <3>2. batch.phase \in {"text", "final"}
            BY <2>10, <1>1 DEF RowPhases
        <3>3. x.kind # None /\ (batch.phase = "final" => Final(x, r))
            <4>1. CASE batch.phase = "text"
                BY <4>1, <2>2, <2>8 DEF RowInv
            <4>2. CASE batch.phase = "final"
                <5>1. x.kind \in {"final", "error"}
                    BY <4>2, <2>2, <2>8 DEF RowInv
                <5> QED BY <5>1, <2>4 DEF Final, None
            <4> QED BY <4>1, <4>2, <3>2
        <3>4. /\ Len(Append(s, x)) = Len(s) + 1 /\ Append(s, x)[Len(s) + 1] = x /\ Len(s) \in Nat
              /\ ResultsOf(Append(s, x), Len(s) + 1, r)
            BY <2>3, <2>4, <2>6, <3>3, AddResult
        <3>5. Final(x, r) => Closed(g, Append(s, x), Len(s) + 1, r)
            BY <3>4 DEF Closed
        <3>6. /\ ResultsOf(got'[r], Len(got'[r]), r) /\ ResultsOf(inbox'[r], Len(inbox'[r]), r)
              /\ batch.phase = "final" => Closed(got'[r], inbox'[r], Len(inbox'[r]), r)
            BY <2>3, <2>6, <3>3, <3>4, <3>5
        <3>7. batch'.phase = "ending" => batch.phase = "final"
            BY <3>2, <1>1
        <3> QED BY <3>1, <3>6, <3>7, <2>5 DEF AnswerTo
    <2> QED BY <2>9, <2>10
<1> QED BY <1>5, <1>6

\* The None at the end of a stream comes after its last result.
LEMMA AnswerEndStream ==
    ASSUME Types, BatchInv, PlaceInv, \A r \in Requests : AnswerTo(r), EndStream
    PROVE  \A r \in Requests : AnswerTo(r)'
<1>1. /\ batch.phase = "ending" /\ batch' = NoBatch /\ Streaming
      /\ UNCHANGED <<conf, status, queue, pool, got>>
    BY DEF EndStream, BatchInv
<1>2. PICK row \in Seq(Item) : /\ Deliver(row) /\ Len(row) = Len(batch.reqs)
                               /\ \A i \in 1 .. Len(batch.reqs) : row[i] = End
    BY EndStreamFacts
<1>3. /\ \A i \in 1 .. Len(batch.reqs) : inbox'[batch.reqs[i]] = Append(inbox[batch.reqs[i]], row[i])
      /\ \A r \in Requests : ~InBatch(r) => inbox'[r] = inbox[r]
    BY <1>2, DeliverFacts DEF PlaceInv
<1>4. \A r : ~InBatch(r)'
    <2>1. batch'.reqs = <<>>
        BY <1>1 DEF NoBatch
    <2> QED BY <2>1 DEF InBatch
<1>5. ASSUME NEW r \in Requests, ~InBatch(r)
      PROVE  AnswerTo(r)'
    <2>1. inbox'[r] = inbox[r]
        BY <1>3, <1>5
    <2>2. Sent(r)' <=> Sent(r)
        BY <1>1, <1>4, <1>5 DEF Sent, InQueue, In
    <2> QED BY <2>1, <2>2, <1>1, <1>4, <1>5, AnswerKept
<1>6. ASSUME NEW r \in Requests, InBatch(r)
      PROVE  AnswerTo(r)'
    <2>1. PICK i \in 1 .. Len(batch.reqs) : batch.reqs[i] = r
        BY <1>6 DEF InBatch
    <2>2. PICK s \in Seq(Item), g \in Seq(Item) : s = inbox[r] /\ g = got[r]
        BY DEF Types
    <2>3. inbox'[r] = Append(s, End) /\ got'[r] = g
        BY <2>1, <2>2, <1>1, <1>2, <1>3
    <2>4. /\ status'[r] \in {"put", "waiting"} /\ IsStream(r)
          /\ ResultsOf(g, Len(g), r) /\ ResultsOf(s, Len(s), r) /\ Closed(g, s, Len(s), r)
        BY <2>2, <1>1, <1>6, BatchStreams DEF AnswerTo
    <2>5. End \in Item
        BY DEF End, Item, Kinds
    <2>6. PICK t : t = Append(s, End)
        OBVIOUS
    <2>7. /\ Len(t) = Len(s) + 1 /\ t[Len(s) + 1] = End /\ t # <<>> /\ Len(s) \in Nat
          /\ ResultsOf(t, Len(s), r) /\ Closed(g, t, Len(s), r)
        BY <2>4, <2>5, <2>6, AddResult
    <2>8. /\ inbox'[r] # <<>> /\ inbox'[r][Len(inbox'[r])] = End
          /\ ResultsOf(got'[r], Len(got'[r]), r) /\ ResultsOf(inbox'[r], Len(inbox'[r]) - 1, r)
          /\ Closed(got'[r], inbox'[r], Len(inbox'[r]) - 1, r)
        <3>1. Len(t) - 1 = Len(s)
            BY <2>7
        <3>2. t[Len(t)] = End /\ ResultsOf(t, Len(t) - 1, r) /\ Closed(g, t, Len(t) - 1, r)
            BY ONLY <3>1, <2>7
        <3> QED BY <3>2, <2>3, <2>4, <2>6, <2>7
    <2>9. IsStream(r)'
        BY <2>4, <1>1 DEF IsStream
    <2> QED BY <2>4, <2>8, <2>9, <1>4 DEF AnswerTo
<1> QED BY <1>5, <1>6

LEMMA AnswerNext ==
    ASSUME Types, BatchInv, PlaceInv, AnswerInv, [Next]_vars
    PROVE  AnswerInv'
<1>1. RowInv'
    <2>1. RowInv
        BY DEF AnswerInv
    <2> QED BY <2>1, RowNext
<1>2. conf' = conf
    <2>1. CASE \E r \in Requests : Put(r) \/ Start(r) \/ Take(r) \/ Renew(r)
        BY <2>1 DEF Put, Start, Take, Renew
    <2>2. CASE Drain \/ Fetch \/ Raise \/ UNCHANGED vars
        BY <2>2 DEF Drain, Fetch, Raise, Die, vars
    <2>3. CASE Infer
        BY <2>3 DEF Infer, Encode, InferFull, StreamRow, LastRow, Generate, AddError, Send, EndStream
    <2> QED BY <2>1, <2>2, <2>3 DEF Next, Worker
<1>3. ASSUME NotMixed
      PROVE  \A r \in Requests : AnswerTo(r)'
    <2>1. RowInv /\ \A r \in Requests : AnswerTo(r)
        BY <1>3 DEF AnswerInv
    <2>2. CASE \E r \in Requests : Put(r) \/ Start(r) \/ Take(r) \/ Renew(r)
        BY <2>1, <2>2, AnswerCaller
    <2>3. CASE UNCHANGED vars \/ Drain \/ Encode \/ InferFull \/ StreamRow \/ LastRow \/ AddError \/ Raise
        BY <2>1, <2>3, AnswerWork
    <2>4. CASE Fetch
        BY <2>1, <2>4, AnswerFetch
    <2>5. CASE Send
        BY <2>1, <2>5, <1>3, AnswerSend
    <2>6. CASE EndStream
        BY <2>1, <2>6, AnswerEndStream
    <2> QED BY <2>2, <2>3, <2>4, <2>5, <2>6 DEF Next, Worker, Infer
<1> QED BY <1>1, <1>2, <1>3 DEF AnswerInv, NotMixed

LEMMA AnswerInit ==
    ASSUME Init
    PROVE  AnswerInv
<1>1. batch.phase = "empty" /\ queue = <<>> /\ batch.reqs = <<>>
    BY DEF Init, NoBatch
<1>2. RowInv
    BY <1>1 DEF RowInv
<1>3. ASSUME NEW r \in Requests PROVE AnswerTo(r)
    <2>1. status[r] = "new" /\ ~InBatch(r)
        BY <1>1 DEF Init, InBatch
    <2> QED BY <2>1 DEF AnswerTo, Sent
<1> QED BY <1>2, <1>3 DEF AnswerInv

-----------------------------------------------------------------------------
(* The engine is an AnswerService.                                         *)

AnswersInv == EngineInv /\ AnswerInv /\ NotMixed

LEMMA Answers ==
    ASSUME \A c \in Settings : c.streams = {} \/ c.maxBatch = 1
    PROVE  Spec => []AnswersInv
<1>1. EngineInv => NotMixed
    BY DEF EngineInv, Types, NotMixed
<1>2. Init => EngineInv /\ AnswerInv
    BY TypesInit, PlaceInit, AnswerInit DEF EngineInv
<1>3. EngineInv /\ AnswerInv /\ [Next]_vars => EngineInv' /\ AnswerInv'
    BY TypesNext, PlaceNext, AnswerNext DEF EngineInv
<1> QED BY <1>1, <1>2, <1>3, PTL DEF Spec, AnswersInv

StageIs ==
    /\ Stage = [r \in Requests |-> Stage[r]]
    /\ \A r \in Requests :
         /\ status[r] = "new" => Stage[r] = "new"
         /\ status[r] \in {"put", "waiting"} => Stage[r] = "asked"
         /\ status[r] = "done" => Stage[r] \in {"answered", "failed"}

LEMMA StageFacts ==
    ASSUME AnswersInv
    PROVE  StageIs
<1>1. Types /\ \A r \in Requests : AnswerTo(r)
    BY DEF AnswersInv, EngineInv, AnswerInv
<1>2. Stage = [r \in Requests |-> Stage[r]]
    BY DEF Stage
<1>3. ASSUME NEW r \in Requests
      PROVE  /\ status[r] = "new" => Stage[r] = "new"
             /\ status[r] \in {"put", "waiting"} => Stage[r] = "asked"
    BY DEF Stage
<1>4. ASSUME NEW r \in Requests, status[r] = "done"
      PROVE  Stage[r] \in {"answered", "failed"}
    <2>1. PICK g \in Seq(Item) : g = got[r]
        BY <1>1 DEF Types
    <2>2. g # <<>> /\ ResultsOf(g, Len(g), r) /\ Final(g[Len(g)], r)
        BY <2>1, <1>1, <1>4 DEF AnswerTo
    <2>3. ~(\E i \in DOMAIN g : g[i].of # r)
        <3>1. DOMAIN g = 1 .. Len(g)
            BY LenProperties
        <3> QED BY <3>1, <2>2 DEF ResultsOf
    <2>4. Last(g).kind \in {"full", "final", "error"}
        BY <2>2 DEF Last, Final
    <2>5. Outcome(r) \in {"answered", "failed"}
        BY <2>1, <2>2, <2>3, <2>4 DEF Outcome
    <2>6. Stage[r] = Outcome(r)
        BY <1>4 DEF Stage
    <2> QED BY <2>5, <2>6
<1> QED BY <1>2, <1>3, <1>4 DEF StageIs

LEMMA StageFactsNext == AnswersInv' => StageIs'
BY StageFacts, PTL

\* A request moves from one stage to another, or the step is not seen at all.
LEMMA EngineOneMove ==
    ASSUME AnswersInv, AnswersInv', NEW r0 \in Requests, Put(r0) \/ Start(r0) \/ Take(r0) \/ Renew(r0)
    PROVE  [Service!Next]_Stage
<1>1. Types /\ Types' /\ StageIs /\ StageIs'
    BY StageFacts, StageFactsNext DEF AnswersInv, EngineInv
<1>2. \A r \in Requests \ {r0} : Stage'[r] = Stage[r]
    <2>1. ASSUME NEW r \in Requests \ {r0}
          PROVE  status'[r] = status[r] /\ got'[r] = got[r]
        BY <1>1 DEF Types, Put, Start, Take, Renew
    <2> QED BY <2>1 DEF Stage, Outcome
<1>3. ASSUME NEW y, Stage'[r0] = y
      PROVE  Stage' = [Stage EXCEPT ![r0] = y]
    BY <1>1, <1>2, <1>3 DEF StageIs
<1>4. ASSUME Stage'[r0] = Stage[r0]
      PROVE  Stage' = Stage
    BY <1>1, <1>2, <1>4 DEF StageIs
<1>5. CASE Put(r0)
    <2>1. Stage[r0] = "new" /\ Stage'[r0] = "asked"
        BY <1>1, <1>5 DEF Types, StageIs, Put
    <2>2. Service!Ask(r0)
        BY <1>3, <2>1 DEF Service!Ask
    <2> QED BY <2>2 DEF Service!Next
<1>6. CASE Start(r0)
    <2>1. Stage[r0] = "asked" /\ Stage'[r0] = "asked"
        BY <1>1, <1>6 DEF Types, StageIs, Start
    <2> QED BY <2>1, <1>4
<1>7. CASE Take(r0)
    <2>1. Stage[r0] = "asked" /\ status'[r0] \in {"waiting", "done"}
        BY <1>1, <1>7 DEF Types, StageIs, Take
    <2>2. CASE status'[r0] = "waiting"
        <3>1. Stage'[r0] = "asked"
            BY <1>1, <2>2 DEF StageIs
        <3> QED BY <3>1, <2>1, <1>4
    <2>3. CASE status'[r0] = "done"
        <3>1. PICK y \in {"answered", "failed"} : Stage'[r0] = y
            BY <1>1, <2>3 DEF StageIs
        <3>2. PICK outcome : outcome = [r \in {r0} |-> y]
            OBVIOUS
        <3>3. outcome \in [{r0} -> {"answered", "failed"}] /\ outcome[r0] = y
            BY <3>2
        <3>4. Stage' = [r \in Requests |-> IF r \in {r0} THEN outcome[r] ELSE Stage[r]]
            BY <1>1, <1>2, <3>1, <3>3 DEF StageIs
        <3>5. Service!Answer({r0})
            BY <2>1, <3>3, <3>4 DEF Service!Answer
        <3> QED BY <3>5 DEF Service!Next
    <2> QED BY <2>1, <2>2, <2>3
<1>8. CASE Renew(r0)
    <2>1. Stage[r0] \in {"answered", "failed"} /\ Stage'[r0] = "new"
        BY <1>1, <1>8 DEF Types, StageIs, Renew
    <2>2. Service!Renew(r0)
        BY <1>3, <2>1 DEF Service!Renew
    <2> QED BY <2>2 DEF Service!Next
<1> QED BY <1>5, <1>6, <1>7, <1>8

\* Where streams are not batched, the queue, the pool, the batches, the errors and the
\* streams are together the AnswerService: ImplementsAnswers.  (Batched streams are not:
\* a row that has no text for a request ends its stream.)
THEOREM EngineImplements ==
    ASSUME \A c \in Settings : c.streams = {} \/ c.maxBatch = 1
    PROVE  Spec => ImplementsAnswers
<1>1. Init => Service!Init
    BY DEF Init, Stage, Service!Init
<1>2. AnswersInv /\ AnswersInv' /\ [Next]_vars => [Service!Next]_Stage
    <2> SUFFICES ASSUME AnswersInv, AnswersInv', [Next]_vars PROVE [Service!Next]_Stage
        OBVIOUS
    <2>1. CASE \E r \in Requests : Put(r) \/ Start(r) \/ Take(r) \/ Renew(r)
        BY <2>1, EngineOneMove
    <2>2. CASE UNCHANGED vars \/ Worker \/ Raise
        <3>1. UNCHANGED <<status, got>>
            BY <2>2 DEF vars, Worker, Infer, Drain, Fetch, Encode, InferFull, StreamRow, LastRow,
                        Generate, AddError, Send, EndStream, Raise, Die
        <3>2. Stage' = Stage
            BY <3>1 DEF Stage, Outcome
        <3> QED BY <3>2
    <2> QED BY <2>1, <2>2 DEF Next
<1> QED BY Answers, <1>1, <1>2, PTL DEF Spec, ImplementsAnswers, Service!Spec

===============================================================================
