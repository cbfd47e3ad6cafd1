----------------------------- MODULE SamplingProofs -----------------------------
(***************************************************************************)
(* What is proved about swift sample, for every data set, every way to cut *)
(* it into pieces and batches, every mix of cached, sent and failed        *)
(* choices, and every number of crashes and restarts:                      *)
(*   - every row of every file is an answer to its own sample;             *)
(*   - an output file has the rows of every batch of its piece, each once  *)
(*     and at most once more for every time the process was killed, and    *)
(*     together the pieces leave less than one batch each aside.           *)
(*                                                                         *)
(* The first part is a fact about what a batch generates (ChoicesFacts,    *)
(* SampleFacts) that every step keeps.  The second rests on FilesInv: what *)
(* each file of a process holds at each of its steps, and what a process   *)
(* that is started again finds of the one before it.                       *)
(***************************************************************************)
EXTENDS Sampling, SequenceFacts

-----------------------------------------------------------------------------
(* The samples of a batch.                                                 *)

\* The numbers of a setting.
LEMMA ConfFacts ==
    ASSUME conf \in Setting
    PROVE  /\ conf.samples \in Nat /\ conf.pieces \in Nat \ {0} /\ conf.size \in Nat \ {0}
           /\ conf.limit \in Nat \ {0} /\ conf.returns \in Nat \ {0}
           /\ conf.override \in BOOLEAN /\ conf.resumes \in BOOLEAN
           /\ PieceLen \in Nat /\ Batches \in Nat
           /\ conf.pieces * PieceLen <= conf.samples
           /\ conf.size * Batches <= PieceLen
<1>1. /\ conf.samples \in Nat /\ conf.pieces \in Nat \ {0} /\ conf.size \in Nat \ {0}
      /\ conf.limit \in Nat \ {0} /\ conf.returns \in Nat \ {0}
      /\ conf.override \in BOOLEAN /\ conf.resumes \in BOOLEAN
  BY DEF Setting
<1>2. /\ PieceLen \in Nat /\ conf.pieces * PieceLen <= conf.samples
  <2>1. PICK n \in Nat, d \in Nat \ {0} : n = conf.samples /\ d = conf.pieces
    BY <1>1
  <2>2. PICK q \in Nat, r \in Nat : q = n \div d /\ d * q + r = n
    <3>1. n \div d \in Nat /\ n % d \in 0 .. (d - 1) /\ d * (n \div d) + (n % d) = n
      BY DivMod
    <3>2. n % d \in Nat
      BY <3>1
    <3> QED
      BY ONLY <3>1, <3>2
  <2>3. d * q <= n
    <3>1. d * q \in Nat
      OBVIOUS
    <3> QED
      BY <2>2, <3>1
  <2> QED
    BY <2>1, <2>2, <2>3 DEF PieceLen
<1>3. Batches \in Nat /\ conf.size * Batches <= PieceLen
  <2>1. PICK n \in Nat, d \in Nat \ {0}, l \in Nat : n = PieceLen /\ d = conf.size /\ l = conf.limit
    BY <1>1, <1>2
  <2>2. PICK q \in Nat, r \in Nat : q = n \div d /\ d * q + r = n
    <3>1. n \div d \in Nat /\ n % d \in 0 .. (d - 1) /\ d * (n \div d) + (n % d) = n
      BY DivMod
    <3>2. n % d \in Nat
      BY <3>1
    <3> QED
      BY ONLY <3>1, <3>2
  <2>3. PICK z \in Nat : z = Batches /\ z <= q
    BY <2>1, <2>2 DEF Batches, Least
  <2>4. d * z <= d * q
    BY <2>3, Monotone
  <2>5. d * z <= n
    <3>1. d * q \in Nat /\ d * z \in Nat
      OBVIOUS
    <3> QED
      BY <2>2, <2>4, <3>1
  <2> QED
    BY <2>1, <2>3, <2>5
<1> QED
  BY <1>1, <1>2, <1>3

\* The sample in a place of a batch.
At(p, b, i) == PieceLen * (p - 1) + conf.size * b + i

LEMMA BatchFacts ==
    ASSUME conf \in Setting, NEW p \in Pieces, NEW b \in 0 .. (Batches - 1)
    PROVE  /\ Batch(p, b) \in Seq(1 .. conf.samples)
           /\ Len(Batch(p, b)) = conf.size
           /\ \A i \in 1 .. conf.size : Batch(p, b)[i] = At(p, b, i)
<1>1. PICK n \in Nat, z \in Nat, d \in Nat \ {0}, len \in Nat, k \in Nat \ {0} :
          /\ n = conf.samples /\ z = Batches /\ d = conf.size /\ len = PieceLen
          /\ k = conf.pieces /\ k * len <= n /\ d * z <= len
  BY ConfFacts
<1>2. p \in 1 .. k /\ p - 1 \in Nat
  BY <1>1 DEF Pieces
<1>3. PICK lo \in Nat, base \in Nat : lo = d * b /\ base = len * (p - 1)
  <2>1. b \in Nat
    BY <1>1
  <2>2. d * b \in Nat /\ len * (p - 1) \in Nat
    BY <1>2, <2>1
  <2> QED
    BY <2>2
<1>4. lo + d <= len
  <2>1. b \in Nat /\ b + 1 <= z
    BY <1>1
  <2>2. d * (b + 1) <= d * z /\ d * (b + 1) = d * b + d /\ d * z \in Nat
    BY <2>1, Monotone
  <2> QED
    BY <1>1, <1>3, <2>2
<1>5. base + len <= n
  <2>1. p \in Nat /\ p <= k
    BY <1>2
  <2>2. len * p <= len * k /\ len * p = len * (p - 1) + len /\ len * k = k * len
        /\ len * k \in Nat /\ len * p \in Nat
    BY <2>1, Monotone
  <2> QED
    BY <1>1, <1>3, <2>2
<1>6. PICK s \in Seq(1 .. n) : s = Piece(p) /\ Len(s) = len
                              /\ \A i \in 1 .. len : s[i] = base + i /\ s[i] \in 1 .. n
  <2>1. Piece(p) = [i \in 1 .. len |-> base + i]
    BY <1>1, <1>3 DEF Piece
  <2>2. \A i \in 1 .. len : base + i \in 1 .. n
    BY <1>5
  <2>3. PICK s : s = [i \in 1 .. len |-> base + i]
    OBVIOUS
  <2>4. s \in [1 .. len -> 1 .. n]
    BY <2>2, <2>3
  <2>5. s \in Seq(1 .. n) /\ Len(s) = len
    BY <2>4
  <2>6. \A i \in 1 .. len : s[i] = base + i
    BY <2>3
  <2> QED
    BY <2>1, <2>2, <2>3, <2>5, <2>6
<1>7. Batch(p, b) = SubSeq(s, lo + 1, lo + d)
  <2>1. b \in Nat /\ d * (b + 1) = d * b + d
    <3>1. b \in Nat
      BY <1>1
    <3> QED
      BY <3>1
  <2> QED
    BY <1>1, <1>3, <1>6, <2>1 DEF Batch
<1>8. PICK t : t = SubSeq(s, lo + 1, lo + d) /\ t \in Seq(1 .. n) /\ Len(t) = d
               /\ \A i \in 1 .. d : t[i] = s[lo + i]
  <2>1. PICK u \in Int, v \in Int : u = lo + 1 /\ v = lo + d
    OBVIOUS
  <2>2. \A i \in u .. v : s[i] \in 1 .. n
    <3>1. \A i \in u .. v : i \in 1 .. len
      BY <1>4, <2>1
    <3> QED
      BY <1>6, <3>1
  <2>3. /\ SubSeq(s, u, v) \in Seq(1 .. n)
        /\ Len(SubSeq(s, u, v)) = IF u <= v THEN v - u + 1 ELSE 0
        /\ \A i \in 1 .. v - u + 1 : SubSeq(s, u, v)[i] = s[u + i - 1]
    BY ONLY <2>2, SubSeqProperties, u \in Int, v \in Int
  <2>4. u <= v /\ v - u + 1 = d /\ \A i \in 1 .. d : u + i - 1 = lo + i
    BY <2>1
  <2>5. \A i \in 1 .. d : SubSeq(s, u, v)[i] = s[lo + i]
    BY <2>3, <2>4
  <2>6. PICK t : t = SubSeq(s, u, v)
    OBVIOUS
  <2>7. t \in Seq(1 .. n) /\ Len(t) = d
    BY <2>3, <2>4, <2>6
  <2> QED
    BY ONLY <2>1, <2>5, <2>6, <2>7
<1>9. \A i \in 1 .. d : t[i] = base + lo + i
  <2> TAKE i \in 1 .. d
  <2>1. lo + i \in 1 .. len
    BY <1>4
  <2>2. s[lo + i] = base + (lo + i)
    BY <1>6, <2>1
  <2> QED
    BY <1>8, <2>2
<1>10. Batch(p, b) = t
  BY <1>7, <1>8
<1> QED
  BY <1>1, <1>3, <1>8, <1>9, <1>10 DEF At

-----------------------------------------------------------------------------
(* The choices of a row are answers to its own sample.                     *)

LEMMA AskedAt ==
    ASSUME conf \in Setting, NEW batch \in Seq(1 .. conf.samples), NEW i \in 1 .. Len(batch),
           ~IsCached(batch[i])
    PROVE  /\ Asked(batch) \in Seq(1 .. conf.samples) /\ Cur(batch, i) \in Nat
           /\ Cur(batch, i) + 1 \in 1 .. Len(Asked(batch))
           /\ Asked(batch)[Cur(batch, i) + 1] = batch[i]
<1>1. PICK T, C : T = 1 .. conf.samples /\ C = {s \in 1 .. conf.samples : IsCached(s)}
  OBVIOUS
<1>2. Asked(batch) = Without(batch, C)
  BY <1>1 DEF Asked
<1>3. PICK n \in Nat : n = Len(batch)
  OBVIOUS
<1>4. \A k \in 1 .. n : batch[k] \in T /\ (batch[k] \notin C <=> ~IsCached(batch[k]))
  <2> TAKE k \in 1 .. n
  <2>1. batch[k] \in T
    BY <1>1, <1>3, ElementIn
  <2>2. C = {s \in T : IsCached(s)}
    BY <1>1
  <2> QED
    BY <2>1, <2>2
<1>5. i \in 1 .. n /\ \A k \in 1 .. i - 1 : k \in 1 .. n
  BY <1>3
<1>6. PICK K : K = {k \in 1 .. (i - 1) : batch[k] \notin C}
  OBVIOUS
<1>7. Cur(batch, i) = Cardinality(K)
  <2>1. K = {k \in 1 .. i - 1 : ~IsCached(batch[k])}
    BY <1>4, <1>5, <1>6
  <2> QED
    BY <2>1 DEF Cur
<1>8. Cardinality(K) \in Nat
  <2>1. K \subseteq 1 .. (i - 1) /\ i - 1 \in Int
    BY <1>5, <1>6
  <2>2. IsFiniteSet(1 .. (i - 1))
    BY <2>1, FS_Interval
  <2> QED
    BY <2>1, <2>2, FS_Subset, FS_CardinalityType
<1>9. batch[i] \notin C
  BY <1>4, <1>5
<1>10. /\ Cardinality(K) + 1 \in 1 .. Len(Without(batch, C))
       /\ Without(batch, C)[Cardinality(K) + 1] = batch[i]
  <2>1. batch \in Seq(T)
    BY <1>1
  <2> QED
    BY <1>6, <1>8, <1>9, <2>1, WithoutAt
<1>11. Without(batch, C) \in Seq(1 .. conf.samples)
  BY WithoutType
<1> QED
  BY <1>2, <1>7, <1>8, <1>10, <1>11

\* The num_return_sequences choices of a sample, in order.
AllOf(t, x) ==
    /\ t \in Seq(Nat \X Nat)
    /\ Len(t) = conf.returns
    /\ \A k \in 1 .. conf.returns : t[k] = <<x, k>>

LEMMA SentChoices ==
    ASSUME conf \in Setting, NEW batch \in Seq(1 .. conf.samples), NEW i \in 1 .. Len(batch),
           ~IsCached(batch[i])
    PROVE  AllOf(SubSeq(RespList(batch), conf.returns * Cur(batch, i) + 1,
                                         conf.returns * (Cur(batch, i) + 1)), batch[i])
<1>1. PICK r \in Nat \ {0} : r = conf.returns
  BY ConfFacts
<1>2. PICK asked \in Seq(1 .. conf.samples), cur \in Nat :
          /\ asked = Asked(batch) /\ cur = Cur(batch, i) /\ asked[cur + 1] = batch[i]
          /\ cur + 1 \in 1 .. Len(asked)
  BY AskedAt
<1>3. PICK n \in Nat : n = Len(asked) /\ cur + 1 <= n
  BY <1>2
<1>4. PICK lo \in Nat, all \in Nat : lo = r * cur /\ all = r * n
  <2>1. r * cur \in Nat /\ r * n \in Nat
    OBVIOUS
  <2> QED
    BY <2>1
<1>5. r * (cur + 1) = lo + r /\ lo + r <= all
  <2>1. r * (cur + 1) <= r * n /\ r * (cur + 1) = r * cur + r
    BY <1>3, Monotone
  <2> QED
    BY <1>4, <2>1
<1>6. PICK list : list = RespList(batch)
  OBVIOUS
<1>7. list = [j \in 1 .. all |-> <<asked[((j - 1) \div r) + 1], ((j - 1) % r) + 1>>]
  BY <1>1, <1>2, <1>3, <1>4, <1>6 DEF RespList
<1>8. PICK x \in Nat : x = batch[i]
  <2>1. batch[i] \in 1 .. conf.samples
    BY ElementIn
  <2> QED
    BY <2>1, ConfFacts
<1>9. \A k \in 1 .. r : list[lo + k] = <<x, k>>
  <2> TAKE k \in 1 .. r
  <2>1. k - 1 \in 0 .. (r - 1) /\ lo + k \in 1 .. all /\ (lo + k) - 1 = r * cur + (k - 1)
    BY <1>4, <1>5
  <2>2. (r * cur + (k - 1)) \div r = cur /\ (r * cur + (k - 1)) % r = k - 1
    BY <2>1, Quotient
  <2>3. list[lo + k] = <<asked[(((lo + k) - 1) \div r) + 1], (((lo + k) - 1) % r) + 1>>
    BY <1>7, <2>1
  <2>4. list[lo + k] = <<asked[cur + 1], (k - 1) + 1>>
    BY <2>1, <2>2, <2>3
  <2>5. (k - 1) + 1 = k
    OBVIOUS
  <2> QED
    BY <1>2, <1>8, <2>4, <2>5
<1>10. PICK u \in Int, v \in Int : u = lo + 1 /\ v = lo + r
  OBVIOUS
<1>11. \A k \in u .. v : list[k] \in Nat \X Nat
  <2> TAKE k \in u .. v
  <2>1. PICK j \in 1 .. r : k = lo + j
    <3>1. k - lo \in 1 .. r /\ k = lo + (k - lo)
      BY <1>10
    <3> QED
      BY <3>1
  <2>2. list[k] = <<x, j>>
    BY <1>9, <2>1
  <2> QED
    BY <2>2
<1>12. /\ SubSeq(list, u, v) \in Seq(Nat \X Nat)
       /\ Len(SubSeq(list, u, v)) = IF u <= v THEN v - u + 1 ELSE 0
       /\ \A k \in 1 .. v - u + 1 : SubSeq(list, u, v)[k] = list[u + k - 1]
  BY ONLY <1>11, SubSeqProperties, u \in Int, v \in Int
<1>13. u <= v /\ v - u + 1 = r /\ \A k \in 1 .. r : u + k - 1 = lo + k
  BY <1>10
<1>14. Len(SubSeq(list, u, v)) = r /\ \A k \in 1 .. r : SubSeq(list, u, v)[k] = <<x, k>>
  BY <1>9, <1>12, <1>13
<1>15. AllOf(SubSeq(list, u, v), x)
  BY <1>1, <1>12, <1>14 DEF AllOf
<1>16. u = conf.returns * Cur(batch, i) + 1 /\ v = conf.returns * (Cur(batch, i) + 1)
  BY <1>1, <1>2, <1>4, <1>5, <1>10
<1> QED
  BY <1>6, <1>8, <1>15, <1>16

LEMMA CachedChoices ==
    ASSUME conf \in Setting, NEW x \in Nat
    PROVE  AllOf([k \in 1 .. conf.returns |-> <<x, k>>], x)
<1>1. PICK r \in Nat : r = conf.returns
  BY ConfFacts
<1>2. PICK t : t = [k \in 1 .. r |-> <<x, k>>]
  OBVIOUS
<1>3. t \in [1 .. r -> Nat \X Nat]
  BY <1>2
<1>4. t \in Seq(Nat \X Nat) /\ Len(t) = r
  BY <1>3
<1> QED
  BY <1>1, <1>2, <1>4 DEF AllOf

\* A row of a batch has choices of its own sample only, none of them twice, and
\* without failures it has one.
LEMMA ChoicesFacts ==
    ASSUME conf \in Setting, NEW batch \in Seq(1 .. conf.samples), NEW i \in 1 .. Len(batch)
    PROVE  /\ RowChoices(batch, i) \in Seq(Nat \X Nat)
           /\ OneToOne(RowChoices(batch, i))
           /\ \A c \in ToSet(RowChoices(batch, i)) : c[1] = batch[i]
           /\ conf.fails = {} => <<batch[i], 1>> \in ToSet(RowChoices(batch, i))
<1>1. PICK r \in Nat \ {0} : r = conf.returns
  BY ConfFacts
<1>2. PICK x \in Nat : x = batch[i]
  <2>1. batch[i] \in 1 .. conf.samples
    BY ElementIn
  <2> QED
    BY <2>1, ConfFacts
<1>3. ASSUME NEW t, AllOf(t, x)
      PROVE  /\ t \in Seq(Nat \X Nat) /\ OneToOne(t)
             /\ ToSet(t) = {<<x, k>> : k \in 1 .. r}
  <2>1. t \in Seq(Nat \X Nat) /\ Len(t) = r /\ \A k \in 1 .. r : t[k] = <<x, k>>
    BY <1>1, <1>3 DEF AllOf
  <2>2. OneToOne(t)
    BY <2>1 DEF OneToOne
  <2>3. ToSet(t) = {t[k] : k \in 1 .. r}
    BY <2>1, ElementsOf
  <2> QED
    BY <2>1, <2>2, <2>3
<1>4. <<x, 1>> \in {<<x, k>> : k \in 1 .. r}
  <2>1. 1 \in 1 .. r
    OBVIOUS
  <2> QED
    BY <2>1
<1>5. \A c \in {<<x, k>> : k \in 1 .. r} : c[1] = x
  OBVIOUS
<1>6. CASE IsCached(batch[i])
  <2>1. PICK t : t = [k \in 1 .. conf.returns |-> <<x, k>>]
    OBVIOUS
  <2>2. RowChoices(batch, i) = t
    BY <1>2, <1>6, <2>1 DEF RowChoices
  <2>3. AllOf(t, x)
    BY <2>1, CachedChoices
  <2> QED
    BY <1>2, <1>3, <1>4, <1>5, <2>2, <2>3
<1>7. CASE ~IsCached(batch[i])
  <2>1. PICK t : t = SubSeq(RespList(batch), conf.returns * Cur(batch, i) + 1,
                                             conf.returns * (Cur(batch, i) + 1))
    OBVIOUS
  <2>2. RowChoices(batch, i) = Without(t, conf.fails)
    BY <1>7, <2>1 DEF RowChoices
  <2>3. AllOf(t, x)
    BY <1>2, <1>7, <2>1, SentChoices
  <2>4. t \in Seq(Nat \X Nat) /\ OneToOne(t) /\ ToSet(t) = {<<x, k>> : k \in 1 .. r}
    BY <1>3, <2>3
  <2>5. /\ Without(t, conf.fails) \in Seq(Nat \X Nat)
        /\ OneToOne(Without(t, conf.fails))
        /\ ToSet(Without(t, conf.fails)) = ToSet(t) \ conf.fails
    BY <2>4, WithoutType, WithoutElements, WithoutOneToOne
  <2> QED
    BY <1>2, <1>4, <1>5, <2>2, <2>4, <2>5
<1> QED
  BY <1>6, <1>7

\* The rows whose answer was given to their own sample.
OwnRow == {row \in [sample : Nat, answer : Nat \X Nat] : row.sample = row.answer[1]}

\* The rows of a batch that are about its i-th sample.
RowsOf(batch, i) ==
    [c \in DOMAIN RowChoices(batch, i) |->
        [sample |-> batch[i], answer |-> RowChoices(batch, i)[c]]]

LEMMA RowsFacts ==
    ASSUME conf \in Setting, NEW batch \in Seq(1 .. conf.samples), NEW i \in 1 .. Len(batch)
    PROVE  /\ RowsOf(batch, i) \in Seq(OwnRow)
           /\ OneToOne(RowsOf(batch, i))
           /\ \A row \in ToSet(RowsOf(batch, i)) : row.sample = batch[i]
           /\ conf.fails = {} => \E row \in ToSet(RowsOf(batch, i)) : row.sample = batch[i]
<1>1. PICK x \in Nat : x = batch[i]
  <2>1. batch[i] \in 1 .. conf.samples
    BY ElementIn
  <2> QED
    BY <2>1, ConfFacts
<1>2. PICK t \in Seq(Nat \X Nat) :
          /\ t = RowChoices(batch, i) /\ OneToOne(t)
          /\ \A c \in ToSet(t) : c[1] = x
          /\ conf.fails = {} => <<x, 1>> \in ToSet(t)
  BY <1>1, ChoicesFacts
<1>3. PICK n \in Nat : n = Len(t)
  OBVIOUS
<1>4. DOMAIN t = 1 .. n /\ ToSet(t) = {t[k] : k \in 1 .. n}
  BY <1>3, ElementsOf
<1>5. PICK s : s = [c \in 1 .. n |-> [sample |-> x, answer |-> t[c]]]
  OBVIOUS
<1>6. RowsOf(batch, i) = s
  BY <1>1, <1>2, <1>4, <1>5 DEF RowsOf
<1>7. \A c \in 1 .. n : t[c] \in Nat \X Nat /\ t[c][1] = x
  <2> TAKE c \in 1 .. n
  <2>1. t[c] \in Nat \X Nat
    BY <1>3, ElementIn
  <2>2. t[c] \in ToSet(t)
    BY <1>4
  <2> QED
    BY <1>2, <2>1, <2>2
<1>8. \A c \in 1 .. n : [sample |-> x, answer |-> t[c]] \in OwnRow
  BY <1>7 DEF OwnRow
<1>9. s \in [1 .. n -> OwnRow]
  BY <1>5, <1>8
<1>10. s \in Seq(OwnRow) /\ Len(s) = n
  BY <1>9
<1>11. OneToOne(s)
  <2>1. \A j, k \in 1 .. n : t[j] = t[k] => j = k
    BY <1>2, <1>3 DEF OneToOne
  <2>2. \A j \in 1 .. n : s[j].answer = t[j]
    BY <1>5
  <2>3. \A j, k \in 1 .. n : s[j] = s[k] => j = k
    BY <2>1, <2>2
  <2> QED
    BY <1>10, <2>3 DEF OneToOne
<1>12. ToSet(s) = {s[k] : k \in 1 .. n}
  BY <1>10, ElementsOf
<1>13. \A k \in 1 .. n : s[k].sample = x
  BY <1>5
<1>14. conf.fails = {} => \E row \in ToSet(s) : row.sample = x
  <2> SUFFICES ASSUME conf.fails = {} PROVE \E row \in ToSet(s) : row.sample = x
    OBVIOUS
  <2>1. PICK k \in 1 .. n : t[k] = <<x, 1>>
    BY <1>2, <1>4
  <2> QED
    BY <1>12, <1>13, <2>1
<1> QED
  BY <1>1, <1>6, <1>10, <1>11, <1>12, <1>13, <1>14

\* do_sample makes rows of the samples of its batch only, each row once, and without
\* failures there is a row of every sample.
LEMMA SampleFacts ==
    ASSUME conf \in Setting, NEW batch \in Seq(1 .. conf.samples), OneToOne(batch)
    PROVE  /\ DoSample(batch) \in Seq(OwnRow)
           /\ OneToOne(DoSample(batch))
           /\ \A row \in ToSet(DoSample(batch)) : row.sample \in ToSet(batch)
           /\ conf.fails = {} =>
                  \A x \in ToSet(batch) : \E row \in ToSet(DoSample(batch)) : row.sample = x
<1>1. PICK n \in Nat : n = Len(batch)
  OBVIOUS
<1>2. DOMAIN batch = 1 .. n /\ ToSet(batch) = {batch[i] : i \in 1 .. n}
  BY <1>1, ElementsOf
<1>3. PICK s : s = [i \in 1 .. n |-> RowsOf(batch, i)]
  OBVIOUS
<1>4. \A i \in 1 .. n :
          /\ s[i] = RowsOf(batch, i)
          /\ s[i] \in Seq(OwnRow)
          /\ OneToOne(s[i])
          /\ \A row \in ToSet(s[i]) : row.sample = batch[i]
          /\ conf.fails = {} => \E row \in ToSet(s[i]) : row.sample = batch[i]
  <2> TAKE i \in 1 .. n
  <2>1. s[i] = RowsOf(batch, i)
    BY <1>3
  <2> QED
    BY <1>1, <2>1, RowsFacts
<1>5. s \in [1 .. n -> Seq(OwnRow)]
  BY <1>3, <1>4
<1>6. s \in Seq(Seq(OwnRow)) /\ Len(s) = n
  BY <1>5
<1>7. DoSample(batch) = Joined(s, n)
  BY <1>1, <1>2, <1>3 DEF DoSample, RowsOf
<1>8. DoSample(batch) = FlattenSeq(s)
  BY <1>6, <1>7, JoinedFlattens
<1>9. DoSample(batch) \in Seq(OwnRow)
  BY <1>6, <1>8, FlattenType
<1>10. ToSet(DoSample(batch)) = UNION {ToSet(s[i]) : i \in 1 .. n}
  BY <1>6, <1>8, FlattenElements DEF InPieces
<1>11. \A j, k \in 1 .. n : j # k => ToSet(s[j]) \cap ToSet(s[k]) = {}
  <2>1. \A j, k \in 1 .. n : j # k => batch[j] # batch[k]
    BY <1>1 DEF OneToOne
  <2> TAKE j, k \in 1 .. n
  <2> HAVE j # k
  <2> SUFFICES ASSUME NEW row, row \in ToSet(s[j]), row \in ToSet(s[k]) PROVE FALSE
    OBVIOUS
  <2>2. row.sample = batch[j] /\ row.sample = batch[k]
    BY <1>4
  <2> QED
    BY <2>1, <2>2
<1>12. OneToOne(DoSample(batch))
  BY <1>4, <1>6, <1>8, <1>11, FlattenOneToOne
<1> QED
  BY <1>2, <1>4, <1>9, <1>10, <1>12

-----------------------------------------------------------------------------
(* How often a row is in a list.                                           *)

\* What is cut off a list at its end leaves rows of the list, each as before.
LEMMA PrefixFacts ==
    ASSUME NEW S, NEW s \in Seq(S), NEW t \in Prefixes(s)
    PROVE  /\ t \in Seq(S)
           /\ ToSet(t) \subseteq ToSet(s)
           /\ OneToOne(s) => OneToOne(t)
<1>1. PICK n \in Nat : n = Len(s)
  OBVIOUS
<1>2. PICK l \in 0 .. n : t = SubSeq(s, 1, l)
  BY <1>1 DEF Prefixes
<1>3. \A i \in 1 .. l : i \in 1 .. n /\ s[i] \in S
  BY <1>1
<1>4. PICK u \in Int, v \in Int : u = 1 /\ v = l
  OBVIOUS
<1>5. \A i \in u .. v : s[i] \in S
  BY <1>3, <1>4
<1>6. /\ SubSeq(s, u, v) \in Seq(S)
      /\ Len(SubSeq(s, u, v)) = IF u <= v THEN v - u + 1 ELSE 0
      /\ \A i \in 1 .. v - u + 1 : SubSeq(s, u, v)[i] = s[u + i - 1]
  BY ONLY <1>5, SubSeqProperties, u \in Int, v \in Int
<1>7. t \in Seq(S) /\ Len(t) = l
  BY <1>2, <1>4, <1>6
<1>8. \A i \in 1 .. l : t[i] = s[i]
  <2>1. v - u + 1 = l /\ \A i \in 1 .. l : u + i - 1 = i
    BY <1>4
  <2> QED
    BY <1>2, <1>4, <1>6, <2>1
<1>9. ToSet(t) = {t[i] : i \in 1 .. l} /\ ToSet(s) = {s[i] : i \in 1 .. n}
  BY <1>1, <1>7, ElementsOf
<1>10. ToSet(t) \subseteq ToSet(s)
  BY <1>3, <1>8, <1>9
<1>11. OneToOne(s) => OneToOne(t)
  <2> SUFFICES ASSUME OneToOne(s) PROVE OneToOne(t)
    OBVIOUS
  <2>1. \A j, k \in 1 .. n : s[j] = s[k] => j = k
    BY <1>1 DEF OneToOne
  <2>2. \A j, k \in 1 .. l : t[j] = t[k] => j = k
    BY <1>3, <1>8, <2>1
  <2> QED
    BY <1>7, <2>2 DEF OneToOne
<1> QED
  BY <1>7, <1>10, <1>11

-----------------------------------------------------------------------------
(* The files of a piece: w[b] is what its batch b makes, N how many        *)
(* batches it has.                                                         *)

\* The batches make rows of their own samples, and none the row of another.
Plan(w, N) ==
    /\ N \in Nat
    /\ \A b \in 0 .. (N - 1) : w[b] \in Seq(OwnRow) /\ OneToOne(w[b])
    /\ \A b, c \in 0 .. (N - 1) : b # c => ToSet(w[b]) \cap ToSet(w[c]) = {}

\* A file has the rows of the first n batches, of others perhaps some, and a row at
\* most x times more than it must.
Has(w, N, rows, n, x) ==
    /\ rows \in Seq(OwnRow)
    /\ \A row \in ToSet(rows) : \E b \in 0 .. (N - 1) : row \in ToSet(w[b])
    /\ \A b \in 0 .. (N - 1) : b < n => ToSet(w[b]) \subseteq ToSet(rows)
    /\ \A b \in 0 .. (N - 1) : \A row \in ToSet(w[b]) :
           Times(row, rows) <= x + (IF b < n THEN 1 ELSE 0)

LEMMA HasEmpty ==
    ASSUME NEW w, NEW N, Plan(w, N), NEW x \in Nat
    PROVE  Has(w, N, <<>>, 0, x)
<1>1. PICK e \in Seq(OwnRow) : e = <<>>
  <2>1. <<>> \in Seq(OwnRow)
    BY EmptySeq
  <2> QED
    BY <2>1
<1>2. ToSet(e) = {}
  BY <1>1 DEF ToSet
<1>3. \A row : Times(row, e) = 0
  BY <1>2, TimesAbsent
<1>4. \A b \in 0 .. (N - 1) : ~(b < 0)
  BY DEF Plan
<1>5. Has(w, N, e, 0, x)
  BY <1>2, <1>3, <1>4 DEF Has
<1> QED
  BY <1>1, <1>5

\* More crashes allow more repetitions.
LEMMA HasMore ==
    ASSUME NEW w, NEW N, Plan(w, N), NEW rows, NEW n \in Nat, NEW x \in Nat, NEW y \in Nat,
           Has(w, N, rows, n, x), x <= y
    PROVE  Has(w, N, rows, n, y)
<1>1. ASSUME NEW b \in 0 .. (N - 1), NEW row \in ToSet(w[b])
      PROVE  Times(row, rows) <= y + (IF b < n THEN 1 ELSE 0)
  <2>1. PICK t \in Nat : t = Times(row, rows)
    BY TimesType DEF Has
  <2>2. t <= x + (IF b < n THEN 1 ELSE 0)
    BY <2>1 DEF Has
  <2> QED
    BY <2>1, <2>2
<1> QED
  BY <1>1 DEF Has

\* A batch that is taken to be missing is made once more.
LEMMA HasLess ==
    ASSUME NEW w, NEW N, Plan(w, N), NEW rows, NEW n \in Nat, NEW x \in Nat,
           Has(w, N, rows, n + 1, x)
    PROVE  Has(w, N, rows, n, x + 1)
<1>1. ASSUME NEW b \in 0 .. (N - 1), NEW row \in ToSet(w[b])
      PROVE  Times(row, rows) <= (x + 1) + (IF b < n THEN 1 ELSE 0)
  <2>1. PICK t \in Nat : t = Times(row, rows)
    BY TimesType DEF Has
  <2>2. t <= x + (IF b < n + 1 THEN 1 ELSE 0)
    BY <2>1 DEF Has
  <2>3. b \in Int
    BY DEF Plan
  <2> QED
    BY <2>1, <2>2, <2>3
<1>2. \A b \in 0 .. (N - 1) : b < n => b < n + 1
  BY DEF Plan
<1> QED
  BY <1>1, <1>2 DEF Has

\* What is added to a file is from the batch n.
LEMMA HasAdd ==
    ASSUME NEW w, NEW N, Plan(w, N), NEW rows, NEW n \in 0 .. (N - 1), NEW x \in Nat,
           Has(w, N, rows, n, x), NEW t \in Seq(OwnRow), OneToOne(t),
           ToSet(t) \subseteq ToSet(w[n])
    PROVE  /\ Has(w, N, rows \o t, n, x + 1)
           /\ ToSet(t) = ToSet(w[n]) => Has(w, N, rows \o t, n + 1, x)
<1>1. PICK s \in Seq(OwnRow) : s = rows
  BY DEF Has
<1>2. PICK u \in Seq(OwnRow) : u = s \o t /\ ToSet(u) = ToSet(s) \cup ToSet(t)
  <2>1. s \o t \in Seq(OwnRow)
    BY ConcatProperties
  <2>2. ToSet(s \o t) = ToSet(s) \cup ToSet(t)
    BY ConcatElements
  <2> QED
    BY <2>1, <2>2
<1>3. n \in Nat /\ N \in Nat
  BY DEF Plan
<1>4. \A row \in ToSet(u) : \E b \in 0 .. (N - 1) : row \in ToSet(w[b])
  BY <1>1, <1>2 DEF Has
<1>5. \A b \in 0 .. (N - 1) : b < n => ToSet(w[b]) \subseteq ToSet(u)
  BY <1>1, <1>2 DEF Has
<1>6. ASSUME NEW b \in 0 .. (N - 1), NEW row \in ToSet(w[b])
      PROVE  /\ Times(row, u) <= (x + 1) + (IF b < n THEN 1 ELSE 0)
             /\ Times(row, u) <= x + (IF b < n + 1 THEN 1 ELSE 0)
  <2>1. PICK i \in Nat, j \in Nat, k \in Nat :
            i = Times(row, s) /\ j = Times(row, t) /\ k = Times(row, u)
    BY TimesType
  <2>2. k <= i + j
    BY <1>2, <2>1, TimesConcat
  <2>3. i <= x + (IF b < n THEN 1 ELSE 0)
    BY <1>1, <2>1 DEF Has
  <2>4. b \in Int
    BY <1>3
  <2>5. CASE b = n
    <3>1. j <= 1
      BY <2>1, TimesOnce
    <3> QED
      BY <1>3, <2>1, <2>2, <2>3, <2>5, <3>1
  <2>6. CASE b # n
    <3>1. row \notin ToSet(t)
      BY <2>6 DEF Plan
    <3>2. j = 0
      BY <2>1, <3>1, TimesAbsent
    <3> QED
      BY <1>3, <2>1, <2>2, <2>3, <2>4, <2>6, <3>2
  <2> QED
    BY <2>5, <2>6
<1>7. Has(w, N, u, n, x + 1)
  BY <1>4, <1>5, <1>6 DEF Has
<1>8. ASSUME ToSet(t) = ToSet(w[n]) PROVE Has(w, N, u, n + 1, x)
  <2>1. ASSUME NEW b \in 0 .. (N - 1), b < n + 1 PROVE ToSet(w[b]) \subseteq ToSet(u)
    <3>1. b < n \/ b = n
      BY <1>3, <2>1
    <3> QED
      BY <1>2, <1>5, <1>8, <3>1
  <2> QED
    BY <1>4, <1>6, <2>1 DEF Has
<1> QED
  BY <1>1, <1>2, <1>7, <1>8

-----------------------------------------------------------------------------
(* The batches of a piece.                                                 *)

Work(p) == [b \in 0 .. (Batches - 1) |-> DoSample(Batch(p, b))]

\* The samples of different batches are different.
LEMMA OtherBatch ==
    ASSUME NEW d \in Nat \ {0}, NEW a \in Nat, NEW b \in Nat, NEW c \in Nat,
           NEW i \in 1 .. d, NEW j \in 1 .. d, a + d * b + i = a + d * c + j
    PROVE  b = c
<1>1. ASSUME NEW u \in Nat, NEW v \in Nat, NEW k \in 1 .. d, NEW l \in 1 .. d, u < v
      PROVE  d * u + k < d * v + l
  <2>1. u + 1 <= v
    BY <1>1
  <2>2. d * (u + 1) <= d * v /\ d * (u + 1) = d * u + d /\ d * u \in Nat /\ d * v \in Nat
    BY <2>1, Monotone
  <2> QED
    BY <2>2
<1>2. d * b + i = d * c + j
  <2>1. d * b \in Nat /\ d * c \in Nat
    OBVIOUS
  <2> QED
    BY <2>1
<1>3. d * b + i \in Int /\ d * c + j \in Int
  OBVIOUS
<1>4. ~(b < c)
  BY <1>1, <1>2, <1>3
<1>5. ~(c < b)
  BY <1>1, <1>2, <1>3
<1> QED
  BY <1>4, <1>5

LEMMA WorkFacts ==
    ASSUME conf \in Setting, NEW p \in Pieces
    PROVE  /\ Plan(Work(p), Batches)
           /\ \A b \in 0 .. (Batches - 1) :
                  /\ Work(p)[b] = DoSample(Batch(p, b))
                  /\ \A row \in ToSet(Work(p)[b]) :
                         \E i \in 1 .. conf.size : row.sample = At(p, b, i)
                  /\ conf.fails = {} =>
                         \A i \in 1 .. conf.size :
                             \E row \in ToSet(Work(p)[b]) : row.sample = At(p, b, i)
<1>1. PICK N \in Nat, d \in Nat \ {0}, a \in Nat :
          N = Batches /\ d = conf.size /\ a = PieceLen * (p - 1)
  <2>1. p - 1 \in Nat
    BY ConfFacts DEF Pieces
  <2>2. PieceLen * (p - 1) \in Nat
    BY <2>1, ConfFacts
  <2> QED
    BY <2>2, ConfFacts
<1>2. PICK w : w = Work(p)
  OBVIOUS
<1>3. \A b \in 0 .. (N - 1) : w[b] = DoSample(Batch(p, b))
  BY <1>1, <1>2 DEF Work
<1>4. ASSUME NEW b \in 0 .. (N - 1)
      PROVE  /\ Batch(p, b) \in Seq(1 .. conf.samples)
             /\ OneToOne(Batch(p, b))
             /\ ToSet(Batch(p, b)) = {At(p, b, i) : i \in 1 .. d}
  <2>1. PICK s \in Seq(1 .. conf.samples) :
            s = Batch(p, b) /\ Len(s) = d /\ \A i \in 1 .. d : s[i] = At(p, b, i)
    BY <1>1, BatchFacts
  <2>2. ToSet(s) = {s[i] : i \in 1 .. d}
    BY <2>1, ElementsOf
  <2>3. \A i, j \in 1 .. d : s[i] = s[j] => i = j
    <3>1. d * b \in Int
      BY <1>1
    <3>2. \A i \in 1 .. d : s[i] = a + d * b + i
      BY <1>1, <2>1 DEF At
    <3> QED
      BY <3>1, <3>2
  <2> QED
    BY <2>1, <2>2, <2>3 DEF OneToOne
<1>5. ASSUME NEW b \in 0 .. (N - 1)
      PROVE  /\ w[b] \in Seq(OwnRow) /\ OneToOne(w[b])
             /\ \A row \in ToSet(w[b]) : \E i \in 1 .. d : row.sample = At(p, b, i)
             /\ conf.fails = {} =>
                    \A i \in 1 .. d : \E row \in ToSet(w[b]) : row.sample = At(p, b, i)
  <2>1. PICK s : /\ s \in Seq(1 .. conf.samples) /\ OneToOne(s) /\ s = Batch(p, b)
                 /\ ToSet(s) = {At(p, b, i) : i \in 1 .. d}
    BY <1>4
  <2>2. /\ DoSample(s) \in Seq(OwnRow)
        /\ OneToOne(DoSample(s))
        /\ \A row \in ToSet(DoSample(s)) : row.sample \in ToSet(s)
        /\ conf.fails = {} =>
               \A x \in ToSet(s) : \E row \in ToSet(DoSample(s)) : row.sample = x
    BY <2>1, SampleFacts
  <2>3. w[b] = DoSample(s)
    BY <1>3, <2>1
  <2>4. \A row \in ToSet(w[b]) : \E i \in 1 .. d : row.sample = At(p, b, i)
    BY <2>1, <2>2, <2>3
  <2>5. conf.fails = {} =>
            \A i \in 1 .. d : \E row \in ToSet(w[b]) : row.sample = At(p, b, i)
    <3>1. \A i \in 1 .. d : At(p, b, i) \in ToSet(s)
      BY <2>1
    <3> QED
      BY <2>2, <2>3, <3>1
  <2> QED
    BY <2>2, <2>3, <2>4, <2>5
<1>6. ASSUME NEW b \in 0 .. (N - 1), NEW c \in 0 .. (N - 1), b # c
      PROVE  ToSet(w[b]) \cap ToSet(w[c]) = {}
  <2> SUFFICES ASSUME NEW row \in ToSet(w[b]), row \in ToSet(w[c]) PROVE FALSE
    OBVIOUS
  <2>1. PICK i \in 1 .. d, j \in 1 .. d : row.sample = At(p, b, i) /\ row.sample = At(p, c, j)
    BY <1>5
  <2>2. a + d * b + i = a + d * c + j
    BY <1>1, <2>1 DEF At
  <2>3. b \in Nat /\ c \in Nat
    BY <1>1
  <2> QED
    BY <1>6, <2>2, <2>3, OtherBatch
<1>7. Plan(w, N)
  BY <1>5, <1>6 DEF Plan
<1> QED
  BY <1>1, <1>2, <1>3, <1>5, <1>7

\* The rows that an output file must have.
LEMMA WantedFacts ==
    ASSUME conf \in Setting, NEW p \in Pieces
    PROVE  ToSet(Wanted(p)) = UNION {ToSet(Work(p)[b]) : b \in 0 .. (Batches - 1)}
<1>0. PICK N \in Nat : N = Batches
  BY ConfFacts
<1>1. PICK w : w = Work(p)
  OBVIOUS
<1>2. \A b \in 0 .. (N - 1) : w[b] = DoSample(Batch(p, b)) /\ w[b] \in Seq(OwnRow)
  BY <1>0, <1>1, WorkFacts DEF Plan
<1>3. PICK s : s = [i \in 1 .. N |-> DoSample(Batch(p, i - 1))]
  OBVIOUS
<1>4. \A i \in 1 .. N : s[i] = w[i - 1] /\ s[i] \in Seq(OwnRow)
  BY <1>2, <1>3
<1>5. s \in [1 .. N -> Seq(OwnRow)]
  BY <1>3, <1>4
<1>6. s \in Seq(Seq(OwnRow)) /\ Len(s) = N
  BY <1>5
<1>7. Wanted(p) = FlattenSeq(s)
  BY <1>0, <1>3, <1>6, JoinedFlattens DEF Wanted
<1>8. ToSet(FlattenSeq(s)) = UNION {ToSet(s[i]) : i \in 1 .. N}
  BY <1>6, FlattenElements DEF InPieces
<1>9. {ToSet(s[i]) : i \in 1 .. N} = {ToSet(w[b]) : b \in 0 .. (N - 1)}
  <2>1. \A i \in 1 .. N : i - 1 \in 0 .. (N - 1) /\ ToSet(s[i]) = ToSet(w[i - 1])
    BY <1>4
  <2>2. \A b \in 0 .. (N - 1) : b + 1 \in 1 .. N /\ ToSet(w[b]) = ToSet(s[b + 1])
    BY <1>4
  <2> QED
    BY <2>1, <2>2
<1> QED
  BY <1>0, <1>1, <1>7, <1>8, <1>9

\* The settings do not change, and what follows from them does not either.
LEMMA WorkStays ==
    ASSUME conf' = conf
    PROVE  /\ Pieces' = Pieces /\ PieceLen' = PieceLen /\ Batches' = Batches
           /\ \A p : Work(p)' = Work(p)
<1>1. Pieces' = Pieces /\ PieceLen' = PieceLen /\ Batches' = Batches
  BY DEF Pieces, PieceLen, Batches, Least
<1>2. ASSUME NEW p PROVE Work(p)' = Work(p)
  BY <1>1 DEF Work, DoSample, Batch, Piece, RowChoices, IsCached, RespList, Asked, Cur, PieceLen
<1> QED
  BY <1>1, <1>2

-----------------------------------------------------------------------------
(* The types, with what the files hold.                                    *)

FileType == [exists : BOOLEAN, rows : Seq(OwnRow)]

TypeInv ==
    /\ conf \in Settings
    /\ pc \in [Pieces -> {"off", "loop", "copy", "ckpt", "end", "move", "done", "raised"}]
    /\ at \in [Pieces -> Nat]
    /\ tmp \in [Pieces -> FileType]
    /\ resume \in [Pieces -> FileType]
    /\ iter \in [Pieces -> FileType]
    /\ aside \in [Pieces -> SUBSET Seq(OwnRow)]
    /\ ckpt \in Nat \cup {NoIndex, TornIndex}
    /\ crashes \in [Pieces -> Nat]
    /\ runs \in [Pieces -> Nat]
    /\ torn \in BOOLEAN

\* A process in its loop is at a batch that there is.
InLoop == \A p \in Pieces : pc[p] \in {"loop", "copy", "ckpt"} => at[p] < Batches

LEMMA FileFacts ==
    /\ Absent \in FileType /\ ~Absent.exists /\ Absent.rows = <<>>
    /\ \A rows \in Seq(OwnRow) :
           File(rows) \in FileType /\ File(rows).exists /\ File(rows).rows = rows
<1>1. <<>> \in Seq(OwnRow)
  BY EmptySeq
<1> QED
  BY <1>1 DEF Absent, File, FileType

LEMMA TypeInit ==
    ASSUME Init
    PROVE  TypeInv /\ InLoop
<1>1. Absent \in FileType
  BY FileFacts
<1> QED
  BY <1>1 DEF Init, TypeInv, InLoop

\* What a process adds to its temporary file.
LEMMA Adds ==
    ASSUME TypeInv, InLoop, NEW p \in Pieces, pc[p] = "loop"
    PROVE  /\ at[p] \in 0 .. (Batches - 1) /\ tmp[p].rows \in Seq(OwnRow)
           /\ Work(p)[at[p]] = DoSample(Batch(p, at[p]))
           /\ DoSample(Batch(p, at[p])) \in Seq(OwnRow) /\ OneToOne(DoSample(Batch(p, at[p])))
<1>1. conf \in Setting
  BY SettingsAssumption DEF TypeInv
<1>2. at[p] \in 0 .. (Batches - 1)
  BY <1>1, ConfFacts DEF TypeInv, InLoop
<1>3. tmp[p].rows \in Seq(OwnRow)
  BY DEF TypeInv, FileType
<1> QED
  BY <1>1, <1>2, <1>3, WorkFacts DEF Plan

LEMMA TypeStep ==
    ASSUME TypeInv, InLoop, [Next]_vars
    PROVE  TypeInv' /\ InLoop'
<1>1. CASE UNCHANGED vars
  BY <1>1 DEF vars, TypeInv, InLoop, Pieces, Batches, PieceLen, Least
<1>2. ASSUME NEW p \in Pieces, Run(p) \/ Crash(p) PROVE TypeInv' /\ InLoop'
  <2>1. conf' = conf
    BY <1>2 DEF Run, Start, Write, Copy, WriteIndex, MoveAside, MoveResume, Crash
  <2>2. Pieces' = Pieces /\ Batches' = Batches
    BY <2>1, WorkStays
  <2>3. Batches \in Nat
    BY SettingsAssumption, ConfFacts DEF TypeInv
  <2>4. CASE Start(p)
    <3>1. File(<<>>) \in FileType /\ File(tmp[p].rows) \in FileType /\ resume[p] \in FileType
      BY FileFacts, EmptySeq DEF TypeInv, FileType
    <3>2. runs' \in [Pieces -> Nat]
      <4>1. runs[p] + 1 \in Nat /\ runs \in [Pieces -> Nat]
        BY DEF TypeInv
      <4>2. UNCHANGED runs \/ runs' = [runs EXCEPT ![p] = @ + 1]
        BY <2>4 DEF Start
      <4> QED
        BY <4>1, <4>2
    <3>3. CASE iter[p].exists /\ ~conf.override
      <4>1. /\ pc' = [pc EXCEPT ![p] = "done"]
            /\ UNCHANGED <<conf, at, tmp, resume, iter, aside, ckpt, crashes, torn>>
        BY <2>4, <3>3 DEF Start
      <4> QED
        BY <2>1, <2>2, <3>2, <4>1 DEF TypeInv, InLoop
    <3>4. CASE ~(iter[p].exists /\ ~conf.override)
      <4> DEFINE resuming == conf.resumes /\ pc[p] = "off" /\ crashes[p] > 0
                 index == IF resuming /\ ckpt # NoIndex THEN ckpt ELSE -1
      <4>1. CASE index = TornIndex
        <5>1. /\ pc' = [pc EXCEPT ![p] = "raised"]
              /\ UNCHANGED <<conf, at, tmp, resume, iter, aside, ckpt, crashes, torn>>
          BY <2>4, <3>4, <4>1 DEF Start
        <5> QED
          BY <2>1, <2>2, <3>2, <5>1 DEF TypeInv, InLoop
      <4>2. CASE index # TornIndex
        <5>1. PICK i \in Nat : i = index + 1
          <6>1. ckpt # NoIndex /\ ckpt # TornIndex => ckpt + 1 \in Nat
            BY DEF TypeInv
          <6>2. -1 + 1 \in Nat
            OBVIOUS
          <6> QED
            BY <4>2, <6>1, <6>2
        <5>2. /\ at' = [at EXCEPT ![p] = i]
              /\ pc' = [pc EXCEPT ![p] = IF i < Batches THEN "loop" ELSE "end"]
              /\ UNCHANGED <<conf, resume, iter, aside, ckpt, crashes, torn>>
          BY <2>4, <3>4, <4>2, <5>1 DEF Start, AfterBatch
        <5>3. tmp' \in [Pieces -> FileType]
          <6>1. PICK f \in FileType : tmp' = [tmp EXCEPT ![p] = f]
            BY <2>4, <3>1, <3>4, <4>2 DEF Start
          <6> QED
            BY <6>1 DEF TypeInv
        <5> QED
          BY <2>1, <2>2, <3>2, <5>2, <5>3 DEF TypeInv, InLoop
      <4> QED
        BY <4>1, <4>2
    <3> QED
      BY <3>3, <3>4
  <2>5. CASE Write(p)
    <3>1. PICK t \in Seq(OwnRow) : t = DoSample(Batch(p, at[p]))
      BY <2>5, Adds DEF Write
    <3>2. tmp[p].rows \o t \in Seq(OwnRow)
      BY <2>5, Adds, ConcatProperties DEF Write
    <3>3. PICK f \in FileType : f = File(tmp[p].rows \o t)
      BY <3>2, FileFacts
    <3>4. /\ tmp' = [tmp EXCEPT ![p] = f] /\ pc' = [pc EXCEPT ![p] = "copy"] /\ pc[p] = "loop"
          /\ UNCHANGED <<conf, at, resume, iter, aside, ckpt, crashes, runs, torn>>
      BY <2>5, <3>1, <3>3 DEF Write
    <3> QED
      BY <2>1, <2>2, <3>4 DEF TypeInv, InLoop
  <2>6. CASE Copy(p)
    BY <2>1, <2>2, <2>6 DEF Copy, TypeInv, InLoop
  <2>7. CASE WriteIndex(p)
    BY <2>1, <2>2, <2>3, <2>7 DEF WriteIndex, AfterBatch, TypeInv, InLoop
  <2>8. CASE MoveAside(p)
    <3>1. iter[p].rows \in Seq(OwnRow) /\ Absent \in FileType
      BY FileFacts DEF TypeInv, FileType
    <3>2. /\ pc' = [pc EXCEPT ![p] = "move"]
          /\ UNCHANGED <<conf, at, tmp, resume, ckpt, crashes, runs, torn>>
      BY <2>8 DEF MoveAside
    <3>3. iter' \in [Pieces -> FileType]
      BY <2>8, <3>1 DEF MoveAside, TypeInv
    <3>4. aside' \in [Pieces -> SUBSET Seq(OwnRow)]
      <4>1. aside[p] \cup {iter[p].rows} \in SUBSET Seq(OwnRow)
        BY <3>1 DEF TypeInv
      <4> QED
        BY <2>8, <4>1 DEF MoveAside, TypeInv
    <3> QED
      BY <2>1, <2>2, <3>2, <3>3, <3>4 DEF TypeInv, InLoop
  <2>9. CASE MoveResume(p)
    <3>1. Absent \in FileType
      BY FileFacts
    <3> QED
      BY <2>1, <2>2, <2>9, <3>1 DEF MoveResume, TypeInv, InLoop
  <2>10. CASE Crash(p)
    <3>1. /\ crashes' = [crashes EXCEPT ![p] = @ + 1] /\ pc' = [pc EXCEPT ![p] = "off"]
          /\ UNCHANGED <<conf, at, iter, aside, runs>>
      BY <2>10 DEF Crash
    <3>2. tmp' \in [Pieces -> FileType]
      <4>1. ASSUME pc[p] = "loop", NEW rows \in Prefixes(DoSample(Batch(p, at[p]))),
                   tmp' = [tmp EXCEPT ![p] = File(tmp[p].rows \o rows)]
            PROVE  tmp' \in [Pieces -> FileType]
        <5>1. rows \in Seq(OwnRow)
          BY <4>1, Adds, PrefixFacts
        <5>2. tmp[p].rows \o rows \in Seq(OwnRow)
          BY <4>1, <5>1, Adds, ConcatProperties
        <5>3. File(tmp[p].rows \o rows) \in FileType
          BY <5>2, FileFacts
        <5> QED
          BY <4>1, <5>3 DEF TypeInv
      <4> QED
        BY <2>10, <4>1 DEF Crash, TypeInv
    <3>3. resume' \in [Pieces -> FileType]
      <4>1. ASSUME NEW rows \in Prefixes(tmp[p].rows), resume' = [resume EXCEPT ![p] = File(rows)]
            PROVE  resume' \in [Pieces -> FileType]
        <5>1. rows \in Seq(OwnRow)
          <6>1. tmp[p].rows \in Seq(OwnRow)
            BY DEF TypeInv, FileType
          <6> QED
            BY <6>1, PrefixFacts
        <5>2. File(rows) \in FileType
          BY <5>1, FileFacts
        <5> QED
          BY <4>1, <5>2 DEF TypeInv
      <4> QED
        BY <2>10, <4>1 DEF Crash, TypeInv
    <3>4. ckpt' \in Nat \cup {NoIndex, TornIndex} /\ torn' \in BOOLEAN
      BY <2>10 DEF Crash, TypeInv
    <3>5. crashes' \in [Pieces -> Nat]
      <4>1. crashes[p] + 1 \in Nat
        BY DEF TypeInv
      <4> QED
        BY <3>1, <4>1 DEF TypeInv
    <3>6. TypeInv'
      BY <2>1, <2>2, <3>1, <3>2, <3>3, <3>4, <3>5 DEF TypeInv
    <3>7. InLoop'
      BY <2>1, <2>2, <3>1 DEF InLoop, TypeInv
    <3> QED
      BY <3>6, <3>7
  <2> QED
    BY <1>2, <2>4, <2>5, <2>6, <2>7, <2>8, <2>9, <2>10 DEF Run
<1> QED
  BY <1>1, <1>2 DEF Next

\* The variables have their types, and a process in its loop is at a batch that there is.
THEOREM SamplingTypes == Spec => [](TypeInv /\ InLoop)
<1>1. Init => TypeInv /\ InLoop
  BY TypeInit
<1>2. (TypeInv /\ InLoop) /\ [Next]_vars => (TypeInv /\ InLoop)'
  BY TypeStep
<1> QED
  BY <1>1, <1>2, PTL DEF Spec

\* The rows of every file, of those that are cut off and of those that were moved aside
\* too, are answers to their own sample.
THEOREM RowsAreOwn == Spec => []OwnChoices
<1>1. TypeInv => OwnChoices
  <2> SUFFICES ASSUME TypeInv, NEW p \in Pieces,
                      NEW rows \in Output(p) \cup {tmp[p].rows, resume[p].rows},
                      NEW row \in ToSet(rows)
               PROVE  row.sample = row.answer[1]
    BY DEF OwnChoices
  <2>1. rows \in Seq(OwnRow)
    BY DEF TypeInv, FileType, Output
  <2>2. row \in OwnRow
    <3>1. ToSet(rows) = {rows[i] : i \in 1 .. Len(rows)}
      BY <2>1, ElementsOf
    <3> QED
      BY <2>1, <3>1, ElementIn
  <2> QED
    BY <2>2 DEF OwnRow
<1> QED
  BY <1>1, SamplingTypes, PTL

-----------------------------------------------------------------------------
(* No crash loses a batch or repeats one more often than it must.          *)

\* How often a row may be in a file more than once.
Extra(p) == IF conf.resumes THEN crashes[p] ELSE 0
HasUpTo(p, rows, n) == Has(Work(p), Batches, rows, n, Extra(p))

Working == {"loop", "copy", "ckpt", "end", "move"}

\* What the files of a piece hold.
FilesOf(p) ==
    /\ pc[p] \in {"loop", "end", "move"} => HasUpTo(p, tmp[p].rows, at[p])
    /\ pc[p] \in {"copy", "ckpt"} => tmp[p].exists /\ HasUpTo(p, tmp[p].rows, at[p] + 1)
    /\ pc[p] = "ckpt" => resume[p] = tmp[p]
    /\ pc[p] \in {"end", "move"} =>
           at[p] = Batches /\ (resume[p].exists => HasUpTo(p, resume[p].rows, Batches))
    /\ \A rows \in Output(p) : HasUpTo(p, rows, Batches)
    /\ pc[p] = "done" => iter[p].exists
    /\ Batches = 0 => ~resume[p].exists

\* What a process finds that is started again to resume.
LeftBy(p) ==
    conf.resumes =>
    /\ ckpt # TornIndex
    /\ pc[p] \in Working => at[p] = ckpt + 1 /\ ~iter[p].exists
    /\ pc[p] \in {"off", "loop", "copy", "end", "move"} /\ resume[p].exists =>
           HasUpTo(p, resume[p].rows, ckpt + 1)
    /\ pc[p] \in Working \cup {"off"} /\ ckpt # NoIndex => resume[p].exists /\ ckpt < Batches
    /\ pc[p] = "off" /\ ~resume[p].exists => HasUpTo(p, tmp[p].rows, 0)
    /\ pc[p] = "off" /\ crashes[p] = 0 => ckpt = NoIndex

FilesInv == Own => \A p \in Pieces : FilesOf(p) /\ LeftBy(p)

LEMMA ExtraType ==
    ASSUME TypeInv, NEW p \in Pieces
    PROVE  Extra(p) \in Nat
  BY DEF TypeInv, Extra

LEMMA PrimedHas ==
    ASSUME conf' = conf, NEW p
    PROVE  /\ HasUpTo(p, tmp[p].rows, at[p])'
                <=> Has(Work(p), Batches, tmp'[p].rows, at'[p], Extra(p)')
           /\ HasUpTo(p, tmp[p].rows, at[p] + 1)'
                <=> Has(Work(p), Batches, tmp'[p].rows, at'[p] + 1, Extra(p)')
           /\ HasUpTo(p, tmp[p].rows, 0)'
                <=> Has(Work(p), Batches, tmp'[p].rows, 0, Extra(p)')
           /\ HasUpTo(p, resume[p].rows, Batches)'
                <=> Has(Work(p), Batches, resume'[p].rows, Batches, Extra(p)')
           /\ HasUpTo(p, resume[p].rows, ckpt + 1)'
                <=> Has(Work(p), Batches, resume'[p].rows, ckpt' + 1, Extra(p)')
           /\ \A rows : HasUpTo(p, rows, Batches)'
                <=> Has(Work(p), Batches, rows, Batches, Extra(p)')
  BY WorkStays DEF HasUpTo, Has

\* A step of another process.
LEMMA OthersFiles ==
    ASSUME conf' = conf, NEW p, FilesOf(p), LeftBy(p),
           pc'[p] = pc[p], at'[p] = at[p], tmp'[p] = tmp[p], resume'[p] = resume[p],
           iter'[p] = iter[p], aside'[p] = aside[p], crashes'[p] = crashes[p],
           conf.resumes => ckpt' = ckpt
    PROVE  FilesOf(p)' /\ LeftBy(p)'
<1>1. Extra(p)' = Extra(p) /\ Batches' = Batches /\ Output(p)' = Output(p)
  BY WorkStays DEF Extra, Output
<1>2. FilesOf(p)'
  BY <1>1, PrimedHas DEF FilesOf, HasUpTo
<1>3. LeftBy(p)'
  BY <1>1, PrimedHas DEF LeftBy, HasUpTo
<1> QED
  BY <1>2, <1>3

LEMMA PlanOf ==
    ASSUME TypeInv, NEW p \in Pieces
    PROVE  Plan(Work(p), Batches) /\ Batches \in Nat
  BY SettingsAssumption, ConfFacts, WorkFacts DEF TypeInv

LEMMA FilesStart ==
    ASSUME TypeInv, NEW p \in Pieces, FilesOf(p), LeftBy(p), Own', Start(p)
    PROVE  FilesOf(p)' /\ LeftBy(p)'
<1>1. /\ conf' = conf /\ resume' = resume /\ iter' = iter /\ aside' = aside
      /\ ckpt' = ckpt /\ crashes' = crashes /\ torn' = torn
  BY DEF Start
<1>2. Extra(p)' = Extra(p) /\ Output(p)' = Output(p) /\ Batches' = Batches
  BY <1>1, WorkStays DEF Extra, Output
<1>3. conf.resumes => ~conf.override /\ ckpt # TornIndex
  BY <1>1 DEF Own, LeftBy
<1>4. \A rows \in Output(p) : HasUpTo(p, rows, Batches)'
  BY <1>1, <1>2, PrimedHas DEF FilesOf, HasUpTo
<1>5. CASE iter[p].exists /\ ~conf.override
  <2>1. pc'[p] = "done"
    BY <1>5 DEF Start, TypeInv
  <2>2. FilesOf(p)'
    BY <1>1, <1>2, <1>4, <1>5, <2>1 DEF FilesOf
  <2>3. LeftBy(p)'
    BY <1>1, <1>3, <2>1 DEF LeftBy, Working
  <2> QED
    BY <2>2, <2>3
<1>6. CASE ~(iter[p].exists /\ ~conf.override)
  <2> DEFINE resuming == conf.resumes /\ pc[p] = "off" /\ crashes[p] > 0
             index == IF resuming /\ ckpt # NoIndex THEN ckpt ELSE -1
  <2>1. index # TornIndex
    BY <1>3 DEF TornIndex
  <2>2. PICK i : i = index + 1
    OBVIOUS
  <2>3. /\ at'[p] = i
        /\ pc'[p] = IF i < Batches THEN "loop" ELSE "end"
        /\ tmp'[p] = IF ~resuming THEN File(<<>>)
                     ELSE IF resume[p].exists THEN resume[p] ELSE File(tmp[p].rows)
    <3>1. /\ at' = [at EXCEPT ![p] = i]
          /\ pc' = [pc EXCEPT ![p] = IF i < Batches THEN "loop" ELSE "end"]
          /\ tmp' = [tmp EXCEPT ![p] = IF ~resuming THEN File(<<>>)
                                       ELSE IF resume[p].exists THEN resume[p]
                                       ELSE File(tmp[p].rows)]
      BY <1>6, <2>1, <2>2 DEF Start, AfterBatch
    <3> QED
      BY <3>1 DEF TypeInv
  <2>4. pc[p] = "off" \/ pc[p] = "done"
    BY DEF Start
  <2>5. conf.resumes => pc[p] = "off" /\ ~iter[p].exists
    BY <1>3, <1>6, <2>4 DEF FilesOf
  <2>6. conf.resumes => i = ckpt + 1
    <3>1. CASE ~resuming
      <4>1. conf.resumes => crashes[p] = 0
        BY <2>5, <3>1 DEF TypeInv
      <4>2. conf.resumes => ckpt = NoIndex
        BY <2>5, <4>1 DEF LeftBy
      <4> QED
        BY <2>2, <3>1, <4>2 DEF NoIndex
    <3>2. CASE resuming
      BY <2>2, <3>2 DEF NoIndex
    <3> QED
      BY <3>1, <3>2
  <2>7. i \in Nat /\ i <= Batches
    <3>1. CASE conf.resumes /\ ckpt # NoIndex
      <4>1. ckpt \in Nat /\ ckpt < Batches
        BY <1>3, <2>5, <3>1 DEF LeftBy, TypeInv
      <4> QED
        BY <2>6, <3>1, <4>1, PlanOf
    <3>2. CASE ~(conf.resumes /\ ckpt # NoIndex)
      <4>1. i = 0
        BY <2>2, <3>2
      <4> QED
        BY <4>1, PlanOf
    <3> QED
      BY <3>1, <3>2
  <2>8. conf.resumes /\ resume[p].exists => Has(Work(p), Batches, resume[p].rows, i, Extra(p))
    BY <2>5, <2>6 DEF LeftBy, HasUpTo
  <2>9. Has(Work(p), Batches, tmp'[p].rows, i, Extra(p))
    <3>1. CASE ~resuming
      <4>1. i = 0
        BY <2>2, <3>1
      <4>2. tmp'[p].rows = <<>>
        BY <2>3, <3>1 DEF File
      <4> QED
        BY <4>1, <4>2, PlanOf, ExtraType, HasEmpty
    <3>2. CASE resuming /\ resume[p].exists
      BY <2>3, <2>8, <3>2
    <3>3. CASE resuming /\ ~resume[p].exists
      <4>1. ckpt = NoIndex
        BY <3>3 DEF LeftBy, Working
      <4>2. i = 0
        BY <2>2, <4>1 DEF NoIndex
      <4>3. Has(Work(p), Batches, tmp[p].rows, 0, Extra(p))
        BY <3>3 DEF LeftBy, HasUpTo
      <4>4. tmp'[p].rows = tmp[p].rows
        BY <2>3, <3>3 DEF File
      <4> QED
        BY <4>2, <4>3, <4>4
    <3> QED
      BY <3>1, <3>2, <3>3
  <2>10. FilesOf(p)'
    <3>1. HasUpTo(p, tmp[p].rows, at[p])'
      BY <1>1, <1>2, <2>3, <2>9, PrimedHas
    <3>2. CASE i < Batches
      <4>1. pc'[p] = "loop"
        BY <2>3, <3>2
      <4> QED
        BY <1>1, <1>2, <1>4, <3>1, <4>1 DEF FilesOf
    <3>3. CASE ~(i < Batches)
      <4>1. pc'[p] = "end" /\ i = Batches
        BY <2>3, <2>7, <3>3, PlanOf
      <4>2. resume[p].exists => conf.resumes
        <5> SUFFICES ASSUME ~conf.resumes PROVE ~resume[p].exists
          OBVIOUS
        <5>1. Batches = 0
          BY <2>2, <4>1
        <5> QED
          BY <5>1 DEF FilesOf
      <4>3. resume[p].exists => HasUpTo(p, resume[p].rows, Batches)'
        BY <1>1, <1>2, <2>8, <4>1, <4>2, PrimedHas
      <4> QED
        BY <1>1, <1>2, <1>4, <2>3, <3>1, <4>1, <4>3 DEF FilesOf
    <3> QED
      BY <3>2, <3>3
  <2>11. LeftBy(p)'
    <3> SUFFICES ASSUME conf.resumes PROVE LeftBy(p)'
      BY <1>1 DEF LeftBy
    <3>1. pc'[p] = "loop" \/ pc'[p] = "end"
      BY <2>3
    <3>2. at'[p] = ckpt + 1 /\ ~iter[p].exists
      BY <2>3, <2>5, <2>6
    <3>3. resume[p].exists => HasUpTo(p, resume[p].rows, ckpt + 1)'
      BY <1>1, <1>2, <2>6, <2>8, PrimedHas
    <3>4. ckpt # NoIndex => resume[p].exists /\ ckpt < Batches
      BY <2>5 DEF LeftBy
    <3> QED
      BY <1>1, <1>2, <1>3, <3>1, <3>2, <3>3, <3>4 DEF LeftBy
  <2> QED
    BY <2>10, <2>11
<1> QED
  BY <1>5, <1>6

LEMMA FilesWrite ==
    ASSUME TypeInv, InLoop, NEW p \in Pieces, FilesOf(p), LeftBy(p), Write(p)
    PROVE  FilesOf(p)' /\ LeftBy(p)'
<1>1. /\ conf' = conf /\ at' = at /\ resume' = resume /\ iter' = iter /\ aside' = aside
      /\ ckpt' = ckpt /\ crashes' = crashes /\ pc[p] = "loop"
  BY DEF Write
<1>2. Extra(p)' = Extra(p) /\ Output(p)' = Output(p) /\ Batches' = Batches
  BY <1>1, WorkStays DEF Extra, Output
<1>3. PICK t \in Seq(OwnRow) :
          t = DoSample(Batch(p, at[p])) /\ t = Work(p)[at[p]] /\ OneToOne(t)
  BY <1>1, Adds
<1>4. at[p] \in 0 .. (Batches - 1) /\ tmp[p].rows \o t \in Seq(OwnRow)
  BY <1>1, Adds, ConcatProperties
<1>5. Has(Work(p), Batches, tmp[p].rows \o t, at[p] + 1, Extra(p))
  <2>1. Has(Work(p), Batches, tmp[p].rows, at[p], Extra(p))
    BY <1>1 DEF FilesOf, HasUpTo
  <2>2. ToSet(t) \subseteq ToSet(Work(p)[at[p]]) /\ ToSet(t) = ToSet(Work(p)[at[p]])
    BY <1>3
  <2> QED
    BY <1>3, <1>4, <2>1, <2>2, PlanOf, ExtraType, HasAdd
<1>6. tmp'[p] = File(tmp[p].rows \o t) /\ pc'[p] = "copy"
  BY <1>3 DEF Write, TypeInv
<1>7. tmp'[p].exists /\ tmp'[p].rows = tmp[p].rows \o t
  BY <1>4, <1>6, FileFacts
<1>8. FilesOf(p)'
  <2>1. HasUpTo(p, tmp[p].rows, at[p] + 1)'
    BY <1>1, <1>2, <1>5, <1>7, PrimedHas
  <2>2. \A rows \in Output(p) : HasUpTo(p, rows, Batches)'
    BY <1>1, <1>2, PrimedHas DEF FilesOf, HasUpTo
  <2> QED
    BY <1>1, <1>2, <1>6, <1>7, <2>1, <2>2 DEF FilesOf
<1>9. LeftBy(p)'
  BY <1>1, <1>2, <1>6, PrimedHas DEF LeftBy, HasUpTo, Working
<1> QED
  BY <1>8, <1>9

LEMMA FilesCopy ==
    ASSUME TypeInv, InLoop, NEW p \in Pieces, FilesOf(p), LeftBy(p), Copy(p)
    PROVE  FilesOf(p)' /\ LeftBy(p)'
<1>1. /\ conf' = conf /\ at' = at /\ tmp' = tmp /\ iter' = iter /\ aside' = aside
      /\ ckpt' = ckpt /\ crashes' = crashes /\ pc[p] = "copy"
  BY DEF Copy
<1>2. Extra(p)' = Extra(p) /\ Output(p)' = Output(p) /\ Batches' = Batches
  BY <1>1, WorkStays DEF Extra, Output
<1>3. resume'[p] = tmp[p] /\ pc'[p] = "ckpt" /\ tmp[p].exists
  BY <1>1 DEF Copy, TypeInv, FilesOf
<1>4. Batches # 0
  BY <1>1, PlanOf DEF InLoop, TypeInv
<1>5. FilesOf(p)'
  <2>1. HasUpTo(p, tmp[p].rows, at[p] + 1)'
    BY <1>1, <1>2, PrimedHas DEF FilesOf, HasUpTo
  <2>2. \A rows \in Output(p) : HasUpTo(p, rows, Batches)'
    BY <1>1, <1>2, PrimedHas DEF FilesOf, HasUpTo
  <2> QED
    BY <1>1, <1>2, <1>3, <1>4, <2>1, <2>2 DEF FilesOf
<1>6. LeftBy(p)'
  BY <1>1, <1>2, <1>3 DEF LeftBy, Working
<1> QED
  BY <1>5, <1>6

LEMMA FilesWriteIndex ==
    ASSUME TypeInv, InLoop, NEW p \in Pieces, FilesOf(p), LeftBy(p), WriteIndex(p)
    PROVE  FilesOf(p)' /\ LeftBy(p)'
<1>1. /\ conf' = conf /\ tmp' = tmp /\ resume' = resume /\ iter' = iter /\ aside' = aside
      /\ ckpt' = at[p] /\ crashes' = crashes /\ pc[p] = "ckpt"
  BY DEF WriteIndex
<1>2. Extra(p)' = Extra(p) /\ Output(p)' = Output(p) /\ Batches' = Batches
  BY <1>1, WorkStays DEF Extra, Output
<1>3. at'[p] = at[p] + 1 /\ pc'[p] = IF at[p] + 1 < Batches THEN "loop" ELSE "end"
  BY DEF WriteIndex, AfterBatch, TypeInv
<1>4. at[p] \in Nat /\ at[p] < Batches /\ Batches \in Nat
  BY <1>1, PlanOf DEF InLoop, TypeInv
<1>5. resume[p] = tmp[p] /\ tmp[p].exists
      /\ Has(Work(p), Batches, tmp[p].rows, at[p] + 1, Extra(p))
  BY <1>1 DEF FilesOf, HasUpTo
<1>6. FilesOf(p)'
  <2>1. HasUpTo(p, tmp[p].rows, at[p])'
    BY <1>1, <1>2, <1>3, <1>5, PrimedHas
  <2>2. \A rows \in Output(p) : HasUpTo(p, rows, Batches)'
    BY <1>1, <1>2, PrimedHas DEF FilesOf, HasUpTo
  <2>3. pc'[p] = "end" => at'[p] = Batches /\ HasUpTo(p, resume[p].rows, Batches)'
    <3> SUFFICES ASSUME pc'[p] = "end"
                 PROVE  at'[p] = Batches /\ HasUpTo(p, resume[p].rows, Batches)'
      OBVIOUS
    <3>1. at[p] + 1 = Batches
      BY <1>3, <1>4
    <3> QED
      BY <1>1, <1>2, <1>3, <1>5, <3>1, PrimedHas
  <2>4. pc'[p] = "loop" \/ pc'[p] = "end"
    BY <1>3
  <2>5. Batches # 0
    BY <1>4
  <2> QED
    BY <1>1, <1>2, <2>1, <2>2, <2>3, <2>4, <2>5 DEF FilesOf
<1>7. LeftBy(p)'
  <2> SUFFICES ASSUME conf.resumes PROVE LeftBy(p)'
    BY <1>1 DEF LeftBy
  <2>1. HasUpTo(p, resume[p].rows, ckpt + 1)'
    BY <1>1, <1>2, <1>5, PrimedHas
  <2>2. ~iter[p].exists
    BY <1>1 DEF LeftBy, Working
  <2>3. at[p] # TornIndex
    BY <1>4 DEF TornIndex
  <2>4. pc'[p] = "loop" \/ pc'[p] = "end"
    BY <1>3
  <2> QED
    BY <1>1, <1>2, <1>3, <1>4, <1>5, <2>1, <2>2, <2>3, <2>4 DEF LeftBy
<1> QED
  BY <1>6, <1>7

LEMMA FilesMoveAside ==
    ASSUME TypeInv, NEW p \in Pieces, FilesOf(p), LeftBy(p), MoveAside(p)
    PROVE  FilesOf(p)' /\ LeftBy(p)'
<1>1. /\ conf' = conf /\ at' = at /\ tmp' = tmp /\ resume' = resume
      /\ ckpt' = ckpt /\ crashes' = crashes /\ pc[p] = "end"
  BY DEF MoveAside
<1>2. Extra(p)' = Extra(p) /\ Batches' = Batches /\ pc'[p] = "move"
  BY <1>1, WorkStays DEF Extra, MoveAside, TypeInv
<1>3. Output(p)' = Output(p)
  <2>1. CASE iter[p].exists
    <3>1. aside'[p] = aside[p] \cup {iter[p].rows} /\ iter'[p] = Absent
      BY <2>1 DEF MoveAside, TypeInv
    <3> QED
      BY <2>1, <3>1, FileFacts DEF Output
  <2>2. CASE ~iter[p].exists
    BY <2>2 DEF MoveAside, Output
  <2> QED
    BY <2>1, <2>2
<1>4. FilesOf(p)'
  <2>1. HasUpTo(p, tmp[p].rows, at[p])'
    BY <1>1, <1>2, PrimedHas DEF FilesOf, HasUpTo
  <2>2. \A rows \in Output(p) : HasUpTo(p, rows, Batches)'
    BY <1>1, <1>2, PrimedHas DEF FilesOf, HasUpTo
  <2>3. at[p] = Batches /\ (resume[p].exists => HasUpTo(p, resume[p].rows, Batches)')
    BY <1>1, <1>2, PrimedHas DEF FilesOf, HasUpTo
  <2> QED
    BY <1>1, <1>2, <1>3, <2>1, <2>2, <2>3 DEF FilesOf
<1>5. LeftBy(p)'
  <2> SUFFICES ASSUME conf.resumes PROVE LeftBy(p)'
    BY <1>1 DEF LeftBy
  <2>1. ~iter[p].exists
    BY <1>1 DEF LeftBy, Working
  <2>2. iter' = iter
    BY <2>1 DEF MoveAside
  <2> QED
    BY <1>1, <1>2, <2>2, PrimedHas DEF LeftBy, HasUpTo, Working
<1> QED
  BY <1>4, <1>5

LEMMA FilesMoveResume ==
    ASSUME TypeInv, NEW p \in Pieces, FilesOf(p), LeftBy(p), MoveResume(p)
    PROVE  FilesOf(p)' /\ LeftBy(p)'
<1>1. /\ conf' = conf /\ at' = at /\ tmp' = tmp /\ aside' = aside
      /\ ckpt' = ckpt /\ crashes' = crashes /\ pc[p] = "move"
  BY DEF MoveResume
<1>2. Extra(p)' = Extra(p) /\ Batches' = Batches
  BY <1>1, WorkStays DEF Extra
<1>3. \A rows \in Output(p) : HasUpTo(p, rows, Batches)'
  BY <1>1, <1>2, PrimedHas DEF FilesOf, HasUpTo
<1>4. CASE resume[p].exists
  <2>1. iter'[p] = resume[p] /\ resume'[p] = Absent /\ pc'[p] = "done"
    BY <1>4 DEF MoveResume, TypeInv
  <2>2. HasUpTo(p, resume[p].rows, Batches)
    BY <1>1, <1>4 DEF FilesOf
  <2>3. \A rows \in Output(p)' : rows \in Output(p) \/ rows = resume[p].rows
    BY <1>1, <2>1 DEF Output
  <2>4. \A rows \in Output(p)' : HasUpTo(p, rows, Batches)'
    BY <1>1, <1>2, <1>3, <2>2, <2>3, PrimedHas DEF HasUpTo
  <2>5. FilesOf(p)'
    BY <1>4, <2>1, <2>4, FileFacts DEF FilesOf
  <2>6. LeftBy(p)'
    BY <1>1, <2>1 DEF LeftBy, Working
  <2> QED
    BY <2>5, <2>6
<1>5. CASE ~resume[p].exists
  <2>1. iter' = iter /\ resume' = resume /\ pc'[p] = "raised"
    BY <1>5 DEF MoveResume, TypeInv
  <2>2. Output(p)' = Output(p)
    BY <1>1, <2>1 DEF Output
  <2>3. FilesOf(p)'
    BY <1>2, <1>3, <2>1, <2>2 DEF FilesOf
  <2>4. LeftBy(p)'
    BY <1>1, <2>1 DEF LeftBy, Working
  <2> QED
    BY <2>3, <2>4
<1> QED
  BY <1>4, <1>5

LEMMA FilesCrash ==
    ASSUME TypeInv, InLoop, NEW p \in Pieces, FilesOf(p), LeftBy(p), Own', Crash(p)
    PROVE  FilesOf(p)' /\ LeftBy(p)'
<1>1. /\ conf' = conf /\ at' = at /\ iter' = iter /\ aside' = aside /\ pc[p] \in Working
  BY DEF Crash, Working
<1>2. pc'[p] = "off" /\ crashes'[p] = crashes[p] + 1
  BY DEF Crash, TypeInv
<1>3. Output(p)' = Output(p) /\ Batches' = Batches
  BY <1>1, WorkStays DEF Output
<1>4. PICK x \in Nat, y \in Nat :
          /\ x = Extra(p) /\ y = Extra(p)' /\ x <= y /\ (conf.resumes => y = x + 1)
  <2>1. CASE conf.resumes
    <3>1. crashes[p] \in Nat /\ crashes[p] + 1 \in Nat /\ crashes[p] <= crashes[p] + 1
      BY DEF TypeInv
    <3>2. Extra(p) = crashes[p] /\ Extra(p)' = crashes[p] + 1
      BY <1>1, <1>2, <2>1 DEF Extra
    <3> QED
      BY <3>1, <3>2
  <2>2. CASE ~conf.resumes
    <3>1. Extra(p) = 0 /\ Extra(p)' = 0
      BY <1>1, <2>2 DEF Extra
    <3> QED
      BY <2>2, <3>1
  <2> QED
    BY <2>1, <2>2
<1>5. PICK w, N : w = Work(p) /\ N = Batches /\ N \in Nat /\ Plan(w, N)
  BY PlanOf
<1>6. Batches = 0 => ~resume'[p].exists
  <2>1. CASE UNCHANGED resume
    BY <2>1 DEF FilesOf
  <2>2. CASE pc[p] = "copy"
    BY <2>2, PlanOf DEF InLoop, TypeInv
  <2> QED
    BY <2>1, <2>2 DEF Crash
<1>7. \A rows \in Output(p) : HasUpTo(p, rows, Batches)'
  <2> TAKE rows \in Output(p)
  <2>1. Has(w, N, rows, N, x)
    BY <1>4, <1>5 DEF FilesOf, HasUpTo
  <2>2. Has(w, N, rows, N, y)
    BY <1>4, <1>5, <2>1, HasMore
  <2> QED
    BY <1>1, <1>4, <1>5, <2>2, PrimedHas
<1>8. FilesOf(p)'
  BY <1>2, <1>3, <1>6, <1>7 DEF FilesOf
<1>9. LeftBy(p)'
  <2> SUFFICES ASSUME conf.resumes PROVE LeftBy(p)'
    BY <1>1 DEF LeftBy
  <2>1. UNCHANGED <<resume, ckpt>>
    <3>1. torn' # TRUE
      BY <1>1 DEF Own
    <3> QED
      BY <3>1 DEF Crash
  <2>2. ckpt # TornIndex /\ at[p] = ckpt + 1 /\ at[p] \in Nat
    BY <1>1 DEF LeftBy, TypeInv
  <2>3. ckpt # NoIndex => resume[p].exists /\ ckpt < Batches
    BY <1>1 DEF LeftBy
  <2>4. crashes'[p] # 0
    BY <1>2 DEF TypeInv
  <2>5. resume[p].exists => HasUpTo(p, resume[p].rows, ckpt + 1)'
    <3> SUFFICES ASSUME resume[p].exists PROVE Has(w, N, resume[p].rows, at[p], y)
      BY <1>1, <1>4, <1>5, <2>1, <2>2, PrimedHas
    <3>1. CASE pc[p] = "ckpt"
      <4>1. Has(w, N, resume[p].rows, at[p] + 1, x)
        BY <1>4, <1>5, <3>1 DEF FilesOf, HasUpTo
      <4> QED
        BY <1>4, <1>5, <2>2, <4>1, HasLess
    <3>2. CASE pc[p] # "ckpt"
      <4>1. Has(w, N, resume[p].rows, at[p], x)
        BY <1>1, <1>4, <1>5, <2>2, <3>2 DEF LeftBy, HasUpTo, Working
      <4> QED
        BY <1>4, <1>5, <2>2, <4>1, HasMore
    <3> QED
      BY <3>1, <3>2
  <2>6. ~resume[p].exists => HasUpTo(p, tmp[p].rows, 0)'
    <3> SUFFICES ASSUME ~resume[p].exists PROVE Has(w, N, tmp'[p].rows, 0, y)
      BY <1>1, <1>4, <1>5, PrimedHas
    <3>1. at[p] = 0
      BY <2>2, <2>3 DEF NoIndex
    <3>2. pc[p] # "ckpt"
      BY DEF FilesOf
    <3>3. CASE tmp' = tmp /\ pc[p] = "copy"
      <4>1. Has(w, N, tmp[p].rows, 0 + 1, x)
        BY <1>4, <1>5, <3>1, <3>3 DEF FilesOf, HasUpTo
      <4> QED
        BY <1>4, <1>5, <3>3, <4>1, HasLess
    <3>4. CASE pc[p] # "copy"
      <4>1. Has(w, N, tmp[p].rows, 0, x)
        BY <1>1, <1>4, <1>5, <3>1, <3>2, <3>4 DEF FilesOf, HasUpTo, Working
      <4>2. CASE tmp' = tmp
        BY <1>4, <1>5, <4>1, <4>2, HasMore
      <4>3. CASE tmp' # tmp
        <5>1. pc[p] = "loop"
          BY <4>3 DEF Crash
        <5>2. PICK rows \in Prefixes(DoSample(Batch(p, at[p]))) :
                       tmp' = [tmp EXCEPT ![p] = File(tmp[p].rows \o rows)]
          BY <4>3 DEF Crash
        <5>3. PICK t \in Seq(OwnRow) :
                  /\ t = DoSample(Batch(p, at[p])) /\ t = w[at[p]] /\ OneToOne(t)
                  /\ at[p] \in 0 .. (N - 1)
          BY <1>5, <5>1, Adds
        <5>4. rows \in Seq(OwnRow) /\ OneToOne(rows) /\ ToSet(rows) \subseteq ToSet(w[0])
          BY <3>1, <5>2, <5>3, PrefixFacts
        <5>5. Has(w, N, tmp[p].rows \o rows, 0, x + 1)
          BY <1>4, <1>5, <3>1, <4>1, <5>3, <5>4, HasAdd
        <5>6. tmp'[p].rows = tmp[p].rows \o rows
          BY <5>2 DEF File, TypeInv
        <5> QED
          BY <1>4, <5>5, <5>6
      <4> QED
        BY <4>2, <4>3
    <3> QED
      BY <3>3, <3>4 DEF Crash
  <2> QED
    BY <1>1, <1>2, <1>3, <2>1, <2>2, <2>3, <2>4, <2>5, <2>6 DEF LeftBy, Working
<1> QED
  BY <1>8, <1>9

LEMMA FilesInit ==
    ASSUME Init
    PROVE  FilesInv
<1>1. TypeInv
  BY TypeInit
<1>2. ASSUME NEW p \in Pieces PROVE FilesOf(p) /\ LeftBy(p)
  <2>1. /\ pc[p] = "off" /\ ~iter[p].exists /\ ~resume[p].exists /\ tmp[p].rows = <<>>
        /\ aside[p] = {} /\ ckpt = NoIndex
    BY FileFacts DEF Init
  <2>2. HasUpTo(p, tmp[p].rows, 0)
    BY <1>1, <2>1, PlanOf, ExtraType, HasEmpty DEF HasUpTo
  <2>3. FilesOf(p)
    BY <2>1 DEF FilesOf, Output
  <2>4. LeftBy(p)
    BY <2>1, <2>2 DEF LeftBy, Working, NoIndex, TornIndex
  <2> QED
    BY <2>3, <2>4
<1> QED
  BY <1>2 DEF FilesInv

LEMMA FilesStep ==
    ASSUME TypeInv, InLoop, FilesInv, [Next]_vars
    PROVE  FilesInv'
<1> SUFFICES ASSUME Own' PROVE (\A p \in Pieces : FilesOf(p) /\ LeftBy(p))'
  BY DEF FilesInv
<1>1. CASE UNCHANGED vars
  <2>1. conf' = conf /\ Own
    BY <1>1 DEF vars, Own
  <2>2. ASSUME NEW p \in Pieces PROVE FilesOf(p)' /\ LeftBy(p)'
    <3>1. FilesOf(p) /\ LeftBy(p)
      BY <2>1 DEF FilesInv
    <3> QED
      BY <1>1, <3>1, OthersFiles DEF vars
  <2> QED
    BY <2>1, <2>2, WorkStays
<1>2. ASSUME NEW p \in Pieces, Run(p) \/ Crash(p)
      PROVE  (\A q \in Pieces : FilesOf(q) /\ LeftBy(q))'
  <2>1. conf' = conf
    BY <1>2 DEF Run, Start, Write, Copy, WriteIndex, MoveAside, MoveResume, Crash
  <2>2. torn => torn'
    BY <1>2 DEF Run, Start, Write, Copy, WriteIndex, MoveAside, MoveResume, Crash
  <2>3. Own
    BY <2>1, <2>2 DEF Own
  <2>4. \A q \in Pieces : FilesOf(q) /\ LeftBy(q)
    BY <2>3 DEF FilesInv
  <2>5. FilesOf(p)' /\ LeftBy(p)'
    BY <1>2, <2>4, FilesStart, FilesWrite, FilesCopy, FilesWriteIndex, FilesMoveAside,
       FilesMoveResume, FilesCrash DEF Run
  <2>6. ASSUME NEW q \in Pieces, q # p PROVE FilesOf(q)' /\ LeftBy(q)'
    <3>1. ~conf.resumes
      <4>1. conf.resumes => Pieces = {1}
        BY <2>3 DEF Own, Pieces
      <4> QED
        BY <2>6, <4>1
    <3>2. /\ pc'[q] = pc[q] /\ at'[q] = at[q] /\ tmp'[q] = tmp[q] /\ resume'[q] = resume[q]
          /\ iter'[q] = iter[q] /\ aside'[q] = aside[q] /\ crashes'[q] = crashes[q]
      <4>1. CASE Start(p)
        BY <2>6, <4>1 DEF Start, TypeInv
      <4>2. CASE Write(p)
        BY <2>6, <4>2 DEF Write, TypeInv
      <4>3. CASE Copy(p)
        BY <2>6, <4>3 DEF Copy, TypeInv
      <4>4. CASE WriteIndex(p)
        BY <2>6, <4>4 DEF WriteIndex, TypeInv
      <4>5. CASE MoveAside(p)
        BY <2>6, <4>5 DEF MoveAside, TypeInv
      <4>6. CASE MoveResume(p)
        BY <2>6, <4>6 DEF MoveResume, TypeInv
      <4>7. CASE Crash(p)
        BY <2>6, <4>7 DEF Crash, TypeInv
      <4> QED
        BY <1>2, <4>1, <4>2, <4>3, <4>4, <4>5, <4>6, <4>7 DEF Run
    <3> QED
      BY <2>1, <2>4, <3>1, <3>2, OthersFiles
  <2>7. \A q \in Pieces : FilesOf(q)' /\ LeftBy(q)'
    BY <2>5, <2>6
  <2> QED
    BY <2>1, <2>7, WorkStays
<1> QED
  BY <1>1, <1>2 DEF Next

\* What the files hold at every point, those that a crash left behind too.
THEOREM FilesSpec == Spec => []FilesInv
<1>1. Init => FilesInv
  BY FilesInit
<1>2. (TypeInv /\ InLoop) /\ FilesInv /\ [Next]_vars => FilesInv'
  BY FilesStep
<1> QED
  BY <1>1, <1>2, SamplingTypes, PTL DEF Spec

-----------------------------------------------------------------------------
(* What the pieces leave aside.                                            *)

\* The first m places of each of the first k pieces, which have L places each.
Covered(L, m, k) == UNION {(L * (p - 1) + 1) .. (L * (p - 1) + m) : p \in 1 .. k}

LEMMA CountCovered ==
    ASSUME NEW L \in Nat, NEW m \in Nat, m <= L, NEW n \in Nat
    PROVE  IsFiniteSet(Covered(L, m, n)) /\ Cardinality(Covered(L, m, n)) = n * m
<1> DEFINE T == {k \in 0 .. n : /\ IsFiniteSet(Covered(L, m, k))
                                /\ Cardinality(Covered(L, m, k)) = k * m
                                /\ \A x \in Covered(L, m, k) : x \in Int /\ x <= L * k}
<1>1. 0 \in T
  <2>1. Covered(L, m, 0) = {}
    BY DEF Covered
  <2>2. IsFiniteSet(Covered(L, m, 0)) /\ Cardinality(Covered(L, m, 0)) = 0
    BY <2>1, FS_EmptySet
  <2>3. 0 * m = 0 /\ 0 \in 0 .. n
    OBVIOUS
  <2> QED
    BY <2>1, <2>2, <2>3
<1>2. ASSUME NEW k \in 0 .. (n - 1), k \in T PROVE k + 1 \in T
  <2>1. PICK a \in Nat : a = L * k
    <3>1. L * k \in Nat
      OBVIOUS
    <3> QED
      BY <3>1
  <2>2. L * (k + 1) = a + L /\ (k + 1) * m = k * m + m /\ k + 1 \in 0 .. n /\ k * m \in Nat
    BY <2>1
  <2>3. PICK A, B : A = Covered(L, m, k) /\ B = (a + 1) .. (a + m)
    OBVIOUS
  <2>4. Covered(L, m, k + 1) = A \cup B
    <3>1. \A p \in 1 .. (k + 1) : p \in 1 .. k \/ p = k + 1
      OBVIOUS
    <3>2. \A p \in 1 .. k : p \in 1 .. (k + 1)
      OBVIOUS
    <3>3. k + 1 \in 1 .. (k + 1) /\ (k + 1) - 1 = k
      OBVIOUS
    <3>4. B = (L * ((k + 1) - 1) + 1) .. (L * ((k + 1) - 1) + m)
      BY <2>1, <2>3, <3>3
    <3> QED
      BY <2>3, <3>1, <3>2, <3>3, <3>4 DEF Covered
  <2>5. IsFiniteSet(A) /\ Cardinality(A) = k * m /\ \A x \in A : x \in Int /\ x <= a
    BY <1>2, <2>1, <2>3
  <2>6. IsFiniteSet(B) /\ Cardinality(B) = m
    <3>1. IsFiniteSet(B) /\ Cardinality(B) = IF a + 1 > a + m THEN 0 ELSE (a + m) - (a + 1) + 1
      BY <2>3, FS_Interval
    <3>2. (IF a + 1 > a + m THEN 0 ELSE (a + m) - (a + 1) + 1) = m
      OBVIOUS
    <3> QED
      BY <3>1, <3>2
  <2>7. A \cap B = {}
    BY <2>3, <2>5
  <2>8. IsFiniteSet(A \cup B) /\ Cardinality(A \cup B) = k * m + m
    <3>1. IsFiniteSet(A \cup B)
          /\ Cardinality(A \cup B) = Cardinality(A) + Cardinality(B) - Cardinality(A \cap B)
      BY <2>5, <2>6, FS_Union
    <3>2. Cardinality(A \cap B) = 0
      BY <2>7, FS_EmptySet
    <3> QED
      BY <2>2, <2>5, <2>6, <3>1, <3>2
  <2>9. \A x \in A \cup B : x \in Int /\ x <= a + L
    BY <2>3, <2>5
  <2> QED
    BY <2>2, <2>4, <2>8, <2>9
<1>3. n \in T
  <2>1. n \in 0 .. n
    OBVIOUS
  <2> HIDE DEF T
  <2> QED
    BY <1>1, <1>2, <2>1, InductionUpTo
<1> QED
  BY <1>3

LEMMA LeftAside ==
    ASSUME NEW P \in Nat, NEW L \in Nat, NEW m \in Nat, NEW d \in Nat \ {0}, NEW S \in Nat,
           NEW c \in Nat, S <= P * L + P - 1, m <= L, L <= m + d - 1, P * m <= c
    PROVE  S - c <= P * d - 1
<1>1. PICK r \in Nat : r = L - m
  OBVIOUS
<1>2. P * r <= P * (d - 1)
  <2>1. r \in Nat /\ d - 1 \in Nat /\ r <= d - 1
    BY <1>1
  <2> QED
    BY <2>1, Monotone
<1>3. P * (d - 1) = P * d - P
  OBVIOUS
<1>4. P * L = P * m + P * r
  BY <1>1
<1>5. P * m \in Nat /\ P * r \in Nat /\ P * d \in Nat /\ P * L \in Nat
  OBVIOUS
<1> QED
  BY <1>2, <1>3, <1>4, <1>5

\* The samples that have a row in the output file of a piece.
SampledBy(p) == {row.sample : row \in ToSet(iter[p].rows)}

LEMMA PieceSampled ==
    ASSUME conf \in Setting, NEW p \in Pieces, conf.fails = {},
           HasUpTo(p, iter[p].rows, Batches)
    PROVE  /\ SampledBy(p) \subseteq 1 .. conf.samples
           /\ (PieceLen * (p - 1) + 1) .. (PieceLen * (p - 1) + conf.size * Batches)
                \subseteq SampledBy(p)
<1>1. PICK w, N : w = Work(p) /\ N = Batches /\ N \in Nat
  BY ConfFacts
<1>2. Has(w, N, iter[p].rows, N, Extra(p))
  BY <1>1 DEF HasUpTo
<1>3. PICK d \in Nat \ {0}, a \in Nat : d = conf.size /\ a = PieceLen * (p - 1)
  <2>1. p - 1 \in Nat
    BY ConfFacts DEF Pieces
  <2>2. PieceLen * (p - 1) \in Nat
    BY <2>1, ConfFacts
  <2> QED
    BY <2>2, ConfFacts
<1>4. SampledBy(p) \subseteq 1 .. conf.samples
  <2> SUFFICES ASSUME NEW row \in ToSet(iter[p].rows) PROVE row.sample \in 1 .. conf.samples
    BY DEF SampledBy
  <2>1. PICK b \in 0 .. (N - 1) : row \in ToSet(w[b])
    BY <1>2 DEF Has
  <2>2. PICK i \in 1 .. d : row.sample = At(p, b, i)
    BY <1>1, <1>3, <2>1, WorkFacts
  <2>3. /\ Batch(p, b) \in Seq(1 .. conf.samples) /\ Len(Batch(p, b)) = d
        /\ Batch(p, b)[i] = At(p, b, i)
    BY <1>1, <1>3, BatchFacts
  <2> QED
    BY <2>2, <2>3, ElementIn
<1>5. ASSUME NEW x \in (a + 1) .. (a + d * N) PROVE x \in SampledBy(p)
  <2>1. PICK y \in Nat : y = x - (a + 1) /\ y < d * N
    <3>1. d * N \in Nat
      BY <1>1
    <3>2. x - (a + 1) \in Nat /\ x - (a + 1) < d * N
      BY <3>1
    <3> QED
      BY <3>2
  <2>2. PICK b \in Nat, r \in 0 .. (d - 1) : d * b + r = y
    <3>1. y \div d \in Nat /\ y % d \in 0 .. (d - 1) /\ d * (y \div d) + (y % d) = y
      BY DivMod
    <3> QED
      BY <3>1
  <2>3. b < N
    <3> SUFFICES ASSUME N <= b PROVE FALSE
      BY <1>1
    <3>1. d * N <= d * b /\ d * N \in Nat /\ d * b \in Nat
      BY <1>1, Monotone
    <3> QED
      BY <2>1, <2>2, <3>1
  <2>4. b \in 0 .. (N - 1) /\ r + 1 \in 1 .. d
    BY <1>1, <2>3
  <2>5. PICK row \in ToSet(w[b]) : row.sample = At(p, b, r + 1)
    BY <1>1, <1>3, <2>4, WorkFacts
  <2>6. row \in ToSet(iter[p].rows)
    BY <1>2, <2>3, <2>4 DEF Has
  <2>7. At(p, b, r + 1) = x
    <3>1. d * b \in Nat
      OBVIOUS
    <3>2. a + d * b + (r + 1) = x
      BY <2>1, <2>2, <3>1
    <3> QED
      BY <1>3, <3>2 DEF At
  <2> QED
    BY <2>5, <2>6, <2>7 DEF SampledBy
<1> QED
  BY <1>1, <1>3, <1>4, <1>5

\* With as many batches as there are, the pieces leave less than one batch each aside,
\* and the samples that cannot be dealt evenly.
LEMMA MostSampled ==
    ASSUME conf \in Setting, conf.fails = {}, conf.limit >= PieceLen,
           \A p \in Pieces : HasUpTo(p, iter[p].rows, Batches)
    PROVE  conf.samples - Cardinality(UNION {SampledBy(p) : p \in Pieces})
             <= conf.pieces * conf.size - 1
<1>1. PICK P \in Nat \ {0}, S \in Nat, d \in Nat \ {0}, L \in Nat, N \in Nat, l \in Nat :
          /\ P = conf.pieces /\ S = conf.samples /\ d = conf.size /\ L = PieceLen
          /\ N = Batches /\ l = conf.limit /\ d * N <= L
  BY ConfFacts
<1>2. PICK m \in Nat : m = d * N
  <2>1. d * N \in Nat
    OBVIOUS
  <2> QED
    BY <2>1
<1>3. L <= m + d - 1
  <2>1. PICK q \in Nat, r \in 0 .. (d - 1) : q = L \div d /\ d * q + r = L
    <3>1. L \div d \in Nat /\ L % d \in 0 .. (d - 1) /\ d * (L \div d) + (L % d) = L
      BY DivMod
    <3> QED
      BY <3>1
  <2>2. q <= L
    <3>1. d * q = q + (d - 1) * q /\ (d - 1) * q \in Nat
      OBVIOUS
    <3> QED
      BY <2>1, <3>1
  <2>3. N = q
    <3>1. N = IF l < q THEN l ELSE q
      BY <1>1, <2>1 DEF Batches, Least
    <3> QED
      BY <1>1, <2>2, <3>1
  <2> QED
    BY <1>2, <2>1, <2>3
<1>4. S <= P * L + P - 1
  <2>1. PICK r \in 0 .. (P - 1) : P * L + r = S
    <3>1. S \div P \in Nat /\ S % P \in 0 .. (P - 1) /\ P * (S \div P) + (S % P) = S
      BY DivMod
    <3>2. L = S \div P
      BY <1>1 DEF PieceLen
    <3> QED
      BY <3>1, <3>2
  <2>2. P * L \in Nat
    OBVIOUS
  <2> QED
    BY <2>1, <2>2
<1>5. PICK sampled : sampled = UNION {SampledBy(p) : p \in Pieces}
  OBVIOUS
<1>6. \A p \in 1 .. P : /\ SampledBy(p) \subseteq 1 .. S
                        /\ (L * (p - 1) + 1) .. (L * (p - 1) + m) \subseteq SampledBy(p)
  BY <1>1, <1>2, PieceSampled DEF Pieces
<1>7. Pieces = 1 .. P
  BY <1>1 DEF Pieces
<1>8. Covered(L, m, P) \subseteq sampled /\ sampled \subseteq 1 .. S
  <2>1. ASSUME NEW x \in Covered(L, m, P) PROVE x \in sampled
    <3>1. PICK p \in 1 .. P : x \in (L * (p - 1) + 1) .. (L * (p - 1) + m)
      BY DEF Covered
    <3>2. x \in SampledBy(p)
      BY <1>6, <3>1
    <3> QED
      BY <1>5, <1>7, <3>2
  <2>2. ASSUME NEW x \in sampled PROVE x \in 1 .. S
    <3>1. PICK p \in 1 .. P : x \in SampledBy(p)
      BY <1>5, <1>7, <2>2
    <3> QED
      BY <1>6, <3>1
  <2> QED
    BY <2>1, <2>2
<1>9. Cardinality(Covered(L, m, P)) = P * m
  <2>1. m <= L /\ P \in Nat
    BY <1>1, <1>2
  <2> QED
    BY <2>1, CountCovered
<1>10. IsFiniteSet(sampled)
  <2>1. IsFiniteSet(1 .. S)
    BY FS_Interval
  <2> QED
    BY <1>8, <2>1, FS_Subset
<1>11. Cardinality(sampled) \in Nat /\ P * m <= Cardinality(sampled)
  BY <1>8, <1>9, <1>10, FS_Subset, FS_CardinalityType
<1>12. S - Cardinality(sampled) <= P * d - 1
  BY <1>1, <1>2, <1>3, <1>4, <1>11, LeftAside
<1> QED
  BY <1>1, <1>5, <1>12

\* However often the processes are killed and started again, an output file has the rows
\* of every batch of its piece, and repeats a row only as often as its process was killed.
THEOREM SamplesComplete == Spec => []Complete
<1>1. TypeInv /\ FilesInv => Complete
  <2> SUFFICES ASSUME TypeInv, FilesInv, Own PROVE Complete
    BY DEF Complete
  <2>1. conf \in Setting
    BY SettingsAssumption DEF TypeInv
  <2>2. \A p \in Pieces : FilesOf(p)
    BY DEF FilesInv
  <2>3. ASSUME NEW p \in Pieces, NEW rows \in Output(p)
        PROVE  /\ ToSet(rows) = ToSet(Wanted(p))
               /\ \A row \in ToSet(rows) :
                      Times(row, rows) - 1 <= IF conf.resumes THEN crashes[p] ELSE 0
    <3>1. PICK w, N : w = Work(p) /\ N = Batches /\ N \in Nat
      BY PlanOf
    <3>2. Has(w, N, rows, N, Extra(p))
      BY <2>2, <2>3, <3>1 DEF FilesOf, HasUpTo
    <3>3. ToSet(Wanted(p)) = UNION {ToSet(w[b]) : b \in 0 .. (N - 1)}
      BY <2>1, <3>1, WantedFacts
    <3>4. \A b \in 0 .. (N - 1) : b < N
      BY <3>1
    <3>5. ToSet(rows) = ToSet(Wanted(p))
      BY <3>2, <3>3, <3>4 DEF Has
    <3>6. ASSUME NEW row \in ToSet(rows)
          PROVE  Times(row, rows) - 1 <= IF conf.resumes THEN crashes[p] ELSE 0
      <4>1. PICK t \in Nat, x \in Nat : t = Times(row, rows) /\ x = Extra(p)
        BY <3>2, TimesType, ExtraType DEF Has
      <4>2. t <= x + 1
        BY <3>2, <3>4, <4>1 DEF Has
      <4> QED
        BY <4>1, <4>2 DEF Extra
    <3> QED
      BY <3>5, <3>6
  <2>4. ASSUME \A p \in Pieces : pc[p] = "done", conf.limit >= PieceLen, conf.fails = {}
        PROVE  conf.samples - Cardinality(UNION {SampledBy(p) : p \in Pieces})
                 <= conf.pieces * conf.size - 1
    <3>1. ASSUME NEW p \in Pieces PROVE HasUpTo(p, iter[p].rows, Batches)
      <4>1. iter[p].exists
        BY <2>2, <2>4 DEF FilesOf
      <4>2. iter[p].rows \in Output(p)
        BY <4>1 DEF Output
      <4> QED
        BY <2>2, <4>2 DEF FilesOf
    <3> QED
      BY <2>1, <2>4, <3>1, MostSampled
  <2> QED
    BY <2>3, <2>4 DEF Complete, SampledBy
<1> QED
  BY <1>1, SamplingTypes, FilesSpec, PTL
=============================================================================
