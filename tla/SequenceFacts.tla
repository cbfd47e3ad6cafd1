----------------------------- MODULE SequenceFacts -----------------------------
(***************************************************************************)
(* Division, induction over the natural numbers, and what the operators on *)
(* lists return: FlattenSeq (the pieces of a sequence of sequences one     *)
(* after another), Chosen, Without, SetToSeq, SubSeq and Append; how often *)
(* an element is in the result, and when it has nothing twice.             *)
(***************************************************************************)
EXTENDS Lists, SequencesExt, SequenceTheorems, FiniteSetTheorems,
        WellFoundedInduction, TLAPS

\* Division, in the form proofs need it.
LEMMA DivMod ==
    ASSUME NEW n \in Nat, NEW d \in Nat \ {0}
    PROVE  /\ n \div d \in Nat
           /\ n % d \in 0 .. (d - 1)
           /\ d * (n \div d) + (n % d) = n
<1>1. n \div d \in Int /\ n % d \in 0 .. (d - 1)
  OBVIOUS
<1>2. d * (n \div d) + (n % d) = n
  OBVIOUS
<1>3. n \div d >= 0
  OBVIOUS
<1>4. QED
  BY <1>1, <1>2, <1>3

LEMMA Monotone ==
    ASSUME NEW a \in Nat, NEW b \in Nat, NEW d \in Nat, a <= b
    PROVE  d * a <= d * b
<1>1. PICK c \in Nat : b = a + c
  <2>1. b - a \in Nat /\ b = a + (b - a)
    OBVIOUS
  <2> QED
    BY <2>1
<1>2. d * (a + c) = d * a + d * c
  OBVIOUS
<1>3. d * c >= 0 /\ d * c \in Nat /\ d * a \in Nat
  OBVIOUS
<1> QED
  BY <1>1, <1>2, <1>3

LEMMA Quotient ==
    ASSUME NEW d \in Nat \ {0}, NEW q \in Nat, NEW r \in 0 .. (d - 1)
    PROVE  (d * q + r) \div d = q /\ (d * q + r) % d = r
<1>1. PICK n \in Nat : n = d * q + r
  <2>1. d * q \in Nat
    OBVIOUS
  <2> QED
    BY <2>1
<1>2. PICK e \in Nat, m \in 0 .. (d - 1) : e = n \div d /\ m = n % d /\ d * e + m = n
  BY DivMod
<1>3. ~(e < q)
  <2> SUFFICES ASSUME e + 1 <= q PROVE FALSE
    OBVIOUS
  <2>1. d * (e + 1) <= d * q /\ d * (e + 1) = d * e + d /\ d * e \in Nat /\ d * q \in Nat
    BY Monotone
  <2> QED
    BY <1>1, <1>2, <2>1
<1>4. ~(q < e)
  <2> SUFFICES ASSUME q + 1 <= e PROVE FALSE
    OBVIOUS
  <2>1. d * (q + 1) <= d * e /\ d * (q + 1) = d * q + d /\ d * e \in Nat /\ d * q \in Nat
    BY Monotone
  <2> QED
    BY <1>1, <1>2, <2>1
<1>5. e = q
  BY <1>3, <1>4
<1>6. m = r
  <2>1. d * q \in Nat
    OBVIOUS
  <2> QED
    BY <1>1, <1>2, <1>5, <2>1
<1> QED
  BY <1>1, <1>2, <1>5, <1>6

\* A set that has 0 and the successors of what it has contains every natural number.
LEMMA Induction ==
    ASSUME NEW S, 0 \in S, \A n \in Nat : n \in S => n + 1 \in S
    PROVE  Nat \subseteq S
<1> DEFINE T == {n \in Nat : n \notin S}
<1> SUFFICES ASSUME T # {} PROVE FALSE
  OBVIOUS
<1>1. PICK x \in T : \A y \in T : ~(<<y, x>> \in OpToRel(<, Nat))
  BY T \subseteq Nat, NatLessThanWellFounded, WFMin
<1>2. \A y \in T : ~(y < x)
  BY <1>1 DEF OpToRel
<1>3. x # 0 /\ x - 1 \in Nat /\ x - 1 < x
  OBVIOUS
<1>4. x - 1 \in S
  BY <1>2, <1>3
<1>5. (x - 1) + 1 \in S
  BY <1>3, <1>4
<1> QED
  BY <1>5

\* The same up to a bound.
LEMMA InductionUpTo ==
    ASSUME NEW S, NEW m \in Nat, 0 \in S, \A n \in 0 .. (m - 1) : n \in S => n + 1 \in S
    PROVE  0 .. m \subseteq S
<1> DEFINE T == {n \in Nat : n <= m => n \in S}
<1>1. 0 \in T
  OBVIOUS
<1>2. ASSUME NEW n \in Nat, n \in T PROVE n + 1 \in T
  BY <1>2
<1>3. Nat \subseteq T
  <2> HIDE DEF T
  <2> QED
    BY <1>1, <1>2, Induction
<1> QED
  BY <1>3

-----------------------------------------------------------------------------
(* FlattenSeq.                                                             *)

\* f[i] is what the first i pieces of s are one after another.
Joins(f, s, S) ==
    /\ f \in [0 .. Len(s) -> Seq(S)]
    /\ f[0] = <<>>
    /\ \A i \in 1 .. Len(s) : f[i] = f[i - 1] \o s[i]

\* The recursion of FlattenSeq.
Flattening(f, s, n) == f = [i \in 1 .. n |-> IF i = 1 THEN s[i] ELSE f[i - 1] \o s[i]]

LEMMA FlatteningExists ==
    ASSUME NEW s, NEW m \in Nat
    PROVE  \E f : Flattening(f, s, m)
<1> DEFINE T == {n \in Nat : \E f : Flattening(f, s, n)}
<1>1. 0 \in T
  <2>1. Flattening([i \in 1 .. 0 |-> 0], s, 0)
    BY DEF Flattening
  <2> QED
    BY <2>1
<1>2. ASSUME NEW n \in Nat, n \in T PROVE n + 1 \in T
  <2>1. PICK f : Flattening(f, s, n)
    BY <1>2
  <2> DEFINE g == [i \in 1 .. (n + 1) |->
                     IF i <= n THEN f[i] ELSE IF i = 1 THEN s[i] ELSE f[i - 1] \o s[i]]
  <2>2. ASSUME NEW i \in 1 .. (n + 1)
        PROVE  g[i] = IF i = 1 THEN s[i] ELSE g[i - 1] \o s[i]
    <3>1. CASE i <= n
      <4>1. i \in 1 .. n /\ g[i] = f[i]
        BY <3>1
      <4>4. f[i] = IF i = 1 THEN s[i] ELSE f[i - 1] \o s[i]
        <5>1. f = [j \in 1 .. n |-> IF j = 1 THEN s[j] ELSE f[j - 1] \o s[j]]
          BY <2>1 DEF Flattening
        <5> HIDE DEF g
        <5> QED
          BY <4>1, <5>1
      <4>2. i # 1 => i - 1 \in 1 .. (n + 1) /\ i - 1 <= n
        BY <3>1
      <4>3. i # 1 => g[i - 1] = f[i - 1]
        BY <4>2
      <4> HIDE DEF g
      <4> QED
        BY <4>1, <4>3, <4>4
    <3>2. CASE ~(i <= n)
      <4>1. i # 1 => i - 1 \in 1 .. (n + 1) /\ i - 1 <= n
        BY <3>2
      <4>2. i # 1 => g[i - 1] = f[i - 1]
        BY <4>1
      <4>3. g[i] = IF i = 1 THEN s[i] ELSE f[i - 1] \o s[i]
        BY <3>2
      <4> HIDE DEF g
      <4> QED
        BY <4>2, <4>3
    <3> QED
      BY <3>1, <3>2
  <2>3. g = [i \in 1 .. (n + 1) |-> g[i]]
    OBVIOUS
  <2>4. [i \in 1 .. (n + 1) |-> g[i]] =
        [i \in 1 .. (n + 1) |-> IF i = 1 THEN s[i] ELSE g[i - 1] \o s[i]]
    <3> HIDE DEF g
    <3> QED
      BY <2>2
  <2>5. Flattening(g, s, n + 1)
    <3> HIDE DEF g
    <3> QED
      BY <2>3, <2>4 DEF Flattening
  <2> QED
    BY <2>5
<1>3. Nat \subseteq T
  <2> HIDE DEF T
  <2> QED
    BY <1>1, <1>2, Induction
<1> QED
  BY <1>3

LEMMA FlattenUnfold ==
    ASSUME NEW s, Len(s) \in Nat, Len(s) # 0
    PROVE  \E f : Flattening(f, s, Len(s)) /\ FlattenSeq(s) = f[Len(s)]
<1> DEFINE h == CHOOSE f : Flattening(f, s, Len(s))
<1>1. Flattening(h, s, Len(s))
  BY FlatteningExists
<1>2. FlattenSeq(s) = h[Len(s)]
  BY DEF FlattenSeq, Flattening
<1> HIDE DEF h
<1> QED
  BY <1>1, <1>2

\* FlattenSeq joins the pieces in their order.
LEMMA FlattenJoins ==
    ASSUME NEW S, NEW s \in Seq(Seq(S))
    PROVE  \E f : Joins(f, s, S) /\ FlattenSeq(s) = f[Len(s)]
<1>1. CASE Len(s) = 0
  <2> DEFINE f == [i \in 0 .. 0 |-> <<>>]
  <2>1. s = <<>> /\ FlattenSeq(s) = s
    BY <1>1 DEF FlattenSeq
  <2>2. Joins(f, s, S)
    BY <1>1, <2>1 DEF Joins
  <2> QED
    BY <1>1, <2>1, <2>2
<1>2. CASE Len(s) # 0
  <2>1. PICK n \in Nat \ {0} : n = Len(s)
    BY <1>2
  <2>2. PICK h : Flattening(h, s, n) /\ FlattenSeq(s) = h[n]
    BY <1>2, <2>1, FlattenUnfold
  <2>3. \A i \in 1 .. n : s[i] \in Seq(S)
    BY <2>1
  <2>4. \A i \in 1 .. n : h[i] = IF i = 1 THEN s[i] ELSE h[i - 1] \o s[i]
    BY <2>2 DEF Flattening
  <2> DEFINE T == {i \in 0 .. n : i = 0 \/ h[i] \in Seq(S)}
  <2>5. 0 .. n \subseteq T
    <3>1. 0 \in T
      OBVIOUS
    <3>2. ASSUME NEW i \in 0 .. (n - 1), i \in T PROVE i + 1 \in T
      <4>1. i + 1 \in 1 .. n /\ (i + 1) - 1 = i
        OBVIOUS
      <4>2. CASE i = 0
        BY <2>3, <2>4, <4>1, <4>2
      <4>3. CASE i # 0
        <5>1. h[i] \in Seq(S) /\ s[i + 1] \in Seq(S)
          BY <2>3, <3>2, <4>1, <4>3
        <5>2. h[i + 1] = h[(i + 1) - 1] \o s[i + 1]
          <6>1. i + 1 # 1
            BY <4>3
          <6> QED
            BY <2>4, <4>1, <6>1
        <5>3. h[i + 1] = h[i] \o s[i + 1]
          BY <4>1, <5>2
        <5>4. h[i + 1] \in Seq(S)
          BY <5>1, <5>3
        <5>5. i + 1 \in 0 .. n
          BY <4>1
        <5> QED
          BY <5>4, <5>5
      <4> QED
        BY <4>2, <4>3
    <3> HIDE DEF T
    <3> QED
      BY <3>1, <3>2, InductionUpTo
  <2> DEFINE f == [i \in 0 .. n |-> IF i = 0 THEN <<>> ELSE h[i]]
  <2>6. f \in [0 .. n -> Seq(S)] /\ f[0] = <<>> /\ f[n] = h[n]
    BY <2>5
  <2>7. ASSUME NEW i \in 1 .. n PROVE f[i] = f[i - 1] \o s[i]
    <3>1. CASE i = 1
      <4>1. f[i] = s[i] /\ f[i - 1] = <<>>
        BY <2>4, <3>1
      <4>2. s[i] = <<>> \o s[i]
        BY <2>3, ConcatEmptySeq
      <4> HIDE DEF f
      <4> QED
        BY <4>1, <4>2
    <3>2. CASE i # 1
      <4>1. f[i] = h[i] /\ f[i - 1] = h[i - 1]
        BY <3>2
      <4> HIDE DEF f
      <4> QED
        BY <2>4, <3>2, <4>1
    <3> QED
      BY <3>1, <3>2
  <2> HIDE DEF f
  <2>8. Joins(f, s, S)
    BY <2>1, <2>6, <2>7 DEF Joins
  <2> QED
    BY <2>1, <2>2, <2>6, <2>8
<1> QED
  BY <1>1, <1>2

LEMMA FlattenType ==
    ASSUME NEW S, NEW s \in Seq(Seq(S))
    PROVE  FlattenSeq(s) \in Seq(S)
<1>1. PICK f : Joins(f, s, S) /\ FlattenSeq(s) = f[Len(s)]
  BY FlattenJoins
<1> QED
  BY <1>1, Len(s) \in 0 .. Len(s) DEF Joins

\* What is flattened first comes first.
LEMMA FlattenPrefix ==
    ASSUME NEW S, NEW s \in Seq(Seq(S)), NEW f, Joins(f, s, S)
    PROVE  FlattenSeq(s) = f[Len(s)]
<1>1. PICK g : Joins(g, s, S) /\ FlattenSeq(s) = g[Len(s)]
  BY FlattenJoins
<1>2. PICK n \in Nat : n = Len(s)
  OBVIOUS
<1> DEFINE T == {i \in 0 .. n : f[i] = g[i]}
<1>3. 0 \in T
  BY <1>1 DEF Joins
<1>4. ASSUME NEW i \in 0 .. (n - 1), i \in T PROVE i + 1 \in T
  <2>1. i + 1 \in 1 .. n /\ (i + 1) - 1 = i
    OBVIOUS
  <2>2. f[i + 1] = f[i] \o s[i + 1]
    BY <1>2, <2>1 DEF Joins
  <2>3. g[i + 1] = g[i] \o s[i + 1]
    BY <1>1, <1>2, <2>1 DEF Joins
  <2>4. f[i] = g[i] /\ i + 1 \in 0 .. n
    BY <1>4, <2>1
  <2> QED
    BY <2>2, <2>3, <2>4
<1>5. 0 .. n \subseteq T
  <2> HIDE DEF T
  <2> QED
    BY <1>3, <1>4, InductionUpTo
<1> QED
  BY <1>1, <1>2, <1>5

LEMMA FlattenEmpty == FlattenSeq(<<>>) = <<>>
  BY DEF FlattenSeq

\* One more piece is put at the end.
LEMMA FlattenAppend ==
    ASSUME NEW S, NEW s \in Seq(Seq(S)), NEW x \in Seq(S)
    PROVE  FlattenSeq(Append(s, x)) = FlattenSeq(s) \o x
<1>1. PICK f : Joins(f, s, S) /\ FlattenSeq(s) = f[Len(s)]
  BY FlattenJoins
<1>2. PICK n \in Nat : n = Len(s)
  OBVIOUS
<1>3. PICK t \in Seq(Seq(S)) : t = Append(s, x)
  BY AppendProperties
<1>4. Len(t) = n + 1 /\ t[n + 1] = x /\ \A i \in 1 .. n : t[i] = s[i]
  BY <1>2, <1>3
<1> DEFINE g == [i \in 0 .. (n + 1) |-> IF i <= n THEN f[i] ELSE f[n] \o x]
<1>5. f[n] \in Seq(S) /\ f[0] = <<>> /\ f \in [0 .. n -> Seq(S)]
  BY <1>1, <1>2 DEF Joins
<1>6. f[n] \o x \in Seq(S)
  BY <1>5
<1>7. g \in [0 .. (n + 1) -> Seq(S)] /\ g[0] = <<>> /\ g[n + 1] = f[n] \o x
  BY <1>5, <1>6
<1>8. ASSUME NEW i \in 1 .. (n + 1) PROVE g[i] = g[i - 1] \o t[i]
  <2>1. CASE i = n + 1
    <3>1. g[i - 1] = f[n]
      BY <2>1
    <3> HIDE DEF g
    <3> QED
      BY <1>4, <1>7, <2>1, <3>1
  <2>2. CASE i # n + 1
    <3>1. i \in 1 .. n
      BY <2>2
    <3>2. g[i - 1] = f[i - 1] /\ g[i] = f[i]
      BY <3>1
    <3>3. f[i] = f[i - 1] \o s[i]
      BY <1>1, <1>2, <3>1 DEF Joins
    <3> HIDE DEF g
    <3> QED
      BY <1>4, <3>1, <3>2, <3>3
  <2> QED
    BY <2>1, <2>2
<1> HIDE DEF g
<1>9. Joins(g, t, S)
  BY <1>4, <1>7, <1>8 DEF Joins
<1>10. FlattenSeq(t) = g[n + 1]
  BY <1>4, <1>9, FlattenPrefix
<1> QED
  BY <1>1, <1>2, <1>3, <1>7, <1>10

-----------------------------------------------------------------------------
(* What is in a sequence.                                                  *)

LEMMA ElementsOf ==
    ASSUME NEW S, NEW s \in Seq(S)
    PROVE  ToSet(s) = {s[i] : i \in 1 .. Len(s)}
  BY DEF ToSet

LEMMA ConcatElements ==
    ASSUME NEW S, NEW s \in Seq(S), NEW t \in Seq(S)
    PROVE  ToSet(s \o t) = ToSet(s) \cup ToSet(t)
<1>1. PICK m \in Nat, n \in Nat : m = Len(s) /\ n = Len(t)
  OBVIOUS
<1>2. PICK u \in Seq(S) : u = s \o t
  BY ConcatProperties
<1>3. /\ Len(u) = m + n
      /\ \A i \in 1 .. (m + n) : u[i] = IF i <= m THEN s[i] ELSE t[i - m]
  BY <1>1, <1>2, ConcatProperties
<1>4. ToSet(s) = {s[i] : i \in 1 .. m} /\ ToSet(t) = {t[i] : i \in 1 .. n}
  BY <1>1, ElementsOf
<1>5. ToSet(u) = {u[i] : i \in 1 .. (m + n)}
  BY <1>3, ElementsOf
<1>6. \A i \in 1 .. m : i \in 1 .. (m + n) /\ u[i] = s[i]
  BY <1>3
<1>7. ASSUME NEW i \in 1 .. n PROVE i + m \in 1 .. (m + n) /\ u[i + m] = t[i]
  <2>1. i + m \in 1 .. (m + n) /\ ~(i + m <= m) /\ (i + m) - m = i
    OBVIOUS
  <2> QED
    BY <1>3, <2>1
<1>8. \A i \in 1 .. (m + n) : i <= m => i \in 1 .. m /\ u[i] = s[i]
  BY <1>3
<1>9. \A i \in 1 .. (m + n) : ~(i <= m) => i - m \in 1 .. n /\ u[i] = t[i - m]
  BY <1>3
<1>10. ToSet(s) \cup ToSet(t) \subseteq ToSet(u)
  BY ONLY <1>4, <1>5, <1>6, <1>7
<1>11. ToSet(u) \subseteq ToSet(s) \cup ToSet(t)
  BY ONLY <1>4, <1>5, <1>8, <1>9
<1> QED
  BY <1>2, <1>10, <1>11

\* Nothing is in s twice.
OneToOne(s) == \A j, k \in 1 .. Len(s) : s[j] = s[k] => j = k

LEMMA ConcatOneToOne ==
    ASSUME NEW S, NEW s \in Seq(S), NEW t \in Seq(S), OneToOne(s), OneToOne(t),
           ToSet(s) \cap ToSet(t) = {}
    PROVE  OneToOne(s \o t)
<1>1. PICK m \in Nat, n \in Nat : m = Len(s) /\ n = Len(t)
  OBVIOUS
<1>2. PICK u \in Seq(S) : u = s \o t
  BY ConcatProperties
<1>3. /\ Len(u) = m + n
      /\ \A i \in 1 .. (m + n) : u[i] = IF i <= m THEN s[i] ELSE t[i - m]
  BY <1>1, <1>2, ConcatProperties
<1>4. \A i \in 1 .. m, j \in 1 .. n : s[i] # t[j]
  <2>1. ToSet(s) = {s[i] : i \in 1 .. m} /\ ToSet(t) = {t[i] : i \in 1 .. n}
    BY <1>1, ElementsOf
  <2> QED
    BY <2>1
<1>5. \A i, j \in 1 .. m : s[i] = s[j] => i = j
  BY <1>1 DEF OneToOne
<1>6. \A i, j \in 1 .. n : t[i] = t[j] => i = j
  BY <1>1 DEF OneToOne
<1>7. ASSUME NEW i \in 1 .. (m + n), NEW j \in 1 .. (m + n), u[i] = u[j] PROVE i = j
  <2>1. CASE i <= m /\ j <= m
    <3>1. u[i] = s[i] /\ u[j] = s[j] /\ i \in 1 .. m /\ j \in 1 .. m
      BY <1>3, <2>1
    <3> QED
      BY <1>5, <1>7, <3>1
  <2>2. CASE i <= m /\ ~(j <= m)
    <3>1. u[i] = s[i] /\ u[j] = t[j - m] /\ i \in 1 .. m /\ j - m \in 1 .. n
      BY <1>3, <2>2
    <3> QED
      BY <1>4, <1>7, <3>1
  <2>3. CASE ~(i <= m) /\ j <= m
    <3>1. u[j] = s[j] /\ u[i] = t[i - m] /\ j \in 1 .. m /\ i - m \in 1 .. n
      BY <1>3, <2>3
    <3> QED
      BY <1>4, <1>7, <3>1
  <2>4. CASE ~(i <= m) /\ ~(j <= m)
    <3>1. u[i] = t[i - m] /\ u[j] = t[j - m] /\ i - m \in 1 .. n /\ j - m \in 1 .. n
      BY <1>3, <2>4
    <3>2. i - m = j - m
      BY <1>6, <1>7, <3>1
    <3> QED
      BY <3>2
  <2> QED
    BY <2>1, <2>2, <2>3, <2>4
<1>8. OneToOne(u)
  BY <1>3, <1>7 DEF OneToOne
<1> QED
  BY <1>2, <1>8

\* What is in the first n pieces of s.
InPieces(s, n) == UNION {ToSet(s[j]) : j \in 1 .. n}

LEMMA JoinsElements ==
    ASSUME NEW S, NEW s \in Seq(Seq(S)), NEW f, Joins(f, s, S), NEW n \in Nat, n = Len(s)
    PROVE  \A i \in 0 .. n : ToSet(f[i]) = InPieces(s, i)
<1> DEFINE T == {i \in 0 .. n : ToSet(f[i]) = InPieces(s, i)}
<1>1. 0 \in T
  <2>1. f[0] = <<>> /\ ToSet(<<>>) = {}
    BY DEF Joins, ToSet
  <2> QED
    BY <2>1 DEF InPieces
<1>2. ASSUME NEW i \in 0 .. (n - 1), i \in T PROVE i + 1 \in T
  <2>1. i + 1 \in 1 .. n /\ (i + 1) - 1 = i /\ i + 1 \in 0 .. n /\ i \in 0 .. n
    OBVIOUS
  <2>2. f[i + 1] = f[(i + 1) - 1] \o s[i + 1] /\ f[i] \in Seq(S)
    BY <2>1 DEF Joins
  <2>3. f[i + 1] = f[i] \o s[i + 1] /\ s[i + 1] \in Seq(S)
    BY <2>1, <2>2
  <2>4. ToSet(f[i + 1]) = ToSet(f[i]) \cup ToSet(s[i + 1])
    BY <2>2, <2>3, ConcatElements
  <2>5. 1 .. (i + 1) = (1 .. i) \cup {i + 1}
    OBVIOUS
  <2>6. ToSet(f[i]) = InPieces(s, i)
    BY <1>2
  <2>7. ToSet(f[i + 1]) = InPieces(s, i + 1)
    BY ONLY <2>4, <2>5, <2>6 DEF InPieces
  <2> QED
    BY <2>1, <2>7
<1>3. 0 .. n \subseteq T
  <2> HIDE DEF T
  <2> QED
    BY <1>1, <1>2, InductionUpTo
<1> QED
  BY <1>3

\* FlattenSeq has what is in its pieces.
LEMMA FlattenElements ==
    ASSUME NEW S, NEW s \in Seq(Seq(S))
    PROVE  ToSet(FlattenSeq(s)) = InPieces(s, Len(s))
<1>1. PICK n \in Nat : n = Len(s)
  OBVIOUS
<1>2. PICK f : Joins(f, s, S) /\ FlattenSeq(s) = f[n]
  BY <1>1, FlattenJoins
<1>3. n \in 0 .. n
  OBVIOUS
<1> QED
  <2>1. \A i \in 0 .. n : ToSet(f[i]) = InPieces(s, i)
    BY <1>1, <1>2, JoinsElements
  <2> QED
    BY ONLY <1>1, <1>2, <1>3, <2>1

\* Pieces without anything twice or in common have nothing twice together.
LEMMA FlattenOneToOne ==
    ASSUME NEW S, NEW s \in Seq(Seq(S)),
           \A i \in 1 .. Len(s) : OneToOne(s[i]),
           \A i, j \in 1 .. Len(s) : i # j => ToSet(s[i]) \cap ToSet(s[j]) = {}
    PROVE  OneToOne(FlattenSeq(s))
<1>1. PICK n \in Nat : n = Len(s)
  OBVIOUS
<1>2. PICK f : Joins(f, s, S) /\ FlattenSeq(s) = f[n]
  BY <1>1, FlattenJoins
<1> DEFINE T == {i \in 0 .. n : OneToOne(f[i])}
<1>3. 0 \in T
  <2>1. f[0] = <<>> /\ OneToOne(<<>>)
    BY <1>2 DEF Joins, OneToOne
  <2> QED
    BY <2>1
<1>4. ASSUME NEW i \in 0 .. (n - 1), i \in T PROVE i + 1 \in T
  <2>1. i + 1 \in 1 .. n /\ (i + 1) - 1 = i /\ i + 1 \in 0 .. n /\ i \in 0 .. n
    OBVIOUS
  <2>2. f[i + 1] = f[(i + 1) - 1] \o s[i + 1] /\ f[i] \in Seq(S)
    BY <1>1, <1>2, <2>1 DEF Joins
  <2>3. f[i + 1] = f[i] \o s[i + 1] /\ s[i + 1] \in Seq(S)
    BY <1>1, <2>1, <2>2
  <2>4. ToSet(f[i]) = UNION {ToSet(s[j]) : j \in 1 .. i}
    <3>1. \A k \in 0 .. n : ToSet(f[k]) = InPieces(s, k)
      BY <1>1, <1>2, JoinsElements
    <3> QED
      BY <2>1, <3>1 DEF InPieces
  <2>5. \A j \in 1 .. i : j \in 1 .. n /\ j # i + 1
    OBVIOUS
  <2>6. ToSet(f[i]) \cap ToSet(s[i + 1]) = {}
    <3>1. \A j \in 1 .. i : ToSet(s[j]) \cap ToSet(s[i + 1]) = {}
      BY <1>1, <2>1, <2>5
    <3> QED
      BY ONLY <2>4, <3>1
  <2>7. OneToOne(f[i + 1])
    BY <1>1, <1>4, <2>1, <2>2, <2>3, <2>6, ConcatOneToOne
  <2> QED
    BY <2>1, <2>7
<1>5. 0 .. n \subseteq T
  <2> HIDE DEF T
  <2> QED
    BY <1>3, <1>4, InductionUpTo
<1> QED
  BY <1>2, <1>5

\* What has been joined stays where it is.
LEMMA JoinsGrow ==
    ASSUME NEW S, NEW s \in Seq(Seq(S)), NEW f, Joins(f, s, S), NEW n \in Nat, n = Len(s),
           NEW i \in 0 .. n
    PROVE  /\ Len(f[i]) <= Len(f[n])
           /\ \A q \in 1 .. Len(f[i]) : f[n][q] = f[i][q]
<1>1. \A k \in 0 .. n : f[k] \in Seq(S)
  BY DEF Joins
<1>2. PICK a \in Seq(S), m \in Nat : a = f[i] /\ m = Len(a)
  BY <1>1
<1> DEFINE T == {k \in 0 .. n : k >= i => /\ m <= Len(f[k])
                                          /\ \A q \in 1 .. m : f[k][q] = a[q]}
<1>3. 0 \in T
  <2>1. CASE i = 0
    BY <1>2, <2>1
  <2>2. CASE i # 0
    BY <2>2
  <2> QED
    BY <2>1, <2>2
<1>4. ASSUME NEW k \in 0 .. (n - 1), k \in T PROVE k + 1 \in T
  <2>1. k + 1 \in 1 .. n /\ (k + 1) - 1 = k /\ k + 1 \in 0 .. n /\ k \in 0 .. n
    OBVIOUS
  <2>2. f[k + 1] = f[(k + 1) - 1] \o s[k + 1]
    BY <2>1 DEF Joins
  <2>3. PICK b \in Seq(S), c \in Seq(S) : b = f[k] /\ c = s[k + 1]
    BY <1>1, <2>1
  <2>4. PICK x \in Nat, y \in Nat : x = Len(b) /\ y = Len(c)
    OBVIOUS
  <2>5. PICK d \in Seq(S) : d = b \o c
    BY ConcatProperties
  <2>6. Len(d) = x + y /\ \A q \in 1 .. x : d[q] = b[q]
    BY <2>4, <2>5, ConcatProperties
  <2>7. f[k + 1] = d
    BY <2>1, <2>2, <2>3, <2>5
  <2>8. CASE k + 1 = i
    BY <1>2, <2>1, <2>8
  <2>9. CASE k + 1 # i /\ k + 1 >= i
    <3>1. k >= i
      BY <2>9
    <3>2. m <= x /\ \A q \in 1 .. m : b[q] = a[q]
      BY <1>4, <2>3, <2>4, <3>1
    <3>3. \A q \in 1 .. m : q \in 1 .. x
      BY <3>2
    <3>4. m <= x + y /\ \A q \in 1 .. m : d[q] = a[q]
      BY <2>6, <3>2, <3>3
    <3> QED
      BY <2>1, <2>6, <2>7, <3>4
  <2>10. CASE ~(k + 1 >= i)
    BY <2>1, <2>10
  <2> QED
    BY <2>8, <2>9, <2>10
<1>5. 0 .. n \subseteq T
  <2> HIDE DEF T
  <2> QED
    BY <1>3, <1>4, InductionUpTo
<1> QED
  BY <1>2, <1>5

-----------------------------------------------------------------------------
(* Lists that loops put together.                                          *)

LEMMA JoinedFlattens ==
    ASSUME NEW S, NEW s \in Seq(Seq(S)), NEW n \in Nat, n = Len(s)
    PROVE  Joined(s, n) = FlattenSeq(s)
<1> DEFINE g == CHOOSE g : g = [k \in 0 .. n |-> IF k = 0 THEN <<>> ELSE g[k - 1] \o s[k]]
<1>1. PICK f : Joins(f, s, S) /\ FlattenSeq(s) = f[n]
  BY FlattenJoins
<1>2. f \in [0 .. n -> Seq(S)] /\ f[0] = <<>> /\ \A k \in 1 .. n : f[k] = f[k - 1] \o s[k]
  BY <1>1 DEF Joins
<1>3. \A k \in 0 .. n : f[k] = IF k = 0 THEN <<>> ELSE f[k - 1] \o s[k]
  <2> TAKE k \in 0 .. n
  <2>1. k # 0 => k \in 1 .. n
    OBVIOUS
  <2> QED
    BY <1>2, <2>1
<1>4. f = [k \in 0 .. n |-> f[k]]
  BY <1>2
<1>5. [k \in 0 .. n |-> f[k]] = [k \in 0 .. n |-> IF k = 0 THEN <<>> ELSE f[k - 1] \o s[k]]
  BY <1>3
<1>6. f = [k \in 0 .. n |-> IF k = 0 THEN <<>> ELSE f[k - 1] \o s[k]]
  BY <1>4, <1>5
<1>7. g = [k \in 0 .. n |-> IF k = 0 THEN <<>> ELSE g[k - 1] \o s[k]]
  BY <1>6
<1>8. Joined(s, n) = g[n]
  BY DEF Joined
<1> HIDE DEF g
<1>9. g[0] = <<>> /\ \A k \in 1 .. n : g[k] = g[k - 1] \o s[k]
  <2>1. \A k \in 0 .. n : g[k] = IF k = 0 THEN <<>> ELSE g[k - 1] \o s[k]
    <3> TAKE k \in 0 .. n
    <3> QED
      BY ONLY <1>7, k \in 0 .. n
  <2>2. 0 \in 0 .. n /\ \A k \in 1 .. n : k \in 0 .. n /\ k # 0
    OBVIOUS
  <2>3. g[0] = <<>>
    BY <2>1, <2>2
  <2>4. ASSUME NEW k \in 1 .. n PROVE g[k] = g[k - 1] \o s[k]
    BY ONLY <2>1, <2>2, k \in 1 .. n
  <2> QED
    BY <2>3, <2>4
<1> DEFINE T == {k \in 0 .. n : g[k] = f[k]}
<1>10. 0 \in T
  BY <1>2, <1>9
<1>11. ASSUME NEW k \in 0 .. (n - 1), k \in T PROVE k + 1 \in T
  <2>1. k + 1 \in 1 .. n /\ (k + 1) - 1 = k /\ k + 1 \in 0 .. n
    OBVIOUS
  <2>2. g[k + 1] = g[(k + 1) - 1] \o s[k + 1] /\ f[k + 1] = f[(k + 1) - 1] \o s[k + 1]
    BY <1>2, <1>9, <2>1
  <2>3. g[k + 1] = f[k + 1]
    BY <1>11, <2>1, <2>2
  <2> QED
    BY <2>1, <2>3
<1>12. 0 .. n \subseteq T
  <2> HIDE DEF T
  <2> QED
    BY <1>10, <1>11, InductionUpTo
<1> QED
  BY <1>1, <1>8, <1>12

\* The pieces that Without joins.
Parts(s, S) == [k \in DOMAIN s |-> IF s[k] \in S THEN <<>> ELSE <<s[k]>>]

LEMMA PartsFacts ==
    ASSUME NEW T, NEW s \in Seq(T), NEW S
    PROVE  /\ Parts(s, S) \in Seq(Seq(T)) /\ Len(Parts(s, S)) = Len(s)
           /\ \A k \in 1 .. Len(s) : Parts(s, S)[k] = IF s[k] \in S THEN <<>> ELSE <<s[k]>>
           /\ Without(s, S) = FlattenSeq(Parts(s, S))
<1>1. PICK n \in Nat : n = Len(s)
  OBVIOUS
<1>2. DOMAIN s = 1 .. n /\ \A k \in 1 .. n : s[k] \in T
  BY <1>1
<1>3. Parts(s, S) = [k \in 1 .. n |-> IF s[k] \in S THEN <<>> ELSE <<s[k]>>]
  BY <1>2 DEF Parts
<1>4. \A k \in 1 .. n : (IF s[k] \in S THEN <<>> ELSE <<s[k]>>) \in Seq(T)
  BY <1>2
<1>5. Parts(s, S) \in [1 .. n -> Seq(T)]
  BY <1>3, <1>4
<1>6. Parts(s, S) \in Seq(Seq(T)) /\ Len(Parts(s, S)) = n
  BY <1>5
<1>7. \A k \in 1 .. n : Parts(s, S)[k] = IF s[k] \in S THEN <<>> ELSE <<s[k]>>
  BY <1>3
<1>8. Without(s, S) = Joined(Parts(s, S), n)
  BY <1>1 DEF Without, Parts
<1>9. Without(s, S) = FlattenSeq(Parts(s, S))
  BY <1>6, <1>8, JoinedFlattens
<1> QED
  BY <1>1, <1>6, <1>7, <1>9

LEMMA WithoutType ==
    ASSUME NEW T, NEW s \in Seq(T), NEW S
    PROVE  Without(s, S) \in Seq(T)
  BY PartsFacts, FlattenType

LEMMA WithoutElements ==
    ASSUME NEW T, NEW s \in Seq(T), NEW S
    PROVE  ToSet(Without(s, S)) = ToSet(s) \ S
<1>1. PICK n \in Nat : n = Len(s)
  OBVIOUS
<1>2. PICK parts \in Seq(Seq(T)) : parts = Parts(s, S) /\ Len(parts) = n
  BY <1>1, PartsFacts
<1>3. ToSet(Without(s, S)) = InPieces(parts, n)
  BY <1>2, PartsFacts, FlattenElements
<1>4. \A k \in 1 .. n : ToSet(parts[k]) = {s[k]} \ S
  <2> TAKE k \in 1 .. n
  <2>1. parts[k] = IF s[k] \in S THEN <<>> ELSE <<s[k]>>
    BY <1>1, <1>2, PartsFacts
  <2>2. ToSet(<<>>) = {} /\ ToSet(<<s[k]>>) = {s[k]}
    BY DEF ToSet
  <2> QED
    BY <2>1, <2>2
<1>5. ToSet(s) = {s[k] : k \in 1 .. n}
  BY <1>1, ElementsOf
<1> QED
  BY <1>3, <1>4, <1>5 DEF InPieces

LEMMA WithoutOneToOne ==
    ASSUME NEW T, NEW s \in Seq(T), NEW S, OneToOne(s)
    PROVE  OneToOne(Without(s, S))
<1>1. PICK n \in Nat : n = Len(s)
  OBVIOUS
<1>2. PICK parts \in Seq(Seq(T)) : parts = Parts(s, S) /\ Len(parts) = n
  BY <1>1, PartsFacts
<1>3. \A k \in 1 .. n : ToSet(parts[k]) \subseteq {s[k]} /\ OneToOne(parts[k])
  <2> TAKE k \in 1 .. n
  <2>1. parts[k] = IF s[k] \in S THEN <<>> ELSE <<s[k]>>
    BY <1>1, <1>2, PartsFacts
  <2>2. ToSet(<<>>) = {} /\ ToSet(<<s[k]>>) = {s[k]}
    BY DEF ToSet
  <2>3. OneToOne(<<>>) /\ OneToOne(<<s[k]>>)
    BY DEF OneToOne
  <2> QED
    BY <2>1, <2>2, <2>3
<1>4. \A j, k \in 1 .. n : j # k => s[j] # s[k]
  BY <1>1 DEF OneToOne
<1>5. \A j, k \in 1 .. n : j # k => ToSet(parts[j]) \cap ToSet(parts[k]) = {}
  BY <1>3, <1>4
<1>6. OneToOne(FlattenSeq(parts))
  BY <1>2, <1>3, <1>5, FlattenOneToOne
<1> QED
  BY <1>2, <1>6, PartsFacts

\* An element that stays comes after those before it that stay.
LEMMA WithoutAt ==
    ASSUME NEW T, NEW s \in Seq(T), NEW S, NEW i \in 1 .. Len(s), s[i] \notin S,
           NEW q \in Nat, q = Cardinality({k \in 1 .. (i - 1) : s[k] \notin S})
    PROVE  /\ q + 1 \in 1 .. Len(Without(s, S))
           /\ Without(s, S)[q + 1] = s[i]
<1>1. PICK n \in Nat : n = Len(s)
  OBVIOUS
<1>2. PICK parts \in Seq(Seq(T)) : parts = Parts(s, S) /\ Len(parts) = n
  BY <1>1, PartsFacts
<1>3. \A k \in 1 .. n : parts[k] = IF s[k] \in S THEN <<>> ELSE <<s[k]>>
  BY <1>1, <1>2, PartsFacts
<1>4. PICK f : Joins(f, parts, T) /\ FlattenSeq(parts) = f[n]
  BY <1>2, FlattenJoins
<1>5. f \in [0 .. n -> Seq(T)] /\ f[0] = <<>> /\ \A k \in 1 .. n : f[k] = f[k - 1] \o parts[k]
  BY <1>2, <1>4 DEF Joins
<1> DEFINE kept(m) == {k \in 1 .. m : s[k] \notin S}
           A == {m \in 0 .. n : IsFiniteSet(kept(m)) /\ Len(f[m]) = Cardinality(kept(m))}
<1>6. 0 \in A
  <2>1. kept(0) = {}
    OBVIOUS
  <2>2. IsFiniteSet(kept(0)) /\ Cardinality(kept(0)) = 0
    BY <2>1, FS_EmptySet
  <2>3. Len(f[0]) = 0
    BY <1>5
  <2> QED
    BY <2>2, <2>3
<1>7. ASSUME NEW m \in 0 .. (n - 1), m \in A PROVE m + 1 \in A
  <2>1. m + 1 \in 1 .. n /\ (m + 1) - 1 = m /\ m + 1 \in 0 .. n /\ m \in 0 .. n
    OBVIOUS
  <2>2. f[m + 1] = f[(m + 1) - 1] \o parts[m + 1]
    BY <1>5, <2>1
  <2>3. PICK a \in Seq(T) : a = f[m]
    BY <1>5, <2>1
  <2>4. IsFiniteSet(kept(m)) /\ Len(a) = Cardinality(kept(m)) /\ Cardinality(kept(m)) \in Nat
    BY <1>7, <2>3, FS_CardinalityType
  <2>5. CASE s[m + 1] \in S
    <3>1. kept(m + 1) = kept(m)
      BY <2>1, <2>5
    <3>2. f[m + 1] = a
      BY <1>3, <2>1, <2>2, <2>3, <2>5, ConcatEmptySeq
    <3> QED
      BY <2>1, <2>3, <2>4, <3>1, <3>2
  <2>6. CASE s[m + 1] \notin S
    <3>1. kept(m + 1) = kept(m) \cup {m + 1} /\ m + 1 \notin kept(m)
      BY <2>1, <2>6
    <3> HIDE DEF kept
    <3>2. IsFiniteSet(kept(m + 1)) /\ Cardinality(kept(m + 1)) = Cardinality(kept(m)) + 1
      BY <2>4, <3>1, FS_AddElement
    <3>3. PICK b \in Seq(T) : b = <<s[m + 1]>> /\ Len(b) = 1
      <4>1. PICK x \in T : x = s[m + 1]
        BY <1>1, <2>1
      <4>2. <<x>> \in Seq(T) /\ Len(<<x>>) = 1
        OBVIOUS
      <4> QED
        BY <4>1, <4>2
    <3>4. f[m + 1] = a \o b
      BY <1>3, <2>1, <2>2, <2>3, <2>6, <3>3
    <3>5. Len(a \o b) = Len(a) + Len(b)
      BY ConcatProperties
    <3>6. Len(f[m + 1]) = Cardinality(kept(m + 1))
      BY <2>4, <3>2, <3>3, <3>4, <3>5
    <3> QED
      BY <2>1, <3>2, <3>6
  <2> QED
    BY <2>5, <2>6
<1>8. 0 .. n \subseteq A
  <2> HIDE DEF A
  <2> QED
    BY <1>6, <1>7, InductionUpTo
<1>9. i - 1 \in 0 .. n /\ i \in 1 .. n /\ i \in 0 .. n
  BY <1>1
<1>10. Len(f[i - 1]) = q
  <2>1. i - 1 \in A
    BY <1>8, <1>9
  <2> QED
    BY <2>1
<1>11. PICK a \in Seq(T), b \in Seq(T), c \in Seq(T), d \in Seq(T) :
            a = f[i - 1] /\ b = <<s[i]>> /\ c = f[i] /\ d = f[n]
  <2>1. n \in 0 .. n
    OBVIOUS
  <2>2. f[i - 1] \in Seq(T) /\ f[i] \in Seq(T) /\ f[n] \in Seq(T)
    BY <1>5, <1>9, <2>1
  <2>3. PICK x \in T : x = s[i]
    OBVIOUS
  <2>4. <<x>> \in Seq(T)
    OBVIOUS
  <2> QED
    BY <2>2, <2>3, <2>4
<1>12. c = a \o b /\ Len(b) = 1 /\ b[1] = s[i]
  BY <1>3, <1>5, <1>9, <1>11
<1>13. Len(c) = q + 1 /\ c[q + 1] = s[i]
  <2>1. /\ Len(a \o b) = Len(a) + Len(b)
        /\ \A k \in 1 .. (Len(a) + Len(b)) :
             (a \o b)[k] = IF k <= Len(a) THEN a[k] ELSE b[k - Len(a)]
    BY ConcatProperties
  <2>2. Len(a) = q
    BY <1>10, <1>11
  <2>3. /\ Len(c) = q + 1
        /\ \A k \in 1 .. (q + 1) : c[k] = IF k <= q THEN a[k] ELSE b[k - q]
    BY <1>12, <2>1, <2>2
  <2>4. q + 1 \in 1 .. (q + 1) /\ ~(q + 1 <= q) /\ (q + 1) - q = 1
    OBVIOUS
  <2> QED
    BY <1>12, <2>3, <2>4
<1>14. Len(c) <= Len(d) /\ \A k \in 1 .. Len(c) : d[k] = c[k]
  BY <1>2, <1>4, <1>9, <1>11, JoinsGrow
<1>15. PICK z \in Nat : z = Len(d)
  OBVIOUS
<1>16. q + 1 \in 1 .. z /\ d[q + 1] = s[i]
  <2>1. q + 1 \in 1 .. Len(c) /\ q + 1 <= z
    BY <1>13, <1>14, <1>15
  <2> QED
    BY <1>13, <1>14, <2>1
<1>17. Without(s, S) = d
  BY <1>2, <1>4, <1>11, PartsFacts
<1> QED
  BY <1>15, <1>16, <1>17

\* The elements grow.
Increasing(s) == \A i, j \in 1 .. Len(s) : i < j => s[i] < s[j]

\* What stays of a list grows when the elements that stay do.
LEMMA WithoutIncreasing ==
    ASSUME NEW s \in Seq(Nat), NEW S,
           \A j, k \in 1 .. Len(s) : j < k /\ s[j] \notin S /\ s[k] \notin S => s[j] < s[k]
    PROVE  Increasing(Without(s, S))
<1>1. PICK n \in Nat : n = Len(s)
  OBVIOUS
<1>2. PICK parts \in Seq(Seq(Nat)) : parts = Parts(s, S) /\ Len(parts) = n
  BY <1>1, PartsFacts
<1>3. \A k \in 1 .. n : parts[k] = IF s[k] \in S THEN <<>> ELSE <<s[k]>>
  BY <1>1, <1>2, PartsFacts
<1>4. PICK f : Joins(f, parts, Nat) /\ FlattenSeq(parts) = f[n]
  BY <1>2, FlattenJoins
<1>5. f \in [0 .. n -> Seq(Nat)] /\ f[0] = <<>> /\ \A k \in 1 .. n : f[k] = f[k - 1] \o parts[k]
  BY <1>2, <1>4 DEF Joins
<1>6. \A m \in 0 .. n : ToSet(f[m]) = InPieces(parts, m)
  BY <1>2, <1>4, JoinsElements
<1>7. \A k \in 1 .. n : s[k] \in Nat
  BY <1>1
<1> DEFINE A == {m \in 0 .. n : Increasing(f[m])}
<1>8. 0 \in A
  <2>1. Len(f[0]) = 0
    BY <1>5
  <2>2. Increasing(f[0])
    BY <2>1 DEF Increasing
  <2> QED
    BY <2>2
<1>9. ASSUME NEW m \in 0 .. (n - 1), m \in A PROVE m + 1 \in A
  <2>1. m + 1 \in 1 .. n /\ (m + 1) - 1 = m /\ m + 1 \in 0 .. n /\ m \in 0 .. n
    OBVIOUS
  <2>2. f[m + 1] = f[(m + 1) - 1] \o parts[m + 1]
    BY <1>5, <2>1
  <2>3. PICK a \in Seq(Nat), z \in Nat : a = f[m] /\ z = Len(a) /\ Increasing(a)
    <3>1. f[m] \in Seq(Nat) /\ Increasing(f[m])
      BY <1>5, <1>9, <2>1
    <3> QED
      BY <3>1
  <2>4. CASE s[m + 1] \in S
    <3>1. f[m + 1] = a
      BY <1>3, <2>1, <2>2, <2>3, <2>4, ConcatEmptySeq
    <3> QED
      BY <2>1, <2>3, <3>1
  <2>5. CASE s[m + 1] \notin S
    <3>1. PICK x \in Nat : x = s[m + 1]
      BY <1>7, <2>1
    <3>2. PICK b \in Seq(Nat) : b = <<x>> /\ Len(b) = 1 /\ b[1] = x
      <4>1. <<x>> \in Seq(Nat) /\ Len(<<x>>) = 1 /\ <<x>>[1] = x
        BY ONLY x \in Nat
      <4> QED
        BY ONLY <4>1
    <3>3. f[m + 1] = a \o b
      BY <1>3, <2>1, <2>2, <2>3, <2>5, <3>1, <3>2
    <3>4. PICK c \in Seq(Nat) : c = a \o b
      BY ConcatProperties
    <3>5. /\ Len(c) = z + 1
          /\ \A k \in 1 .. (z + 1) : c[k] = IF k <= z THEN a[k] ELSE b[k - z]
      <4>1. /\ Len(a \o b) = Len(a) + Len(b)
            /\ \A k \in 1 .. (Len(a) + Len(b)) :
                 (a \o b)[k] = IF k <= Len(a) THEN a[k] ELSE b[k - Len(a)]
        BY ConcatProperties
      <4> QED
        BY <2>3, <3>2, <3>4, <4>1
    <3>6. \A k \in 1 .. z : a[k] < x
      <4> TAKE k \in 1 .. z
      <4>1. a[k] \in ToSet(a)
        BY <2>3, ElementsOf
      <4>2. a[k] \in InPieces(parts, m)
        BY <1>6, <2>1, <2>3, <4>1
      <4>3. PICK i \in 1 .. m : a[k] \in ToSet(parts[i])
        BY <4>2 DEF InPieces
      <4>4. i \in 1 .. n /\ i < m + 1
        BY <2>1
      <4>5. parts[i] = <<s[i]>> /\ s[i] \notin S
        <5>1. ToSet(<<>>) = {}
          BY DEF ToSet
        <5> QED
          BY <1>3, <4>3, <4>4, <5>1
      <4>6. a[k] = s[i]
        <5>1. ToSet(<<s[i]>>) = {s[i]}
          BY DEF ToSet
        <5> QED
          BY <4>3, <4>5, <5>1
      <4> QED
        BY <1>1, <2>1, <2>5, <3>1, <4>4, <4>5, <4>6
    <3>7. \A k \in 1 .. z : c[k] = a[k]
      BY <3>5
    <3>8. c[z + 1] = x
      <4>1. z + 1 \in 1 .. (z + 1) /\ ~(z + 1 <= z) /\ (z + 1) - z = 1
        OBVIOUS
      <4> QED
        BY <3>2, <3>5, <4>1
    <3>9. \A i, j \in 1 .. z : i < j => a[i] < a[j]
      BY <2>3 DEF Increasing
    <3>10. \A i, j \in 1 .. (z + 1) : i < j => c[i] < c[j]
      <4> TAKE i, j \in 1 .. (z + 1)
      <4> HAVE i < j
      <4>1. i \in 1 .. z
        OBVIOUS
      <4>2. CASE j = z + 1
        BY <3>6, <3>7, <3>8, <4>1, <4>2
      <4>3. CASE j # z + 1
        <5>1. j \in 1 .. z
          BY <4>3
        <5> QED
          BY <3>7, <3>9, <4>1, <5>1
      <4> QED
        BY <4>2, <4>3
    <3>11. Increasing(c)
      BY <3>5, <3>10 DEF Increasing
    <3> QED
      BY <2>1, <3>3, <3>4, <3>11
  <2> QED
    BY <2>4, <2>5
<1>10. 0 .. n \subseteq A
  <2> HIDE DEF A
  <2> QED
    BY <1>8, <1>9, InductionUpTo
<1>11. n \in A
  BY <1>10
<1> QED
  BY <1>2, <1>4, <1>11, PartsFacts

-----------------------------------------------------------------------------
(* How often something is in a list.                                       *)

LEMMA ElementIn ==
    ASSUME NEW S, NEW s \in Seq(S), NEW i \in 1 .. Len(s)
    PROVE  s[i] \in S
  OBVIOUS

Places(row, s) == {k \in DOMAIN s : s[k] = row}

LEMMA PlacesFinite ==
    ASSUME NEW S, NEW s \in Seq(S), NEW row
    PROVE  IsFiniteSet(Places(row, s)) /\ Cardinality(Places(row, s)) \in Nat
           /\ Times(row, s) = Cardinality(Places(row, s))
<1>1. PICK n \in Nat : n = Len(s)
  OBVIOUS
<1>2. IsFiniteSet(1 .. n)
  BY FS_Interval
<1>3. Places(row, s) \subseteq 1 .. n
  BY <1>1 DEF Places
<1>4. IsFiniteSet(Places(row, s))
  BY <1>2, <1>3, FS_Subset
<1> QED
  BY <1>4, FS_CardinalityType DEF Times, Places

LEMMA TimesAbsent ==
    ASSUME NEW S, NEW s \in Seq(S), NEW row, row \notin ToSet(s)
    PROVE  Times(row, s) = 0
<1>1. Places(row, s) = {}
  BY DEF Places, ToSet
<1> QED
  BY <1>1, PlacesFinite, FS_EmptySet

LEMMA TimesOnce ==
    ASSUME NEW S, NEW s \in Seq(S), NEW row, OneToOne(s)
    PROVE  Times(row, s) <= 1
<1>1. CASE Places(row, s) = {}
  BY <1>1, PlacesFinite, FS_EmptySet
<1>2. CASE Places(row, s) # {}
  <2>1. PICK n \in Nat : n = Len(s)
    OBVIOUS
  <2>2. PICK k \in 1 .. n : s[k] = row
    BY <1>2, <2>1 DEF Places
  <2>3. \A j \in 1 .. n : s[j] = row => j = k
    BY <2>1, <2>2 DEF OneToOne
  <2>4. Places(row, s) = {k}
    BY <2>1, <2>2, <2>3 DEF Places
  <2>5. Cardinality({k}) = 1
    BY FS_Singleton
  <2>6. Times(row, s) = Cardinality({k})
    BY <2>4, PlacesFinite
  <2> QED
    BY <2>5, <2>6
<1> QED
  BY <1>1, <1>2

LEMMA TimesConcat ==
    ASSUME NEW S, NEW s \in Seq(S), NEW t \in Seq(S), NEW row
    PROVE  Times(row, s \o t) = Times(row, s) + Times(row, t)
<1>1. PICK m \in Nat, n \in Nat : m = Len(s) /\ n = Len(t)
  OBVIOUS
<1>2. PICK u \in Seq(S) : u = s \o t
  BY ConcatProperties
<1>3. /\ Len(u) = m + n
      /\ \A i \in 1 .. (m + n) : u[i] = IF i <= m THEN s[i] ELSE t[i - m]
  BY <1>1, <1>2, ConcatProperties
<1>4. PICK A, B, f : A = Places(row, s) /\ B = Places(row, t) /\ f = [k \in B |-> k + m]
  OBVIOUS
<1>5. /\ IsFiniteSet(A) /\ IsFiniteSet(B) /\ Cardinality(A) \in Nat /\ Cardinality(B) \in Nat
      /\ Times(row, s) = Cardinality(A) /\ Times(row, t) = Cardinality(B)
      /\ Times(row, s \o t) = Cardinality(Places(row, u))
  BY <1>2, <1>4, PlacesFinite
<1>6. A \subseteq 1 .. m /\ B \subseteq 1 .. n
  BY <1>1, <1>4 DEF Places
<1> DEFINE C == {f[k] : k \in B}
<1>7. \A k \in B : f[k] = k + m /\ f[k] \in Int
  BY <1>4, <1>6
<1>8. IsFiniteSet(C) /\ Cardinality(C) = Cardinality(B)
  <2>1. f \in [B -> C]
    BY <1>4
  <2>2. f \in Surjection(B, C)
    BY <2>1 DEF Surjection
  <2>3. \A j, k \in B : f[j] = f[k] => j = k
    BY <1>6, <1>7
  <2>4. f \in Injection(B, C)
    BY <2>1, <2>3 DEF Injection, IsInjective
  <2> HIDE DEF C
  <2> QED
    BY <1>5, <2>2, <2>4, FS_Surjection
<1>9. Places(row, u) = A \cup C
  <2>1. ASSUME NEW i \in 1 .. (m + n), u[i] = row PROVE i \in A \cup C
    <3>1. CASE i <= m
      <4>1. s[i] = row /\ i \in 1 .. m
        BY <1>3, <2>1, <3>1
      <4> QED
        BY <1>1, <1>4, <4>1 DEF Places
    <3>2. CASE ~(i <= m)
      <4>1. PICK k \in 1 .. n : i = k + m /\ i - m = k
        <5>1. i - m \in 1 .. n /\ i = (i - m) + m
          BY <3>2
        <5> QED
          BY <5>1
      <4>2. t[k] = row
        BY <1>3, <2>1, <3>2, <4>1
      <4>3. k \in B
        BY <1>1, <1>4, <4>2 DEF Places
      <4>4. f[k] = i
        BY <1>7, <4>1, <4>3
      <4> QED
        BY <4>3, <4>4
    <3> QED
      BY <3>1, <3>2
  <2>2. ASSUME NEW i \in A PROVE i \in Places(row, u)
    <3>1. i \in 1 .. m /\ s[i] = row
      BY <1>1, <1>4, <2>2 DEF Places
    <3>2. i \in 1 .. (m + n) /\ u[i] = row
      BY <1>3, <3>1
    <3> QED
      BY <1>3, <3>2 DEF Places
  <2>3. ASSUME NEW k \in B PROVE f[k] \in Places(row, u)
    <3>1. k \in 1 .. n /\ t[k] = row
      BY <1>1, <1>4, <2>3 DEF Places
    <3>2. k + m \in 1 .. (m + n) /\ ~(k + m <= m) /\ (k + m) - m = k
      BY <3>1
    <3>3. u[k + m] = row
      BY <1>3, <3>1, <3>2
    <3> QED
      BY <1>3, <1>7, <3>2, <3>3 DEF Places
  <2>4. \A i \in Places(row, u) : i \in 1 .. (m + n) /\ u[i] = row
    BY <1>3 DEF Places
  <2> QED
    BY <2>1, <2>2, <2>3, <2>4
<1>10. A \cap C = {}
  BY <1>6, <1>7
<1> HIDE DEF C
<1>11. Cardinality(A \cup C) = Cardinality(A) + Cardinality(C) - Cardinality(A \cap C)
  BY <1>5, <1>8, FS_Union
<1>12. Cardinality(A \cap C) = 0
  BY <1>10, FS_EmptySet
<1> QED
  BY <1>5, <1>8, <1>9, <1>11, <1>12

LEMMA TimesType ==
    ASSUME NEW S, NEW s \in Seq(S), NEW row
    PROVE  Times(row, s) \in Nat
  BY PlacesFinite

LEMMA TimesEmpty ==
    ASSUME NEW x
    PROVE  Times(x, <<>>) = 0
<1>1. <<>> \in Seq({}) /\ x \notin ToSet(<<>>)
  BY DEF ToSet
<1> QED
  BY <1>1, TimesAbsent

LEMMA TimesSingle ==
    ASSUME NEW x, NEW y
    PROVE  Times(x, <<y>>) = IF x = y THEN 1 ELSE 0
<1>0. <<y>> \in Seq({y}) /\ Len(<<y>>) = 1 /\ <<y>>[1] = y
  OBVIOUS
<1>1. PICK s \in Seq({y}) : s = <<y>> /\ Len(s) = 1 /\ s[1] = y
  BY <1>0
<1>2. Places(x, s) = IF x = y THEN {1} ELSE {}
  BY <1>1 DEF Places
<1>3. Times(x, s) = Cardinality(Places(x, s))
  BY PlacesFinite
<1> QED
  BY <1>1, <1>2, <1>3, FS_EmptySet, FS_Singleton

\* What is in s is there at least once.
LEMMA TimesPresent ==
    ASSUME NEW S, NEW s \in Seq(S), NEW x
    PROVE  Times(x, s) = 0 <=> x \notin ToSet(s)
<1>1. x \notin ToSet(s) => Times(x, s) = 0
  BY TimesAbsent
<1>2. Times(x, s) = 0 => Places(x, s) = {}
  BY PlacesFinite, FS_EmptySet
<1>3. Places(x, s) = {} => x \notin ToSet(s)
  BY DEF Places, ToSet
<1> QED
  BY <1>1, <1>2, <1>3

LEMMA TimesOneToOne ==
    ASSUME NEW S, NEW s \in Seq(S), \A x \in S : Times(x, s) <= 1
    PROVE  OneToOne(s)
<1>1. PICK n \in Nat : n = Len(s)
  OBVIOUS
<1>2. SUFFICES ASSUME NEW j \in 1 .. n, NEW k \in 1 .. n, s[j] = s[k], j # k PROVE FALSE
  BY <1>1 DEF OneToOne
<1>3. PICK x \in S : x = s[j]
  BY <1>1
<1>4. {j, k} \subseteq Places(x, s)
  BY <1>1, <1>2, <1>3 DEF Places
<1>5. IsFiniteSet(Places(x, s)) /\ Times(x, s) = Cardinality(Places(x, s))
  BY PlacesFinite
<1>6. Cardinality({j, k}) <= Cardinality(Places(x, s)) /\ IsFiniteSet({j, k})
  BY <1>4, <1>5, FS_Subset
<1>7. Cardinality({j, k}) = 2
  <2>1. IsFiniteSet({j}) /\ Cardinality({j}) = 1
    BY FS_Singleton
  <2>2. {j, k} = {j} \cup {k} /\ k \notin {j}
    BY <1>2
  <2>3. PICK B : B = {j}
    OBVIOUS
  <2>4. Cardinality(B \cup {k}) = IF k \in B THEN Cardinality(B) ELSE Cardinality(B) + 1
    BY <2>1, <2>3, FS_AddElement
  <2> QED
    BY ONLY <2>1, <2>2, <2>3, <2>4
<1>8. Cardinality(Places(x, s)) \in Nat
  BY <1>5, PlacesFinite
<1> QED
  BY <1>5, <1>6, <1>7, <1>8

\* The first pieces, and then the others.
LEMMA FlattenConcat ==
    ASSUME NEW S, NEW s \in Seq(Seq(S)), NEW t \in Seq(Seq(S))
    PROVE  FlattenSeq(s \o t) = FlattenSeq(s) \o FlattenSeq(t)
<1>1. PICK m \in Nat, n \in Nat : m = Len(s) /\ n = Len(t)
  OBVIOUS
<1>2. PICK u \in Seq(Seq(S)) : u = s \o t
  BY ConcatProperties
<1>3. /\ Len(u) = m + n
      /\ \A i \in 1 .. (m + n) : u[i] = IF i <= m THEN s[i] ELSE t[i - m]
  BY <1>1, <1>2, ConcatProperties
<1>4. PICK f : Joins(f, s, S) /\ FlattenSeq(s) = f[m]
  BY <1>1, FlattenJoins
<1>5. PICK g : Joins(g, t, S) /\ FlattenSeq(t) = g[n]
  BY <1>1, FlattenJoins
<1>6. f \in [0 .. m -> Seq(S)] /\ f[0] = <<>> /\ \A i \in 1 .. m : f[i] = f[i - 1] \o s[i]
  BY <1>1, <1>4 DEF Joins
<1>7. g \in [0 .. n -> Seq(S)] /\ g[0] = <<>> /\ \A i \in 1 .. n : g[i] = g[i - 1] \o t[i]
  BY <1>1, <1>5 DEF Joins
<1>8. PICK a \in Seq(S) : a = f[m]
  BY <1>6
<1> DEFINE h == [i \in 0 .. (m + n) |-> IF i <= m THEN f[i] ELSE a \o g[i - m]]
<1>9. \A i \in 0 .. m : i \in 0 .. (m + n) /\ h[i] = f[i] /\ h[i] \in Seq(S)
  BY <1>6
<1>10. ASSUME NEW j \in 0 .. n
       PROVE  m + j \in 0 .. (m + n) /\ h[m + j] = a \o g[j] /\ h[m + j] \in Seq(S)
  <2>1. m + j \in 0 .. (m + n) /\ (m + j) - m = j /\ g[j] \in Seq(S)
    BY <1>7
  <2>2. CASE j = 0
    <3>1. h[m + j] = f[m] /\ g[j] = <<>>
      BY <1>7, <2>1, <2>2
    <3>2. a \o <<>> = a
      BY ConcatEmptySeq
    <3> HIDE DEF h
    <3> QED
      BY <1>8, <2>1, <3>1, <3>2
  <2>3. CASE j # 0
    <3>1. ~(m + j <= m)
      BY <2>3
    <3>2. h[m + j] = a \o g[(m + j) - m]
      BY <2>1, <3>1
    <3>3. a \o g[j] \in Seq(S)
      BY <2>1, ConcatProperties
    <3> HIDE DEF h
    <3> QED
      BY <2>1, <3>2, <3>3
  <2> QED
    BY <2>2, <2>3
<1>11. ASSUME NEW i \in 1 .. (m + n) PROVE h[i] = h[i - 1] \o u[i]
  <2>1. CASE i <= m
    <3>1. i \in 0 .. m /\ i - 1 \in 0 .. m /\ i \in 1 .. m
      BY <2>1
    <3>2. h[i] = f[i] /\ h[i - 1] = f[i - 1]
      BY <1>9, <3>1
    <3>3. f[i] = f[i - 1] \o s[i] /\ u[i] = s[i]
      BY <1>3, <1>6, <2>1, <3>1
    <3> HIDE DEF h
    <3> QED
      BY <3>2, <3>3
  <2>2. CASE ~(i <= m)
    <3>1. PICK j \in 1 .. n : i = m + j /\ i - m = j /\ i - 1 = m + (j - 1)
      <4>1. i - m \in 1 .. n /\ i = m + (i - m) /\ i - 1 = m + ((i - m) - 1)
        BY <2>2
      <4> QED
        BY <4>1
    <3>2. j \in 0 .. n /\ j - 1 \in 0 .. n
      OBVIOUS
    <3>3. h[i] = a \o g[j] /\ h[i - 1] = a \o g[j - 1]
      BY <1>10, <3>1, <3>2
    <3>4. g[j] = g[j - 1] \o t[j] /\ u[i] = t[j]
      BY <1>3, <1>7, <2>2, <3>1
    <3>5. PICK b \in Seq(S), c \in Seq(S) : b = g[j - 1] /\ c = t[j]
      <4>1. g[j - 1] \in Seq(S)
        BY ONLY <1>7, <3>2
      <4>2. t[j] \in Seq(S)
        BY <1>1
      <4> QED
        BY <4>1, <4>2
    <3>6. (a \o b) \o c = a \o (b \o c)
      BY ConcatAssociative
    <3> HIDE DEF h
    <3> QED
      BY <3>3, <3>4, <3>5, <3>6
  <2> QED
    BY <2>1, <2>2
<1>12. h \in [0 .. (m + n) -> Seq(S)]
  <2>1. ASSUME NEW i \in 0 .. (m + n) PROVE h[i] \in Seq(S)
    <3>1. CASE i <= m
      <4>1. i \in 0 .. m
        BY <3>1
      <4> HIDE DEF h
      <4> QED
        BY <1>9, <4>1
    <3>2. CASE ~(i <= m)
      <4>1. i - m \in 0 .. n /\ i = m + (i - m)
        BY <3>2
      <4> HIDE DEF h
      <4> QED
        BY <1>10, <4>1
    <3> QED
      BY <3>1, <3>2
  <2>2. h = [i \in 0 .. (m + n) |-> h[i]]
    OBVIOUS
  <2> HIDE DEF h
  <2> QED
    BY <2>1, <2>2
<1>13. h[0] = <<>> /\ h[m + n] = a \o g[n]
  <2>1. 0 \in 0 .. m /\ n \in 0 .. n
    OBVIOUS
  <2> HIDE DEF h
  <2> QED
    BY <1>6, <1>9, <1>10, <2>1
<1> HIDE DEF h
<1>14. Joins(h, u, S)
  BY <1>3, <1>11, <1>12, <1>13 DEF Joins
<1>15. FlattenSeq(u) = h[m + n]
  BY <1>3, <1>14, FlattenPrefix
<1> QED
  BY <1>2, <1>4, <1>5, <1>8, <1>13, <1>15

LEMMA FlattenOne ==
    ASSUME NEW S, NEW x \in Seq(S)
    PROVE  FlattenSeq(<<x>>) = x
<1>1. <<>> \in Seq(Seq(S)) /\ Append(<<>>, x) = <<x>>
  OBVIOUS
<1>2. FlattenSeq(Append(<<>>, x)) = FlattenSeq(<<>>) \o x
  BY <1>1, FlattenAppend
<1>3. <<>> \o x = x
  BY ConcatEmptySeq
<1> QED
  BY <1>1, <1>2, <1>3, FlattenEmpty

\* Flattening the pieces first comes to the same.
LEMMA FlattenTwice ==
    ASSUME NEW S, NEW s \in Seq(Seq(Seq(S))), NEW t, t = [i \in 1 .. Len(s) |-> FlattenSeq(s[i])]
    PROVE  /\ t \in Seq(Seq(S)) /\ Len(t) = Len(s)
           /\ FlattenSeq(s) \in Seq(Seq(S))
           /\ FlattenSeq(FlattenSeq(s)) = FlattenSeq(t)
<1>1. PICK n \in Nat : n = Len(s)
  OBVIOUS
<1>2. \A i \in 1 .. n : s[i] \in Seq(Seq(S)) /\ FlattenSeq(s[i]) \in Seq(S)
  BY <1>1, FlattenType
<1>3. t \in [1 .. n -> Seq(S)]
  BY <1>1, <1>2
<1>4. t \in Seq(Seq(S)) /\ Len(t) = n /\ \A i \in 1 .. n : t[i] = FlattenSeq(s[i])
  <2>1. t \in Seq(Seq(S)) /\ Len(t) = n
    BY ONLY <1>3, n \in Nat
  <2>2. \A i \in 1 .. n : t[i] = FlattenSeq(s[i])
    BY <1>1
  <2> QED
    BY <2>1, <2>2
<1>5. PICK f : Joins(f, s, Seq(S)) /\ FlattenSeq(s) = f[n]
  BY <1>1, FlattenJoins
<1>6. /\ f \in [0 .. n -> Seq(Seq(S))] /\ f[0] = <<>>
      /\ \A i \in 1 .. n : f[i] = f[i - 1] \o s[i]
  BY <1>1, <1>5 DEF Joins
<1>7. PICK h : h = [i \in 0 .. n |-> FlattenSeq(f[i])]
  OBVIOUS
<1>8. \A i \in 0 .. n : h[i] = FlattenSeq(f[i]) /\ h[i] \in Seq(S) /\ f[i] \in Seq(Seq(S))
  BY <1>6, <1>7, FlattenType
<1>9. h \in [0 .. n -> Seq(S)] /\ h[0] = <<>>
  <2>1. h \in [0 .. n -> Seq(S)]
    BY <1>7, <1>8
  <2>2. h[0] = FlattenSeq(<<>>)
    BY <1>6, <1>8
  <2> QED
    BY <2>1, <2>2, FlattenEmpty
<1>10. ASSUME NEW i \in 1 .. n PROVE h[i] = h[i - 1] \o t[i]
  <2>1. i \in 0 .. n /\ i - 1 \in 0 .. n
    OBVIOUS
  <2>2. PICK a \in Seq(Seq(S)), b \in Seq(Seq(S)) : a = f[i - 1] /\ b = s[i]
    BY <1>2, <1>8, <2>1
  <2>3. FlattenSeq(a \o b) = FlattenSeq(a) \o FlattenSeq(b)
    BY FlattenConcat
  <2>4. f[i] = a \o b
    BY <1>6, <2>2
  <2> QED
    BY <1>4, <1>8, <2>1, <2>2, <2>3, <2>4
<1>11. Joins(h, t, S)
  BY <1>4, <1>9, <1>10 DEF Joins
<1>12. FlattenSeq(t) = h[n]
  BY <1>4, <1>11, FlattenPrefix
<1>13. n \in 0 .. n
  OBVIOUS
<1> QED
  BY <1>1, <1>4, <1>5, <1>8, <1>12, <1>13

\* If x is in each piece as often as in the same piece of two other lists together,
\* it is so in the whole.
TimesAdd(x, s, t, u) ==
    /\ Len(t) = Len(s) /\ Len(u) = Len(s)
    /\ \A i \in 1 .. Len(s) : Times(x, s[i]) = Times(x, t[i]) + Times(x, u[i])

LEMMA FlattenTimes ==
    ASSUME NEW S, NEW s \in Seq(Seq(S)), NEW t \in Seq(Seq(S)), NEW u \in Seq(Seq(S)),
           NEW x, TimesAdd(x, s, t, u)
    PROVE  Times(x, FlattenSeq(s)) = Times(x, FlattenSeq(t)) + Times(x, FlattenSeq(u))
<1>1. /\ Len(t) = Len(s) /\ Len(u) = Len(s)
      /\ \A i \in 1 .. Len(s) : Times(x, s[i]) = Times(x, t[i]) + Times(x, u[i])
  BY DEF TimesAdd
<1>2. PICK n \in Nat : n = Len(s)
  OBVIOUS
<1>3. PICK f : Joins(f, s, S) /\ FlattenSeq(s) = f[n]
  BY <1>2, FlattenJoins
<1>4. PICK g : Joins(g, t, S) /\ FlattenSeq(t) = g[n]
  BY <1>2, <1>1, FlattenJoins
<1>5. PICK h : Joins(h, u, S) /\ FlattenSeq(u) = h[n]
  BY <1>2, <1>1, FlattenJoins
<1> DEFINE T == {i \in 0 .. n : Times(x, f[i]) = Times(x, g[i]) + Times(x, h[i])}
<1>6. 0 \in T
  <2>1. f[0] = <<>> /\ g[0] = <<>> /\ h[0] = <<>>
    BY <1>3, <1>4, <1>5 DEF Joins
  <2> QED
    BY <2>1, TimesEmpty
<1>7. ASSUME NEW i \in 0 .. (n - 1), i \in T PROVE i + 1 \in T
  <2>1. i + 1 \in 1 .. n /\ (i + 1) - 1 = i /\ i + 1 \in 0 .. n /\ i \in 0 .. n
    OBVIOUS
  <2>2. PICK a \in Seq(S), b \in Seq(S) : a = f[i] /\ b = s[i + 1] /\ f[i + 1] = a \o b
    <3>1. f[i] \in Seq(S) /\ f[i + 1] = f[(i + 1) - 1] \o s[i + 1]
      BY <1>2, <1>3, <2>1 DEF Joins
    <3>2. s[i + 1] \in Seq(S)
      BY <1>2, <2>1
    <3> QED
      BY <2>1, <3>1, <3>2
  <2>3. PICK c \in Seq(S), d \in Seq(S) : c = g[i] /\ d = t[i + 1] /\ g[i + 1] = c \o d
    <3>1. g[i] \in Seq(S) /\ g[i + 1] = g[(i + 1) - 1] \o t[i + 1]
      BY <1>2, <1>1, <1>4, <2>1 DEF Joins
    <3>2. t[i + 1] \in Seq(S)
      BY <1>2, <1>1, <2>1
    <3> QED
      BY <2>1, <3>1, <3>2
  <2>4. PICK e \in Seq(S), k \in Seq(S) : e = h[i] /\ k = u[i + 1] /\ h[i + 1] = e \o k
    <3>1. h[i] \in Seq(S) /\ h[i + 1] = h[(i + 1) - 1] \o u[i + 1]
      BY <1>2, <1>1, <1>5, <2>1 DEF Joins
    <3>2. u[i + 1] \in Seq(S)
      BY <1>2, <1>1, <2>1
    <3> QED
      BY <2>1, <3>1, <3>2
  <2>5. /\ Times(x, a \o b) = Times(x, a) + Times(x, b)
        /\ Times(x, c \o d) = Times(x, c) + Times(x, d)
        /\ Times(x, e \o k) = Times(x, e) + Times(x, k)
    BY TimesConcat
  <2>6. Times(x, b) = Times(x, d) + Times(x, k) /\ Times(x, a) = Times(x, c) + Times(x, e)
    BY <1>2, <1>1, <1>7, <2>1, <2>2, <2>3, <2>4
  <2>7. /\ Times(x, c) \in Nat /\ Times(x, d) \in Nat /\ Times(x, e) \in Nat
        /\ Times(x, k) \in Nat
    BY TimesType
  <2>8. Times(x, f[i + 1]) = Times(x, g[i + 1]) + Times(x, h[i + 1])
    BY <2>2, <2>3, <2>4, <2>5, <2>6, <2>7
  <2> QED
    BY <2>1, <2>8
<1>8. 0 .. n \subseteq T
  <2> HIDE DEF T
  <2> QED
    BY <1>6, <1>7, InductionUpTo
<1>9. n \in T
  BY <1>8
<1> QED
  BY <1>3, <1>4, <1>5, <1>9

-----------------------------------------------------------------------------
(* The elements of a list at chosen places.                                *)

\* The pieces that Chosen joins.
Picks(s, P) == [k \in DOMAIN s |-> IF k \in P THEN <<s[k]>> ELSE <<>>]

LEMMA PicksFacts ==
    ASSUME NEW T, NEW s \in Seq(T), NEW P
    PROVE  /\ Picks(s, P) \in Seq(Seq(T)) /\ Len(Picks(s, P)) = Len(s)
           /\ \A k \in 1 .. Len(s) : Picks(s, P)[k] = IF k \in P THEN <<s[k]>> ELSE <<>>
           /\ Chosen(s, P) = FlattenSeq(Picks(s, P))
<1>1. PICK n \in Nat : n = Len(s)
  OBVIOUS
<1>2. DOMAIN s = 1 .. n /\ \A k \in 1 .. n : s[k] \in T
  BY <1>1
<1>3. Picks(s, P) = [k \in 1 .. n |-> IF k \in P THEN <<s[k]>> ELSE <<>>]
  BY <1>2 DEF Picks
<1>4. \A k \in 1 .. n : (IF k \in P THEN <<s[k]>> ELSE <<>>) \in Seq(T)
  BY <1>2
<1>5. Picks(s, P) \in [1 .. n -> Seq(T)]
  BY <1>3, <1>4
<1>6. Picks(s, P) \in Seq(Seq(T)) /\ Len(Picks(s, P)) = n
  BY <1>5
<1>7. \A k \in 1 .. n : Picks(s, P)[k] = IF k \in P THEN <<s[k]>> ELSE <<>>
  BY <1>3
<1>8. Chosen(s, P) = Joined(Picks(s, P), n)
  BY <1>1 DEF Chosen, Picks
<1>9. Chosen(s, P) = FlattenSeq(Picks(s, P))
  BY <1>6, <1>8, JoinedFlattens
<1> QED
  BY <1>1, <1>6, <1>7, <1>9

LEMMA ChosenType ==
    ASSUME NEW T, NEW s \in Seq(T), NEW P
    PROVE  Chosen(s, P) \in Seq(T)
  BY PicksFacts, FlattenType

LEMMA ChosenElements ==
    ASSUME NEW T, NEW s \in Seq(T), NEW P
    PROVE  ToSet(Chosen(s, P)) = {s[k] : k \in (1 .. Len(s)) \cap P}
<1>1. PICK n \in Nat : n = Len(s)
  OBVIOUS
<1>2. PICK parts \in Seq(Seq(T)) : parts = Picks(s, P) /\ Len(parts) = n
  BY <1>1, PicksFacts
<1>3. ToSet(Chosen(s, P)) = InPieces(parts, n)
  BY <1>2, PicksFacts, FlattenElements
<1>4. \A k \in 1 .. n : ToSet(parts[k]) = IF k \in P THEN {s[k]} ELSE {}
  <2> TAKE k \in 1 .. n
  <2>1. parts[k] = IF k \in P THEN <<s[k]>> ELSE <<>>
    BY <1>1, <1>2, PicksFacts
  <2>2. ToSet(<<>>) = {} /\ ToSet(<<s[k]>>) = {s[k]}
    BY DEF ToSet
  <2> QED
    BY <2>1, <2>2
<1>5. InPieces(parts, n) = UNION {ToSet(parts[k]) : k \in 1 .. n}
  BY DEF InPieces
<1>6. UNION {ToSet(parts[k]) : k \in 1 .. n} = {s[k] : k \in (1 .. n) \cap P}
  <2>1. \A y : y \in UNION {ToSet(parts[k]) : k \in 1 .. n} <=> \E k \in 1 .. n : k \in P /\ y = s[k]
    BY <1>4
  <2> QED
    BY <2>1
<1> QED
  BY <1>1, <1>3, <1>5, <1>6

\* Where x is in s, among the places in P up to i.
PlacesIn(x, s, P, i) == {k \in 1 .. i : k \in P /\ s[k] = x}

LEMMA ChosenTimes ==
    ASSUME NEW T, NEW s \in Seq(T), NEW P, NEW x
    PROVE  /\ IsFiniteSet(PlacesIn(x, s, P, Len(s)))
           /\ Times(x, Chosen(s, P)) = Cardinality(PlacesIn(x, s, P, Len(s)))
<1>1. PICK n \in Nat : n = Len(s)
  OBVIOUS
<1>2. PICK parts \in Seq(Seq(T)) : parts = Picks(s, P) /\ Len(parts) = n
  BY <1>1, PicksFacts
<1>3. \A k \in 1 .. n : parts[k] = IF k \in P THEN <<s[k]>> ELSE <<>>
  BY <1>1, <1>2, PicksFacts
<1>4. PICK f : Joins(f, parts, T) /\ FlattenSeq(parts) = f[n]
  BY <1>2, FlattenJoins
<1>5. f \in [0 .. n -> Seq(T)] /\ f[0] = <<>> /\ \A k \in 1 .. n : f[k] = f[k - 1] \o parts[k]
  BY <1>2, <1>4 DEF Joins
<1> DEFINE at(i) == PlacesIn(x, s, P, i)
           A == {i \in 0 .. n : IsFiniteSet(at(i)) /\ Times(x, f[i]) = Cardinality(at(i))}
<1>6. 0 \in A
  <2>1. at(0) = {}
    BY DEF PlacesIn
  <2>2. IsFiniteSet(at(0)) /\ Cardinality(at(0)) = 0
    BY <2>1, FS_EmptySet
  <2>3. Times(x, f[0]) = 0
    BY <1>5, TimesEmpty
  <2> QED
    BY <2>2, <2>3
<1>7. ASSUME NEW i \in 0 .. (n - 1), i \in A PROVE i + 1 \in A
  <2>1. i + 1 \in 1 .. n /\ (i + 1) - 1 = i /\ i + 1 \in 0 .. n /\ i \in 0 .. n
    OBVIOUS
  <2>2. PICK a \in Seq(T), b \in Seq(T) : a = f[i] /\ b = parts[i + 1]
    <3>1. f[i] \in Seq(T)
      BY ONLY <1>5, <2>1
    <3>2. parts[i + 1] \in Seq(T)
      BY <1>2, <2>1
    <3> QED
      BY <3>1, <3>2
  <2>3. f[i + 1] = a \o b
    <3>1. f[i + 1] = f[(i + 1) - 1] \o parts[i + 1]
      BY <1>5, <2>1
    <3> QED
      BY <2>1, <2>2, <3>1
  <2>4. Times(x, f[i + 1]) = Times(x, a) + Times(x, b)
    BY <2>3, TimesConcat
  <2>5. IsFiniteSet(at(i)) /\ Times(x, a) = Cardinality(at(i)) /\ Cardinality(at(i)) \in Nat
    BY <1>7, <2>2, FS_CardinalityType
  <2>6. CASE i + 1 \in P /\ s[i + 1] = x
    <3>1. at(i + 1) = at(i) \cup {i + 1} /\ i + 1 \notin at(i)
      BY <2>1, <2>6 DEF PlacesIn
    <3>2. Times(x, b) = 1
      BY <1>3, <2>1, <2>2, <2>6, TimesSingle
    <3> HIDE DEF at
    <3>3. IsFiniteSet(at(i + 1)) /\ Cardinality(at(i + 1)) = Cardinality(at(i)) + 1
      BY <2>5, <3>1, FS_AddElement
    <3> QED
      BY <2>1, <2>4, <2>5, <3>2, <3>3
  <2>7. CASE ~(i + 1 \in P /\ s[i + 1] = x)
    <3>1. at(i + 1) = at(i)
      BY <2>1, <2>7 DEF PlacesIn
    <3>2. Times(x, b) = 0
      <4>1. b = IF i + 1 \in P THEN <<s[i + 1]>> ELSE <<>>
        BY <1>3, <2>1, <2>2
      <4>2. Times(x, <<s[i + 1]>>) = IF x = s[i + 1] THEN 1 ELSE 0
        BY TimesSingle
      <4>3. Times(x, <<>>) = 0
        BY TimesEmpty
      <4> QED
        BY <2>7, <4>1, <4>2, <4>3
    <3> QED
      BY <2>1, <2>4, <2>5, <3>1, <3>2
  <2> QED
    BY <2>6, <2>7
<1>8. 0 .. n \subseteq A
  <2> HIDE DEF A
  <2> QED
    BY <1>6, <1>7, InductionUpTo
<1>9. n \in A
  BY <1>8
<1> QED
  BY <1>1, <1>2, <1>4, <1>9, PicksFacts

LEMMA WithoutTimes ==
    ASSUME NEW T, NEW s \in Seq(T), NEW S, NEW x, x \notin S
    PROVE  Times(x, Without(s, S)) = Times(x, s)
<1>1. PICK n \in Nat : n = Len(s) /\ DOMAIN s = 1 .. n
  OBVIOUS
<1>2. PICK P : P = {k \in 1 .. n : s[k] \notin S}
  OBVIOUS
<1>3. Parts(s, S) = Picks(s, P)
  BY <1>1, <1>2 DEF Parts, Picks
<1>4. Without(s, S) = Chosen(s, P)
  BY <1>3, PartsFacts, PicksFacts
<1>5. PlacesIn(x, s, P, n) = Places(x, s)
  BY <1>1, <1>2 DEF PlacesIn, Places
<1> QED
  BY <1>1, <1>4, <1>5, ChosenTimes, PlacesFinite

-----------------------------------------------------------------------------
(* Cutting a list.                                                         *)

\* s[a + 1 .. n] is s[a + 1 .. b] and s[b + 1 .. n].
LEMMA CutTimes ==
    ASSUME NEW T, NEW s \in Seq(T), NEW n \in Nat, n = Len(s), NEW a \in Nat, NEW b \in Nat,
           a <= b, NEW c, c = (IF b < n THEN b ELSE n), NEW x
    PROVE  /\ SubSeq(s, a + 1, n) \in Seq(T) /\ SubSeq(s, a + 1, c) \in Seq(T)
           /\ SubSeq(s, b + 1, n) \in Seq(T)
           /\ Times(x, SubSeq(s, a + 1, n)) =
                  Times(x, SubSeq(s, a + 1, c)) + Times(x, SubSeq(s, b + 1, n))
<1>1. c \in 0 .. n /\ \A i \in 1 .. n : s[i] \in T
  OBVIOUS
<1>2. \A i \in (a + 1) .. n : s[i] \in T
  BY <1>1
<1>3. \A i \in (a + 1) .. c : s[i] \in T
  BY <1>1
<1>4. \A i \in (b + 1) .. n : s[i] \in T
  BY <1>1
<1>0. PICK d \in Int, e \in Int : d = a + 1 /\ e = b + 1
  OBVIOUS
<1>5. PICK u \in Seq(T) : u = SubSeq(s, a + 1, n)
  <2>1. \A i \in d .. n : s[i] \in T
    BY <1>0, <1>2
  <2>2. SubSeq(s, d, n) \in Seq(T)
    BY <2>1, SubSeqProperties
  <2> QED
    BY <1>0, <2>2
<1>6. PICK v \in Seq(T) : v = SubSeq(s, a + 1, c)
  <2>1. c \in Int /\ \A i \in d .. c : s[i] \in T
    BY <1>0, <1>1, <1>3
  <2>2. SubSeq(s, d, c) \in Seq(T)
    BY <2>1, SubSeqProperties
  <2> QED
    BY <1>0, <2>2
<1>7. PICK w \in Seq(T) : w = SubSeq(s, b + 1, n)
  <2>1. \A i \in e .. n : s[i] \in T
    BY <1>0, <1>4
  <2>2. SubSeq(s, e, n) \in Seq(T)
    BY <2>1, SubSeqProperties
  <2> QED
    BY <1>0, <2>2
<1>8. Times(x, u) = Times(x, v) + Times(x, w)
  <2>1. CASE b < n
    <3>1. a + 1 \in 1 .. (n + 1) /\ c \in ((a + 1) - 1) .. n /\ n \in c .. n /\ c = b
      BY <1>1, <2>1
    <3>2. SubSeq(s, a + 1, c) \o SubSeq(s, c + 1, n) = SubSeq(s, a + 1, n)
      BY <3>1, ConcatAdjacentSubSeq
    <3>3. u = v \o w
      BY <1>5, <1>6, <1>7, <3>1, <3>2
    <3> QED
      BY <3>3, TimesConcat
  <2>2. CASE ~(b < n)
    <3>1. c = n /\ n < b + 1
      BY <2>2
    <3>2. w = <<>> /\ u = v
      BY <1>5, <1>6, <1>7, <3>1, SubSeqEmpty
    <3> QED
      BY <3>2, TimesEmpty, TimesType
  <2> QED
    BY <2>1, <2>2
<1> QED
  BY <1>5, <1>6, <1>7, <1>8

\* The same, with the places counted from 1.
LEMMA CutFrom ==
    ASSUME NEW T, NEW s \in Seq(T), NEW n \in Nat, n = Len(s),
           NEW a \in Nat \ {0}, NEW b \in Nat \ {0}, a <= b,
           NEW c, c = (IF b - 1 < n THEN b - 1 ELSE n)
    PROVE  /\ SubSeq(s, a, n) \in Seq(T) /\ SubSeq(s, a, c) \in Seq(T) /\ SubSeq(s, b, n) \in Seq(T)
           /\ \A x : Times(x, SubSeq(s, a, n)) = Times(x, SubSeq(s, a, c)) + Times(x, SubSeq(s, b, n))
<1>1. PICK d \in Nat, e \in Nat : d = a - 1 /\ e = b - 1
  <2>1. a - 1 \in Nat /\ b - 1 \in Nat
    OBVIOUS
  <2> QED
    BY <2>1
<1>2. d + 1 = a /\ e + 1 = b /\ d <= e
  BY <1>1
<1>3. c = (IF e < n THEN e ELSE n)
  BY <1>1
<1>4. ASSUME NEW x
      PROVE  /\ SubSeq(s, d + 1, n) \in Seq(T) /\ SubSeq(s, d + 1, c) \in Seq(T)
             /\ SubSeq(s, e + 1, n) \in Seq(T)
             /\ Times(x, SubSeq(s, d + 1, n)) =
                    Times(x, SubSeq(s, d + 1, c)) + Times(x, SubSeq(s, e + 1, n))
  <2>1. d <= e
    BY <1>2
  <2> QED
    BY ONLY CutTimes, <1>3, <2>1, n = Len(s), s \in Seq(T), n \in Nat, d \in Nat, e \in Nat
<1> QED
  BY ONLY <1>2, <1>4

LEMMA HeadTailTimes ==
    ASSUME NEW T, NEW s \in Seq(T), s # <<>>, NEW x
    PROVE  Times(x, s) = Times(x, <<Head(s)>>) + Times(x, Tail(s))
<1>1. PICK n \in Nat \ {0} : n = Len(s)
  BY EmptySeq
<1>2. SubSeq(s, 1, n) = s
  BY <1>1, SubSeqFull
<1>3. Tail(s) = SubSeq(s, 2, n)
  BY <1>1, TailIsSubSeq
<1>4. 1 \in 1 .. Len(s) /\ n \in 1 .. Len(s) /\ 1 + 1 = 2
  BY <1>1
<1>5. SubSeq(s, 1, n) = <<s[1]>> \o SubSeq(s, 1 + 1, n)
  BY <1>4, SubSeqRecursiveFirst
<1>6. Head(s) = s[1] /\ s[1] \in T
  BY <1>1
<1>7. PICK t \in Seq(T) : t = Tail(s)
  BY HeadTailProperties
<1>8. PICK h \in Seq(T) : h = <<Head(s)>>
  <2>1. PICK x1 \in T : x1 = Head(s)
    BY <1>6
  <2>2. <<x1>> \in Seq(T)
    OBVIOUS
  <2> QED
    BY <2>1, <2>2
<1>9. s = h \o t
  BY <1>2, <1>3, <1>4, <1>5, <1>6, <1>7, <1>8
<1> QED
  BY <1>7, <1>8, <1>9, TimesConcat

\* The head of a list of lists and its tail.
LEMMA HeadTailFlatten ==
    ASSUME NEW S, NEW s \in Seq(Seq(S)), s # <<>>
    PROVE  /\ Head(s) \in Seq(S) /\ Tail(s) \in Seq(Seq(S))
           /\ FlattenSeq(s) = Head(s) \o FlattenSeq(Tail(s))
<1>1. PICK n \in Nat \ {0} : n = Len(s)
  BY EmptySeq
<1>2. SubSeq(s, 1, n) = s
  BY <1>1, SubSeqFull
<1>3. Tail(s) = SubSeq(s, 2, n)
  BY <1>1, TailIsSubSeq
<1>4. 1 \in 1 .. Len(s) /\ n \in 1 .. Len(s) /\ 1 + 1 = 2
  BY <1>1
<1>5. SubSeq(s, 1, n) = <<s[1]>> \o SubSeq(s, 1 + 1, n)
  BY <1>4, SubSeqRecursiveFirst
<1>6. Head(s) = s[1] /\ s[1] \in Seq(S)
  BY <1>1
<1>7. PICK t \in Seq(Seq(S)) : t = Tail(s)
  BY HeadTailProperties
<1>8. PICK h \in Seq(Seq(S)) : h = <<Head(s)>>
  <2>1. PICK x1 \in Seq(S) : x1 = Head(s)
    BY <1>6
  <2>2. <<x1>> \in Seq(Seq(S))
    OBVIOUS
  <2> QED
    BY <2>1, <2>2
<1>9. s = h \o t
  BY <1>2, <1>3, <1>4, <1>5, <1>6, <1>7, <1>8
<1>10. FlattenSeq(h \o t) = FlattenSeq(h) \o FlattenSeq(t)
  BY FlattenConcat
<1>11. FlattenSeq(h) = Head(s)
  BY <1>6, <1>8, FlattenOne
<1> QED
  BY <1>6, <1>7, <1>9, <1>10, <1>11

-----------------------------------------------------------------------------
(* One element more, or less.                                              *)

LEMMA AppendElements ==
    ASSUME NEW S, NEW s \in Seq(S), NEW e \in S, NEW n \in Nat, n = Len(s)
    PROVE  /\ Append(s, e) \in Seq(S) /\ Len(Append(s, e)) = n + 1
           /\ Append(s, e) = [i \in 1 .. (n + 1) |-> IF i <= n THEN s[i] ELSE e]
<1>1. PICK a \in Seq(S) : a = Append(s, e) /\ Len(a) = n + 1
  BY AppendProperties
<1>2. PICK b : b = [i \in 1 .. (n + 1) |-> IF i <= n THEN s[i] ELSE e]
  OBVIOUS
<1>3. \A i \in 1 .. (n + 1) : (IF i <= n THEN s[i] ELSE e) \in S
  <2>1. \A i \in 1 .. (n + 1) : i <= n => i \in 1 .. n
    OBVIOUS
  <2> QED
    BY <2>1, ElementIn
<1>4. b \in [1 .. (n + 1) -> S] /\ \A i \in 1 .. (n + 1) : b[i] = IF i <= n THEN s[i] ELSE e
  BY <1>2, <1>3
<1>5. n + 1 \in Nat
  OBVIOUS
<1>6. b \in Seq(S) /\ Len(b) = n + 1
  BY ONLY <1>4, <1>5
<1>7. \A i \in 1 .. (n + 1) : a[i] = IF i <= n THEN s[i] ELSE e
  <2>1. \A i \in 1 .. Len(s) : Append(s, e)[i] = s[i]
    BY AppendProperties
  <2>2. Append(s, e)[Len(s) + 1] = e
    BY AppendProperties
  <2>3. \A i \in 1 .. n : a[i] = s[i]
    BY <1>1, <2>1
  <2>4. a[n + 1] = e
    BY <1>1, <2>2
  <2>5. \A i \in 1 .. (n + 1) : (i <= n /\ i \in 1 .. n) \/ (~(i <= n) /\ i = n + 1)
    OBVIOUS
  <2> QED
    BY ONLY <2>3, <2>4, <2>5
<1>8. \A i \in 1 .. Len(a) : a[i] = b[i]
  BY <1>1, <1>4, <1>7
<1>9. a = b
  BY <1>1, <1>6, <1>8, SeqEqual
<1> QED
  BY <1>1, <1>2, <1>9

LEMMA TailElements ==
    ASSUME NEW S, NEW s \in Seq(S), s # <<>>, NEW n \in Nat, n = Len(s)
    PROVE  /\ n # 0 /\ Head(s) = s[1]
           /\ Tail(s) \in Seq(S) /\ Len(Tail(s)) = n - 1
           /\ Tail(s) = [i \in 1 .. (n - 1) |-> s[i + 1]]
<1>1. n # 0
  BY EmptySeq
<1>2. PICK a \in Seq(S) : a = Tail(s) /\ Len(a) = n - 1
  BY HeadTailProperties
<1>3. PICK b : b = [i \in 1 .. (n - 1) |-> s[i + 1]]
  OBVIOUS
<1>4. \A i \in 1 .. (n - 1) : s[i + 1] \in S
  <2>1. \A i \in 1 .. (n - 1) : i + 1 \in 1 .. n
    OBVIOUS
  <2> QED
    BY <2>1, ElementIn
<1>5. b \in [1 .. (n - 1) -> S] /\ \A i \in 1 .. (n - 1) : b[i] = s[i + 1]
  BY <1>3, <1>4
<1>6. n - 1 \in Nat
  BY <1>1
<1>7. b \in Seq(S) /\ Len(b) = n - 1
  BY ONLY <1>5, <1>6
<1>8. \A i \in 1 .. Len(a) : a[i] = b[i]
  <2>1. \A i \in 1 .. Len(Tail(s)) : Tail(s)[i] = s[i + 1]
    BY HeadTailProperties
  <2> QED
    BY <1>2, <1>5, <2>1
<1>9. a = b
  BY <1>2, <1>7, <1>8, SeqEqual
<1>10. Head(s) = s[1]
  OBVIOUS
<1> QED
  BY <1>1, <1>2, <1>3, <1>9, <1>10

-----------------------------------------------------------------------------
(* How long a list without repetitions is.                                 *)

LEMMA OneToOneLen ==
    ASSUME NEW S, NEW s \in Seq(S), OneToOne(s), NEW T, T = ToSet(s)
    PROVE  IsFiniteSet(T) /\ Cardinality(T) = Len(s)
<1>1. PICK n \in Nat : n = Len(s)
  OBVIOUS
<1>2. T = {s[i] : i \in 1 .. n}
  BY <1>1, ElementsOf
<1>3. DOMAIN s = 1 .. n /\ s \in [1 .. n -> T]
  <2>1. DOMAIN s = 1 .. n /\ s = [i \in 1 .. n |-> s[i]]
    BY <1>1
  <2>2. \A i \in 1 .. n : s[i] \in T
    BY <1>2
  <2> QED
    BY <2>1, <2>2
<1>4. s \in Surjection(1 .. n, T)
  <2>1. \A t \in T : \E i \in 1 .. n : s[i] = t
    BY <1>2
  <2> QED
    BY <1>3, <2>1 DEF Surjection
<1>5. s \in Injection(1 .. n, T)
  <2>1. \A i, j \in 1 .. n : s[i] = s[j] => i = j
    BY <1>1 DEF OneToOne
  <2> QED
    BY <1>3, <2>1 DEF Injection, IsInjective
<1>6. IsFiniteSet(1 .. n) /\ Cardinality(1 .. n) = n
  <2>1. IsFiniteSet(1 .. n) /\ Cardinality(1 .. n) = IF 1 > n THEN 0 ELSE n - 1 + 1
    BY FS_Interval
  <2> QED
    BY <2>1
<1>7. IsFiniteSet(T) /\ (Cardinality(T) = Cardinality(1 .. n) <=> s \in Injection(1 .. n, T))
  BY <1>4, <1>6, FS_Surjection
<1> QED
  BY <1>1, <1>5, <1>6, <1>7

\* There are not more of them than there are elements.
LEMMA OneToOneBound ==
    ASSUME NEW S, NEW s \in Seq(S), OneToOne(s), IsFiniteSet(S)
    PROVE  Len(s) <= Cardinality(S)
<1>1. PICK T : T = ToSet(s)
  OBVIOUS
<1>2. T \subseteq S
  <2>1. T = {s[i] : i \in 1 .. Len(s)}
    BY <1>1, ElementsOf
  <2> QED
    BY <2>1, ElementIn
<1>3. Cardinality(T) = Len(s)
  BY <1>1, OneToOneLen
<1>4. Cardinality(T) <= Cardinality(S)
  BY <1>2, FS_Subset
<1> QED
  BY <1>3, <1>4

\* Two lists that have the same elements, each once, are as long as each other.
LEMMA OnceOnly ==
    ASSUME NEW S, NEW s \in Seq(S), NEW T, T \subseteq S,
           \A x \in S : Times(x, s) = IF x \in T THEN 1 ELSE 0
    PROVE  OneToOne(s) /\ ToSet(s) = T /\ Len(s) = Cardinality(T)
<1>1. OneToOne(s)
  BY TimesOneToOne
<1>2. ToSet(s) \subseteq S
  <2>1. ToSet(s) = {s[i] : i \in 1 .. Len(s)}
    BY ElementsOf
  <2> QED
    BY <2>1, ElementIn
<1>3. \A x \in S : x \in ToSet(s) <=> x \in T
  BY TimesPresent
<1>4. ToSet(s) = T
  BY <1>2, <1>3
<1> QED
  BY <1>1, <1>4, OneToOneLen

-----------------------------------------------------------------------------
(* One element replaced.                                                   *)

LEMMA TimesChanged ==
    ASSUME NEW S, NEW s \in Seq(S), NEW t \in Seq(S), Len(t) = Len(s), NEW i \in 1 .. Len(s),
           \A k \in 1 .. Len(s) : k # i => t[k] = s[k], NEW x
    PROVE  Times(x, t) + (IF s[i] = x THEN 1 ELSE 0) = Times(x, s) + (IF t[i] = x THEN 1 ELSE 0)
<1>1. PICK n \in Nat : n = Len(s) /\ DOMAIN s = 1 .. n
  OBVIOUS
<1>2. Len(t) = n
  BY <1>1
<1>3. DOMAIN t = 1 .. n
  BY <1>2
<1>4. i \in 1 .. n /\ \A k \in 1 .. n : t[k] = IF k = i THEN t[i] ELSE s[k]
  BY <1>1
<1>5. PICK rest : rest = {k \in 1 .. n : k # i /\ s[k] = x}
  OBVIOUS
<1>6. Places(x, s) = IF s[i] = x THEN rest \cup {i} ELSE rest
  BY <1>1, <1>4, <1>5 DEF Places
<1>7. Places(x, t) = IF t[i] = x THEN rest \cup {i} ELSE rest
  BY <1>3, <1>4, <1>5 DEF Places
<1>8. i \notin rest
  BY <1>5
<1>9. IsFiniteSet(rest)
  <2>1. IsFiniteSet(1 .. n)
    BY FS_Interval
  <2> QED
    BY <1>5, <2>1, FS_Subset
<1>10. Cardinality(rest \cup {i}) = Cardinality(rest) + 1 /\ Cardinality(rest) \in Nat
  BY <1>8, <1>9, FS_AddElement, FS_CardinalityType
<1>11. Times(x, s) = Cardinality(Places(x, s)) /\ Times(x, t) = Cardinality(Places(x, t))
  BY DEF Times, Places
<1>12. Times(x, s) = IF s[i] = x THEN Cardinality(rest) + 1 ELSE Cardinality(rest)
  BY <1>6, <1>10, <1>11
<1>13. Times(x, t) = IF t[i] = x THEN Cardinality(rest) + 1 ELSE Cardinality(rest)
  BY <1>7, <1>10, <1>11
<1>14. Times(x, t) + (IF s[i] = x THEN 1 ELSE 0) = Times(x, s) + (IF t[i] = x THEN 1 ELSE 0)
  <2>1. PICK r \in Nat : r = Cardinality(rest)
    BY <1>10
  <2>2. CASE s[i] = x /\ t[i] = x
    BY <1>12, <1>13, <2>1, <2>2
  <2>3. CASE s[i] = x /\ t[i] # x
    BY <1>12, <1>13, <2>1, <2>3
  <2>4. CASE s[i] # x /\ t[i] = x
    BY <1>12, <1>13, <2>1, <2>4
  <2>5. CASE s[i] # x /\ t[i] # x
    BY <1>12, <1>13, <2>1, <2>5
  <2> QED
    BY <2>2, <2>3, <2>4, <2>5
<1> QED
  BY <1>14

-----------------------------------------------------------------------------
(* Lists of the elements of a set, and lists put together.                 *)

\* SetToSeq has each element of a finite set once.
LEMMA SetToSeqFacts ==
    ASSUME NEW S, IsFiniteSet(S)
    PROVE  SetToSeq(S) \in Seq(S) /\ OneToOne(SetToSeq(S)) /\ ToSet(SetToSeq(S)) = S
<1>1. PICK n \in Nat : n = Cardinality(S) /\ ExistsBijection(1 .. n, S)
  BY FS_CardinalityType
<1>2. PICK g \in [1 .. n -> S] : IsInjective(g)
  BY <1>1 DEF ExistsBijection, Bijection, Injection
<1>3. PICK f : f = SetToSeq(S)
  OBVIOUS
<1>4. f \in [1 .. n -> S] /\ IsInjective(f)
  BY <1>1, <1>2, <1>3 DEF SetToSeq
<1>5. f \in Seq(S) /\ Len(f) = n /\ DOMAIN f = 1 .. n
  BY ONLY <1>4, n \in Nat
<1>6. OneToOne(f)
  BY <1>4, <1>5 DEF OneToOne, IsInjective
<1>7. f \in Injection(1 .. n, S)
  BY <1>4 DEF Injection
<1>8. Cardinality(1 .. n) = n
  <2>1. Cardinality(1 .. n) = IF 1 > n THEN 0 ELSE n - 1 + 1
    BY FS_Interval
  <2> QED
    BY <2>1
<1>9. f \in Surjection(1 .. n, S)
  BY <1>1, <1>7, <1>8, FS_Injection
<1>10. S = {f[i] : i \in 1 .. n}
  <2>1. \A x \in S : \E i \in 1 .. n : f[i] = x
    BY <1>9 DEF Surjection
  <2>2. \A i \in 1 .. n : f[i] \in S
    BY <1>4
  <2> QED
    BY ONLY <2>1, <2>2
<1>11. ToSet(f) = {f[i] : i \in 1 .. Len(f)}
  BY ONLY <1>5, ElementsOf
<1> QED
  BY ONLY <1>3, <1>5, <1>6, <1>10, <1>11

LEMMA ConcatTimes ==
    ASSUME NEW S, NEW s \in Seq(S), NEW t \in Seq(S), NEW x
    PROVE  /\ s \o t \in Seq(S) /\ Times(x, s) \in Nat /\ Times(x, t) \in Nat
           /\ Times(x, s \o t) = Times(x, s) + Times(x, t)
  BY ConcatProperties, TimesConcat, TimesType

-----------------------------------------------------------------------------
(* A whole and its pieces.                                                 *)

\* With pieces of at least g elements, there are g for every piece.
LEMMA FlattenLeast ==
    ASSUME NEW S, NEW s \in Seq(Seq(S)), NEW g \in Nat, \A i \in 1 .. Len(s) : g <= Len(s[i])
    PROVE  g * Len(s) <= Len(FlattenSeq(s))
<1>1. PICK n \in Nat : n = Len(s)
  OBVIOUS
<1>2. PICK f : Joins(f, s, S) /\ FlattenSeq(s) = f[n]
  BY <1>1, FlattenJoins
<1>3. f \in [0 .. n -> Seq(S)] /\ f[0] = <<>> /\ \A i \in 1 .. n : f[i] = f[i - 1] \o s[i]
  BY <1>1, <1>2 DEF Joins
<1> DEFINE T == {i \in 0 .. n : g * i <= Len(f[i])}
<1>4. 0 \in T
  <2>1. g * 0 = 0 /\ Len(f[0]) = 0 /\ 0 \in 0 .. n
    BY <1>3
  <2> QED
    BY <2>1
<1>5. ASSUME NEW i \in 0 .. (n - 1), i \in T PROVE i + 1 \in T
  <2>1. i + 1 \in 1 .. n /\ (i + 1) - 1 = i /\ i + 1 \in 0 .. n /\ i \in 0 .. n /\ i \in Nat
    OBVIOUS
  <2>2. PICK a \in Seq(S), b \in Seq(S) : a = f[i] /\ b = s[i + 1]
    BY <1>1, <1>3, <2>1, ElementIn
  <2>3. f[i + 1] = a \o b
    BY <1>3, <2>1, <2>2
  <2>4. PICK p \in Nat, q \in Nat : p = Len(a) /\ q = Len(b)
    OBVIOUS
  <2>5. Len(f[i + 1]) = p + q
    BY <2>3, <2>4, ConcatProperties
  <2>6. g * i <= p
    BY <1>5, <2>2, <2>4
  <2>7. g <= q
    BY <1>1, <2>1, <2>2, <2>4
  <2>8. g * (i + 1) = g * i + g /\ g * i \in Nat
    BY <2>1
  <2>9. g * (i + 1) <= p + q
    BY ONLY <2>6, <2>7, <2>8, g \in Nat, p \in Nat, q \in Nat
  <2> QED
    BY <2>1, <2>5, <2>9
<1>6. 0 .. n \subseteq T
  <2> HIDE DEF T
  <2> QED
    BY <1>4, <1>5, InductionUpTo
<1>7. n \in 0 .. n
  OBVIOUS
<1> QED
  BY <1>1, <1>2, <1>6, <1>7

\* What is in one piece, or in two, is in the whole as often.
LEMMA PiecesTimes ==
    ASSUME NEW S, NEW s \in Seq(Seq(S)), NEW i \in 1 .. Len(s), NEW j \in 1 .. Len(s), NEW x
    PROVE  Times(x, s[i]) + (IF i = j THEN 0 ELSE Times(x, s[j])) <= Times(x, FlattenSeq(s))
<1>1. PICK n \in Nat : n = Len(s)
  OBVIOUS
<1>2. PICK f : Joins(f, s, S) /\ FlattenSeq(s) = f[n]
  BY <1>1, FlattenJoins
<1>3. f \in [0 .. n -> Seq(S)] /\ f[0] = <<>> /\ \A k \in 1 .. n : f[k] = f[k - 1] \o s[k]
  BY <1>1, <1>2 DEF Joins
<1>4. PICK a \in Nat, b \in Nat : a = Times(x, s[i]) /\ b = Times(x, s[j])
  <2>1. s[i] \in Seq(S) /\ s[j] \in Seq(S)
    BY ElementIn
  <2>2. Times(x, s[i]) \in Nat /\ Times(x, s[j]) \in Nat
    BY <2>1, TimesType
  <2> QED
    BY <2>2
<1>5. i \in 1 .. n /\ j \in 1 .. n
  BY <1>1
<1> DEFINE least(k) == (IF i <= k THEN a ELSE 0) + (IF i # j /\ j <= k THEN b ELSE 0)
           T == {k \in 0 .. n : least(k) <= Times(x, f[k])}
<1>6. 0 \in T
  <2>1. least(0) = 0
    BY <1>5
  <2>2. Times(x, f[0]) = 0
    BY <1>3, TimesEmpty
  <2> QED
    BY <2>1, <2>2
<1>7. ASSUME NEW k \in 0 .. (n - 1), k \in T PROVE k + 1 \in T
  <2>1. k + 1 \in 1 .. n /\ (k + 1) - 1 = k /\ k + 1 \in 0 .. n /\ k \in 0 .. n /\ k \in Nat
    OBVIOUS
  <2>2. PICK u \in Seq(S), v \in Seq(S) : u = f[k] /\ v = s[k + 1]
    BY <1>1, <1>3, <2>1, ElementIn
  <2>3. f[k + 1] = u \o v
    BY <1>3, <2>1, <2>2
  <2>4. PICK p \in Nat, q \in Nat : p = Times(x, u) /\ q = Times(x, v)
    <3>1. Times(x, u) \in Nat /\ Times(x, v) \in Nat
      BY TimesType
    <3> QED
      BY <3>1
  <2>5. Times(x, f[k + 1]) = p + q
    BY <2>3, <2>4, TimesConcat
  <2>6. least(k) <= p
    BY <1>7, <2>2, <2>4
  <2>7. /\ k + 1 = i => q = a
        /\ k + 1 = j => q = b
    BY <1>4, <2>2, <2>4
  <2>8. least(k + 1) <= p + q
    <3> i \in Nat /\ j \in Nat /\ k \in Nat
      BY <1>5
    <3>1. CASE k + 1 = i
      BY ONLY <3>1, <2>6, <2>7, a \in Nat, b \in Nat, p \in Nat, q \in Nat, i \in Nat, j \in Nat, k \in Nat
    <3>2. CASE k + 1 = j
      BY ONLY <3>2, <2>6, <2>7, a \in Nat, b \in Nat, p \in Nat, q \in Nat, i \in Nat, j \in Nat, k \in Nat
    <3>3. CASE k + 1 # i /\ k + 1 # j
      BY ONLY <3>3, <2>6, <2>7, a \in Nat, b \in Nat, p \in Nat, q \in Nat, i \in Nat, j \in Nat, k \in Nat
    <3> QED
      BY <3>1, <3>2, <3>3
  <2> QED
    BY <2>1, <2>5, <2>8
<1>8. 0 .. n \subseteq T
  <2> HIDE DEF T
  <2> QED
    BY <1>6, <1>7, InductionUpTo
<1>9. n \in T
  <2>1. n \in 0 .. n
    OBVIOUS
  <2> QED
    BY <1>8, <2>1
<1>10. least(n) = a + (IF i = j THEN 0 ELSE b)
  BY <1>5
<1> QED
  BY <1>2, <1>4, <1>9, <1>10

\* A whole that has nothing twice is made of pieces that have nothing twice or in common.
LEMMA PiecesApart ==
    ASSUME NEW S, NEW s \in Seq(Seq(S)), OneToOne(FlattenSeq(s))
    PROVE  /\ \A i \in 1 .. Len(s) : OneToOne(s[i])
           /\ \A i, j \in 1 .. Len(s) : i # j => ToSet(s[i]) \cap ToSet(s[j]) = {}
<1>1. FlattenSeq(s) \in Seq(S)
  BY FlattenType
<1>2. \A x : Times(x, FlattenSeq(s)) <= 1
  BY <1>1, TimesOnce
<1>3. \A i \in 1 .. Len(s) : s[i] \in Seq(S)
  BY ElementIn
<1>4. ASSUME NEW i \in 1 .. Len(s) PROVE OneToOne(s[i])
  <2>1. PICK u \in Seq(S) : u = s[i]
    BY <1>3
  <2>2. ASSUME NEW x \in S PROVE Times(x, u) <= 1
    <3>1. Times(x, s[i]) + (IF i = i THEN 0 ELSE Times(x, s[i])) <= Times(x, FlattenSeq(s))
      BY PiecesTimes
    <3>2. Times(x, u) \in Nat /\ Times(x, FlattenSeq(s)) \in Nat
      BY <1>1, TimesType
    <3>3. Times(x, FlattenSeq(s)) <= 1
      BY <1>2
    <3> QED
      BY <2>1, <3>1, <3>2, <3>3
  <2> QED
    BY <2>1, <2>2, TimesOneToOne
<1>5. ASSUME NEW i \in 1 .. Len(s), NEW j \in 1 .. Len(s), i # j,
             NEW x, x \in ToSet(s[i]), x \in ToSet(s[j])
      PROVE  FALSE
  <2>1. PICK u \in Seq(S), v \in Seq(S) : u = s[i] /\ v = s[j]
    BY <1>3
  <2>2. Times(x, u) # 0 /\ Times(x, v) # 0
    BY <1>5, <2>1, TimesPresent
  <2>3. Times(x, u) \in Nat /\ Times(x, v) \in Nat /\ Times(x, FlattenSeq(s)) \in Nat
    BY <1>1, TimesType
  <2>4. Times(x, s[i]) + (IF i = j THEN 0 ELSE Times(x, s[j])) <= Times(x, FlattenSeq(s))
    BY PiecesTimes
  <2>5. Times(x, FlattenSeq(s)) <= 1
    BY <1>2
  <2>6. Times(x, u) + Times(x, v) <= Times(x, FlattenSeq(s))
    BY <1>5, <2>1, <2>4
  <2> QED
    BY ONLY <2>2, <2>3, <2>5, <2>6
<1> QED
  BY <1>4, <1>5

=============================================================================
