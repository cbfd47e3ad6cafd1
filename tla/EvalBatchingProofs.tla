-------------------------- MODULE EvalBatchingProofs --------------------------
(***************************************************************************)
(* Safety of EvalBatching for every number of calling threads, every batch *)
(* size, every limit of the engine, with and without exceptions, and that  *)
(* it implements AnswerService.                                            *)
(***************************************************************************)
EXTENDS EvalBatching, FiniteSetTheorems, SequenceTheorems, TLAPS

-----------------------------------------------------------------------------
(* The inductive invariant.                                                *)

Waiting(c) == pc[c] = "wait" /\ future[c] = Pending
InQueue(c) == \E j \in 1 .. Len(batchQueue) : batchQueue[j] = c
InBatch(t, c) == \E k \in Open(t) : inputs[t][k] = c

\* What a batch thread has at hand in phase p; the completions it has are those of its
\* first inputs, in order.
AtHand(p, ins, res, n) ==
    /\ p \in {"infer", "deliver"} => ins # <<>>
    /\ p \in {"collect", "infer"} => n = 0
    /\ p = "collect" => res = <<>>
    /\ p = "deliver" => Len(res) = Len(ins)
    /\ Len(res) <= Len(ins)
    /\ \A k \in 1 .. Len(res) : res[k] = ins[k]

ThreadsInv == \A t \in Callers : AtHand(phase[t], inputs[t], results[t], done[t])

\* Every call that waits for its future is in one place, and no other call is anywhere.
PlacesInv ==
    /\ \A i, j \in 1 .. Len(batchQueue) : batchQueue[i] = batchQueue[j] => i = j
    /\ \A t \in Callers : \A i, j \in 1 .. Len(inputs[t]) : inputs[t][i] = inputs[t][j] => i = j
    /\ \A t, u, c \in Callers : InBatch(t, c) /\ InBatch(u, c) => t = u
    /\ \A t, c \in Callers : ~(InBatch(t, c) /\ InQueue(c))
    /\ \A c \in Callers : Waiting(c) <=> (InQueue(c) \/ \E t \in Callers : InBatch(t, c))

\* A future is resolved with the completion of its own input, and read after that.
\* Once it names a thread, batch_thread always does.
FuturesInv ==
    \A c \in Callers :
      /\ future[c] \in {Pending, Failed, c}
      /\ pc[c] \in {"create", "start", "put"} => future[c] = Pending
      /\ pc[c] = "returned" => future[c] # Pending
      /\ pc[c] = "start" => batchThread # NoThread

CallsInv == TypeOK /\ ThreadsInv /\ PlacesInv /\ FuturesInv

\* A batch that is still collected has not reached the size all calls ask for.
CollectInv ==
    \A t, c \in Callers :
      size[c] > 0 /\ (\A d \in Callers : size[d] = size[c]) =>
        /\ Len(inputs[t]) <= size[c]
        /\ phase[t] = "collect" => Len(inputs[t]) < size[c]

\* Where a call is for its caller.
StageIs ==
    /\ DOMAIN Stage = Callers /\ Stage = [c \in Callers |-> Stage[c]]
    /\ \A c \in Callers :
         /\ pc[c] = "new" => Stage[c] = "new"
         /\ pc[c] \in {"create", "start", "put", "wait"} => Stage[c] = "asked"
         /\ pc[c] = "returned" /\ future[c] = Failed => Stage[c] = "failed"
         /\ pc[c] = "returned" /\ future[c] = c => Stage[c] = "answered"

-----------------------------------------------------------------------------
(* What the actions do to the sequences.                                   *)

LEMMA QueueFacts ==
    ASSUME NEW s \in Seq(Callers)
    PROVE  /\ Len(s) \in Nat /\ DOMAIN s = 1 .. Len(s)
           /\ \A k \in 1 .. Len(s) : s[k] \in Callers
           /\ s # <<>> => /\ Len(s) # 0 /\ 1 \in 1 .. Len(s) /\ Head(s) = s[1]
                          /\ Head(s) \in Callers /\ Tail(s) \in Seq(Callers)
                          /\ Len(Tail(s)) = Len(s) - 1
                          /\ \A k \in 1 .. Len(Tail(s)) : k + 1 \in 1 .. Len(s) /\ Tail(s)[k] = s[k + 1]
           /\ \A c \in Callers : /\ Append(s, c) \in Seq(Callers) /\ Append(s, c) # <<>>
                                 /\ Len(Append(s, c)) = Len(s) + 1
                                 /\ Append(s, c)[Len(s) + 1] = c
                                 /\ \A k \in 1 .. Len(s) : Append(s, c)[k] = s[k]
<1>1. Len(s) \in Nat /\ DOMAIN s = 1 .. Len(s) /\ \A k \in 1 .. Len(s) : s[k] \in Callers
  BY LenProperties, ElementOfSeq
<1>2. ASSUME s # <<>>
      PROVE  /\ Len(s) # 0 /\ 1 \in 1 .. Len(s) /\ Head(s) = s[1]
             /\ Head(s) \in Callers /\ Tail(s) \in Seq(Callers)
             /\ Len(Tail(s)) = Len(s) - 1
             /\ \A k \in 1 .. Len(Tail(s)) : k + 1 \in 1 .. Len(s) /\ Tail(s)[k] = s[k + 1]
  <2>1. Len(s) # 0 /\ 1 \in 1 .. Len(s) /\ Head(s) = s[1]
    BY <1>2, EmptySeq
  <2>2. /\ Head(s) \in Callers /\ Tail(s) \in Seq(Callers) /\ Len(Tail(s)) = Len(s) - 1
        /\ \A k \in 1 .. Len(Tail(s)) : Tail(s)[k] = s[k + 1]
    BY <1>2, HeadTailProperties
  <2>3. \A k \in 1 .. Len(Tail(s)) : k + 1 \in 1 .. Len(s)
    BY <1>1, <2>2
  <2>4. QED
    BY <2>1, <2>2, <2>3
<1>3. \A c \in Callers : /\ Append(s, c) \in Seq(Callers)
                         /\ Len(Append(s, c)) = Len(s) + 1
                         /\ Append(s, c)[Len(s) + 1] = c
                         /\ \A k \in 1 .. Len(s) : Append(s, c)[k] = s[k]
  OBVIOUS
<1>4. \A c \in Callers : Append(s, c) # <<>>
  BY <1>1, <1>3, EmptySeq
<1>5. QED
  BY <1>1, <1>2, <1>3, <1>4

\* What a batch thread has at hand.
LEMMA BatchFacts ==
    ASSUME TypeOK, NEW t \in Callers
    PROVE  /\ inputs[t] \in Seq(Callers) /\ Len(inputs[t]) \in Nat
           /\ results[t] \in Seq(Callers) /\ Len(results[t]) \in Nat
           /\ inputs[t] # <<>> => Len(inputs[t]) # 0
           /\ done[t] \in Nat /\ (inputs[t] # <<>> => done[t] + 1 \in 1 .. Len(inputs[t]))
           /\ \A k \in Open(t) : k \in 1 .. Len(inputs[t]) /\ inputs[t][k] \in Callers
<1>1. /\ inputs[t] \in Seq(Callers) /\ results[t] \in Seq(Callers) /\ done[t] \in Nat
      /\ done[t] = 0 \/ done[t] \in 1 .. Len(inputs[t]) - 1
  BY DEF TypeOK
<1>2. /\ Len(inputs[t]) \in Nat /\ Len(results[t]) \in Nat
      /\ inputs[t] # <<>> => Len(inputs[t]) # 0
      /\ \A k \in 1 .. Len(inputs[t]) : inputs[t][k] \in Callers
  BY <1>1, QueueFacts
<1>3. inputs[t] # <<>> => done[t] + 1 \in 1 .. Len(inputs[t])
  <2>1. \A n \in Nat, d \in Nat : n # 0 /\ (d = 0 \/ d \in 1 .. n - 1) => d + 1 \in 1 .. n
    OBVIOUS
  <2>2. QED
    BY <1>1, <1>2, <2>1
<1>4. \A k \in Open(t) : k \in 1 .. Len(inputs[t])
  BY <1>1, <1>2 DEF Open
<1>5. QED
  BY <1>1, <1>2, <1>3, <1>4

\* A slice continues the completions with the next inputs.
LEMMA SliceFacts ==
    ASSUME TypeOK, ThreadsInv, NEW t \in Callers, inputs[t] # <<>>,
           NEW now, now = results[t] \o NextSlice(inputs[t], Len(results[t]))
    PROVE  /\ now \in Seq(Callers) /\ Len(now) \in Nat /\ Len(now) <= Len(inputs[t])
           /\ \A k \in 1 .. Len(now) : now[k] = inputs[t][k]
<1>1. /\ inputs[t] \in Seq(Callers) /\ Len(inputs[t]) \in Nat \ {0}
      /\ results[t] \in Seq(Callers) /\ Len(results[t]) \in Nat
      /\ Len(results[t]) <= Len(inputs[t]) /\ maxBatch \in Int
      /\ \A k \in 1 .. Len(inputs[t]) : inputs[t][k] \in Callers
  BY BatchFacts, QueueFacts, MaxBatchesAssumption DEF TypeOK, ThreadsInv, AtHand
<1>2. PICK m, i, n, last : /\ m = Len(inputs[t]) /\ i = Len(results[t])
                           /\ n = (IF maxBatch <= 0 THEN m ELSE maxBatch)
                           /\ last = (IF i + n < m THEN i + n ELSE m)
  OBVIOUS
<1>3. /\ m \in Nat /\ i \in Nat /\ n \in Nat \ {0} /\ last \in Nat /\ i <= last /\ last <= m
  <2>1. m \in Nat \ {0} /\ i \in Nat /\ i <= m /\ maxBatch \in Int
    BY <1>1, <1>2
  <2>2. n \in Nat \ {0}
    BY <1>2, <2>1
  <2>3. (last = i + n /\ i + n < m) \/ last = m
    BY <1>2
  <2>4. QED
    BY <2>1, <2>2, <2>3
<1>4. PICK slice : slice = SubSeq(inputs[t], i + 1, last)
  OBVIOUS
<1>5. now = results[t] \o slice
  BY <1>2, <1>4 DEF NextSlice
<1>6. \A k \in i + 1 .. last : inputs[t][k] \in Callers
  <2>1. \A k \in i + 1 .. last : k \in 1 .. m
    BY <1>3
  <2>2. \A k \in 1 .. m : inputs[t][k] \in Callers
    BY <1>1, <1>2
  <2>3. QED
    BY <2>1, <2>2
<1>7. /\ slice \in Seq(Callers) /\ Len(slice) = last - i
      /\ \A k \in 1 .. last - i : slice[k] = inputs[t][i + k]
  <2>1. i + 1 \in Int /\ last \in Int
    BY <1>3
  <2>2. /\ slice \in Seq(Callers)
        /\ Len(slice) = IF i + 1 <= last THEN last - (i + 1) + 1 ELSE 0
        /\ \A k \in 1 .. last - (i + 1) + 1 : slice[k] = inputs[t][(i + 1) + k - 1]
    BY <1>4, <1>6, <2>1, SubSeqProperties
  <2>3. Len(slice) = last - i
    BY <1>3, <2>2
  <2>4. last - (i + 1) + 1 = last - i /\ \A k \in 1 .. last - i : (i + 1) + k - 1 = i + k
    BY <1>3
  <2>5. QED
    BY <2>2, <2>3, <2>4
<1>8. /\ now \in Seq(Callers) /\ Len(now) = i + (last - i)
      /\ \A k \in 1 .. i + (last - i) :
           now[k] = IF k <= i THEN results[t][k] ELSE slice[k - i]
  <2>1. /\ now \in Seq(Callers) /\ Len(now) = Len(results[t]) + Len(slice)
        /\ \A k \in 1 .. Len(results[t]) + Len(slice) :
             now[k] = IF k <= Len(results[t]) THEN results[t][k] ELSE slice[k - Len(results[t])]
    <3>1. results[t] \in Seq(Callers) /\ slice \in Seq(Callers)
      BY <1>1, <1>7
    <3>2. QED
      BY ONLY <1>5, <3>1, ConcatProperties
  <2>2. QED
    BY <1>2, <1>7, <2>1
<1>9. i + (last - i) = last
  BY <1>3
<1>10. ASSUME NEW k \in 1 .. last PROVE now[k] = inputs[t][k]
  <2>1. CASE k <= i
    <3>1. k \in 1 .. Len(results[t])
      BY <1>2, <1>3, <2>1
    <3>2. results[t][k] = inputs[t][k]
      BY <3>1 DEF ThreadsInv, AtHand
    <3>3. QED
      BY <1>8, <1>9, <2>1, <3>2
  <2>2. CASE ~(k <= i)
    <3>1. k - i \in 1 .. last - i /\ i + (k - i) = k
      BY <1>3, <2>2
    <3>2. slice[k - i] = inputs[t][i + (k - i)]
      BY <1>7, <3>1
    <3>3. QED
      BY <1>8, <1>9, <2>2, <3>1, <3>2
  <2>3. QED
    BY <2>1, <2>2
<1>11. QED
  BY <1>2, <1>3, <1>8, <1>9, <1>10

-----------------------------------------------------------------------------
(* Places.                                                                 *)

\* A call is put behind the others.
LEMMA PutFacts ==
    ASSUME TypeOK, PlacesInv, NEW c \in Callers, batchQueue' = Append(batchQueue, c),
           UNCHANGED <<inputs, done>>, ~InQueue(c)
    PROVE  /\ \A d \in Callers : InQueue(d)' <=> (InQueue(d) \/ d = c)
           /\ \A t, d \in Callers : InBatch(t, d)' <=> InBatch(t, d)
           /\ \A i, j \in 1 .. Len(batchQueue') : batchQueue'[i] = batchQueue'[j] => i = j
<1>1. PICK n : n = Len(batchQueue)
  OBVIOUS
<1>2. /\ n \in Nat /\ Len(batchQueue') = n + 1 /\ batchQueue'[n + 1] = c
      /\ \A k \in 1 .. n : batchQueue'[k] = batchQueue[k]
  BY <1>1, QueueFacts DEF TypeOK
<1>3. \A k \in 1 .. Len(batchQueue') : k \in 1 .. n \/ k = n + 1
  BY <1>2
<1>4. n + 1 \in 1 .. Len(batchQueue') /\ \A k \in 1 .. n : k \in 1 .. Len(batchQueue')
  BY <1>2
<1>5. \A d \in Callers : InQueue(d)' <=> (InQueue(d) \/ d = c)
  BY <1>1, <1>2, <1>3, <1>4 DEF InQueue
<1>6. \A t, d \in Callers : InBatch(t, d)' <=> InBatch(t, d)
  BY DEF InBatch, Open
<1>7. \A k \in 1 .. n : batchQueue[k] # c
  BY <1>1 DEF InQueue
<1>8. \A i, j \in 1 .. n : batchQueue[i] = batchQueue[j] => i = j
  BY <1>1 DEF PlacesInv
<1>9. \A i, j \in 1 .. Len(batchQueue') : batchQueue'[i] = batchQueue'[j] => i = j
  BY <1>2, <1>3, <1>7, <1>8
<1>10. QED
  BY <1>5, <1>6, <1>9

\* The head of the queue becomes the last input of a batch.
LEMMA GetFacts ==
    ASSUME TypeOK, ThreadsInv, PlacesInv, NEW t \in Callers, phase[t] = "collect",
           batchQueue # <<>>, batchQueue' = Tail(batchQueue), done' = done,
           inputs' = [inputs EXCEPT ![t] = Append(@, Head(batchQueue))]
    PROVE  LET c == Head(batchQueue)
           IN /\ c \in Callers /\ InQueue(c)
              /\ \A d \in Callers : InQueue(d)' <=> (InQueue(d) /\ d # c)
              /\ \A u, d \in Callers : InBatch(u, d)' <=> (InBatch(u, d) \/ (u = t /\ d = c))
              /\ \A i, j \in 1 .. Len(batchQueue') : batchQueue'[i] = batchQueue'[j] => i = j
              /\ \A u \in Callers : \A i, j \in 1 .. Len(inputs'[u]) :
                   inputs'[u][i] = inputs'[u][j] => i = j
<1>1. PICK c, m, n : c = Head(batchQueue) /\ m = Len(batchQueue) /\ n = Len(inputs[t])
  OBVIOUS
<1>2. /\ m \in Nat \ {0} /\ 1 \in 1 .. m /\ c = batchQueue[1] /\ c \in Callers
      /\ Len(batchQueue') = m - 1
      /\ \A k \in 1 .. m - 1 : k + 1 \in 1 .. m /\ batchQueue'[k] = batchQueue[k + 1]
  <2>1. batchQueue \in Seq(Callers)
    BY DEF TypeOK
  <2>2. QED
    BY <1>1, <2>1, QueueFacts
<1>3. /\ n \in Nat /\ inputs'[t] = Append(inputs[t], c) /\ Len(inputs'[t]) = n + 1
      /\ inputs'[t][n + 1] = c /\ \A k \in 1 .. n : inputs'[t][k] = inputs[t][k]
  <2>1. inputs[t] \in Seq(Callers) /\ inputs'[t] = Append(inputs[t], c)
    BY <1>1 DEF TypeOK
  <2>2. QED
    BY <1>1, <1>2, <2>1, QueueFacts
<1>4. \A u \in Callers \ {t} : inputs'[u] = inputs[u]
  BY DEF TypeOK
<1>5. done[t] = 0
  BY DEF ThreadsInv, AtHand
<1>6. \A i, j \in 1 .. m : batchQueue[i] = batchQueue[j] => i = j
  BY <1>1 DEF PlacesInv
<1>7. InQueue(c)
  BY <1>1, <1>2 DEF InQueue
<1>8. ASSUME NEW d \in Callers PROVE InQueue(d)' <=> (InQueue(d) /\ d # c)
  <2>1. ASSUME NEW k \in 1 .. m - 1, batchQueue'[k] = d PROVE InQueue(d) /\ d # c
    <3>1. k + 1 \in 1 .. m /\ batchQueue[k + 1] = d /\ k + 1 # 1
      BY <1>2, <2>1
    <3>2. QED
      BY <1>1, <1>2, <1>6, <3>1 DEF InQueue
  <2>2. ASSUME NEW k \in 1 .. m, batchQueue[k] = d, d # c PROVE InQueue(d)'
    <3>1. k # 1
      BY <1>2, <2>2
    <3>2. k - 1 \in 1 .. m - 1 /\ (k - 1) + 1 = k
      BY <1>2, <3>1
    <3>3. batchQueue'[k - 1] = d
      BY <1>2, <2>2, <3>2
    <3>4. QED
      BY <1>2, <3>2, <3>3 DEF InQueue
  <2>3. QED
    BY <1>1, <1>2, <2>1, <2>2 DEF InQueue
<1>9. ASSUME NEW u \in Callers, NEW d \in Callers
      PROVE  InBatch(u, d)' <=> (InBatch(u, d) \/ (u = t /\ d = c))
  <2>1. CASE u # t
    BY <1>4, <2>1 DEF InBatch, Open
  <2>2. CASE u = t
    <3>1. \A k : k \in Open(t)' <=> k \in 1 .. n + 1
      BY <1>3, <1>5 DEF Open
    <3>2. \A k : k \in Open(t) <=> k \in 1 .. n
      BY <1>1, <1>5 DEF Open
    <3>3. \A k \in 1 .. n + 1 : k \in 1 .. n \/ k = n + 1
      BY <1>3
    <3>4. n + 1 \in 1 .. n + 1 /\ \A k \in 1 .. n : k \in 1 .. n + 1
      BY <1>3
    <3>5. QED
      BY <1>3, <2>2, <3>1, <3>2, <3>3, <3>4 DEF InBatch
  <2>3. QED
    BY <2>1, <2>2
<1>10. \A i, j \in 1 .. Len(batchQueue') : batchQueue'[i] = batchQueue'[j] => i = j
  <2> SUFFICES ASSUME NEW i \in 1 .. m - 1, NEW j \in 1 .. m - 1,
                      batchQueue'[i] = batchQueue'[j]
               PROVE  i = j
    BY <1>2
  <2>1. /\ i + 1 \in 1 .. m /\ batchQueue'[i] = batchQueue[i + 1]
        /\ j + 1 \in 1 .. m /\ batchQueue'[j] = batchQueue[j + 1]
    BY <1>2
  <2>2. i + 1 = j + 1
    BY <1>6, <2>1
  <2>3. QED
    BY <2>2
<1>11. ASSUME NEW u \in Callers, NEW i \in 1 .. Len(inputs'[u]), NEW j \in 1 .. Len(inputs'[u]),
              inputs'[u][i] = inputs'[u][j]
       PROVE  i = j
  <2>1. CASE u # t
    BY <1>4, <1>11, <2>1 DEF PlacesInv
  <2>2. CASE u = t
    <3>1. \A k \in 1 .. n : inputs[t][k] # c
      <4>1. ~InBatch(t, c)
        BY <1>2, <1>7 DEF PlacesInv
      <4>2. \A k \in 1 .. n : k \in Open(t)
        BY <1>1, <1>5 DEF Open
      <4>3. QED
        BY <4>1, <4>2 DEF InBatch
    <3>2. \A k, l \in 1 .. n : inputs[t][k] = inputs[t][l] => k = l
      BY <1>1 DEF PlacesInv
    <3>3. (i \in 1 .. n \/ i = n + 1) /\ (j \in 1 .. n \/ j = n + 1)
      BY <1>3, <2>2
    <3>4. QED
      BY <1>3, <1>11, <2>2, <3>1, <3>2, <3>3
  <2>3. QED
    BY <2>1, <2>2
<1>12. QED
  BY <1>1, <1>2, <1>7, <1>8, <1>9, <1>10, <1>11

\* The next input is resolved, or all of them are.
LEMMA ResolveFacts ==
    ASSUME TypeOK, ThreadsInv, PlacesInv, NEW t \in Callers, phase[t] = "deliver",
           batchQueue' = batchQueue,
           \/ inputs' = inputs /\ done' = [done EXCEPT ![t] = done[t] + 1]
           \/ /\ inputs' = [inputs EXCEPT ![t] = <<>>] /\ done' = [done EXCEPT ![t] = 0]
              /\ done[t] + 1 = Len(inputs[t])
    PROVE  LET c == inputs[t][done[t] + 1]
           IN /\ c \in Callers /\ InBatch(t, c) /\ results[t][done[t] + 1] = c
              /\ \A d \in Callers : InQueue(d)' <=> InQueue(d)
              /\ \A u, d \in Callers : InBatch(u, d)' <=> (InBatch(u, d) /\ ~(u = t /\ d = c))
<1>1. PICK c, m, n : c = inputs[t][n + 1] /\ n = done[t] /\ m = Len(inputs[t])
  OBVIOUS
<1>2. /\ m \in Nat \ {0} /\ n \in Nat /\ n + 1 \in 1 .. m /\ n + 1 \in Open(t) /\ c \in Callers
  <2>1. inputs[t] # <<>>
    BY DEF ThreadsInv, AtHand
  <2>2. m \in Nat \ {0} /\ n \in Nat /\ n + 1 \in 1 .. m
    BY <1>1, <2>1, BatchFacts
  <2>3. n + 1 \in Open(t)
    BY <1>1, <2>2 DEF Open
  <2>4. QED
    BY <1>1, <2>2, <2>3, BatchFacts
<1>3. InBatch(t, c)
  BY <1>1, <1>2 DEF InBatch
<1>4. results[t][n + 1] = c
  BY <1>1, <1>2 DEF ThreadsInv, AtHand
<1>5. \A i, j \in 1 .. m : inputs[t][i] = inputs[t][j] => i = j
  BY <1>1 DEF PlacesInv
<1>6. \A d \in Callers : InQueue(d)' <=> InQueue(d)
  BY DEF InQueue
<1>7. \A u \in Callers \ {t} : inputs'[u] = inputs[u] /\ done'[u] = done[u]
  BY DEF TypeOK
<1>8. ASSUME NEW d \in Callers PROVE InBatch(t, d)' <=> (InBatch(t, d) /\ d # c)
  <2>1. CASE inputs' = inputs /\ done' = [done EXCEPT ![t] = done[t] + 1]
    <3>1. done'[t] = n + 1
      BY <1>1, <2>1 DEF TypeOK
    <3>2. \A k : k \in Open(t)' <=> (k \in Open(t) /\ k # n + 1)
      BY <1>1, <1>2, <2>1, <3>1 DEF Open
    <3>3. \A k \in Open(t) : k \in 1 .. m
      BY <1>1, BatchFacts
    <3>4. \A k \in Open(t) : k # n + 1 <=> inputs[t][k] # c
      BY <1>1, <1>2, <1>5, <3>3
    <3>5. QED
      BY <2>1, <3>2, <3>4 DEF InBatch
  <2>2. CASE inputs' = [inputs EXCEPT ![t] = <<>>] /\ done' = [done EXCEPT ![t] = 0]
             /\ n + 1 = m
    <3>1. inputs'[t] = <<>>
      BY <2>2 DEF TypeOK
    <3>2. ~InBatch(t, d)'
      BY <2>2, <3>1 DEF InBatch, Open, TypeOK
    <3>3. \A k \in Open(t) : k = n + 1
      BY <1>1, <1>2, <2>2 DEF Open
    <3>4. QED
      BY <1>1, <3>2, <3>3 DEF InBatch
  <2>3. QED
    BY <1>1, <2>1, <2>2
<1>9. \A u \in Callers \ {t}, d \in Callers : InBatch(u, d)' <=> InBatch(u, d)
  BY <1>7 DEF InBatch, Open
<1>10. QED
  BY <1>1, <1>2, <1>3, <1>4, <1>6, <1>8, <1>9

\* An exception before the first result resolves the whole batch.
LEMMA FailFacts ==
    ASSUME TypeOK, NEW t \in Callers, done[t] = 0, batchQueue' = batchQueue,
           inputs' = [inputs EXCEPT ![t] = <<>>], done' = [done EXCEPT ![t] = 0]
    PROVE  /\ \A d \in Callers : InQueue(d)' <=> InQueue(d)
           /\ \A u, d \in Callers : InBatch(u, d)' <=> (InBatch(u, d) /\ u # t)
           /\ \A d \in Callers : d \in {inputs[t][k] : k \in DOMAIN inputs[t]} <=> InBatch(t, d)
<1>1. inputs'[t] = <<>> /\ \A u \in Callers \ {t} : inputs'[u] = inputs[u] /\ done'[u] = done[u]
  BY DEF TypeOK
<1>2. \A d \in Callers : ~InBatch(t, d)'
  BY <1>1 DEF InBatch, Open, TypeOK
<1>3. \A u \in Callers \ {t}, d \in Callers : InBatch(u, d)' <=> InBatch(u, d)
  BY <1>1 DEF InBatch, Open
<1>4. inputs[t] \in Seq(Callers)
  BY DEF TypeOK
<1>5. \A k : k \in DOMAIN inputs[t] <=> k \in Open(t)
  BY <1>4, QueueFacts DEF Open
<1>6. QED
  BY <1>2, <1>3, <1>5 DEF InQueue, InBatch

-----------------------------------------------------------------------------
(* The invariant.                                                          *)

LEMMA CallsInit == Init => CallsInv
<1> SUFFICES ASSUME Init PROVE CallsInv
  OBVIOUS
<1>1. <<>> \in Seq(Callers) /\ Len(<<>>) = 0
  BY EmptySeq
<1>2. TypeOK
  BY <1>1 DEF Init, TypeOK
<1>3. ThreadsInv
  BY <1>1 DEF Init, ThreadsInv, AtHand
<1>4. \A c, t \in Callers : ~InQueue(c) /\ ~InBatch(t, c)
  BY <1>1 DEF Init, InQueue, InBatch, Open
<1>5. PlacesInv
  BY <1>1, <1>4 DEF Init, PlacesInv, Waiting
<1>6. FuturesInv
  BY DEF Init, FuturesInv
<1>7. QED
  BY <1>2, <1>3, <1>5, <1>6 DEF CallsInv

LEMMA TypeStep == CallsInv /\ [Next]_vars => TypeOK'
<1> SUFFICES ASSUME CallsInv, [Next]_vars PROVE TypeOK'
  OBVIOUS
<1> USE DEF callVars, threadVars, At, Running
<1>1. TypeOK /\ ThreadsInv
  BY DEF CallsInv
<1>2. ASSUME NEW c \in Callers,
             Call(c) \/ Create(c) \/ StartThread(c) \/ Return(c) \/ Again(c)
      PROVE  TypeOK'
  <2>1. UNCHANGED <<size, maxBatch, phase, inputs, results, done, batchQueue>>
    BY <1>2 DEF Call, Create, StartThread, Return, Again
  <2>2. /\ pc' \in [Callers -> {"new", "create", "start", "put", "wait", "returned"}]
        /\ future' \in [Callers -> Callers \cup {Pending, Failed}]
    BY <1>1, <1>2 DEF TypeOK, Call, Create, StartThread, Return, Again
  <2>3. started' \in SUBSET Callers /\ batchThread' \in Callers \cup {NoThread}
    <3>1. CASE StartThread(c)
      <4>1. batchThread \in Callers
        BY <1>1, <3>1 DEF CallsInv, FuturesInv, TypeOK, StartThread
      <4>2. QED
        BY <1>1, <3>1, <4>1 DEF TypeOK, StartThread
    <3>2. CASE ~StartThread(c)
      BY <1>1, <1>2, <3>2 DEF TypeOK, Call, Create, Return, Again
    <3>3. QED
      BY <3>1, <3>2
  <2>4. QED
    BY <1>1, <2>1, <2>2, <2>3 DEF TypeOK
<1>3. ASSUME NEW c \in Callers, PutItem(c) PROVE TypeOK'
  <2>1. batchQueue' \in Seq(Callers)
    BY <1>1, <1>3, QueueFacts DEF TypeOK, PutItem
  <2>2. QED
    BY <1>1, <1>3, <2>1 DEF TypeOK, PutItem
<1>4. ASSUME NEW t \in Callers, Get(t) PROVE TypeOK'
  <2>1. batchQueue \in Seq(Callers) /\ inputs[t] \in Seq(Callers) /\ batchQueue # <<>>
    BY <1>1, <1>4 DEF TypeOK, Get
  <2>2. Head(batchQueue) \in Callers /\ Tail(batchQueue) \in Seq(Callers)
    BY <2>1, QueueFacts
  <2>3. Append(inputs[t], Head(batchQueue)) \in Seq(Callers)
    BY <2>1, <2>2, QueueFacts
  <2>4. batchQueue' \in Seq(Callers) /\ inputs' \in [Callers -> Seq(Callers)]
    BY <1>1, <1>4, <2>2, <2>3 DEF TypeOK, Get
  <2>5. \A u \in Callers : done'[u] = 0 \/ done'[u] \in 1 .. Len(inputs'[u]) - 1
    <3>1. done' = done /\ done[t] = 0 /\ \A u \in Callers \ {t} : inputs'[u] = inputs[u]
      BY <1>1, <1>4 DEF TypeOK, ThreadsInv, AtHand, Get
    <3>2. QED
      BY <1>1, <3>1 DEF TypeOK
  <2>6. phase' \in [Callers -> {"collect", "infer", "deliver", "dead"}]
    BY <1>1, <1>4 DEF TypeOK, Get
  <2>7. QED
    BY <1>1, <1>4, <2>4, <2>5, <2>6 DEF TypeOK, Get
<1>5. ASSUME NEW t \in Callers, TimeOut(t) PROVE TypeOK'
  BY <1>1, <1>5 DEF TypeOK, TimeOut
<1>6. ASSUME NEW t \in Callers, Infer(t) PROVE TypeOK'
  <2>1. PICK now : now = results[t] \o NextSlice(inputs[t], Len(results[t]))
    OBVIOUS
  <2>2. now \in Seq(Callers)
    <3>1. inputs[t] # <<>>
      BY <1>1, <1>6 DEF ThreadsInv, AtHand, Infer
    <3>2. QED
      BY <1>1, <2>1, <3>1, SliceFacts
  <2>3. results' \in [Callers -> Seq(Callers)]
    BY <1>1, <1>6, <2>1, <2>2 DEF TypeOK, Infer
  <2>4. phase' \in [Callers -> {"collect", "infer", "deliver", "dead"}]
    BY <1>1, <1>6 DEF TypeOK, Infer
  <2>5. QED
    BY <1>1, <1>6, <2>3, <2>4 DEF TypeOK, Infer
<1>7. ASSUME NEW t \in Callers, Finish(t),
             UNCHANGED <<size, maxBatch, pc, batchThread, started, batchQueue>>,
             future' \in [Callers -> Callers \cup {Pending, Failed}]
      PROVE  TypeOK'
  <2>1. <<>> \in Seq(Callers)
    BY EmptySeq
  <2>2. /\ inputs' \in [Callers -> Seq(Callers)] /\ results' \in [Callers -> Seq(Callers)]
        /\ done' \in [Callers -> Nat] /\ phase' \in [Callers -> {"collect", "infer", "deliver", "dead"}]
    BY <1>1, <1>7, <2>1 DEF TypeOK, Finish
  <2>3. done'[t] = 0 /\ \A u \in Callers \ {t} : done'[u] = done[u] /\ inputs'[u] = inputs[u]
    BY <1>1, <1>7 DEF TypeOK, Finish
  <2>4. \A u \in Callers : done'[u] = 0 \/ done'[u] \in 1 .. Len(inputs'[u]) - 1
    BY <1>1, <2>3 DEF TypeOK
  <2>5. QED
    BY <1>1, <1>7, <2>2, <2>4 DEF TypeOK
<1>8. ASSUME NEW t \in Callers, Deliver(t) PROVE TypeOK'
  <2>1. /\ results[t][done[t] + 1] \in Callers /\ inputs[t][done[t] + 1] \in Callers
        /\ done[t] + 1 \in 1 .. Len(inputs[t]) /\ Len(inputs[t]) \in Nat
    <3>1. inputs[t] # <<>>
      BY <1>1, <1>8 DEF ThreadsInv, AtHand, Deliver
    <3>2. done[t] + 1 \in 1 .. Len(inputs[t]) /\ inputs[t] \in Seq(Callers) /\ Len(inputs[t]) \in Nat
      BY <1>1, <3>1, BatchFacts
    <3>3. inputs[t][done[t] + 1] \in Callers
      BY <3>2, QueueFacts
    <3>4. results[t][done[t] + 1] = inputs[t][done[t] + 1]
      BY <1>1, <1>8, <3>2 DEF ThreadsInv, AtHand, Deliver
    <3>5. QED
      BY <3>2, <3>3, <3>4
  <2>2. future' \in [Callers -> Callers \cup {Pending, Failed}]
    BY <1>1, <1>8, <2>1 DEF TypeOK, Deliver
  <2>3. CASE done[t] + 1 = Len(inputs[t])
    BY <1>7, <1>8, <2>2, <2>3 DEF Deliver
  <2>4. CASE done[t] + 1 # Len(inputs[t])
    <3>1. done[t] + 1 \in 1 .. Len(inputs[t]) - 1 /\ done[t] + 1 \in Nat
      BY <2>1, <2>4
    <3>2. done' = [done EXCEPT ![t] = done[t] + 1] /\ UNCHANGED <<inputs, results, phase>>
      BY <1>8, <2>4 DEF Deliver
    <3>3. done' \in [Callers -> Nat] /\ done'[t] = done[t] + 1 /\ \A u \in Callers \ {t} : done'[u] = done[u]
      BY <1>1, <3>1, <3>2 DEF TypeOK
    <3>4. \A u \in Callers : done'[u] = 0 \/ done'[u] \in 1 .. Len(inputs'[u]) - 1
      BY <1>1, <3>1, <3>2, <3>3 DEF TypeOK
    <3>5. UNCHANGED <<size, maxBatch, pc, batchThread, started, batchQueue>>
      BY <1>8 DEF Deliver
    <3>6. QED
      BY <1>1, <2>2, <3>2, <3>3, <3>4, <3>5 DEF TypeOK
  <2>5. QED
    BY <2>3, <2>4
<1>9. ASSUME NEW t \in Callers, Except(t) PROVE TypeOK'
  <2>1. CASE done[t] = 0
    <3>1. future' \in [Callers -> Callers \cup {Pending, Failed}]
      BY <1>1, <1>9, <2>1 DEF TypeOK, Except
    <3>2. QED
      BY <1>7, <1>9, <2>1, <3>1 DEF Except
  <2>2. CASE done[t] # 0
    BY <1>1, <1>9, <2>2 DEF TypeOK, Except
  <2>3. QED
    BY <2>1, <2>2
<1>10. CASE UNCHANGED vars
  BY <1>1, <1>10 DEF TypeOK, vars
<1>11. QED
  BY <1>2, <1>3, <1>4, <1>5, <1>6, <1>8, <1>9, <1>10 DEF Next

\* Only the batch thread that steps changes what it has at hand.
LEMMA ThreadStep ==
    ASSUME TypeOK, ThreadsInv, NEW t \in Callers,
           AtHand(phase'[t], inputs'[t], results'[t], done'[t]),
           \A u \in Callers \ {t} : /\ phase'[u] = phase[u] /\ inputs'[u] = inputs[u]
                                    /\ results'[u] = results[u] /\ done'[u] = done[u]
    PROVE  ThreadsInv'
<1> SUFFICES ASSUME NEW u \in Callers
             PROVE  AtHand(phase'[u], inputs'[u], results'[u], done'[u])
  BY DEF ThreadsInv, AtHand
<1>1. CASE u = t
  BY <1>1
<1>2. CASE u # t
  <2>1. /\ phase'[u] = phase[u] /\ inputs'[u] = inputs[u]
        /\ results'[u] = results[u] /\ done'[u] = done[u]
    BY <1>2
  <2>2. AtHand(phase[u], inputs[u], results[u], done[u])
    BY DEF ThreadsInv
  <2>3. QED
    BY <2>1, <2>2
<1>3. QED
  BY <1>1, <1>2

LEMMA ThreadsStep == CallsInv /\ [Next]_vars => ThreadsInv'
<1> SUFFICES ASSUME CallsInv, [Next]_vars PROVE ThreadsInv'
  OBVIOUS
<1> USE DEF callVars, threadVars, Running
<1>1. TypeOK /\ ThreadsInv
  BY DEF CallsInv
<1>2. CASE UNCHANGED threadVars
  BY <1>1, <1>2 DEF ThreadsInv, AtHand
<1>3. \A t \in Callers : AtHand(phase[t], inputs[t], results[t], done[t])
  BY <1>1 DEF ThreadsInv
<1> DEFINE Others(t) ==
      \A u \in Callers \ {t} : /\ phase'[u] = phase[u] /\ inputs'[u] = inputs[u]
                               /\ results'[u] = results[u] /\ done'[u] = done[u]
<1>4. ASSUME NEW t \in Callers, Get(t) PROVE ThreadsInv'
  <2>1. PICK now, p : /\ now = Append(inputs[t], Head(batchQueue))
                      /\ p = (IF Len(now) = size[Head(batchQueue)] THEN "infer" ELSE "collect")
    OBVIOUS
  <2>2. /\ inputs'[t] = now /\ UNCHANGED <<results, done>> /\ phase'[t] = p
        /\ Others(t)
    BY <1>1, <1>4, <2>1 DEF TypeOK, Get
  <2>3. now # <<>> /\ Len(now) \in Nat
    <3>1. batchQueue \in Seq(Callers) /\ inputs[t] \in Seq(Callers) /\ batchQueue # <<>>
      BY <1>1, <1>4 DEF TypeOK, Get
    <3>2. Head(batchQueue) \in Callers
      BY <3>1, QueueFacts
    <3>3. now \in Seq(Callers) /\ now # <<>>
      BY <2>1, <3>1, <3>2, QueueFacts
    <3>4. QED
      BY <3>3, QueueFacts
  <2>4. results[t] = <<>> /\ done[t] = 0 /\ Len(<<>>) = 0
    BY <1>3, <1>4, EmptySeq DEF Get, AtHand
  <2>5. AtHand(p, now, results[t], done[t])
    BY <2>1, <2>3, <2>4 DEF AtHand
  <2>6. QED
    BY <1>1, <2>2, <2>5, ThreadStep
<1>5. ASSUME NEW t \in Callers, TimeOut(t) PROVE ThreadsInv'
  <2>1. AtHand("infer", inputs[t], results[t], done[t])
    BY <1>3, <1>5 DEF AtHand, TimeOut
  <2>2. phase'[t] = "infer" /\ UNCHANGED <<inputs, results, done>> /\ Others(t)
    BY <1>1, <1>5 DEF TypeOK, TimeOut
  <2>3. QED
    BY <1>1, <2>1, <2>2, ThreadStep
<1>6. ASSUME NEW t \in Callers, Infer(t) PROVE ThreadsInv'
  <2>1. PICK now, p : /\ now = results[t] \o NextSlice(inputs[t], Len(results[t]))
                      /\ p = (IF Len(now) < Len(inputs[t]) THEN "infer" ELSE "deliver")
    OBVIOUS
  <2>2. inputs[t] # <<>> /\ done[t] = 0
    BY <1>3, <1>6 DEF Infer, AtHand
  <2>3. /\ now \in Seq(Callers) /\ Len(now) \in Nat /\ Len(now) <= Len(inputs[t])
        /\ \A k \in 1 .. Len(now) : now[k] = inputs[t][k]
    BY <1>1, <2>1, <2>2, SliceFacts
  <2>4. results'[t] = now /\ UNCHANGED <<inputs, done>> /\ phase'[t] = p /\ Others(t)
    BY <1>1, <1>6, <2>1 DEF TypeOK, Infer
  <2>5. p = "infer" \/ (p = "deliver" /\ Len(now) = Len(inputs[t]))
    <3>1. Len(inputs[t]) \in Nat
      BY <1>1, BatchFacts
    <3>2. Len(now) < Len(inputs[t]) \/ (~(Len(now) < Len(inputs[t])) /\ Len(now) = Len(inputs[t]))
      BY <2>3, <3>1
    <3>3. QED
      BY <2>1, <3>2
  <2>6. AtHand(p, inputs[t], now, done[t])
    BY <2>2, <2>3, <2>5 DEF AtHand
  <2>7. QED
    BY <1>1, <2>4, <2>6, ThreadStep
<1>7. ASSUME NEW t \in Callers, Finish(t) PROVE ThreadsInv'
  <2>1. AtHand("collect", <<>>, <<>>, 0)
    BY EmptySeq DEF AtHand
  <2>2. /\ phase'[t] = "collect" /\ inputs'[t] = <<>> /\ results'[t] = <<>> /\ done'[t] = 0
        /\ Others(t)
    BY <1>1, <1>7 DEF TypeOK, Finish
  <2>3. QED
    BY <1>1, <2>1, <2>2, ThreadStep
<1>8. ASSUME NEW t \in Callers, Deliver(t) PROVE ThreadsInv'
  <2>1. CASE done[t] + 1 = Len(inputs[t])
    BY <1>7, <1>8, <2>1 DEF Deliver
  <2>2. CASE done[t] + 1 # Len(inputs[t])
    <3>1. done'[t] = done[t] + 1 /\ UNCHANGED <<inputs, results, phase>> /\ Others(t)
      BY <1>1, <1>8, <2>2 DEF TypeOK, Deliver
    <3>2. AtHand(phase[t], inputs[t], results[t], done[t] + 1)
      BY <1>3, <1>8 DEF AtHand, Deliver
    <3>3. QED
      BY <1>1, <3>1, <3>2, ThreadStep
  <2>3. QED
    BY <2>1, <2>2
<1>9. ASSUME NEW t \in Callers, Except(t) PROVE ThreadsInv'
  <2>1. CASE done[t] = 0
    BY <1>7, <1>9, <2>1 DEF Except
  <2>2. CASE done[t] # 0
    <3>1. phase'[t] = "dead" /\ UNCHANGED <<inputs, results, done>> /\ Others(t)
      BY <1>1, <1>9, <2>2 DEF TypeOK, Except
    <3>2. AtHand("dead", inputs[t], results[t], done[t])
      BY <1>3 DEF AtHand
    <3>3. QED
      BY <1>1, <3>1, <3>2, ThreadStep
  <2>3. QED
    BY <2>1, <2>2
<1>10. QED
  BY <1>2, <1>4, <1>5, <1>6, <1>8, <1>9
     DEF Next, vars, Call, Create, StartThread, PutItem, Return, Again

\* Nothing is moved and no call begins or ends to wait.
LEMMA QuietPlaces ==
    ASSUME PlacesInv, UNCHANGED <<inputs, done, batchQueue>>,
           \A c \in Callers : Waiting(c)' <=> Waiting(c)
    PROVE  PlacesInv'
<1>1. \A c \in Callers : InQueue(c)' <=> InQueue(c)
  BY DEF InQueue
<1>2. \A t, c \in Callers : InBatch(t, c)' <=> InBatch(t, c)
  BY DEF InBatch, Open
<1>3. QED
  BY <1>1, <1>2 DEF PlacesInv

LEMMA PlacesStep == CallsInv /\ [Next]_vars => PlacesInv'
<1> SUFFICES ASSUME CallsInv, [Next]_vars PROVE PlacesInv'
  OBVIOUS
<1> USE DEF callVars, threadVars, At, Running
<1>1. TypeOK /\ ThreadsInv /\ PlacesInv /\ FuturesInv
  BY DEF CallsInv
<1>2. ASSUME NEW c \in Callers,
             Call(c) \/ Create(c) \/ StartThread(c) \/ Return(c) \/ Again(c)
      PROVE  PlacesInv'
  <2>1. UNCHANGED <<inputs, done, batchQueue>>
    BY <1>2 DEF Call, Create, StartThread, Return, Again
  <2>2. pc'[c] # "wait" /\ ~Waiting(c)
    BY <1>1, <1>2 DEF TypeOK, Waiting, Call, Create, StartThread, Return, Again
  <2>3. \A d \in Callers \ {c} : pc'[d] = pc[d] /\ future'[d] = future[d]
    BY <1>1, <1>2 DEF TypeOK, Call, Create, StartThread, Return, Again
  <2>4. \A d \in Callers : Waiting(d)' <=> Waiting(d)
    BY <2>2, <2>3 DEF Waiting
  <2>5. QED
    BY <1>1, <2>1, <2>4, QuietPlaces
<1>3. ASSUME NEW c \in Callers, PutItem(c) PROVE PlacesInv'
  <2>1. batchQueue' = Append(batchQueue, c) /\ UNCHANGED <<inputs, done>>
    BY <1>3 DEF PutItem
  <2>2. ~InQueue(c) /\ \A t \in Callers : ~InBatch(t, c)
    BY <1>1, <1>3 DEF PlacesInv, Waiting, PutItem
  <2>3. /\ \A d \in Callers : InQueue(d)' <=> (InQueue(d) \/ d = c)
        /\ \A t, d \in Callers : InBatch(t, d)' <=> InBatch(t, d)
        /\ \A i, j \in 1 .. Len(batchQueue') : batchQueue'[i] = batchQueue'[j] => i = j
    BY <1>1, <2>1, <2>2, PutFacts
  <2>4. \A d \in Callers : Waiting(d)' <=> (Waiting(d) \/ d = c)
    BY <1>1, <1>3 DEF TypeOK, FuturesInv, Waiting, PutItem
  <2>5. \A t, u, d \in Callers : InBatch(t, d)' /\ InBatch(u, d)' => t = u
    BY <1>1, <2>3 DEF PlacesInv
  <2>6. \A t, d \in Callers : ~(InBatch(t, d)' /\ InQueue(d)')
    BY <1>1, <2>2, <2>3 DEF PlacesInv
  <2>7. \A d \in Callers : Waiting(d)' <=> (InQueue(d)' \/ \E t \in Callers : InBatch(t, d)')
    BY <1>1, <2>3, <2>4 DEF PlacesInv
  <2>8. \A t \in Callers : \A i, j \in 1 .. Len(inputs'[t]) : inputs'[t][i] = inputs'[t][j] => i = j
    BY <1>1, <2>1 DEF PlacesInv
  <2>9. QED
    BY <2>3, <2>5, <2>6, <2>7, <2>8 DEF PlacesInv
<1>4. ASSUME NEW t \in Callers, Get(t) PROVE PlacesInv'
  <2>1. PICK c : c = Head(batchQueue)
    OBVIOUS
  <2>2. /\ phase[t] = "collect" /\ batchQueue # <<>> /\ batchQueue' = Tail(batchQueue)
        /\ inputs' = [inputs EXCEPT ![t] = Append(@, Head(batchQueue))] /\ done' = done
        /\ UNCHANGED <<pc, future>>
    BY <1>4 DEF Get
  <2>3. /\ c \in Callers /\ InQueue(c)
        /\ \A d \in Callers : InQueue(d)' <=> (InQueue(d) /\ d # c)
        /\ \A u, d \in Callers : InBatch(u, d)' <=> (InBatch(u, d) \/ (u = t /\ d = c))
        /\ \A i, j \in 1 .. Len(batchQueue') : batchQueue'[i] = batchQueue'[j] => i = j
        /\ \A u \in Callers : \A i, j \in 1 .. Len(inputs'[u]) :
             inputs'[u][i] = inputs'[u][j] => i = j
    BY <1>1, <2>1, <2>2, GetFacts
  <2>4. \A d \in Callers : Waiting(d)' <=> Waiting(d)
    BY <2>2 DEF Waiting
  <2>5. \A u \in Callers : ~InBatch(u, c)
    BY <1>1, <2>3 DEF PlacesInv
  <2>6. \A u, v, d \in Callers : InBatch(u, d)' /\ InBatch(v, d)' => u = v
    BY <1>1, <2>3, <2>5 DEF PlacesInv
  <2>7. \A u, d \in Callers : ~(InBatch(u, d)' /\ InQueue(d)')
    BY <1>1, <2>3 DEF PlacesInv
  <2>8. \A d \in Callers : Waiting(d)' <=> (InQueue(d)' \/ \E u \in Callers : InBatch(u, d)')
    BY <1>1, <2>3, <2>4 DEF PlacesInv
  <2>9. QED
    BY <2>3, <2>6, <2>7, <2>8 DEF PlacesInv
<1>5. ASSUME NEW t \in Callers,
             \/ TimeOut(t) \/ Infer(t) \/ (Except(t) /\ done[t] # 0)
      PROVE  PlacesInv'
  <2>1. UNCHANGED <<pc, future, inputs, done, batchQueue>>
    BY <1>5 DEF TimeOut, Infer, Except
  <2>2. QED
    BY <1>1, <2>1, QuietPlaces DEF Waiting
<1>6. ASSUME NEW t \in Callers, Deliver(t) PROVE PlacesInv'
  <2>1. PICK c : c = inputs[t][done[t] + 1]
    OBVIOUS
  <2>2. /\ phase[t] = "deliver" /\ UNCHANGED <<pc, batchQueue>>
        /\ future' = [future EXCEPT ![c] = results[t][done[t] + 1]]
        /\ \/ inputs' = inputs /\ done' = [done EXCEPT ![t] = done[t] + 1]
           \/ /\ inputs' = [inputs EXCEPT ![t] = <<>>] /\ done' = [done EXCEPT ![t] = 0]
              /\ done[t] + 1 = Len(inputs[t])
    BY <1>6, <2>1 DEF Deliver, Finish
  <2>3. /\ c \in Callers /\ InBatch(t, c) /\ results[t][done[t] + 1] = c
        /\ \A d \in Callers : InQueue(d)' <=> InQueue(d)
        /\ \A u, d \in Callers : InBatch(u, d)' <=> (InBatch(u, d) /\ ~(u = t /\ d = c))
    BY <1>1, <2>1, <2>2, ResolveFacts
  <2>4. \A d \in Callers : Waiting(d)' <=> (Waiting(d) /\ d # c)
    <3>1. future'[c] = c /\ c # Pending /\ \A d \in Callers \ {c} : future'[d] = future[d]
      BY <1>1, <2>2, <2>3, CallersAssumption DEF TypeOK
    <3>2. QED
      BY <2>2, <2>3, <3>1 DEF Waiting
  <2>5. ~InQueue(c) /\ \A u \in Callers : InBatch(u, c) => u = t
    BY <1>1, <2>3 DEF PlacesInv
  <2>6. \A u, v, d \in Callers : InBatch(u, d)' /\ InBatch(v, d)' => u = v
    BY <1>1, <2>3 DEF PlacesInv
  <2>7. \A u, d \in Callers : ~(InBatch(u, d)' /\ InQueue(d)')
    BY <1>1, <2>3 DEF PlacesInv
  <2>8. \A d \in Callers : Waiting(d)' <=> (InQueue(d)' \/ \E u \in Callers : InBatch(u, d)')
    BY <1>1, <2>3, <2>4, <2>5 DEF PlacesInv
  <2>9. /\ \A i, j \in 1 .. Len(batchQueue') : batchQueue'[i] = batchQueue'[j] => i = j
        /\ \A u \in Callers : \A i, j \in 1 .. Len(inputs'[u]) : inputs'[u][i] = inputs'[u][j] => i = j
    <3>1. \A u \in Callers : inputs'[u] = inputs[u] \/ inputs'[u] = <<>>
      BY <1>1, <2>2 DEF TypeOK
    <3>2. QED
      BY <1>1, <2>2, <3>1, EmptySeq DEF PlacesInv
  <2>10. QED
    BY <2>6, <2>7, <2>8, <2>9 DEF PlacesInv
<1>7. ASSUME NEW t \in Callers, Except(t), done[t] = 0 PROVE PlacesInv'
  <2>1. PICK all : all = {inputs[t][k] : k \in DOMAIN inputs[t]}
    OBVIOUS
  <2>2. /\ UNCHANGED <<pc, batchQueue>>
        /\ future' = [c \in Callers |-> IF c \in all THEN Failed ELSE future[c]]
        /\ inputs' = [inputs EXCEPT ![t] = <<>>] /\ done' = [done EXCEPT ![t] = 0]
    BY <1>7, <2>1 DEF Except, Finish
  <2>3. /\ \A d \in Callers : InQueue(d)' <=> InQueue(d)
        /\ \A u, d \in Callers : InBatch(u, d)' <=> (InBatch(u, d) /\ u # t)
        /\ \A d \in Callers : d \in all <=> InBatch(t, d)
    BY <1>1, <1>7, <2>1, <2>2, FailFacts
  <2>4. \A d \in Callers : Waiting(d)' <=> (Waiting(d) /\ ~InBatch(t, d))
    BY <2>2, <2>3 DEF Waiting, Pending, Failed
  <2>5. \A u, v, d \in Callers : InBatch(u, d)' /\ InBatch(v, d)' => u = v
    BY <1>1, <2>3 DEF PlacesInv
  <2>6. \A u, d \in Callers : ~(InBatch(u, d)' /\ InQueue(d)')
    BY <1>1, <2>3 DEF PlacesInv
  <2>7. \A d \in Callers : Waiting(d)' <=> (InQueue(d)' \/ \E u \in Callers : InBatch(u, d)')
    BY <1>1, <2>3, <2>4 DEF PlacesInv
  <2>8. /\ \A i, j \in 1 .. Len(batchQueue') : batchQueue'[i] = batchQueue'[j] => i = j
        /\ \A u \in Callers : \A i, j \in 1 .. Len(inputs'[u]) : inputs'[u][i] = inputs'[u][j] => i = j
    <3>1. \A u \in Callers : inputs'[u] = inputs[u] \/ inputs'[u] = <<>>
      BY <1>1, <2>2 DEF TypeOK
    <3>2. QED
      BY <1>1, <2>2, <3>1, EmptySeq DEF PlacesInv
  <2>9. QED
    BY <2>5, <2>6, <2>7, <2>8 DEF PlacesInv
<1>8. CASE UNCHANGED vars
  BY <1>1, <1>8, QuietPlaces DEF vars, Waiting
<1>9. QED
  BY <1>2, <1>3, <1>4, <1>5, <1>6, <1>7, <1>8 DEF Next

LEMMA FuturesStep == CallsInv /\ [Next]_vars => FuturesInv'
<1> SUFFICES ASSUME CallsInv, [Next]_vars PROVE FuturesInv'
  OBVIOUS
<1> USE DEF callVars, threadVars, At, Running
<1>1. TypeOK /\ ThreadsInv /\ PlacesInv /\ FuturesInv
  BY DEF CallsInv
<1>2. ASSUME NEW c \in Callers,
             Call(c) \/ Create(c) \/ StartThread(c) \/ PutItem(c) \/ Return(c) \/ Again(c)
      PROVE  FuturesInv'
  <2>1. \A d \in Callers \ {c} : pc'[d] = pc[d] /\ future'[d] = future[d]
    BY <1>1, <1>2 DEF TypeOK, Call, Create, StartThread, PutItem, Return, Again
  <2>2. batchThread # NoThread => batchThread' # NoThread
    BY <1>2, CallersAssumption DEF Call, Create, StartThread, PutItem, Return, Again
  <2>3. /\ future'[c] \in {Pending, Failed, c}
        /\ pc'[c] \in {"create", "start", "put"} => future'[c] = Pending
        /\ pc'[c] = "returned" => future'[c] # Pending
        /\ pc'[c] = "start" => batchThread' # NoThread
    <3>1. CASE Call(c)
      BY <1>1, <3>1 DEF TypeOK, FuturesInv, Call
    <3>2. CASE Create(c)
      BY <1>1, <3>2, CallersAssumption DEF TypeOK, FuturesInv, Create
    <3>3. CASE StartThread(c)
      BY <1>1, <3>3 DEF TypeOK, FuturesInv, StartThread, Pending, Failed
    <3>4. CASE PutItem(c) \/ Return(c) \/ Again(c)
      BY <1>1, <3>4 DEF TypeOK, FuturesInv, PutItem, Return, Again
    <3>5. QED
      BY <1>2, <3>1, <3>2, <3>3, <3>4
  <2>4. QED
    BY <1>1, <2>1, <2>2, <2>3 DEF FuturesInv
<1>3. ASSUME NEW t \in Callers,
             \/ Get(t) \/ TimeOut(t) \/ Infer(t) \/ (Except(t) /\ done[t] # 0)
      PROVE  FuturesInv'
  <2>1. UNCHANGED <<pc, future, batchThread>>
    BY <1>3 DEF Get, TimeOut, Infer, Except
  <2>2. QED
    BY <1>1, <2>1 DEF FuturesInv
<1>4. ASSUME NEW t \in Callers, Deliver(t) PROVE FuturesInv'
  <2>1. PICK c : c = inputs[t][done[t] + 1]
    OBVIOUS
  <2>2. /\ phase[t] = "deliver" /\ UNCHANGED <<pc, batchThread, batchQueue>>
        /\ future' = [future EXCEPT ![c] = results[t][done[t] + 1]]
        /\ \/ inputs' = inputs /\ done' = [done EXCEPT ![t] = done[t] + 1]
           \/ /\ inputs' = [inputs EXCEPT ![t] = <<>>] /\ done' = [done EXCEPT ![t] = 0]
              /\ done[t] + 1 = Len(inputs[t])
    BY <1>4, <2>1 DEF Deliver, Finish
  <2>3. c \in Callers /\ InBatch(t, c) /\ results[t][done[t] + 1] = c
    BY <1>1, <2>1, <2>2, ResolveFacts
  <2>4. Waiting(c)
    BY <1>1, <2>3 DEF PlacesInv
  <2>5. future'[c] = c /\ \A d \in Callers \ {c} : future'[d] = future[d]
    BY <1>1, <2>2, <2>3 DEF TypeOK
  <2>6. QED
    BY <1>1, <2>2, <2>4, <2>5 DEF FuturesInv, Waiting
<1>5. ASSUME NEW t \in Callers, Except(t), done[t] = 0 PROVE FuturesInv'
  <2>1. PICK all : all = {inputs[t][k] : k \in DOMAIN inputs[t]}
    OBVIOUS
  <2>2. /\ UNCHANGED <<pc, batchThread, batchQueue>>
        /\ future' = [c \in Callers |-> IF c \in all THEN Failed ELSE future[c]]
        /\ inputs' = [inputs EXCEPT ![t] = <<>>] /\ done' = [done EXCEPT ![t] = 0]
    BY <1>5, <2>1 DEF Except, Finish
  <2>3. \A d \in Callers : d \in all <=> InBatch(t, d)
    BY <1>1, <1>5, <2>1, <2>2, FailFacts
  <2>4. \A d \in all \cap Callers : pc'[d] = "wait" /\ future'[d] = Failed
    BY <1>1, <2>2, <2>3 DEF PlacesInv, Waiting
  <2>5. \A d \in Callers \ all : pc'[d] = pc[d] /\ future'[d] = future[d]
    BY <2>2
  <2>6. QED
    BY <1>1, <2>2, <2>4, <2>5 DEF FuturesInv
<1>6. CASE UNCHANGED vars
  BY <1>1, <1>6 DEF FuturesInv, vars
<1>7. QED
  BY <1>2, <1>3, <1>4, <1>5, <1>6 DEF Next

LEMMA Calls == Spec => []CallsInv
<1>1. Init => CallsInv
  BY CallsInit
<1>2. CallsInv /\ [Next]_vars => CallsInv'
  BY TypeStep, ThreadsStep, PlacesStep, FuturesStep DEF CallsInv
<1>3. QED
  BY <1>1, <1>2, PTL DEF Spec

-----------------------------------------------------------------------------
(* Theorems.                                                               *)

\* The state is well formed: in particular a thread that has resolved some of its inputs
\* has others left, and every thread that is started exists.
THEOREM EvalTypeCorrect == Spec => []TypeOK
<1>1. CallsInv => TypeOK
  BY DEF CallsInv
<1>2. QED
  BY Calls, <1>1, PTL

\* Queue and batches together hold each call that waits once, and nothing else.
LEMMA OnePlace == TypeOK /\ PlacesInv => NoneLost
<1> SUFFICES ASSUME TypeOK, PlacesInv, NEW c \in Callers
             PROVE  Cardinality({i \in DOMAIN batchQueue : batchQueue[i] = c})
                    + Cardinality(UNION {{<<t, i>> : i \in {k \in Open(t) : inputs[t][k] = c}} : t \in Callers})
                    = IF Waiting(c) THEN 1 ELSE 0
  BY DEF NoneLost, Waiting
<1> DEFINE Queued == {i \in DOMAIN batchQueue : batchQueue[i] = c}
           Batched == UNION {{<<t, i>> : i \in {k \in Open(t) : inputs[t][k] = c}} : t \in Callers}
<1>0. PICK q, b : q = Cardinality(Queued) /\ b = Cardinality(Batched)
  OBVIOUS
<1> SUFFICES q + b = IF Waiting(c) THEN 1 ELSE 0
  BY <1>0
<1>1. DOMAIN batchQueue = 1 .. Len(batchQueue)
  BY QueueFacts DEF TypeOK
<1>2. ~InQueue(c) => Queued = {}
  BY <1>1 DEF InQueue
<1>3. (\A t \in Callers : ~InBatch(t, c)) => Batched = {}
  BY DEF InBatch
<1>4. Cardinality({}) = 0
  BY FS_EmptySet
<1>5. CASE InQueue(c)
  <2>1. Waiting(c) /\ Batched = {}
    BY <1>3, <1>5 DEF PlacesInv
  <2>2. PICK j \in 1 .. Len(batchQueue) : batchQueue[j] = c
    BY <1>5 DEF InQueue
  <2>3. Queued = {j}
    BY <1>1, <2>2 DEF PlacesInv
  <2>4. Cardinality({j}) = 1
    BY FS_Singleton
  <2>5. q = 1 /\ b = 0
    BY ONLY <1>0, <1>4, <2>1, <2>3, <2>4
  <2>6. QED
    BY <2>1, <2>5
<1>6. CASE \E t \in Callers : InBatch(t, c)
  <2>1. Waiting(c) /\ Queued = {}
    BY <1>2, <1>6 DEF PlacesInv
  <2>2. PICK t \in Callers : InBatch(t, c)
    BY <1>6
  <2>3. PICK k \in Open(t) : inputs[t][k] = c
    BY <2>2 DEF InBatch
  <2>4. \A i \in Open(t) : inputs[t][i] = c => i = k
    <3>1. \A i \in Open(t) : i \in 1 .. Len(inputs[t])
      BY BatchFacts
    <3>2. QED
      BY <2>3, <3>1 DEF PlacesInv
  <2>5. \A u \in Callers : \A i \in Open(u) : inputs[u][i] = c => u = t
    BY <2>2 DEF PlacesInv, InBatch
  <2>6. Batched = {<<t, k>>}
    <3>1. \A x \in Batched : x = <<t, k>>
      BY <2>4, <2>5
    <3>2. <<t, k>> \in Batched
      BY <2>3
    <3>3. QED
      BY <3>1, <3>2
  <2>7. Cardinality({<<t, k>>}) = 1
    BY FS_Singleton
  <2>8. q = 0 /\ b = 1
    BY ONLY <1>0, <1>4, <2>1, <2>6, <2>7
  <2>9. QED
    BY <2>1, <2>8
<1>7. CASE ~InQueue(c) /\ \A t \in Callers : ~InBatch(t, c)
  <2>1. ~Waiting(c)
    BY <1>7 DEF PlacesInv
  <2>2. q = 0 /\ b = 0
    BY <1>0, <1>2, <1>3, <1>4, <1>7
  <2>3. QED
    BY <2>1, <2>2
<1>8. QED
  BY <1>5, <1>6, <1>7

\* No input is lost between callers and batch threads and none is taken twice, whatever
\* the race for the thread, the batch sizes and the exceptions.
THEOREM EvalNoneLost == Spec => []NoneLost
<1>1. CallsInv => NoneLost
  BY OnePlace DEF CallsInv
<1>2. QED
  BY Calls, <1>1, PTL

LEMMA CollectStep == TypeOK /\ CollectInv /\ [Next]_vars => CollectInv'
<1> SUFFICES ASSUME TypeOK, CollectInv, [Next]_vars,
                    NEW u \in Callers, NEW c \in Callers,
                    size'[c] > 0, \A d \in Callers : size'[d] = size'[c]
             PROVE  /\ Len(inputs'[u]) <= size'[c]
                    /\ phase'[u] = "collect" => Len(inputs'[u]) < size'[c]
  BY DEF CollectInv
<1> USE DEF callVars, threadVars, At, Running
<1>1. size' = size
  BY DEF Next, vars, Call, Create, StartThread, PutItem, Return, Again,
         Get, TimeOut, Infer, Deliver, Except
<1>2. size[c] \in Nat /\ Len(inputs[u]) \in Nat /\ inputs[u] \in Seq(Callers)
  BY SizesAssumption, QueueFacts DEF TypeOK
<1>3. Len(inputs[u]) <= size[c] /\ (phase[u] = "collect" => Len(inputs[u]) < size[c])
  BY <1>1 DEF CollectInv
<1>4. CASE inputs'[u] = inputs[u] /\ (phase'[u] = "collect" => phase[u] = "collect")
  BY <1>1, <1>3, <1>4
<1>5. CASE inputs'[u] = <<>>
  BY <1>1, <1>2, <1>5, EmptySeq
<1>6. CASE Get(u)
  <2>1. PICK h, n : h = Head(batchQueue) /\ n = Len(inputs[u])
    OBVIOUS
  <2>2. h \in Callers
    BY <1>6, <2>1, QueueFacts DEF TypeOK, Get
  <2>3. Len(Append(inputs[u], h)) = n + 1
    BY <1>2, <2>1, <2>2, QueueFacts
  <2>4. /\ inputs'[u] = Append(inputs[u], h)
        /\ phase'[u] = IF Len(Append(inputs[u], h)) = size[h] THEN "infer" ELSE "collect"
    BY <1>6, <2>1 DEF TypeOK, Get
  <2>5. size[h] = size[c] /\ n < size[c]
    BY <1>1, <1>3, <1>6, <2>1, <2>2 DEF Get
  <2>6. n + 1 <= size[c] /\ (n + 1 # size[c] => n + 1 < size[c])
    BY <1>2, <2>1, <2>5
  <2>7. QED
    BY <1>1, <2>3, <2>4, <2>5, <2>6
<1>7. CASE \E t \in Callers : Get(t) /\ t # u
  <2>1. inputs'[u] = inputs[u] /\ phase'[u] = phase[u]
    BY <1>7 DEF TypeOK, Get
  <2>2. QED
    BY <1>4, <2>1
<1>8. CASE \E t \in Callers : TimeOut(t) \/ Infer(t)
  <2>1. inputs'[u] = inputs[u] /\ (phase'[u] = phase[u] \/ phase'[u] # "collect")
    BY <1>8 DEF TypeOK, TimeOut, Infer
  <2>2. QED
    BY <1>4, <2>1
<1>9. CASE \E t \in Callers : Deliver(t) \/ Except(t)
  <2>1. PICK t \in Callers : Deliver(t) \/ Except(t)
    BY <1>9
  <2>2. CASE Finish(t)
    <3>1. inputs'[u] = <<>> \/ (inputs'[u] = inputs[u] /\ phase'[u] = phase[u])
      BY <2>2 DEF TypeOK, Finish
    <3>2. QED
      BY <1>4, <1>5, <3>1
  <2>3. CASE ~Finish(t)
    <3>1. inputs' = inputs /\ (phase' = phase \/ phase' = [phase EXCEPT ![t] = "dead"])
      BY <2>1, <2>3 DEF Deliver, Except
    <3>2. inputs'[u] = inputs[u] /\ (phase'[u] = phase[u] \/ phase'[u] = "dead")
      BY <3>1 DEF TypeOK
    <3>3. QED
      BY <1>4, <3>2
  <2>4. QED
    BY <2>2, <2>3
<1>10. CASE UNCHANGED threadVars
  BY <1>4, <1>10
<1>11. QED
  BY <1>6, <1>7, <1>8, <1>9, <1>10 DEF Next, vars, Call, Create, StartThread, PutItem, Return, Again

\* When all calls ask for one size no batch is larger than it, however many threads
\* collect: the equality of the code is met by the item that fills the batch.
THEOREM EvalBatchBound == Spec => []BatchBound
<1>1. Init => CollectInv
  <2> SUFFICES ASSUME Init, NEW t \in Callers, NEW c \in Callers, size[c] > 0
               PROVE  Len(inputs[t]) <= size[c] /\ Len(inputs[t]) < size[c]
    BY DEF CollectInv
  <2>1. size[c] \in Nat /\ Len(inputs[t]) = 0
    BY SizesAssumption, EmptySeq DEF Init
  <2>2. QED
    BY <2>1
<1>2. CollectInv => BatchBound
  BY DEF CollectInv, BatchBound
<1>3. QED
  BY EvalTypeCorrect, CollectStep, <1>1, <1>2, PTL DEF Spec

LEMMA StageFacts == CallsInv => StageIs
<1> SUFFICES ASSUME CallsInv PROVE StageIs
  OBVIOUS
<1>1. DOMAIN Stage = Callers /\ Stage = [c \in Callers |-> Stage[c]]
  BY DEF Stage
<1>2. ASSUME NEW c \in Callers
      PROVE  /\ pc[c] = "new" => Stage[c] = "new"
             /\ pc[c] \in {"create", "start", "put", "wait"} => Stage[c] = "asked"
  BY DEF Stage
<1>3. ASSUME NEW c \in Callers, pc[c] = "returned", future[c] = Failed PROVE Stage[c] = "failed"
  BY <1>3, CallersAssumption DEF Stage
<1>4. ASSUME NEW c \in Callers, pc[c] = "returned", future[c] = c PROVE Stage[c] = "answered"
  BY <1>4, CallersAssumption DEF Stage
<1>5. QED
  BY <1>1, <1>2, <1>3, <1>4 DEF StageIs

LEMMA StageFactsNext == CallsInv' => StageIs'
BY StageFacts, PTL

\* The call of c changes its stage from x to y.
LEMMA StageMove ==
    ASSUME StageIs, StageIs', NEW c \in Callers, NEW y, Stage'[c] = y,
           \A d \in Callers \ {c} : Stage'[d] = Stage[d]
    PROVE  Stage' = [Stage EXCEPT ![c] = y]
BY DEF StageIs

\* One call moves from one stage to another.
LEMMA EvalOneMove ==
    ASSUME CallsInv, CallsInv', NEW c \in Callers,
           Call(c) \/ StartThread(c) \/ Return(c) \/ Again(c)
    PROVE  [Service!Next]_Stage
<1> USE DEF At
<1>1. /\ TypeOK /\ FuturesInv /\ StageIs /\ StageIs'
  BY StageFacts, StageFactsNext DEF CallsInv
<1>2. \A d \in Callers \ {c} : Stage'[d] = Stage[d]
  <2>1. \A d \in Callers \ {c} : pc'[d] = pc[d] /\ future'[d] = future[d]
    BY <1>1 DEF TypeOK, Call, StartThread, Return, Again
  <2>2. QED
    BY <2>1 DEF Stage
<1>3. \A y : Stage'[c] = y => Stage' = [Stage EXCEPT ![c] = y]
  BY <1>1, <1>2, StageMove
<1>4. CASE Call(c)
  <2>1. Stage[c] = "new" /\ Stage'[c] = "asked"
    BY <1>1, <1>4 DEF TypeOK, StageIs, Call
  <2>2. Service!Ask(c)
    BY <1>3, <2>1 DEF Service!Ask
  <2>3. QED
    BY <2>2 DEF Service!Next
<1>5. ASSUME Stage[c] = "asked", NEW y \in {"answered", "failed"}, Stage'[c] = y
      PROVE  Service!Next
  <2>1. Stage' = [Stage EXCEPT ![c] = y]
    BY <1>3, <1>5
  <2>2. PICK outcome : outcome = [d \in {c} |-> y]
    OBVIOUS
  <2>3. outcome \in [{c} -> {"answered", "failed"}] /\ outcome[c] = y
    BY <2>2
  <2>4. Stage' = [d \in Callers |-> IF d \in {c} THEN outcome[d] ELSE Stage[d]]
    BY <1>1, <2>1, <2>3 DEF StageIs
  <2>5. Service!Answer({c})
    BY <1>5, <2>3, <2>4 DEF Service!Answer
  <2>6. QED
    BY <2>5 DEF Service!Next
<1>6. CASE StartThread(c)
  <2>1. Stage[c] = "asked"
    BY <1>1, <1>6 DEF StageIs, StartThread
  <2>2. CASE batchThread \in started
    <3>1. Stage'[c] = "failed"
      BY <1>1, <1>6, <2>2 DEF TypeOK, StageIs, StartThread
    <3>2. QED
      BY <1>5, <2>1, <3>1
  <2>3. CASE batchThread \notin started
    <3>1. Stage'[c] = "asked"
      BY <1>1, <1>6, <2>3 DEF TypeOK, StageIs, StartThread
    <3>2. Stage' = [Stage EXCEPT ![c] = "asked"]
      BY <1>3, <3>1
    <3>3. Stage' = Stage
      BY <1>1, <2>1, <3>2 DEF StageIs
    <3>4. QED
      BY <3>3
  <2>4. QED
    BY <2>2, <2>3
<1>7. CASE Return(c)
  <2>1. Stage[c] = "asked" /\ pc'[c] = "returned" /\ future'[c] = future[c] /\ future[c] \in {Failed, c}
    BY <1>1, <1>7 DEF TypeOK, FuturesInv, StageIs, Return
  <2>2. Stage'[c] \in {"answered", "failed"}
    BY <1>1, <2>1 DEF StageIs
  <2>3. QED
    BY <1>5, <2>1, <2>2
<1>8. CASE Again(c)
  <2>1. pc[c] = "returned" /\ future[c] \in {Failed, c} /\ pc'[c] = "new"
    BY <1>1, <1>8 DEF TypeOK, FuturesInv, Again
  <2>2. Stage[c] \in {"answered", "failed"} /\ Stage'[c] = "new"
    BY <1>1, <2>1 DEF StageIs
  <2>3. Service!Renew(c)
    BY <1>3, <2>2 DEF Service!Renew
  <2>4. QED
    BY <2>3 DEF Service!Next
<1>9. QED
  BY <1>4, <1>6, <1>7, <1>8

\* The other steps change no stage: a future is resolved while its call still waits.
LEMMA EvalStutter ==
    ASSUME CallsInv, CallsInv', NEW t \in Callers,
           \/ Create(t) \/ PutItem(t)
           \/ Get(t) \/ TimeOut(t) \/ Infer(t) \/ Deliver(t) \/ Except(t)
    PROVE  Stage' = Stage
<1>1. /\ TypeOK /\ PlacesInv /\ StageIs /\ StageIs'
  BY StageFacts, StageFactsNext DEF CallsInv
<1>2. SUFFICES ASSUME NEW c \in Callers PROVE Stage'[c] = Stage[c]
  BY <1>1 DEF StageIs
<1>3. CASE pc'[c] = pc[c] /\ future'[c] = future[c]
  BY <1>3 DEF Stage
<1>4. CASE /\ pc[c] \in {"create", "start", "put", "wait"}
           /\ pc'[c] \in {"create", "start", "put", "wait"}
  <2>1. Stage[c] = "asked" /\ Stage'[c] = "asked"
    BY <1>1, <1>4 DEF StageIs
  <2>2. QED
    BY <2>1
<1>5. CASE Create(t) \/ PutItem(t)
  <2>1. CASE c = t
    BY <1>1, <1>4, <1>5, <2>1 DEF TypeOK, At, Create, PutItem
  <2>2. CASE c # t
    BY <1>1, <1>3, <1>5, <2>2 DEF TypeOK, At, Create, PutItem
  <2>3. QED
    BY <2>1, <2>2
<1>6. CASE Get(t) \/ TimeOut(t) \/ Infer(t) \/ (Except(t) /\ done[t] # 0)
  BY <1>3, <1>6 DEF callVars, Get, TimeOut, Infer, Except
<1>7. CASE Deliver(t)
  <2>1. PICK d : d = inputs[t][done[t] + 1]
    OBVIOUS
  <2>2. /\ phase[t] = "deliver" /\ UNCHANGED pc
        /\ future' = [future EXCEPT ![d] = results[t][done[t] + 1]]
    BY <1>7, <2>1 DEF Running, Deliver
  <2>3. d \in Callers /\ InBatch(t, d)
    <3>1. inputs[t] # <<>>
      BY <2>2 DEF CallsInv, ThreadsInv, AtHand
    <3>2. done[t] + 1 \in 1 .. Len(inputs[t]) /\ done[t] \in Nat /\ Len(inputs[t]) \in Nat
      BY <1>1, <3>1, BatchFacts
    <3>3. done[t] + 1 \in Open(t)
      BY <3>2 DEF Open
    <3>4. QED
      BY <1>1, <2>1, <3>3, BatchFacts DEF InBatch
  <2>4. pc[d] = "wait"
    BY <1>1, <2>3 DEF PlacesInv, Waiting
  <2>5. CASE c = d
    BY <1>4, <2>2, <2>4, <2>5
  <2>6. CASE c # d
    BY <1>1, <1>3, <2>2, <2>6 DEF TypeOK
  <2>7. QED
    BY <2>5, <2>6
<1>8. CASE Except(t) /\ done[t] = 0
  <2>1. PICK all : all = {inputs[t][k] : k \in DOMAIN inputs[t]}
    OBVIOUS
  <2>2. /\ UNCHANGED <<pc, batchQueue>>
        /\ future' = [d \in Callers |-> IF d \in all THEN Failed ELSE future[d]]
        /\ inputs' = [inputs EXCEPT ![t] = <<>>] /\ done' = [done EXCEPT ![t] = 0]
    BY <1>8, <2>1 DEF Except, Finish
  <2>3. c \in all <=> InBatch(t, c)
    BY <1>1, <1>8, <2>1, <2>2, FailFacts
  <2>4. CASE InBatch(t, c)
    <3>1. pc[c] = "wait"
      BY <1>1, <2>4 DEF PlacesInv, Waiting
    <3>2. QED
      BY <1>4, <2>2, <3>1
  <2>5. CASE ~InBatch(t, c)
    BY <1>3, <2>2, <2>3, <2>5
  <2>6. QED
    BY <2>4, <2>5
<1>9. QED
  BY <1>5, <1>6, <1>7, <1>8

\* The evaluation answers every call at most once, with the completion of its own input
\* or with an exception, whatever the batches it went through.
THEOREM EvalImplements == Spec => ImplementsAnswers
<1>1. Init => Service!Init
  BY DEF Init, Stage, Service!Init
<1>2. CallsInv /\ CallsInv' /\ [Next]_vars => [Service!Next]_Stage
  <2> SUFFICES ASSUME CallsInv, CallsInv', [Next]_vars PROVE [Service!Next]_Stage
    OBVIOUS
  <2>1. CASE UNCHANGED vars
    <3>1. Stage' = Stage
      BY <2>1 DEF vars, Stage
    <3>2. QED
      BY <3>1
  <2>2. QED
    BY <2>1, EvalOneMove, EvalStutter DEF Next
<1>3. QED
  BY Calls, <1>1, <1>2, PTL DEF Spec, ImplementsAnswers, Service!Spec

=============================================================================
