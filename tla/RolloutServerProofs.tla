-------------------------- MODULE RolloutServerProofs --------------------------
(***************************************************************************)
(* What is proved about the rollout server, for every number of workers,   *)
(* prompts, calls and trainers and every set of faults:                    *)
(*   - chunk_list and what the server and the client make of its pieces;   *)
(*   - the types;                                                          *)
(*   - no handler takes the result of another call for its own;            *)
(*   - no rollout uses old weights or old prefix blocks;                   *)
(*   - trainer and workers agree on their NCCL group and on the header of  *)
(*     every broadcast;                                                    *)
(*   - a rollout has every prompt once, in order;                          *)
(*   - the server is the atomic service of RolloutService.                 *)
(***************************************************************************)
EXTENDS RolloutServer, SequenceFacts

-----------------------------------------------------------------------------
(* Both ways to cut a batch lose nothing, repeat nothing and keep the      *)
(* order: the pieces are consecutive, the first one begins at the          *)
(* beginning and the last one ends at the end.                             *)

LEMMA NextMultiple ==
    ASSUME NEW i \in Nat, NEW k \in Nat
    PROVE  i * k \in Nat /\ (i + 1) * k = i * k + k
  OBVIOUS

\* chunk_list: the slice with index i has n \div dp or one more elements, the
\* longer ones come first.
LEMMA ChunkSize ==
    ASSUME NEW n \in Nat, NEW dp \in Nat \ {0}, NEW i \in Nat
    PROVE  /\ ChunkStart(n, dp, i) \in Nat
           /\ ChunkStart(n, dp, i + 1) =
                ChunkStart(n, dp, i) + (n \div dp) + (IF i < n % dp THEN 1 ELSE 0)
<1> DEFINE k == n \div dp
           r == n % dp
<1>1. k \in Nat /\ r \in Nat
  BY DivMod
<1>2. i * k \in Nat /\ (i + 1) * k = i * k + k
  BY <1>1, NextMultiple
<1>3. Least(i, r) \in Nat /\ Least(i + 1, r) = Least(i, r) + (IF i < r THEN 1 ELSE 0)
  BY <1>1 DEF Least
<1> HIDE DEF k, r
<1>4. QED
  BY <1>1, <1>2, <1>3 DEF ChunkStart, k, r

\* The chunks of chunk_list are consecutive, begin with the first and end with
\* the last request, and none is more than one request longer than another.
THEOREM ChunksPartition ==
    ASSUME NEW n \in Nat, NEW dp \in Nat \ {0}
    PROVE  /\ ChunkStart(n, dp, 0) = 0
           /\ ChunkStart(n, dp, dp) = n
           /\ \A i \in 0 .. (dp - 1) :
                ChunkStart(n, dp, i + 1) - ChunkStart(n, dp, i)
                  \in {n \div dp, n \div dp + 1}
<1> DEFINE k == n \div dp
           r == n % dp
<1>1. k \in Nat /\ r \in 0 .. (dp - 1) /\ dp * k + r = n
  BY DivMod
<1>2. \A i \in 0 .. (dp - 1) : ChunkStart(n, dp, i + 1) - ChunkStart(n, dp, i) \in {k, k + 1}
  <2> SUFFICES ASSUME NEW i \in 0 .. (dp - 1)
               PROVE  ChunkStart(n, dp, i + 1) - ChunkStart(n, dp, i) \in {k, k + 1}
    OBVIOUS
  <2>1. /\ ChunkStart(n, dp, i) \in Nat
        /\ ChunkStart(n, dp, i + 1) = ChunkStart(n, dp, i) + k + (IF i < r THEN 1 ELSE 0)
    <3>1. i \in Nat
      OBVIOUS
    <3>2. QED
      BY <3>1, ChunkSize, Zenon
  <2> HIDE DEF k, r
  <2>2. QED
    BY <1>1, <2>1
<1>3. Least(0, r) = 0 /\ Least(dp, r) = r
  BY <1>1 DEF Least
<1>4. 0 * k = 0
  BY <1>1
<1> HIDE DEF k, r
<1>5. QED
  BY <1>1, <1>2, <1>3, <1>4 DEF ChunkStart, k, r

\* No worker is sent an empty list of prompts, and whoever is sent more than
\* the placeholder is sent consecutive requests.
THEOREM EveryWorkerHasPrompts ==
    ASSUME NEW n \in Nat, NEW dp \in Nat \ {0}, NEW w \in 1 .. dp
    PROVE  /\ PromptsFor(n, dp, w) \in Seq(Nat)
           /\ Len(PromptsFor(n, dp, w)) >= 1
           /\ \/ PromptsFor(n, dp, w) = <<Placeholder>>
              \/ \A j \in 1 .. Len(PromptsFor(n, dp, w)) :
                   PromptsFor(n, dp, w)[j] = ChunkStart(n, dp, w - 1) + j
<1> DEFINE lo == ChunkStart(n, dp, w - 1)
           hi == ChunkStart(n, dp, w)
<1>1. lo \in Nat /\ hi \in Nat /\ lo <= hi
  <2>1. w - 1 \in Nat /\ (w - 1) + 1 = w
    OBVIOUS
  <2>2. n \div dp \in Nat
    BY DivMod
  <2>3. lo \in Nat
        /\ ChunkStart(n, dp, (w - 1) + 1) =
             lo + (n \div dp) + (IF w - 1 < n % dp THEN 1 ELSE 0)
    BY <2>1, ChunkSize, Zenon
  <2>4. QED
    BY <2>1, <2>2, <2>3
<1> HIDE DEF lo, hi
<1>2. Slice(lo, hi) \in Seq(Nat) /\ Len(Slice(lo, hi)) = hi - lo
  <2>1. hi - lo \in Nat /\ \A j \in 1 .. (hi - lo) : lo + j \in Nat
    BY <1>1
  <2>2. QED
    BY <2>1 DEF Slice
<1>3. Chunk(n, dp, w) = Slice(lo, hi)
  BY DEF Chunk, lo, hi
<1>4. CASE Slice(lo, hi) = <<>>
  BY <1>3, <1>4 DEF PromptsFor, Placeholder
<1>5. CASE Slice(lo, hi) # <<>>
  <2>1. PromptsFor(n, dp, w) = Slice(lo, hi)
    BY <1>3, <1>5 DEF PromptsFor
  <2>2. Len(Slice(lo, hi)) >= 1
    BY <1>2, <1>5
  <2>3. \A j \in 1 .. (hi - lo) : Slice(lo, hi)[j] = lo + j
    BY DEF Slice
  <2>4. QED
    BY <1>2, <2>1, <2>2, <2>3 DEF lo
<1>6. QED
  BY <1>4, <1>5

\* The pieces the client cuts for its servers are consecutive, begin with the
\* first and end with the last request; none is longer than the first.
THEOREM ServerChunksPartition ==
    ASSUME NEW n \in Nat, NEW servers \in Nat \ {0}
    PROVE  /\ ServerStart(n, servers, 0) = 0
           /\ ServerStart(n, servers, servers) = n
           /\ \A i \in 0 .. (servers - 1) :
                ServerStart(n, servers, i + 1) - ServerStart(n, servers, i)
                  \in 0 .. CeilDiv(n, servers)
<1> DEFINE c == CeilDiv(n, servers)
           m == n + servers - 1
<1>1. c \in Nat /\ servers * c >= n
  <2>1. m \in Nat /\ c = m \div servers
    BY DEF CeilDiv
  <2>2. c \in Nat /\ m % servers \in 0 .. (servers - 1) /\ servers * c + (m % servers) = m
    BY <2>1, DivMod
  <2>3. servers * c \in Nat
    BY <2>2
  <2> HIDE DEF c
  <2>4. QED
    BY <2>2, <2>3
<1> HIDE DEF c
<1>2. ServerStart(n, servers, 0) = 0
  <2>1. 0 * c = 0
    BY <1>1
  <2>2. QED
    BY <2>1 DEF ServerStart, Least, c
<1>3. ServerStart(n, servers, servers) = n
  <2>1. servers * c \in Nat
    BY <1>1
  <2>2. QED
    BY <1>1, <2>1 DEF ServerStart, Least, c
<1>4. \A i \in 0 .. (servers - 1) :
        ServerStart(n, servers, i + 1) - ServerStart(n, servers, i) \in 0 .. c
  <2> SUFFICES ASSUME NEW i \in 0 .. (servers - 1)
               PROVE  Least((i + 1) * c, n) - Least(i * c, n) \in 0 .. c
    BY DEF ServerStart, c
  <2>1. i * c \in Nat /\ (i + 1) * c = i * c + c
    BY <1>1, NextMultiple
  <2>2. QED
    BY <1>1, <2>1 DEF Least
<1>5. QED
  BY <1>2, <1>3, <1>4 DEF c

\* The slice of worker w begins where that of the worker before it ends.
LEMMA ChunkBounds ==
    ASSUME NEW n \in Nat, NEW dp \in Nat \ {0}, NEW w \in 1 .. dp
    PROVE  /\ ChunkStart(n, dp, w - 1) \in Nat /\ ChunkStart(n, dp, w) \in Nat
           /\ ChunkStart(n, dp, w - 1) <= ChunkStart(n, dp, w)
<1>1. w - 1 \in Nat /\ (w - 1) + 1 = w
  OBVIOUS
<1>2. n \div dp \in Nat
  BY DivMod
<1>3. /\ ChunkStart(n, dp, w - 1) \in Nat
      /\ ChunkStart(n, dp, (w - 1) + 1) =
           ChunkStart(n, dp, w - 1) + (n \div dp) + (IF w - 1 < n % dp THEN 1 ELSE 0)
  BY <1>1, ChunkSize, Zenon
<1> QED
  BY <1>1, <1>2, <1>3

LEMMA SliceFacts ==
    ASSUME NEW lo \in Nat, NEW hi \in Nat, lo <= hi
    PROVE  /\ Slice(lo, hi) \in Seq(Nat)
           /\ Len(Slice(lo, hi)) = hi - lo
           /\ \A j \in 1 .. (hi - lo) : Slice(lo, hi)[j] = lo + j
           /\ Slice(lo, hi) = <<>> <=> lo = hi
<1>1. hi - lo \in Nat /\ \A j \in 1 .. (hi - lo) : lo + j \in Nat
  OBVIOUS
<1>2. Slice(lo, hi) \in Seq(Nat) /\ Len(Slice(lo, hi)) = hi - lo
  BY <1>1 DEF Slice
<1>3. \A j \in 1 .. (hi - lo) : Slice(lo, hi)[j] = lo + j
  BY DEF Slice
<1>4. Slice(lo, hi) = <<>> <=> Len(Slice(lo, hi)) = 0
  BY <1>2
<1> QED
  BY <1>2, <1>3, <1>4

\* Two consecutive slices together are a slice.
LEMMA SlicesJoin ==
    ASSUME NEW a \in Nat, NEW b \in Nat, NEW c \in Nat, a <= b, b <= c
    PROVE  Slice(a, b) \o Slice(b, c) = Slice(a, c)
<1>1. PICK x \in Seq(Nat) : x = Slice(a, b)
  BY SliceFacts
<1>2. PICK y \in Seq(Nat) : y = Slice(b, c)
  BY SliceFacts
<1>3. PICK z \in Seq(Nat) : z = Slice(a, c)
  BY SliceFacts, a <= c
<1>4. Len(x) = b - a /\ \A j \in 1 .. (b - a) : x[j] = a + j
  BY <1>1, SliceFacts
<1>5. Len(y) = c - b /\ \A j \in 1 .. (c - b) : y[j] = b + j
  BY <1>2, SliceFacts
<1>6. Len(z) = c - a /\ \A j \in 1 .. (c - a) : z[j] = a + j
  BY <1>3, SliceFacts, a <= c
<1>7. PICK xy \in Seq(Nat) : xy = x \o y
  BY ConcatProperties
<1>8. /\ Len(xy) = Len(x) + Len(y)
      /\ \A j \in 1 .. (Len(x) + Len(y)) : xy[j] = IF j <= Len(x) THEN x[j] ELSE y[j - Len(x)]
  BY <1>7
<1>9. Len(xy) = c - a
  BY ONLY <1>4, <1>5, <1>8, a \in Nat, b \in Nat, c \in Nat
<1>10. ASSUME NEW j \in 1 .. (c - a) PROVE xy[j] = z[j]
  <2>1. xy[j] = IF j <= b - a THEN x[j] ELSE y[j - (b - a)]
    BY ONLY <1>4, <1>5, <1>8, a \in Nat, b \in Nat, c \in Nat, j \in 1 .. (c - a)
  <2>2. CASE j <= b - a
    BY ONLY <1>4, <1>6, <2>1, <2>2, a \in Nat, b \in Nat, c \in Nat, j \in 1 .. (c - a)
  <2>3. CASE ~(j <= b - a)
    <3>1. j - (b - a) \in 1 .. (c - b)
      BY <2>3, a <= b, b <= c
    <3>2. y[j - (b - a)] = b + (j - (b - a))
      BY ONLY <3>1, <1>5
    <3>3. b + (j - (b - a)) = a + j
      OBVIOUS
    <3> QED
      BY ONLY <1>6, <2>1, <2>3, <3>2, <3>3, j \in 1 .. (c - a)
  <2> QED
    BY <2>2, <2>3
<1>11. xy = z
  BY ONLY <1>6, <1>9, <1>10, SeqEqual, xy \in Seq(Nat), z \in Seq(Nat)
<1> QED
  BY <1>1, <1>2, <1>3, <1>7, <1>11

\* When every worker answers the prompts it was sent, what the server puts together is
\* the batch: every prompt once, in the caller's order, and no placeholder.
THEOREM AssembleWhole ==
    ASSUME NEW n \in Nat, NEW dp \in Nat \ {0}, NEW outs,
           \A w \in Kept(n, dp) : outs[w] = PromptsFor(n, dp, w)
    PROVE  Assemble(n, dp, outs) = Slice(0, n)
<1> DEFINE piece == [w \in 1 .. dp |-> IF w \in Kept(n, dp) THEN outs[w] ELSE <<>>]
           f == [w \in 0 .. dp |-> Slice(0, ChunkStart(n, dp, w))]
<1>1. \A w \in 1 .. dp : piece[w] = Chunk(n, dp, w)
  BY DEF Kept, PromptsFor
<1>2. ChunkStart(n, dp, 0) = 0 /\ ChunkStart(n, dp, dp) = n
  BY ChunksPartition
<1>3. \A w \in 0 .. dp : ChunkStart(n, dp, w) \in Nat
  BY ChunkSize
<1>4. \A w \in 1 .. dp : Chunk(n, dp, w) \in Seq(Nat)
  BY ChunkBounds, SliceFacts DEF Chunk
<1>5. piece \in Seq(Seq(Nat)) /\ Len(piece) = dp
  <2>1. piece \in [1 .. dp -> Seq(Nat)]
    BY <1>1, <1>4
  <2> HIDE DEF piece
  <2> QED
    BY <2>1
<1>6. f \in [0 .. dp -> Seq(Nat)]
  BY <1>3, SliceFacts
<1>7. f[0] = <<>> /\ f[dp] = Slice(0, n)
  BY <1>2, SliceFacts
<1>8. ASSUME NEW w \in 1 .. dp PROVE f[w] = f[w - 1] \o piece[w]
  <2>1. /\ ChunkStart(n, dp, w - 1) \in Nat /\ ChunkStart(n, dp, w) \in Nat
        /\ ChunkStart(n, dp, w - 1) <= ChunkStart(n, dp, w)
    BY ChunkBounds
  <2>2. f[w] = Slice(0, ChunkStart(n, dp, w)) /\ f[w - 1] = Slice(0, ChunkStart(n, dp, w - 1))
    OBVIOUS
  <2>3. piece[w] = Slice(ChunkStart(n, dp, w - 1), ChunkStart(n, dp, w))
    BY <1>1 DEF Chunk
  <2>4. PICK a \in Nat, b \in Nat :
             a = ChunkStart(n, dp, w - 1) /\ b = ChunkStart(n, dp, w) /\ a <= b
    BY <2>1
  <2>5. Slice(0, a) \o Slice(a, b) = Slice(0, b)
    BY SlicesJoin, <2>4, 0 \in Nat, 0 <= a
  <2> HIDE DEF f, piece
  <2> QED
    BY <2>2, <2>3, <2>4, <2>5
<1> HIDE DEF f
<1>9. Assemble(n, dp, outs) = FlattenSeq(piece)
  BY DEF Assemble
<1> HIDE DEF piece
<1>10. Joins(f, piece, Nat)
  BY <1>5, <1>6, <1>7, <1>8 DEF Joins
<1>11. FlattenSeq(piece) = f[dp]
  BY <1>5, <1>10, FlattenPrefix
<1> QED
  BY <1>7, <1>9, <1>11

-----------------------------------------------------------------------------
(* Types.                                                                  *)

\* What is sent to a worker is a list of prompt numbers.
LEMMA PromptsType ==
    ASSUME NEW n \in Nat, NEW w \in Workers
    PROVE  PromptsFor(n, DP, w) \in Seq(Nat)
  BY DPAssumption, EveryWorkerHasPrompts DEF Workers

LEMMA CommandType ==
    ASSUME NEW req \in Request, NEW w \in Workers
    PROVE  Command(req, w) \in Commands
  BY PromptsType DEF Command, Commands, Request

LEMMA AppendFacts ==
    ASSUME NEW S, NEW s \in Seq(S), NEW e \in S
    PROVE  /\ Append(s, e) \in Seq(S)
           /\ Append(s, e) # <<>>
           /\ Len(Append(s, e)) = Len(s) + 1
           /\ Append(s, e)[Len(s) + 1] = e
           /\ \A k \in 1 .. Len(s) : Append(s, e)[k] = s[k]
<1>1. Len(Append(s, e)) = Len(s) + 1 /\ Len(s) \in Nat
  OBVIOUS
<1>2. Append(s, e) # <<>>
  BY <1>1
<1>3. QED
  BY <1>1, <1>2

LEMMA TailFacts ==
    ASSUME NEW S, NEW s \in Seq(S), s # <<>>
    PROVE  /\ Tail(s) \in Seq(S)
           /\ Head(s) \in S /\ Head(s) = s[1]
           /\ Len(s) \in Nat \ {0} /\ Len(Tail(s)) = Len(s) - 1
           /\ \A k \in 1 .. Len(Tail(s)) : k + 1 \in 1 .. Len(s) /\ Tail(s)[k] = s[k + 1]
  OBVIOUS

\* A send appends to pipes and empties none.
LEMMA SendAllType ==
    ASSUME TypeOK, NEW req \in Request, SendAll(req)
    PROVE  /\ chan' \in [Workers -> Seq(Commands)]
           /\ \A w \in Workers : chan[w] # <<>> => chan'[w] # <<>>
<1>1. \A w \in Workers : /\ Append(chan[w], Command(req, w)) \in Seq(Commands)
                         /\ Append(chan[w], Command(req, w)) # <<>>
  <2> TAKE w \in Workers
  <2>1. chan[w] \in Seq(Commands)
    BY DEF TypeOK
  <2>2. Command(req, w) \in Commands
    BY CommandType
  <2>3. QED
    BY <2>1, <2>2, AppendFacts
<1>2. QED
  BY <1>1 DEF SendAll, TypeOK

LEMMA ResultType ==
    ASSUME TypeOK, NEW w \in Workers, chan[w] # <<>>, NEW ok \in BOOLEAN
    PROVE  /\ Result(w, ok) \in Results
           /\ Result(w, ok).id = chan[w][1].id
           /\ Result(w, ok).ver = weights[w]
           /\ Result(w, ok).stale = (cache[w] \ {weights[w]} # {})
<1>1. Head(chan[w]) \in Commands /\ Head(chan[w]) = chan[w][1]
  BY DEF TypeOK
<1>2. (cache[w] \ {weights[w]} # {}) \in BOOLEAN /\ weights[w] \in Nat
  BY DEF TypeOK
<1>3. QED
  BY <1>1, <1>2 DEF Result, Results, Commands

\* Finishing a command empties no other pipe.
LEMMA DoneType ==
    ASSUME TypeOK, NEW w \in Workers, chan[w] # <<>>, Done(w)
    PROVE  /\ chan' \in [Workers -> Seq(Commands)]
           /\ \A v \in Workers \ {w} : chan'[v] = chan[v]
<1>1. Tail(chan[w]) \in Seq(Commands)
  BY TailFacts DEF TypeOK
<1>2. QED
  BY <1>1 DEF Done, TypeOK

LEMMA TypeInit == Init => TypeOK
<1> SUFFICES ASSUME Init PROVE TypeOK
  OBVIOUS
<1>1. <<>> \in Seq(Results) /\ <<>> \in Seq(Commands) /\ Len(<<>>) <= DP
  BY DPAssumption
<1>2. QED
  BY <1>1 DEF Init, TypeOK, NoRequest, Request, Ops, CallOps, FireAndForgetOps,
              NoAnswer, Booting, Workers

\* A post leaves the trainer waiting, with a request of its own.
LEMMA PostType ==
    ASSUME TypeOK, NEW op \in Ops, NEW n \in Nat, Post(op, n), answer = NoAnswer
    PROVE  TypeOK'
<1>1. creq' \in Request /\ calls' \in Nat
  BY DEF TypeOK, Post, Request
<1>2. http' \in SUBSET Request
  BY <1>1 DEF TypeOK, Post
<1>3. QED
  BY <1>1, <1>2 DEF TypeOK, Post, workerVars

LEMMA TypeStep == TypeOK /\ [Next]_vars => TypeOK'
<1> SUFFICES ASSUME TypeOK, [Next]_vars PROVE TypeOK'
  OBVIOUS
<1> USE DEF clientVars, serverVars, workerVars
<1>1. CASE ClientStart
  BY <1>1 DEF ClientStart, TypeOK, NoRequest, Request, Ops, CallOps, FireAndForgetOps
<1>2. CASE PostInit
  BY <1>2, PostType DEF PostInit, TypeOK, Ops, FireAndForgetOps
<1>3. CASE PostUpdate
  BY <1>3, PostType DEF PostUpdate, TypeOK, Ops, FireAndForgetOps
<1>4. CASE PostReset
  BY <1>4, PostType DEF PostReset, TypeOK, Ops, CallOps
<1>5. ASSUME NEW n \in 0 .. MaxPrompts, PostInfer(n) PROVE TypeOK'
  BY <1>5, PostType DEF PostInfer, TypeOK, Ops, CallOps
<1>6. CASE BeginExit
  BY <1>6 DEF BeginExit, TypeOK
<1>7. CASE PostClose
  BY <1>7, PostType DEF PostClose, TypeOK, Ops, FireAndForgetOps
<1>8. CASE ExitUnregistered
  BY <1>8 DEF ExitUnregistered, TypeOK
<1>9. CASE Receive
  <2>1. After(creq.op, answer.st) \in {"down", "exit", "join", "bcast", "idle"}
    BY DEF TypeOK, After, Request, Ops, CallOps, FireAndForgetOps
  <2>2. QED
    BY <1>9, <2>1 DEF Receive, TypeOK, NoAnswer
<1>10. CASE ClientKill
  BY <1>10 DEF ClientKill, TypeOK, NoAnswer
<1>11. CASE GroupForm
  <2>1. \A w \in Workers : Tail(chan[w]) \in Seq(Commands)
    BY <1>11 DEF GroupForm, TypeOK
  <2>2. creq.id \in Nat
    BY DEF TypeOK, Request
  <2>3. QED
    BY <1>11, <2>1, <2>2 DEF GroupForm, TypeOK
<1>12. CASE ClientJoinTimeout
  BY <1>12 DEF ClientJoinTimeout, TypeOK
<1>13. ASSUME NEW w \in Workers, WorkerJoinTimeout(w) PROVE TypeOK'
  BY <1>13 DEF WorkerJoinTimeout, TypeOK
<1>14. CASE Broadcast
  <2>1. creq.id \in Nat
    BY DEF TypeOK, Request
  <2>2. QED
    BY <1>14, <2>1 DEF Broadcast, TypeOK
<1>15. ASSUME NEW req \in http, HandleFireAndForget(req) PROVE TypeOK'
  <2>1. req \in Request /\ SendAll(req)
    BY <1>15 DEF TypeOK, HandleFireAndForget
  <2>2. QED
    BY <1>15, <2>1, SendAllType DEF HandleFireAndForget, Respond, Response, NoAnswer, TypeOK
<1>16. ASSUME NEW req \in http, HandleCall(req) PROVE TypeOK'
  <2>1. req \in Request /\ SendAll(req) /\ req.op \in CallOps
    BY <1>16 DEF TypeOK, HandleCall
  <2>2. req \in [id : Nat, op : CallOps \union {"idle", "boot", "failed"}, n : Nat]
    BY <2>1 DEF Request
  <2>3. <<>> \in Seq(Results) /\ Len(<<>>) <= DP
    BY DPAssumption
  <2>4. CASE Dead = {}
    BY <1>16, <2>1, <2>2, <2>3, <2>4, SendAllType DEF HandleCall, TypeOK
  <2>5. CASE Dead # {}
    <3>1. answer'.st \in {"none", "ok", "error"} /\ (answer' # NoAnswer => cpc = "http")
      BY <1>16, <2>5 DEF HandleCall, Respond, Response, TypeOK
    <3>2. UNCHANGED <<handler, got>>
      BY <1>16, <2>5 DEF HandleCall
    <3>3. QED
      BY <1>16, <2>1, <3>1, <3>2, SendAllType DEF HandleCall, TypeOK
  <2>6. QED
    BY <2>4, <2>5
<1>17. CASE Recv
  <2>1. NextConnection \in Workers
    BY <1>17 DEF Recv, NextConnection, TypeOK, Workers
  <2>2. /\ repl[NextConnection] \in Seq(Results)
        /\ Head(repl[NextConnection]) \in Results
        /\ Tail(repl[NextConnection]) \in Seq(Results)
    BY <1>17, <2>1 DEF Recv, TypeOK
  <2>3. got' \in Seq(Results) /\ Len(got') <= DP
    BY <1>17, <2>2, AppendFacts, DPAssumption DEF Recv, TypeOK, NextConnection
  <2>4. QED
    BY <1>17, <2>1, <2>2, <2>3 DEF Recv, TypeOK
<1>18. CASE RecvEOF
  <2>1. <<>> \in Seq(Results) /\ Len(<<>>) <= DP
    BY DPAssumption
  <2>2. QED
    BY <1>18, <2>1 DEF RecvEOF, TypeOK, Failed, Idle, Respond, Response, NoAnswer
<1>19. CASE Finish
  <2>1. <<>> \in Seq(Results) /\ Len(<<>>) <= DP
    BY DPAssumption
  <2>2. InferResponse.st \in {"ok", "error"}
    BY DEF InferResponse, Response
  <2>3. /\ answer'.st \in {"none", "ok", "error"}
        /\ answer' # NoAnswer => cpc = "http"
    <3>1. CASE handler.op = "boot"
      BY <1>19, <3>1 DEF Finish, TypeOK
    <3>2. CASE handler.op = "reset"
      BY <1>19, <3>2 DEF Finish, TypeOK, Respond, Response
    <3>3. CASE handler.op = "infer"
      BY <1>19, <2>2, <3>3 DEF Finish, TypeOK, Respond
    <3>4. QED
      BY <1>19, <3>1, <3>2, <3>3 DEF Finish, Receiving, CallOps
  <2>4. QED
    BY <1>19, <2>1, <2>3 DEF Finish, TypeOK, Idle
<1>20. ASSUME NEW w \in Workers, WorkerReady(w) PROVE TypeOK'
  <2>1. [id |-> 0, ok |-> TRUE, prompts |-> <<>>, ver |-> 0, stale |-> FALSE] \in Results
    BY DEF Results
  <2>2. QED
    BY <1>20, <2>1 DEF WorkerReady, TypeOK
<1>21. ASSUME NEW w \in Workers, TakeInit(w) PROVE TypeOK'
  <2>1. CASE comm[w] # 0
    BY <1>21, <2>1, DoneType DEF TakeInit, Taking, TypeOK
  <2>2. CASE comm[w] = 0
    BY <1>21, <2>2 DEF TakeInit, Taking, TypeOK
  <2>3. QED
    BY <2>1, <2>2
<1>22. ASSUME NEW w \in Workers, TakeUpdate(w) PROVE TypeOK'
  <2>1. CASE comm[w] = 0
    BY <1>22, <2>1, DoneType DEF TakeUpdate, Taking, TypeOK
  <2>2. CASE comm[w] # 0
    BY <1>22, <2>2 DEF TakeUpdate, Taking, TypeOK
  <2>3. QED
    BY <2>1, <2>2
<1>23. ASSUME NEW w \in Workers, Load(w) PROVE TypeOK'
  <2>1. Done(w) /\ chan[w] # <<>> /\ wk' = [wk EXCEPT ![w] = "idle"]
    BY <1>23 DEF Load, TypeOK
  <2>2. lost[w] \union {"load"} \in SUBSET {"load", "reset"}
    BY DEF TypeOK
  <2>3. weights' \in [Workers -> Nat] /\ lost' \in [Workers -> SUBSET {"load", "reset"}]
    <3>1. CASE weights' = [weights EXCEPT ![w] = pushed] /\ UNCHANGED lost
      BY <3>1 DEF TypeOK
    <3>2. CASE lost' = [lost EXCEPT ![w] = @ \union {"load"}] /\ UNCHANGED weights
      BY <2>2, <3>2 DEF TypeOK
    <3>3. QED
      BY <1>23, <3>1, <3>2 DEF Load
  <2>4. QED
    BY <1>23, <2>1, <2>3, DoneType DEF Load, TypeOK
<1>24. ASSUME NEW w \in Workers, TakeClose(w) PROVE TypeOK'
  BY <1>24 DEF TakeClose, Taking, Done, TypeOK
<1>25. ASSUME NEW w \in Workers, TakeReset(w) PROVE TypeOK'
  <2>1. \A ok \in BOOLEAN : Result(w, ok) \in Results
    BY <1>25, ResultType DEF TakeReset, Taking
  <2>2. PICK ok \in BOOLEAN : repl' = [repl EXCEPT ![w] = Append(@, Result(w, ok))]
    BY <1>25 DEF TakeReset
  <2>3. /\ cache' \in [Workers -> SUBSET Nat]
        /\ lost' \in [Workers -> SUBSET {"load", "reset"}]
    <3>1. lost[w] \union {"reset"} \in SUBSET {"load", "reset"}
      BY DEF TypeOK
    <3>2. CASE cache' = [cache EXCEPT ![w] = {}] /\ UNCHANGED lost
      BY <3>2 DEF TypeOK
    <3>3. CASE lost' = [lost EXCEPT ![w] = @ \union {"reset"}] /\ UNCHANGED cache
      BY <3>1, <3>3 DEF TypeOK
    <3>4. QED
      BY <1>25, <3>2, <3>3 DEF TakeReset
  <2>4. Done(w) /\ chan[w] # <<>> /\ wk[w] = "idle" /\ UNCHANGED wk
    BY <1>25 DEF TakeReset, Taking
  <2>5. repl' \in [Workers -> Seq(Results)]
    BY <2>1, <2>2, AppendFacts DEF TypeOK
  <2>6. QED
    BY <1>25, <2>3, <2>4, <2>5, DoneType DEF TakeReset, TypeOK
<1>26. ASSUME NEW w \in Workers, TakeInfer(w) PROVE TypeOK'
  <2>1. \A ok \in BOOLEAN : Result(w, ok) \in Results
    BY <1>26, ResultType DEF TakeInfer, Taking
  <2>2. PICK ok \in BOOLEAN : repl' = [repl EXCEPT ![w] = Append(@, Result(w, ok))]
    BY <1>26 DEF TakeInfer
  <2>3. QED
    BY <1>26, <2>1, <2>2 DEF TakeInfer, Taking, Done, TypeOK
<1>27. ASSUME NEW w \in Workers, WorkerDie(w) PROVE TypeOK'
  BY <1>27 DEF WorkerDie, TypeOK
<1>28. CASE UNCHANGED vars
  BY <1>28 DEF vars, TypeOK
<1>29. QED
  BY <1>1, <1>2, <1>3, <1>4, <1>5, <1>6, <1>7, <1>8, <1>9, <1>10, <1>11, <1>12, <1>13,
     <1>14, <1>15, <1>16, <1>17, <1>18, <1>19, <1>20, <1>21, <1>22, <1>23, <1>24,
     <1>25, <1>26, <1>27, <1>28
     DEF Next, Trainer, ClientStep, Server, Worker, Group, Fault

\* Every variable of the rollout server keeps its type.
THEOREM TypeCorrect == Spec => []TypeOK
  BY TypeInit, TypeStep, PTL DEF Spec

-----------------------------------------------------------------------------
(* Why no result is taken for another call's and why no rollout uses old   *)
(* weights or old prefix blocks.                                           *)
(*                                                                         *)
(* PipeInv is inductive by itself (given the types): the handlers send     *)
(* calls only when no worker is dead and read every answer before they     *)
(* return, and after a death no handler reads again once the one in        *)
(* progress is over.  The other parts of IInv need it, to know which       *)
(* request a result on a pipe belongs to.                                  *)

Alive(w) == wk[w] # "dead"
NoneDead == \A w \in Workers : Alive(w)

\* Requests have their own ids, and the one the trainer waits for is known to
\* the server under that id only.
RequestIds ==
    /\ creq.id <= calls
    /\ \A req \in http : /\ 1 <= req.id /\ req.id <= calls
                         /\ req.id = creq.id => req = creq
    /\ handler.id <= calls
    /\ handler.op \in CallOps =>
         1 <= handler.id /\ (handler.id = creq.id => handler = creq)

\* A worker that is not ready keeps the server in its start-up.
BootPipes ==
    /\ handler.op \in {"idle", "boot", "failed"} => handler.id = 0
    /\ handler.op = "failed" => ~NoneDead
    /\ \A w \in Workers : wk[w] = "boot" =>
         /\ handler.op \in {"boot", "failed"}
         /\ repl[w] = <<>> /\ Len(got) < w

\* As long as the server can still read results at all (it is reading, or
\* no worker is dead and it may start to), every pipe holds at most one call
\* or one result, and it belongs to the request being handled.
CallsInPipes ==
    (NoneDead \/ Receiving) =>
      \A w \in Workers : \A k \in 1 .. Len(chan[w]) : chan[w][k].op \in CallOps =>
        /\ chan[w][k].op = handler.op /\ chan[w][k].id = handler.id
        /\ k = Len(chan[w]) /\ repl[w] = <<>> /\ Len(got) < w

ResultsInPipes ==
    (NoneDead \/ Receiving) =>
      \A w \in Workers :
        /\ Len(repl[w]) <= 1
        /\ repl[w] # <<>> => /\ Receiving /\ Len(got) < w
                             /\ repl[w][1].id = handler.id

GotMatches ==
    /\ ReplyMatch
    /\ ~Receiving => got = <<>>

PipeInv == RequestIds /\ BootPipes /\ CallsInPipes /\ ResultsInPipes /\ GotMatches

\* Outside a load every live worker has the weights pushed last.
Fresh(w) == "load" \in lost[w] \/ weights[w] = pushed
WeightsFresh == \A w \in Workers : wk[w] \in {"boot", "idle", "join", "bcast"} => Fresh(w)

\* Worker w has reset its cache after the load of the weights pushed last.
Clean(w) ==
    /\ wk[w] # "load"
    /\ "reset" \in lost[w] \/ cache[w] \subseteq {weights[w]}

\* A trainer that asks for a rollout, or may do so, has moved its weights.
SyncedCaches ==
    /\ sync = "synced" => \A w \in Workers : Alive(w) => Clean(w)
    /\ cpc = "http" /\ creq.op = "infer" => sync = "synced"

\* The trainer's reset is being collected, or is answered.
Resetting ==
    cpc = "http" /\ creq.op = "reset" =>
      /\ handler = creq =>
           \A w \in Workers : Alive(w) /\ (w <= Len(got) \/ repl[w] # <<>>) => Clean(w)
      /\ answer.st = "ok" => \A w \in Workers : Alive(w) => Clean(w)

CachesInv == SyncedCaches /\ Resetting

\* What a result of worker w must be like for FreshWeights and NoStalePrefix.
Good(w, r) ==
    /\ "load" \notin lost[w] => r.ver = pushed
    /\ "reset" \notin lost[w] => ~r.stale

\* The trainer's rollout is being collected.
Collecting == cpc = "http" /\ creq.op = "infer" /\ handler = creq

ResultsGood ==
    Collecting =>
      /\ \A w \in Workers : repl[w] # <<>> => Good(w, repl[w][1])
      /\ \A w \in 1 .. Len(got) : Good(w, got[w])

AnswerGood ==
    RolloutAnswered =>
      /\ DOMAIN answer.by \subseteq Workers
      /\ \A w \in DOMAIN answer.by : Good(w, answer.by[w])

ResultsInv == ResultsGood /\ AnswerGood

IInv == TypeOK /\ PipeInv /\ WeightsFresh /\ CachesInv /\ ResultsInv

-----------------------------------------------------------------------------
(* The pipes.                                                              *)

LEMMA PipeInit == Init => PipeInv
  BY DPAssumption
     DEF Init, PipeInv, RequestIds, BootPipes, CallsInPipes, ResultsInPipes, GotMatches,
         ReplyMatch, NoneDead, Alive, Receiving, CallOps, Booting, NoRequest, Workers

\* A step that takes commands from pipes and puts nothing into them.
LEMMA PipeShrink ==
    ASSUME TypeOK, PipeInv,
           UNCHANGED <<http, handler, got, repl, creq, calls>>,
           \A w \in Workers : \/ chan'[w] = chan[w]
                              \/ chan'[w] = <<>>
                              \/ chan[w] # <<>> /\ chan'[w] = Tail(chan[w]),
           \A w \in Workers : wk[w] = "dead" => wk'[w] = "dead",
           \A w \in Workers : wk'[w] = "boot" => wk[w] = "boot"
    PROVE  PipeInv'
<1>1. NoneDead' => NoneDead
  BY DEF NoneDead, Alive
<1>2. Receiving' = Receiving
  BY DEF Receiving
<1>3. RequestIds'
  BY DEF PipeInv, RequestIds
<1>4. BootPipes'
  BY <1>1 DEF PipeInv, BootPipes
<1>5. CallsInPipes'
  <2> SUFFICES ASSUME NoneDead' \/ Receiving',
                      NEW w \in Workers, NEW k \in 1 .. Len(chan'[w]),
                      chan'[w][k].op \in CallOps
               PROVE  /\ chan'[w][k].op = handler.op /\ chan'[w][k].id = handler.id
                      /\ k = Len(chan'[w]) /\ repl[w] = <<>> /\ Len(got) < w
    BY DEF CallsInPipes
  <2>1. CASE chan'[w] = chan[w]
    BY <1>1, <1>2, <2>1 DEF PipeInv, CallsInPipes
  <2>2. CASE chan'[w] = <<>>
    BY <2>2
  <2>3. CASE chan[w] # <<>> /\ chan'[w] = Tail(chan[w])
    <3>1. /\ k + 1 \in 1 .. Len(chan[w]) /\ chan'[w][k] = chan[w][k + 1]
          /\ Len(chan'[w]) = Len(chan[w]) - 1 /\ Len(chan[w]) \in Nat
      BY <2>3, TailFacts DEF TypeOK
    <3>2. /\ chan[w][k + 1].op = handler.op /\ chan[w][k + 1].id = handler.id
          /\ k + 1 = Len(chan[w]) /\ repl[w] = <<>> /\ Len(got) < w
      BY <1>1, <1>2, <3>1 DEF PipeInv, CallsInPipes
    <3>3. QED
      BY <3>1, <3>2
  <2>4. QED
    BY <2>1, <2>2, <2>3
<1>6. ResultsInPipes'
  BY <1>1, <1>2 DEF PipeInv, ResultsInPipes
<1>7. GotMatches'
  BY <1>2 DEF PipeInv, GotMatches, ReplyMatch
<1>8. QED
  BY <1>3, <1>4, <1>5, <1>6, <1>7 DEF PipeInv

\* A post makes a new number.
LEMMA PipePost ==
    ASSUME TypeOK, PipeInv, NEW op \in Ops, NEW n \in Nat, Post(op, n)
    PROVE  PipeInv'
<1> USE DEF Post, workerVars
<1>1. RequestIds'
  <2>1. /\ creq' = [id |-> calls + 1, op |-> op, n |-> n] /\ calls' = calls + 1
        /\ calls \in Nat /\ handler' = handler /\ handler.id \in Nat
    BY DEF TypeOK
  <2>2. \A req \in http' : req = creq' \/ req \in http
    OBVIOUS
  <2>3. \A req \in http : req.id \in Nat
    BY DEF TypeOK, Request
  <2>4. QED
    BY <2>1, <2>2, <2>3 DEF PipeInv, RequestIds
<1>2. NoneDead' = NoneDead /\ Receiving' = Receiving
  BY DEF NoneDead, Alive, Receiving
<1>3. BootPipes' /\ CallsInPipes' /\ ResultsInPipes' /\ GotMatches'
  BY <1>2 DEF PipeInv, BootPipes, CallsInPipes, ResultsInPipes, GotMatches, ReplyMatch
<1>4. QED
  BY <1>1, <1>3 DEF PipeInv

\* When the server is idle and no worker is dead, there is no call and no
\* result on any pipe, and every worker is ready.
LEMMA IdlePipes ==
    ASSUME TypeOK, PipeInv, handler = Idle
    PROVE  /\ ~Receiving /\ got = <<>>
           /\ \A w \in Workers : wk[w] # "boot"
           /\ NoneDead => \A w \in Workers :
                /\ repl[w] = <<>>
                /\ \A k \in 1 .. Len(chan[w]) : chan[w][k].op \notin CallOps
  BY DEF PipeInv, BootPipes, CallsInPipes, ResultsInPipes, GotMatches, Receiving, Idle, CallOps

LEMMA NoneDeadFact == NoneDead <=> Dead = {}
  BY DEF NoneDead, Alive, Dead

\* When no worker is dead, a send reaches every pipe.
LEMMA SendAllFacts ==
    ASSUME TypeOK, NoneDead, NEW req \in Request, SendAll(req)
    PROVE  \A w \in Workers :
             /\ Len(chan'[w]) = Len(chan[w]) + 1 /\ Len(chan[w]) \in Nat
             /\ chan'[w][Len(chan[w]) + 1].id = req.id
             /\ chan'[w][Len(chan[w]) + 1].op = req.op
             /\ \A k \in 1 .. Len(chan[w]) : chan'[w][k] = chan[w][k]
<1> TAKE w \in Workers
<1>1. chan'[w] = Append(chan[w], Command(req, w))
  BY NoneDeadFact DEF SendAll, TypeOK
<1>2. chan[w] \in Seq(Commands) /\ Command(req, w) \in Commands
  BY CommandType DEF TypeOK
<1>3. Command(req, w).id = req.id /\ Command(req, w).op = req.op
  BY DEF Command
<1>4. QED
  BY <1>1, <1>2, <1>3, AppendFacts

LEMMA PipeFireAndForget ==
    ASSUME TypeOK, PipeInv, NEW req \in http, HandleFireAndForget(req)
    PROVE  PipeInv'
<1> USE DEF HandleFireAndForget
<1>1. req \in Request /\ req.op \notin CallOps
  BY DEF TypeOK, FireAndForgetOps, CallOps
<1>2. NoneDead' = NoneDead /\ Receiving' = Receiving /\ ~Receiving
  BY IdlePipes DEF NoneDead, Alive, Receiving
<1>3. RequestIds'
  BY DEF PipeInv, RequestIds
<1>4. BootPipes' /\ GotMatches' /\ ResultsInPipes'
  BY <1>2 DEF PipeInv, BootPipes, GotMatches, ReplyMatch, ResultsInPipes
<1>5. CallsInPipes'
  <2> SUFFICES ASSUME NoneDead, NEW w \in Workers, NEW k \in 1 .. Len(chan'[w])
               PROVE  chan'[w][k].op \notin CallOps
    BY <1>2 DEF CallsInPipes
  <2>1. CASE k = Len(chan[w]) + 1
    BY <1>1, <2>1, SendAllFacts
  <2>2. CASE k \in 1 .. Len(chan[w])
    BY <1>1, <2>2, SendAllFacts, IdlePipes
  <2>3. QED
    BY <1>1, <2>1, <2>2, SendAllFacts
<1>6. QED
  BY <1>3, <1>4, <1>5 DEF PipeInv

LEMMA PipeCall ==
    ASSUME TypeOK, PipeInv, NEW req \in http, HandleCall(req)
    PROVE  PipeInv'
<1> USE DEF HandleCall
<1>1. req \in Request /\ req.op \in CallOps
  BY DEF TypeOK
<1>2. NoneDead' = NoneDead /\ ~Receiving
  BY IdlePipes DEF NoneDead, Alive
<1>3. CASE Dead # {}
  <2>1. ~NoneDead /\ ~Receiving' /\ UNCHANGED <<handler, got>>
    BY <1>2, <1>3, NoneDeadFact DEF Receiving
  <2>2. RequestIds'
    BY <2>1 DEF PipeInv, RequestIds
  <2>3. BootPipes' /\ GotMatches'
    BY <1>2, <2>1 DEF PipeInv, BootPipes, GotMatches, ReplyMatch
  <2>4. CallsInPipes' /\ ResultsInPipes'
    BY <1>2, <2>1 DEF CallsInPipes, ResultsInPipes
  <2>5. QED
    BY <2>2, <2>3, <2>4 DEF PipeInv
<1>4. CASE Dead = {}
  <2>1. NoneDead /\ handler' = req /\ got' = <<>>
    BY <1>4, NoneDeadFact
  <2>2. RequestIds'
    BY <2>1 DEF PipeInv, RequestIds
  <2>3. BootPipes'
    BY <1>1, <2>1, IdlePipes DEF BootPipes, CallOps
  <2>4. GotMatches'
    BY <1>1, <2>1 DEF GotMatches, ReplyMatch, Receiving, CallOps
  <2>5. ResultsInPipes'
    <3>1. \A w \in Workers : repl'[w] = <<>>
      BY <2>1, IdlePipes
    <3>2. QED
      BY <3>1 DEF ResultsInPipes
  <2>6. CallsInPipes'
    <3> SUFFICES ASSUME NEW w \in Workers, NEW k \in 1 .. Len(chan'[w]),
                        chan'[w][k].op \in CallOps
                 PROVE  /\ chan'[w][k].op = req.op /\ chan'[w][k].id = req.id
                        /\ k = Len(chan'[w]) /\ repl'[w] = <<>> /\ Len(got') < w
      BY <2>1 DEF CallsInPipes
    <3>1. k = Len(chan[w]) + 1
      BY <1>1, <2>1, SendAllFacts, IdlePipes
    <3>2. repl'[w] = <<>> /\ Len(got') < w
      BY <2>1, IdlePipes DEF Workers
    <3>3. QED
      BY <1>1, <2>1, <3>1, <3>2, SendAllFacts
  <2>7. QED
    BY <2>2, <2>3, <2>4, <2>5, <2>6 DEF PipeInv
<1>5. QED
  BY <1>3, <1>4

LEMMA PipeRecv ==
    ASSUME TypeOK, PipeInv, Recv
    PROVE  PipeInv'
<1> DEFINE v == NextConnection
<1> USE DEF Recv, clientVars
<1>1. v \in Workers /\ v = Len(got) + 1 /\ Len(got) \in Nat /\ Receiving
  BY DEF NextConnection, TypeOK, Workers
<1>2. repl[v] \in Seq(Results) /\ repl[v] # <<>> /\ Len(repl[v]) <= 1 /\ repl[v][1].id = handler.id
  BY <1>1 DEF TypeOK, PipeInv, ResultsInPipes
<1>3. repl'[v] = <<>> /\ \A w \in Workers \ {v} : repl'[w] = repl[w]
  <2>1. Tail(repl[v]) = <<>>
    BY <1>2
  <2>2. QED
    BY <1>1, <2>1 DEF TypeOK
<1>4. /\ got \in Seq(Results) /\ Head(repl[v]) \in Results /\ Head(repl[v]).id = handler.id
      /\ got' = Append(got, Head(repl[v]))
  BY <1>2 DEF TypeOK
<1>5. /\ Len(got') = Len(got) + 1
      /\ got'[Len(got) + 1].id = handler.id
      /\ \A k \in 1 .. Len(got) : got'[k] = got[k]
  BY <1>4, AppendFacts
<1>6. Receiving' /\ NoneDead' = NoneDead
  BY <1>1 DEF Receiving, NoneDead, Alive
<1>7. \A w \in Workers \ {v} : Len(got) < w => Len(got') < w
  BY <1>1, <1>5 DEF Workers
<1>8. RequestIds'
  BY DEF PipeInv, RequestIds
<1>9. BootPipes'
  <2>1. \A w \in Workers : wk[w] = "boot" => w # v
    BY <1>2 DEF PipeInv, BootPipes
  <2>2. QED
    BY <1>3, <1>6, <1>7, <2>1 DEF PipeInv, BootPipes
<1>10. CallsInPipes'
  <2> SUFFICES ASSUME NEW w \in Workers, NEW k \in 1 .. Len(chan[w]), chan[w][k].op \in CallOps
               PROVE  /\ chan[w][k].op = handler.op /\ chan[w][k].id = handler.id
                      /\ k = Len(chan[w]) /\ repl'[w] = <<>> /\ Len(got') < w
    BY DEF CallsInPipes
  <2>1. /\ chan[w][k].op = handler.op /\ chan[w][k].id = handler.id
        /\ k = Len(chan[w]) /\ repl[w] = <<>> /\ Len(got) < w
    BY <1>1 DEF PipeInv, CallsInPipes
  <2>2. QED
    BY <1>2, <1>3, <1>7, <2>1
<1>11. ResultsInPipes'
  <2> SUFFICES ASSUME NEW w \in Workers
               PROVE  /\ Len(repl'[w]) <= 1
                      /\ repl'[w] # <<>> => Len(got') < w /\ repl'[w][1].id = handler.id
    BY <1>6 DEF ResultsInPipes
  <2>1. CASE w = v
    BY <1>3, <2>1
  <2>2. CASE w # v
    BY <1>1, <1>3, <1>7, <2>2 DEF PipeInv, ResultsInPipes
  <2>3. QED
    BY <2>1, <2>2
<1>12. GotMatches'
  <2>1. \A k \in 1 .. Len(got') : k = Len(got) + 1 \/ k \in 1 .. Len(got)
    BY <1>1, <1>5
  <2>2. QED
    BY <1>5, <1>6, <2>1 DEF PipeInv, GotMatches, ReplyMatch
<1>13. QED
  BY <1>8, <1>9, <1>10, <1>11, <1>12 DEF PipeInv

\* A handler returns: with every result, or because a worker is dead.
LEMMA PipeReturn ==
    ASSUME TypeOK, PipeInv, Receiving, handler' \in {Idle, Failed}, got' = <<>>,
           UNCHANGED <<http, creq, calls, chan, repl, wk>>,
           \/ Len(got) = DP /\ handler' = Idle
           \/ ~NoneDead /\ (handler.op = "boot" => handler' = Failed)
    PROVE  PipeInv'
<1>1. ~Receiving' /\ handler'.id = 0 /\ NoneDead' = NoneDead
  BY DEF Receiving, Idle, Failed, CallOps, NoneDead, Alive
<1>2. RequestIds'
  <2>1. handler'.op \notin CallOps /\ calls \in Nat
    BY DEF Idle, Failed, CallOps, TypeOK
  <2>2. QED
    BY <1>1, <2>1 DEF PipeInv, RequestIds
<1>3. BootPipes'
  <2>1. handler'.op = "failed" => ~NoneDead
    <3>1. CASE Len(got) = DP /\ handler' = Idle
      BY <3>1 DEF Idle
    <3>2. QED
      BY <3>1
  <2>2. \A w \in Workers : wk[w] = "boot" =>
          handler'.op = "failed" /\ repl[w] = <<>> /\ Len(got') < w
    <3> SUFFICES ASSUME NEW w \in Workers, wk[w] = "boot"
                 PROVE  handler'.op = "failed" /\ repl[w] = <<>> /\ Len(got') < w
      OBVIOUS
    <3>1. handler.op = "boot" /\ repl[w] = <<>> /\ Len(got) < w
      BY DEF PipeInv, BootPipes, Receiving, CallOps
    <3>2. Len(got) # DP
      BY <3>1, DPAssumption DEF Workers
    <3>3. QED
      BY <3>1, <3>2, DPAssumption DEF Failed, Workers
  <2>3. QED
    BY <1>1, <2>1, <2>2 DEF BootPipes
<1>4. CallsInPipes' /\ ResultsInPipes'
  <2> SUFFICES ASSUME NoneDead PROVE CallsInPipes' /\ ResultsInPipes'
    BY <1>1 DEF CallsInPipes, ResultsInPipes
  <2>1. \A w \in Workers : ~(Len(got) < w)
    BY DPAssumption DEF Workers
  <2>2. QED
    BY <2>1 DEF PipeInv, CallsInPipes, ResultsInPipes
<1>5. GotMatches'
  BY DEF GotMatches, ReplyMatch
<1>6. QED
  BY <1>2, <1>3, <1>4, <1>5 DEF PipeInv

LEMMA PipeReady ==
    ASSUME TypeOK, PipeInv, NEW w \in Workers, WorkerReady(w)
    PROVE  PipeInv'
<1> USE DEF WorkerReady, clientVars, serverVars
<1>1. handler.op \in {"boot", "failed"} /\ handler.id = 0 /\ repl[w] = <<>> /\ Len(got) < w
  BY DEF PipeInv, BootPipes
<1>2. NoneDead' = NoneDead /\ Receiving' = Receiving
  BY DEF NoneDead, Alive, Receiving, TypeOK
<1>3. /\ Len(repl'[w]) = 1 /\ repl'[w] # <<>> /\ repl'[w][1].id = 0
      /\ \A v \in Workers \ {w} : repl'[v] = repl[v]
  BY <1>1 DEF TypeOK
<1>4. RequestIds' /\ GotMatches'
  BY <1>2 DEF PipeInv, RequestIds, GotMatches, ReplyMatch
<1>5. BootPipes'
  BY <1>2, <1>3 DEF PipeInv, BootPipes, TypeOK
<1>6. CallsInPipes'
  BY <1>1, <1>2, <1>3 DEF PipeInv, CallsInPipes, CallOps
<1>7. ResultsInPipes'
  <2>1. NoneDead \/ Receiving => Receiving
    BY <1>1 DEF PipeInv, BootPipes, Receiving
  <2>2. QED
    BY <1>1, <1>2, <1>3, <2>1 DEF PipeInv, ResultsInPipes
<1>8. QED
  BY <1>4, <1>5, <1>6, <1>7 DEF PipeInv

\* A worker turns the call at the head of its pipe into a result.
LEMMA PipeAnswer ==
    ASSUME TypeOK, PipeInv, NEW w \in Workers, NEW ok \in BOOLEAN,
           wk[w] = "idle", chan[w] # <<>>, Head(chan[w]).op \in CallOps, Done(w),
           repl' = [repl EXCEPT ![w] = Append(@, Result(w, ok))],
           UNCHANGED <<http, handler, got, wk, creq, calls>>
    PROVE  PipeInv'
<1>1. NoneDead' = NoneDead /\ Receiving' = Receiving
  BY DEF NoneDead, Alive, Receiving
<1>2. RequestIds' /\ GotMatches'
  BY <1>1 DEF PipeInv, RequestIds, GotMatches, ReplyMatch
<1>3. /\ \A v \in Workers \ {w} : repl'[v] = repl[v] /\ chan'[v] = chan[v]
      /\ repl'[w] = Append(repl[w], Result(w, ok)) /\ chan'[w] = Tail(chan[w])
  BY DEF TypeOK, Done
<1>4. BootPipes'
  BY <1>1, <1>3 DEF PipeInv, BootPipes
<1>5. CallsInPipes' /\ ResultsInPipes'
  <2> SUFFICES ASSUME NoneDead \/ Receiving PROVE CallsInPipes' /\ ResultsInPipes'
    BY <1>1 DEF CallsInPipes, ResultsInPipes
  <2>1. 1 \in 1 .. Len(chan[w]) /\ chan[w][1].op \in CallOps /\ Len(chan[w]) \in Nat
    BY TailFacts DEF TypeOK
  <2>2. /\ chan[w][1].op = handler.op /\ chan[w][1].id = handler.id
        /\ Len(chan[w]) = 1 /\ repl[w] = <<>> /\ Len(got) < w
    BY <2>1 DEF PipeInv, CallsInPipes
  <2>3. Len(chan'[w]) = 0
    BY <1>3, <2>1, <2>2, TailFacts DEF TypeOK
  <2>4. Len(repl'[w]) = 1 /\ repl'[w][1].id = handler.id
    BY <1>3, <2>2, ResultType
  <2>5. Receiving
    BY <2>1, <2>2 DEF Receiving
  <2>6. CallsInPipes'
    <3>1. \A v \in Workers : \A k \in 1 .. Len(chan'[v]) : v # w
      BY <2>3
    <3>2. QED
      BY <1>3, <2>5, <3>1 DEF PipeInv, CallsInPipes
  <2>7. ResultsInPipes'
    BY <1>1, <1>3, <2>2, <2>4, <2>5 DEF PipeInv, ResultsInPipes
  <2>8. QED
    BY <2>6, <2>7
<1>6. QED
  BY <1>2, <1>4, <1>5 DEF PipeInv

LEMMA PipeStep == TypeOK /\ PipeInv /\ [Next]_vars => PipeInv'
<1> SUFFICES ASSUME TypeOK, PipeInv, [Next]_vars PROVE PipeInv'
  OBVIOUS
<1> USE DEF clientVars, serverVars, workerVars
<1>1. CASE UNCHANGED <<http, handler, got, chan, repl, wk, creq, calls>>
  BY <1>1, PipeShrink
<1>2. CASE ClientStart
  <2>1. NoneDead' = NoneDead /\ Receiving' = Receiving
    BY <1>2 DEF ClientStart, NoneDead, Alive, Receiving
  <2>2. RequestIds'
    BY <1>2 DEF ClientStart, NoRequest, PipeInv, RequestIds, TypeOK
  <2>3. BootPipes' /\ CallsInPipes' /\ ResultsInPipes' /\ GotMatches'
    BY <1>2, <2>1 DEF ClientStart, PipeInv, BootPipes, CallsInPipes, ResultsInPipes,
                      GotMatches, ReplyMatch
  <2>4. QED
    BY <2>2, <2>3 DEF PipeInv
<1>3. ASSUME NEW op \in Ops, NEW n \in Nat, Post(op, n) PROVE PipeInv'
  BY <1>3, PipePost
<1>4. CASE PostInit \/ PostUpdate \/ PostReset \/ PostClose
  BY <1>3, <1>4 DEF PostInit, PostUpdate, PostReset, PostClose, Ops, CallOps, FireAndForgetOps
<1>5. ASSUME NEW n \in 0 .. MaxPrompts, PostInfer(n) PROVE PipeInv'
  BY <1>3, <1>5 DEF PostInfer, Ops, CallOps
<1>6. CASE BeginExit \/ ExitUnregistered \/ Receive \/ ClientKill \/ ClientJoinTimeout
  BY <1>1, <1>6 DEF BeginExit, ExitUnregistered, Receive, ClientKill, ClientJoinTimeout
<1>7. CASE GroupForm
  BY <1>7, PipeShrink DEF GroupForm, TypeOK
<1>8. ASSUME NEW w \in Workers, WorkerJoinTimeout(w) PROVE PipeInv'
  BY <1>8, PipeShrink DEF WorkerJoinTimeout, TypeOK
<1>9. CASE Broadcast
  BY <1>9, PipeShrink DEF Broadcast, TypeOK
<1>10. ASSUME NEW req \in http, HandleFireAndForget(req) \/ HandleCall(req) PROVE PipeInv'
  BY <1>10, PipeFireAndForget, PipeCall
<1>11. CASE Recv
  BY <1>11, PipeRecv
<1>12. CASE RecvEOF
  <2>1. NextConnection \in Workers
    BY <1>12 DEF RecvEOF, NextConnection, TypeOK, Workers
  <2>2. ~NoneDead
    BY <1>12, <2>1 DEF RecvEOF, NoneDead, Alive
  <2>3. QED
    BY <1>12, <2>2, PipeReturn DEF RecvEOF
<1>13. CASE Finish
  BY <1>13, PipeReturn DEF Finish
<1>14. ASSUME NEW w \in Workers, WorkerReady(w) PROVE PipeInv'
  BY <1>14, PipeReady
<1>15. ASSUME NEW w \in Workers, TakeInit(w) \/ TakeUpdate(w) PROVE PipeInv'
  <2>1. CASE Done(w) /\ UNCHANGED wk
    BY <1>15, <2>1, PipeShrink DEF TakeInit, TakeUpdate, Taking, Done, TypeOK
  <2>2. CASE UNCHANGED chan
    BY <1>15, <2>2, PipeShrink DEF TakeInit, TakeUpdate, Taking, TypeOK
  <2>3. QED
    BY <1>15, <2>1, <2>2 DEF TakeInit, TakeUpdate
<1>16. ASSUME NEW w \in Workers, Load(w) PROVE PipeInv'
  BY <1>16, PipeShrink DEF Load, Done, TypeOK
<1>17. ASSUME NEW w \in Workers, TakeClose(w) PROVE PipeInv'
  BY <1>17, PipeShrink DEF TakeClose, Taking, Done, TypeOK
<1>18. ASSUME NEW w \in Workers, TakeReset(w) PROVE PipeInv'
  <2>1. PICK ok \in BOOLEAN : repl' = [repl EXCEPT ![w] = Append(@, Result(w, ok))]
    BY <1>18 DEF TakeReset
  <2>2. QED
    BY <1>18, <2>1, PipeAnswer DEF TakeReset, Taking, CallOps
<1>19. ASSUME NEW w \in Workers, TakeInfer(w) PROVE PipeInv'
  <2>1. PICK ok \in BOOLEAN : repl' = [repl EXCEPT ![w] = Append(@, Result(w, ok))]
    BY <1>19 DEF TakeInfer
  <2>2. QED
    BY <1>19, <2>1, PipeAnswer DEF TakeInfer, Taking, CallOps
<1>20. ASSUME NEW w \in Workers, WorkerDie(w) PROVE PipeInv'
  BY <1>20, PipeShrink DEF WorkerDie, TypeOK
<1>21. CASE UNCHANGED vars
  BY <1>1, <1>21 DEF vars
<1>22. QED
  BY <1>2, <1>4, <1>5, <1>6, <1>7, <1>8, <1>9, <1>10, <1>11, <1>12, <1>13, <1>14, <1>15,
     <1>16, <1>17, <1>18, <1>19, <1>20, <1>21
     DEF Next, Trainer, ClientStep, Server, Worker, Group, Fault

LEMMA PipeCorrect == Spec => []PipeInv
<1>1. Init => TypeOK /\ PipeInv
  BY TypeInit, PipeInit
<1>2. TypeOK /\ PipeInv /\ [Next]_vars => TypeOK' /\ PipeInv'
  BY TypeStep, PipeStep
<1>3. QED
  BY <1>1, <1>2, PTL DEF Spec

\* Results on the pipes carry no number, and a worker may raise, hang in a
\* rendezvous or die at any time: all the same infer and reset_prefix_cache
\* never read the result of another call.
THEOREM RepliesMatch == Spec => []ReplyMatch
<1>1. PipeInv => ReplyMatch
  BY DEF PipeInv, GotMatches
<1>2. QED
  BY <1>1, PipeCorrect, PTL

-----------------------------------------------------------------------------
(* The weights.                                                            *)

LEMMA WeightsFrame ==
    ASSUME WeightsFresh, UNCHANGED <<weights, pushed>>,
           \A w \in Workers : lost[w] \subseteq lost'[w],
           \A w \in Workers : wk'[w] \in {"boot", "idle", "join", "bcast"} =>
                                wk[w] \in {"boot", "idle", "join", "bcast"}
    PROVE  WeightsFresh'
  BY DEF WeightsFresh, Fresh

\* Only a broadcast and a load matter: after the one every worker is in the
\* load, after the other the worker has the weights or has logged why not.
LEMMA WeightsStep == TypeOK /\ WeightsFresh /\ [Next]_vars => WeightsFresh'
<1> SUFFICES ASSUME TypeOK, WeightsFresh, [Next]_vars PROVE WeightsFresh'
  OBVIOUS
<1> USE DEF clientVars, serverVars, workerVars
<1>1. CASE UNCHANGED <<wk, weights, pushed, lost>>
  BY <1>1, WeightsFrame
<1>2. CASE Trainer
  <2>1. UNCHANGED <<wk, weights, pushed, lost>>
    BY <1>2 DEF Trainer, ClientStep, ClientStart, PostInit, PostReset, PostClose,
                ExitUnregistered, Receive, PostUpdate, BeginExit, PostInfer, Post
  <2>2. QED
    BY <1>1, <2>1
<1>3. CASE Server
  <2>1. UNCHANGED <<wk, weights, pushed, lost>>
    BY <1>3 DEF Server, HandleFireAndForget, HandleCall, Recv, RecvEOF, Finish
  <2>2. QED
    BY <1>1, <2>1
<1>4. CASE GroupForm
  BY <1>4, WeightsFrame DEF GroupForm
<1>5. CASE Broadcast
  BY <1>5 DEF Broadcast, WeightsFresh
<1>6. ASSUME NEW w \in Workers,
             WorkerReady(w) \/ TakeInit(w) \/ TakeUpdate(w) \/ WorkerJoinTimeout(w) \/ WorkerDie(w)
      PROVE  WeightsFresh'
  <2>1. UNCHANGED <<weights, pushed, lost>>
    BY <1>6 DEF WorkerReady, TakeInit, TakeUpdate, WorkerJoinTimeout, WorkerDie
  <2>2. \A v \in Workers : wk'[v] \in {"boot", "idle", "join", "bcast"} =>
                             wk[v] \in {"boot", "idle", "join", "bcast"}
    BY <1>6 DEF WorkerReady, TakeInit, TakeUpdate, WorkerJoinTimeout, WorkerDie, Taking, TypeOK
  <2>3. QED
    BY <2>1, <2>2, WeightsFrame
<1>7. ASSUME NEW w \in Workers, Load(w) PROVE WeightsFresh'
  <2>1. CASE weights' = [weights EXCEPT ![w] = pushed] /\ UNCHANGED lost
    BY <1>7, <2>1 DEF Load, WeightsFresh, Fresh, TypeOK
  <2>2. CASE lost' = [lost EXCEPT ![w] = @ \union {"load"}] /\ UNCHANGED weights
    BY <1>7, <2>2 DEF Load, WeightsFresh, Fresh, TypeOK
  <2>3. QED
    BY <1>7, <2>1, <2>2 DEF Load
<1>8. ASSUME NEW w \in Workers, TakeClose(w) \/ TakeReset(w) \/ TakeInfer(w) PROVE WeightsFresh'
  <2>1. UNCHANGED <<wk, weights, pushed>>
    BY <1>8 DEF TakeClose, TakeReset, TakeInfer
  <2>2. UNCHANGED lost \/ lost' = [lost EXCEPT ![w] = @ \union {"reset"}]
    BY <1>8 DEF TakeClose, TakeReset, TakeInfer
  <2>3. \A v \in Workers : lost[v] \subseteq lost'[v]
    <3>1. CASE UNCHANGED lost
      BY <3>1
    <3>2. CASE lost' = [lost EXCEPT ![w] = @ \union {"reset"}]
      BY <3>2 DEF TypeOK
    <3>3. QED
      BY <2>2, <3>1, <3>2
  <2>4. QED
    BY <2>1, <2>3, WeightsFrame
<1>9. CASE ClientKill \/ ClientJoinTimeout
  BY <1>1, <1>9 DEF ClientKill, ClientJoinTimeout
<1>10. CASE UNCHANGED vars
  BY <1>1, <1>10 DEF vars
<1>11. QED
  BY <1>2, <1>3, <1>4, <1>5, <1>6, <1>7, <1>8, <1>9, <1>10 DEF Next, Worker, Group, Fault

-----------------------------------------------------------------------------
(* The prefix caches.                                                      *)

\* The trainer's request is not being handled any more when it is not the one
\* the handler works for; and its number is unique.
LEMMA OwnRequest ==
    ASSUME TypeOK, PipeInv
    PROVE  /\ \A req \in http : req.id = creq.id => req = creq
           /\ Receiving /\ handler.id = creq.id /\ handler.op # "boot" => handler = creq
           /\ \A op, n : Post(op, n) => handler' # creq'
           /\ cpc # "http" => answer = NoAnswer
<1>1. \A op, n : Post(op, n) => handler' # creq'
  <2> SUFFICES ASSUME NEW op, NEW n, Post(op, n) PROVE handler' # creq'
    OBVIOUS
  <2>1. creq'.id = calls + 1 /\ handler' = handler
    BY DEF Post
  <2>2. handler.id <= calls /\ handler.id \in Nat /\ calls \in Nat
    BY DEF PipeInv, RequestIds, TypeOK
  <2>3. QED
    BY <2>1, <2>2
<1>2. QED
  BY <1>1 DEF PipeInv, RequestIds, Receiving, CallOps, TypeOK

LEMMA CachesAway ==
    ASSUME cpc' # "http",
           sync' = "synced" => \A w \in Workers : Alive(w)' => Clean(w)'
    PROVE  CachesInv'
  BY DEF CachesInv, SyncedCaches, Resetting

\* A step of a worker keeps what is clean, and puts a result on its pipe for
\* the trainer's reset only when it is clean.
LEMMA CachesWorker ==
    ASSUME CachesInv, UNCHANGED <<cpc, creq, sync, handler, got, answer>>,
           \A w \in Workers : Alive(w)' =>
             /\ Alive(w)
             /\ Clean(w) => Clean(w)'
             /\ repl'[w] = repl[w] \/ Clean(w)' \/ ~(handler = creq /\ creq.op = "reset")
    PROVE  CachesInv'
  BY DEF CachesInv, SyncedCaches, Resetting

\* A step of the server disturbs no cache; what it answers must be true.
LEMMA CachesServer ==
    ASSUME CachesInv, UNCHANGED <<cpc, creq, sync, wk, weights, cache, lost>>,
           \/ cpc # "http" \/ creq.op # "reset"
           \/ /\ handler' = creq =>
                   \A w \in Workers : Alive(w) /\ (w <= Len(got') \/ repl'[w] # <<>>) => Clean(w)
              /\ answer'.st = "ok" => \A w \in Workers : Alive(w) => Clean(w)
    PROVE  CachesInv'
<1>1. \A w \in Workers : Alive(w)' = Alive(w) /\ Clean(w)' = Clean(w)
  BY DEF Alive, Clean
<1>2. QED
  BY <1>1 DEF CachesInv, SyncedCaches, Resetting

LEMMA CachesPost ==
    ASSUME TypeOK, PipeInv, CachesInv, NEW op, NEW n, Post(op, n), cpc # "http",
           op = "infer" => sync = "synced"
    PROVE  CachesInv'
<1> USE DEF Post, workerVars
<1>1. handler' # creq' /\ answer'.st # "ok" /\ creq'.op = op
  BY OwnRequest DEF NoAnswer
<1>2. \A w \in Workers : Alive(w)' = Alive(w) /\ Clean(w)' = Clean(w)
  BY DEF Alive, Clean
<1>3. QED
  BY <1>1, <1>2 DEF CachesInv, SyncedCaches, Resetting

\* Handlers.  A call that begins finds no result on any pipe, a result on a
\* pipe is there after the reset of that worker, and a reset is answered when
\* all of them are read.
LEMMA CachesHandlers ==
    ASSUME TypeOK, PipeInv, CachesInv, Server
    PROVE  CachesInv'
<1> USE DEF workerVars, clientVars
<1>1. UNCHANGED <<cpc, creq, sync, wk, weights, cache, lost>>
  BY DEF Server, HandleFireAndForget, HandleCall, Recv, RecvEOF, Finish
<1> SUFFICES ASSUME cpc = "http", creq.op = "reset"
             PROVE  /\ handler' = creq => \A w \in Workers :
                         Alive(w) /\ (w <= Len(got') \/ repl'[w] # <<>>) => Clean(w)
                    /\ answer'.st = "ok" => \A w \in Workers : Alive(w) => Clean(w)
  BY <1>1, CachesServer
<1>2. answer.st = "ok" => \A w \in Workers : Alive(w) => Clean(w)
  BY DEF CachesInv, Resetting
<1>3. Idle # creq /\ Failed # creq
  BY DEF Idle, Failed
<1>4. ASSUME NEW req \in http, HandleFireAndForget(req)
      PROVE  handler' # creq /\ answer' = answer
  <2>1. req.id # creq.id
    BY <1>4, OwnRequest DEF HandleFireAndForget, FireAndForgetOps
  <2>2. handler' = Idle /\ answer' = answer
    BY <1>4, <2>1 DEF HandleFireAndForget, Respond
  <2>3. QED
    BY <1>3, <2>2
<1>5. ASSUME NEW req \in http, HandleCall(req), Dead = {}
      PROVE  answer' = answer /\ got' = <<>> /\ \A w \in Workers : repl'[w] = <<>>
  BY <1>5, IdlePipes, NoneDeadFact DEF HandleCall
<1>6. ASSUME NEW req \in http, HandleCall(req), Dead # {}
      PROVE  handler' # creq /\ (answer' = answer \/ answer'.st # "ok")
  BY <1>3, <1>6 DEF HandleCall, Respond, Response
<1>7. ASSUME Recv
      PROVE  /\ answer' = answer
             /\ handler' = creq => \A w \in Workers :
                  Alive(w) /\ (w <= Len(got') \/ repl'[w] # <<>>) => Clean(w)
  <2> SUFFICES ASSUME handler = creq, NEW w \in Workers, Alive(w),
                      w <= Len(got') \/ repl'[w] # <<>>
               PROVE  Clean(w)
    BY <1>7 DEF Recv
  <2>1. NextConnection \in Workers /\ NextConnection = Len(got) + 1 /\ Len(got) \in Nat
    BY <1>7 DEF Recv, NextConnection, TypeOK, Workers
  <2>2. Len(got') = Len(got) + 1
    BY <1>7, <2>1 DEF Recv, TypeOK
  <2>3. w <= Len(got) \/ repl[w] # <<>>
    <3>1. CASE w = NextConnection
      BY <1>7, <3>1 DEF Recv
    <3>2. CASE w # NextConnection
      BY <1>7, <2>1, <2>2, <3>2 DEF Recv, TypeOK, Workers
    <3>3. QED
      BY <3>1, <3>2
  <2>4. QED
    BY <2>3 DEF CachesInv, Resetting
<1>8. ASSUME RecvEOF PROVE handler' # creq /\ (answer' = answer \/ answer'.st # "ok")
  BY <1>3, <1>8 DEF RecvEOF, Respond, Response
<1>9. ASSUME Finish
      PROVE  /\ handler' # creq
             /\ answer' = answer \/ \A w \in Workers : Alive(w) => Clean(w)
  <2>1. handler' # creq
    BY <1>3, <1>9 DEF Finish
  <2>2. CASE handler = creq
    <3>1. \A w \in Workers : w <= Len(got)
      BY <1>9, DPAssumption DEF Finish, Workers
    <3>2. QED
      BY <2>1, <2>2, <3>1 DEF CachesInv, Resetting
  <2>3. CASE handler # creq
    BY <1>9, <2>1, <2>3, OwnRequest DEF Finish, Respond, Receiving, CallOps
  <2>4. QED
    BY <2>1, <2>2, <2>3
<1>10. ASSUME answer' = answer
       PROVE  answer'.st = "ok" => \A w \in Workers : Alive(w) => Clean(w)
  BY <1>2, <1>10
<1>11. CASE \E req \in http : HandleFireAndForget(req) \/ HandleCall(req)
  <2>1. PICK req \in http : HandleFireAndForget(req) \/ HandleCall(req)
    BY <1>11
  <2>2. CASE HandleFireAndForget(req)
    BY <1>4, <1>10, <2>2
  <2>3. CASE HandleCall(req) /\ Dead = {}
    <3>1. \A w \in Workers : ~(w <= Len(got') \/ repl'[w] # <<>>)
      BY <1>5, <2>3 DEF Workers
    <3>2. QED
      BY <1>5, <1>10, <2>3, <3>1
  <2>4. CASE HandleCall(req) /\ Dead # {}
    BY <1>6, <1>10, <2>4
  <2>5. QED
    BY <2>1, <2>2, <2>3, <2>4
<1>12. CASE Recv \/ RecvEOF \/ Finish
  BY <1>7, <1>8, <1>9, <1>10, <1>12
<1>13. QED
  BY <1>11, <1>12 DEF Server

LEMMA CachesStep == TypeOK /\ PipeInv /\ CachesInv /\ [Next]_vars => CachesInv'
<1> SUFFICES ASSUME TypeOK, PipeInv, CachesInv, [Next]_vars PROVE CachesInv'
  OBVIOUS
<1> USE DEF clientVars, serverVars, workerVars
<1>1. CASE ClientStart \/ BeginExit \/ ExitUnregistered \/ ClientKill \/ ClientJoinTimeout
  <2>1. /\ cpc' # "http" /\ (sync' = "synced" => sync = "synced")
        /\ UNCHANGED <<wk, weights, cache, lost>>
    BY <1>1 DEF ClientStart, BeginExit, ExitUnregistered, ClientKill, ClientJoinTimeout
  <2>2. \A w \in Workers : Alive(w)' = Alive(w) /\ Clean(w)' = Clean(w)
    BY <2>1 DEF Alive, Clean
  <2>3. QED
    BY <2>1, <2>2, CachesAway DEF CachesInv, SyncedCaches
<1>2. CASE PostInit \/ PostUpdate \/ PostReset \/ PostClose
  BY <1>2, CachesPost DEF PostInit, PostUpdate, PostReset, PostClose
<1>3. ASSUME NEW n \in 0 .. MaxPrompts, PostInfer(n) PROVE CachesInv'
  BY <1>3, CachesPost DEF PostInfer
<1>4. CASE Receive
  <2>1. cpc' # "http" /\ UNCHANGED <<wk, weights, cache, lost>>
    BY <1>4 DEF Receive, After, TypeOK, Request, Ops, CallOps, FireAndForgetOps
  <2>2. \A w \in Workers : Alive(w)' = Alive(w) /\ Clean(w)' = Clean(w)
    BY <2>1 DEF Alive, Clean
  <2>3. sync' = "synced" => \A w \in Workers : Alive(w) => Clean(w)
    BY <1>4 DEF Receive, CachesInv, SyncedCaches, Resetting
  <2>4. QED
    BY <2>1, <2>2, <2>3, CachesAway
<1>5. CASE Server
  BY <1>5, CachesHandlers
<1>6. CASE GroupForm
  <2>1. \A w \in Workers : Alive(w) /\ (Clean(w) => Clean(w)')
    BY <1>6 DEF GroupForm, Alive, Clean
  <2>2. cpc' # "http" /\ sync' = sync
    BY <1>6 DEF GroupForm
  <2>3. QED
    BY <2>1, <2>2, CachesAway DEF CachesInv, SyncedCaches
<1>7. CASE Broadcast
  BY <1>7, CachesAway DEF Broadcast
<1>8. ASSUME NEW w \in Workers,
             WorkerJoinTimeout(w) \/ TakeInit(w) \/ TakeUpdate(w) \/ TakeClose(w) \/ WorkerDie(w)
      PROVE  CachesInv'
  <2>1. UNCHANGED <<clientVars, serverVars, repl, weights, cache, lost>>
    BY <1>8 DEF WorkerJoinTimeout, TakeInit, TakeUpdate, TakeClose, WorkerDie
  <2>2. \A v \in Workers : /\ wk[v] = "dead" => wk'[v] = "dead"
                           /\ wk'[v] = "load" => wk[v] = "load"
    BY <1>8 DEF WorkerJoinTimeout, TakeInit, TakeUpdate, TakeClose, WorkerDie, Taking, TypeOK
  <2>3. QED
    BY <2>1, <2>2, CachesWorker DEF Alive, Clean
<1>9. ASSUME NEW w \in Workers, WorkerReady(w) PROVE CachesInv'
  <2>1. handler.op \in {"boot", "failed"}
    BY <1>9 DEF WorkerReady, PipeInv, BootPipes
  <2>2. \A v \in Workers : /\ wk[v] = "dead" => wk'[v] = "dead"
                           /\ wk'[v] = "load" => wk[v] = "load"
    BY <1>9 DEF WorkerReady, TypeOK
  <2>3. QED
    BY <1>9, <2>1, <2>2, CachesWorker DEF WorkerReady, Alive, Clean
<1>10. ASSUME NEW w \in Workers, Load(w) PROVE CachesInv'
  <2>1. \A v \in Workers : Alive(v)' => Alive(v) /\ (Clean(v) => Clean(v)')
    <3> SUFFICES ASSUME NEW v \in Workers, Alive(v)'
                 PROVE  Alive(v) /\ (Clean(v) => Clean(v)')
      OBVIOUS
    <3>1. CASE v = w
      BY <1>10, <3>1 DEF Load, Alive, Clean
    <3>2. CASE v # w
      <4>1. UNCHANGED <<wk[v], weights[v], cache[v], lost[v]>>
        BY <1>10, <3>2 DEF Load, TypeOK
      <4>2. QED
        BY <4>1 DEF Alive, Clean
    <3>3. QED
      BY <3>1, <3>2
  <2>2. QED
    BY <1>10, <2>1, CachesWorker DEF Load
<1>11. ASSUME NEW w \in Workers, TakeReset(w) PROVE CachesInv'
  <2>1. UNCHANGED <<clientVars, serverVars, wk, weights>> /\ wk[w] = "idle"
    BY <1>11 DEF TakeReset, Taking
  <2>2. Clean(w)'
    <3>1. CASE cache' = [cache EXCEPT ![w] = {}]
      BY <2>1, <3>1 DEF Clean, TypeOK
    <3>2. CASE lost' = [lost EXCEPT ![w] = @ \union {"reset"}]
      BY <2>1, <3>2 DEF Clean, TypeOK
    <3>3. QED
      BY <1>11, <3>1, <3>2 DEF TakeReset
  <2>3. \A v \in Workers \ {w} : UNCHANGED <<wk[v], weights[v], cache[v], lost[v], repl[v]>>
    BY <1>11, <2>1 DEF TakeReset, TypeOK
  <2>4. QED
    BY <2>1, <2>2, <2>3, CachesWorker DEF Alive, Clean
<1>12. ASSUME NEW w \in Workers, TakeInfer(w) PROVE CachesInv'
  <2>1. UNCHANGED <<clientVars, serverVars, wk, weights, lost>> /\ wk[w] = "idle"
    BY <1>12 DEF TakeInfer, Taking
  <2>2. \A v \in Workers : Alive(v)' => Alive(v) /\ (Clean(v) => Clean(v)')
    BY <1>12, <2>1 DEF TakeInfer, Alive, Clean, TypeOK
  <2>3. \A v \in Workers \ {w} : repl'[v] = repl[v]
    BY <1>12 DEF TakeInfer, TypeOK
  <2>4. ~(handler = creq /\ creq.op = "reset")
    <3> SUFFICES ASSUME handler.op = "reset" PROVE FALSE
      OBVIOUS
    <3>1. 1 \in 1 .. Len(chan[w]) /\ chan[w][1].op = "infer"
      BY <1>12, TailFacts DEF TakeInfer, Taking, TypeOK
    <3>2. QED
      BY <3>1 DEF PipeInv, CallsInPipes, Receiving, CallOps
  <2>5. QED
    BY <2>1, <2>2, <2>3, <2>4, CachesWorker
<1>13. CASE UNCHANGED vars
  BY <1>13, CachesWorker DEF vars, Alive, Clean
<1>14. QED
  BY <1>1, <1>2, <1>3, <1>4, <1>5, <1>6, <1>7, <1>8, <1>9, <1>10, <1>11, <1>12, <1>13
     DEF Next, Trainer, ClientStep, Worker, Group, Fault

-----------------------------------------------------------------------------
(* The results.                                                            *)

LEMMA ResultsAway ==
    ASSUME cpc' # "http"
    PROVE  ResultsInv'
  BY DEF ResultsInv, ResultsGood, Collecting, AnswerGood, RolloutAnswered

\* A step of a worker: more may be lost, and a new result for the trainer's
\* rollout is good.
LEMMA ResultsWorker ==
    ASSUME TypeOK, ResultsInv, UNCHANGED <<cpc, creq, handler, got, answer, pushed>>,
           \A w \in Workers : lost[w] \subseteq lost'[w],
           Collecting => \A w \in Workers :
             repl'[w] # <<>> => repl'[w] = repl[w] \/ Good(w, repl[w][1])'
    PROVE  ResultsInv'
<1>1. ASSUME NEW w \in Workers, Good(w, repl[w][1]), repl'[w] = repl[w]
      PROVE  Good(w, repl[w][1])'
  BY <1>1 DEF Good
<1>2. ASSUME NEW w \in Workers, Good(w, got[w]) PROVE Good(w, got[w])'
  BY <1>2 DEF Good
<1>3. ASSUME NEW w \in Workers, Good(w, answer.by[w]) PROVE Good(w, answer.by[w])'
  BY <1>3 DEF Good
<1>4. 1 .. Len(got) \subseteq Workers
  BY DPAssumption DEF TypeOK, Workers
<1>5. ResultsGood'
  BY <1>1, <1>2, <1>4 DEF ResultsInv, ResultsGood, Collecting
<1>6. AnswerGood'
  BY <1>3 DEF ResultsInv, AnswerGood, RolloutAnswered
<1>7. QED
  BY <1>5, <1>6 DEF ResultsInv

\* What a worker sends for a rollout the trainer waits for is good: the worker
\* is in its loop, so it has loaded, and its cache is clean.
LEMMA ResultGood ==
    ASSUME TypeOK, PipeInv, WeightsFresh, CachesInv, Collecting,
           NEW w \in Workers, NEW ok \in BOOLEAN,
           wk[w] = "idle", chan[w] # <<>>, Head(chan[w]).op \in CallOps,
           repl' = [repl EXCEPT ![w] = Append(@, Result(w, ok))],
           UNCHANGED pushed, lost[w] \subseteq lost'[w]
    PROVE  Good(w, repl[w][1])'
<1>1. repl[w] = <<>>
  <2>1. 1 \in 1 .. Len(chan[w]) /\ chan[w][1].op \in CallOps
    BY TailFacts DEF TypeOK
  <2>2. Receiving
    BY DEF Collecting, Receiving, CallOps
  <2>3. QED
    BY <2>1, <2>2 DEF PipeInv, CallsInPipes
<1>2. repl'[w][1] = Result(w, ok)
  BY <1>1, ResultType DEF TypeOK
<1>3. "load" \in lost[w] \/ weights[w] = pushed
  BY DEF WeightsFresh, Fresh
<1>4. "reset" \in lost[w] \/ cache[w] \subseteq {weights[w]}
  BY DEF Collecting, CachesInv, SyncedCaches, Alive, Clean
<1>5. Result(w, ok).ver = weights[w] /\ Result(w, ok).stale = (cache[w] \ {weights[w]} # {})
  BY ResultType
<1>6. QED
  BY <1>2, <1>3, <1>4, <1>5 DEF Good

LEMMA ResultsRecv ==
    ASSUME TypeOK, PipeInv, ResultsInv, Recv
    PROVE  ResultsInv'
<1> USE DEF Recv, clientVars
<1>1. PICK v \in Workers : v = NextConnection /\ v = Len(got) + 1 /\ Len(got) \in Nat
  BY DEF NextConnection, TypeOK, Workers
<1>2. /\ repl[v] \in Seq(Results) /\ repl[v] # <<>> /\ Len(repl[v]) <= 1
      /\ got \in Seq(Results)
  BY <1>1 DEF TypeOK, PipeInv, ResultsInPipes
<1>3. /\ Len(got') = Len(got) + 1
      /\ got'[v] = repl[v][1]
      /\ \A k \in 1 .. Len(got) : got'[k] = got[k]
  BY <1>1, <1>2, AppendFacts
<1>4. AnswerGood'
  BY DEF ResultsInv, AnswerGood, RolloutAnswered, Good
<1>5. ResultsGood'
  <2> SUFFICES ASSUME Collecting
               PROVE  /\ \A w \in Workers : repl'[w] # <<>> => Good(w, repl[w][1])'
                      /\ \A w \in 1 .. Len(got') : Good(w, got[w])'
    BY DEF ResultsGood, Collecting
  <2>1. \A w \in Workers : repl[w] # <<>> => Good(w, repl[w][1])
    BY DEF ResultsInv, ResultsGood
  <2>2. \A w \in Workers : repl'[w] # <<>> => Good(w, repl[w][1])'
    <3> SUFFICES ASSUME NEW w \in Workers, repl'[w] # <<>>
                 PROVE  Good(w, repl[w][1])'
      OBVIOUS
    <3>1. CASE w # v
      BY <1>1, <2>1, <3>1 DEF Good, TypeOK
    <3>2. w # v
      <4>1. Tail(repl[v]) = <<>>
        BY <1>2
      <4>2. repl'[v] = <<>>
        BY <1>1, <4>1 DEF TypeOK
      <4>3. QED
        BY <4>2
    <3>3. QED
      BY <3>1, <3>2
  <2>3. \A w \in 1 .. Len(got') : Good(w, got[w])'
    <3>1. Good(v, got[v])'
      BY <1>1, <1>2, <1>3, <2>1 DEF Good
    <3>2. \A w \in 1 .. Len(got) : Good(w, got[w])'
      BY <1>3 DEF ResultsInv, ResultsGood, Good
    <3>3. QED
      BY <1>1, <1>3, <3>1, <3>2
  <2>4. QED
    BY <2>2, <2>3
<1>6. QED
  BY <1>4, <1>5 DEF ResultsInv

LEMMA ResultsFinish ==
    ASSUME TypeOK, PipeInv, ResultsInv, Finish
    PROVE  ResultsInv'
<1> USE DEF Finish, workerVars
<1>1. ResultsGood'
  BY DEF ResultsGood, Collecting, Idle
<1>2. CASE answer' = answer
  <2>1. AnswerGood'
    BY <1>2 DEF ResultsInv, AnswerGood, RolloutAnswered, Good
  <2>2. QED
    BY <1>1, <2>1 DEF ResultsInv
<1>3. CASE answer' # answer
  <2>1. handler = creq /\ handler.op # "boot"
    <3>1. handler.op # "boot" /\ creq.id = handler.id
      BY <1>3 DEF Respond, Receiving, CallOps
    <3>2. QED
      BY <3>1, OwnRequest
  <2>2. AnswerGood'
    <3> SUFFICES ASSUME RolloutAnswered'
                 PROVE  /\ DOMAIN answer'.by \subseteq Workers
                        /\ \A w \in DOMAIN answer'.by : Good(w, answer.by[w])'
      BY DEF AnswerGood
    <3> DEFINE kept == Kept(handler.n, DP)
    <3>1. handler.op = "infer" /\ cpc = "http" /\ Collecting
      BY <2>1 DEF RolloutAnswered, Collecting
    <3>2. answer' = InferResponse
      BY <1>3, <3>1 DEF Respond
    <3>3. answer'.by = [w \in kept |-> got[w]]
      BY <3>2 DEF InferResponse, Response, RolloutAnswered
    <3>4. \A w \in Workers : Good(w, got[w])
      BY <3>1 DEF ResultsInv, ResultsGood, Workers
    <3>5. kept \subseteq Workers
      BY DEF Kept, Workers
    <3> HIDE DEF kept
    <3>6. \A w \in kept : Good(w, answer.by[w])'
      BY <3>3, <3>4, <3>5 DEF Good
    <3>7. QED
      BY <3>3, <3>5, <3>6
  <2>3. QED
    BY <1>1, <2>2 DEF ResultsInv
<1>4. QED
  BY <1>2, <1>3

\* The other steps of the server leave what is answered to a rollout alone.
LEMMA ResultsHandlers ==
    ASSUME TypeOK, PipeInv, ResultsInv, Server
    PROVE  ResultsInv'
<1> USE DEF workerVars, clientVars
<1>1. UNCHANGED <<cpc, creq, pushed, lost>>
  BY DEF Server, HandleFireAndForget, HandleCall, Recv, RecvEOF, Finish
<1>2. ASSUME answer' = answer \/ answer'.st # "ok" \/ creq.op # "infer" PROVE AnswerGood'
  <2>1. CASE answer' = answer
    BY <1>1, <2>1 DEF ResultsInv, AnswerGood, RolloutAnswered, Good
  <2>2. QED
    BY <1>1, <1>2, <2>1 DEF AnswerGood, RolloutAnswered
<1>3. ASSUME NEW req \in http, HandleFireAndForget(req) PROVE ResultsInv'
  <2>1. ResultsGood'
    BY <1>3 DEF HandleFireAndForget, ResultsGood, Collecting, Idle
  <2>2. answer' = answer \/ creq.op # "infer"
    BY <1>3, OwnRequest DEF HandleFireAndForget, Respond, FireAndForgetOps
  <2>3. QED
    BY <1>2, <2>1, <2>2 DEF ResultsInv
<1>4. ASSUME NEW req \in http, HandleCall(req) PROVE ResultsInv'
  <2>1. CASE Dead = {}
    <3>1. answer' = answer /\ got' = <<>> /\ \A w \in Workers : repl'[w] = <<>>
      BY <1>4, <2>1, IdlePipes, NoneDeadFact DEF HandleCall
    <3>2. ResultsGood'
      BY <3>1 DEF ResultsGood
    <3>3. QED
      BY <1>2, <3>1, <3>2 DEF ResultsInv
  <2>2. CASE Dead # {}
    <3>1. ResultsGood'
      BY <1>4, <2>2 DEF HandleCall, ResultsGood, Collecting, Idle
    <3>2. answer' = answer \/ answer'.st # "ok"
      BY <1>4, <2>2 DEF HandleCall, Respond, Response
    <3>3. QED
      BY <1>2, <3>1, <3>2 DEF ResultsInv
  <2>3. QED
    BY <2>1, <2>2
<1>5. CASE RecvEOF
  <2>1. ResultsGood'
    BY <1>5 DEF RecvEOF, ResultsGood, Collecting, Idle, Failed
  <2>2. answer' = answer \/ answer'.st # "ok"
    BY <1>5 DEF RecvEOF, Respond, Response
  <2>3. QED
    BY <1>2, <2>1, <2>2 DEF ResultsInv
<1>6. CASE Recv \/ Finish
  BY <1>6, ResultsRecv, ResultsFinish
<1>7. QED
  BY <1>3, <1>4, <1>5, <1>6 DEF Server

LEMMA ResultsStep == IInv /\ [Next]_vars => ResultsInv'
<1> SUFFICES ASSUME TypeOK, PipeInv, WeightsFresh, CachesInv, ResultsInv, [Next]_vars
             PROVE  ResultsInv'
  BY DEF IInv
<1> USE DEF clientVars, serverVars, workerVars
<1>1. CASE \/ ClientStart \/ BeginExit \/ ExitUnregistered \/ ClientKill
           \/ ClientJoinTimeout \/ GroupForm \/ Broadcast
  BY <1>1, ResultsAway DEF ClientStart, BeginExit, ExitUnregistered, ClientKill,
                           ClientJoinTimeout, GroupForm, Broadcast
<1>2. CASE Receive
  <2>1. cpc' # "http"
    BY <1>2 DEF Receive, After, TypeOK, Request, Ops, CallOps, FireAndForgetOps
  <2>2. QED
    BY <2>1, ResultsAway
<1>3. ASSUME NEW op, NEW n, Post(op, n), cpc # "http" PROVE ResultsInv'
  <2>1. handler' # creq' /\ answer'.st # "ok"
    BY <1>3, OwnRequest DEF Post, NoAnswer
  <2>2. QED
    BY <2>1 DEF ResultsInv, ResultsGood, Collecting, AnswerGood, RolloutAnswered
<1>4. CASE PostInit \/ PostUpdate \/ PostReset \/ PostClose \/ \E n \in 0 .. MaxPrompts : PostInfer(n)
  BY <1>3, <1>4 DEF PostInit, PostUpdate, PostReset, PostClose, PostInfer
<1>5. CASE Server
  BY <1>5, ResultsHandlers
<1>6. ASSUME NEW w \in Workers,
             WorkerJoinTimeout(w) \/ TakeInit(w) \/ TakeUpdate(w) \/ TakeClose(w) \/ WorkerDie(w)
      PROVE  ResultsInv'
  <2>1. UNCHANGED <<clientVars, serverVars, repl, lost>>
    BY <1>6 DEF WorkerJoinTimeout, TakeInit, TakeUpdate, TakeClose, WorkerDie
  <2>2. QED
    BY <2>1, ResultsWorker
<1>7. ASSUME NEW w \in Workers, WorkerReady(w) PROVE ResultsInv'
  <2>1. ~Collecting
    BY <1>7 DEF WorkerReady, PipeInv, BootPipes, Collecting
  <2>2. QED
    BY <1>7, <2>1, ResultsWorker DEF WorkerReady
<1>8. ASSUME NEW w \in Workers, Load(w) PROVE ResultsInv'
  <2>1. UNCHANGED <<clientVars, serverVars, repl>>
    BY <1>8 DEF Load
  <2>2. \A v \in Workers : lost[v] \subseteq lost'[v]
    <3>1. CASE UNCHANGED lost
      BY <3>1
    <3>2. CASE lost' = [lost EXCEPT ![w] = @ \union {"load"}]
      BY <3>2 DEF TypeOK
    <3>3. QED
      BY <1>8, <3>1, <3>2 DEF Load
  <2>3. QED
    BY <2>1, <2>2, ResultsWorker
<1>9. ASSUME NEW w \in Workers, TakeReset(w) \/ TakeInfer(w) PROVE ResultsInv'
  <2>1. UNCHANGED <<clientVars, serverVars>> /\ wk[w] = "idle" /\ chan[w] # <<>>
        /\ Head(chan[w]).op \in CallOps
    BY <1>9 DEF TakeReset, TakeInfer, Taking, CallOps
  <2>2. PICK ok \in BOOLEAN : repl' = [repl EXCEPT ![w] = Append(@, Result(w, ok))]
    BY <1>9 DEF TakeReset, TakeInfer
  <2>3. \A v \in Workers : lost[v] \subseteq lost'[v]
    <3>1. CASE UNCHANGED lost
      BY <3>1
    <3>2. CASE lost' = [lost EXCEPT ![w] = @ \union {"reset"}]
      BY <3>2 DEF TypeOK
    <3>3. QED
      BY <1>9, <3>1, <3>2 DEF TakeReset, TakeInfer
  <2>4. Collecting => Good(w, repl[w][1])'
    BY <2>1, <2>2, <2>3, ResultGood
  <2>5. \A v \in Workers \ {w} : repl'[v] = repl[v]
    BY <2>2 DEF TypeOK
  <2>6. QED
    BY <2>1, <2>3, <2>4, <2>5, ResultsWorker
<1>10. CASE UNCHANGED vars
  BY <1>10, ResultsWorker DEF vars
<1>11. QED
  BY <1>1, <1>2, <1>4, <1>5, <1>6, <1>7, <1>8, <1>9, <1>10
     DEF Next, Trainer, ClientStep, Worker, Group, Fault

-----------------------------------------------------------------------------
(* The theorems about rollouts.                                            *)

LEMMA InvInit == Init => IInv
<1> SUFFICES ASSUME Init PROVE IInv
  OBVIOUS
<1>1. TypeOK /\ PipeInv
  BY TypeInit, PipeInit
<1>2. WeightsFresh
  BY DEF Init, WeightsFresh, Fresh
<1>3. cpc # "http" /\ sync # "synced"
  BY DEF Init
<1>4. CachesInv /\ ResultsInv
  BY <1>3 DEF CachesInv, SyncedCaches, Resetting, ResultsInv, ResultsGood, Collecting,
              AnswerGood, RolloutAnswered
<1>5. QED
  BY <1>1, <1>2, <1>4 DEF IInv

LEMMA InvStep == IInv /\ [Next]_vars => IInv'
  BY TypeStep, PipeStep, WeightsStep, CachesStep, ResultsStep DEF IInv

LEMMA InvCorrect == Spec => []IInv
  BY InvInit, InvStep, PTL DEF Spec

\* A rollout is generated by every worker with the weights pushed last, unless
\* loading them raised there, although update_* answers and the trainer leaves
\* the barrier before the weights are loaded.
THEOREM RolloutsFresh == Spec => []FreshWeights
<1>1. IInv => FreshWeights
  BY DEF IInv, ResultsInv, AnswerGood, FreshWeights, Good
<1>2. QED
  BY <1>1, InvCorrect, PTL

\* No rollout reuses prefix-cache blocks computed with other weights, unless
\* the reset of that worker's cache raised.
THEOREM RolloutsClean == Spec => []NoStalePrefix
<1>1. IInv => NoStalePrefix
  BY DEF IInv, ResultsInv, AnswerGood, NoStalePrefix, Good
<1>2. QED
  BY <1>1, InvCorrect, PTL

-----------------------------------------------------------------------------
(* Why trainer and workers agree on their NCCL group and on the header of  *)
(* every broadcast.                                                        *)
(*                                                                         *)
(* Of all the commands that earlier trainers can leave behind, only        *)
(* close_communicator takes a worker out of its group and only an update   *)
(* takes it into a broadcast.  A group can only be formed when every       *)
(* worker has no communicator, which is after every such command was       *)
(* taken.                                                                  *)

\* The trainer has a group and has not asked to close it.
Working == cgroup # 0 /\ (cpc \in {"idle", "bcast", "exit"} \/ (cpc = "http" /\ creq.op # "close"))

\* The trainer has a group from the end of the rendezvous on, and is in a
\* broadcast for the update it posted last.
Stages ==
    /\ cpc \in {"new", "join"} \/ (cpc = "http" /\ creq.op = "init") => cgroup = 0
    /\ cpc \in {"idle", "bcast"} \/ (cpc = "http" /\ creq.op # "init") => cgroup # 0
    /\ cpc = "join" \/ (cpc = "http" /\ creq.op = "init") => creq.id # 0
    /\ cpc = "bcast" => creq.op = "update"

\* What a worker is at is the command at the head of its pipe.
AtHand ==
    \A w \in Workers :
      /\ wk[w] = "join" => comm[w] = 0
      /\ wk[w] \in {"bcast", "load"} => chan[w][1].op = "update"
      /\ wk[w] = "dead" => chan[w] = <<>>

\* A fire_and_forget request only fails when a worker is dead.
FailedSends ==
    cpc = "http" /\ creq.op \in FireAndForgetOps /\ answer # NoAnswer /\ answer.st # "ok"
      => ~NoneDead

\* The command at position k of the pipe to w still has to be carried out; after
\* the barrier a worker has the tensor of its update.
Pending(op, w, k) == chan[w][k].op = op /\ ~(k = 1 /\ wk[w] = "load")

\* No command op is on its way to worker w, at the server or in the pipe.
Gone(op, w) ==
    /\ \A req \in http : req.op # op
    /\ \A k \in 1 .. Len(chan[w]) : ~Pending(op, w, k)

\* At most one is.
Single(op, w) ==
    /\ \A r1, r2 \in http : r1.op = op /\ r2.op = op => r1 = r2
    /\ \A j, k \in 1 .. Len(chan[w]) : Pending(op, w, j) /\ Pending(op, w, k) => j = k
    /\ \A req \in http, k \in 1 .. Len(chan[w]) : ~(req.op = op /\ Pending(op, w, k))

\* A command to close is on its way only to workers of a group that is over,
\* once per group.
ClosesInv ==
    \A w \in Workers :
      /\ Single("close", w)
      /\ Working \/ (Alive(w) /\ comm[w] = 0) => Gone("close", w)
      /\ Working /\ Alive(w) => comm[w] = cgroup

\* An update is on its way only to workers of the trainer that has posted it last,
\* or of a trainer that was killed: then no close follows, and no group forms again.
UpdatesInv ==
    NoneDead =>
      \A w \in Workers : ~Gone("update", w) =>
        /\ comm[w] # 0 /\ Gone("close", w) /\ Single("update", w)
        /\ Working => /\ cpc \in {"http", "bcast"} /\ creq.op = "update"
                      /\ \A req \in http : req.op = "update" => req = creq
                      /\ \A k \in 1 .. Len(chan[w]) :
                           Pending("update", w, k) => chan[w][k].id = creq.id

GroupInv == Stages /\ AtHand /\ FailedSends /\ ClosesInv /\ UpdatesInv

-----------------------------------------------------------------------------
(* What is on its way.                                                     *)

\* A step that puts no request to the server and no command into the pipe to w.
LEMMA ShrinkFacts ==
    ASSUME TypeOK, NEW w \in Workers, http' = http,
           \/ chan'[w] = chan[w] /\ (wk[w] = "load" => wk'[w] = "load")
           \/ chan'[w] = <<>>
           \/ chan[w] # <<>> /\ chan'[w] = Tail(chan[w])
    PROVE  /\ \A op \in Ops : /\ Gone(op, w) => Gone(op, w)'
                              /\ Single(op, w) => Single(op, w)'
           /\ \A op \in Ops : \A k \in 1 .. Len(chan'[w]) : Pending(op, w, k)' =>
                \E j \in 1 .. Len(chan[w]) : Pending(op, w, j) /\ chan'[w][k] = chan[w][j]
<1>1. CASE chan'[w] = chan[w] /\ (wk[w] = "load" => wk'[w] = "load")
  <2>1. \A op \in Ops : \A k \in 1 .. Len(chan[w]) : Pending(op, w, k)' => Pending(op, w, k)
    BY <1>1 DEF Pending
  <2>2. QED
    BY <1>1, <2>1 DEF Gone, Single
<1>2. CASE chan'[w] = <<>>
  BY <1>2 DEF Gone, Single
<1>3. CASE chan[w] # <<>> /\ chan'[w] = Tail(chan[w])
  <2>1. \A k \in 1 .. Len(chan'[w]) : k + 1 \in 1 .. Len(chan[w]) /\ chan'[w][k] = chan[w][k + 1]
    BY <1>3, TailFacts DEF TypeOK
  <2>2. \A op \in Ops : \A k \in 1 .. Len(chan'[w]) : Pending(op, w, k)' => Pending(op, w, k + 1)
    BY <2>1 DEF Pending
  <2>3. \A j, k \in 1 .. Len(chan'[w]) : j + 1 = k + 1 => j = k
    OBVIOUS
  <2>4. QED
    BY <1>3, <2>1, <2>2, <2>3 DEF Gone, Single
<1>4. QED
  BY <1>1, <1>2, <1>3

\* A send moves a request from the server into pipes, behind what is there.
LEMMA SendFacts ==
    ASSUME TypeOK, AtHand, NEW req \in http, NEW w \in Workers, http' = http \ {req},
           SendAll(req), wk' = wk
    PROVE  /\ \A op \in Ops : /\ Gone(op, w) => Gone(op, w)'
                              /\ Single(op, w) => Single(op, w)'
           /\ \A op \in Ops : \A k \in 1 .. Len(chan'[w]) : Pending(op, w, k)' =>
                \/ k \in 1 .. Len(chan[w]) /\ Pending(op, w, k) /\ chan'[w][k] = chan[w][k]
                \/ req.op = op /\ chan'[w][k].id = req.id
           /\ chan[w] # <<>> => chan'[w][1] = chan[w][1]
           /\ wk[w] = "dead" => chan'[w] = chan[w]
<1>1. chan'[w] = chan[w] \/ chan'[w] = Append(chan[w], Command(req, w))
  BY DEF SendAll, TypeOK
<1>2. wk[w] = "dead" => chan'[w] = chan[w]
  BY DEF SendAll, TypeOK, Dead, Workers
<1>3. CASE chan'[w] = chan[w]
  <2>1. \A op \in Ops : \A k \in 1 .. Len(chan[w]) : Pending(op, w, k)' <=> Pending(op, w, k)
    BY <1>3 DEF Pending
  <2>2. QED
    BY <1>3, <2>1 DEF Gone, Single
<1>4. CASE chan'[w] = Append(chan[w], Command(req, w))
  <2>0. PICK n : n = Len(chan[w])
    OBVIOUS
  <2>1. /\ n \in Nat /\ Len(chan'[w]) = n + 1
        /\ chan'[w][n + 1].op = req.op /\ chan'[w][n + 1].id = req.id
        /\ \A k \in 1 .. n : chan'[w][k] = chan[w][k]
    <3>1. chan[w] \in Seq(Commands) /\ Command(req, w) \in Commands
      BY CommandType DEF TypeOK
    <3>2. Command(req, w).id = req.id /\ Command(req, w).op = req.op
      BY DEF Command
    <3>3. QED
      BY <1>4, <2>0, <3>1, <3>2, AppendFacts
  <2>2. wk[w] = "load" => n # 0
    BY <2>0 DEF TypeOK
  <2>3. \A op \in Ops : \A k \in 1 .. n : Pending(op, w, k)' <=> Pending(op, w, k)
    BY <2>1 DEF Pending
  <2>4. \A op \in Ops : Pending(op, w, n + 1)' <=> req.op = op
    BY <2>1, <2>2 DEF Pending
  <2>5. \A k \in 1 .. Len(chan'[w]) : k \in 1 .. n \/ k = n + 1
    BY <2>1
  <2>6. ASSUME NEW op \in Ops, Gone(op, w) PROVE Gone(op, w)'
    BY <2>0, <2>3, <2>4, <2>5, <2>6 DEF Gone
  <2>7. ASSUME NEW op \in Ops, Single(op, w) PROVE Single(op, w)'
    <3>1. \A r1, r2 \in http' : r1.op = op /\ r2.op = op => r1 = r2
      BY <2>7 DEF Single
    <3>2. req.op = op => \A k \in 1 .. n : ~Pending(op, w, k)'
      BY <2>0, <2>3, <2>7 DEF Single
    <3>3. \A j, k \in 1 .. Len(chan'[w]) : Pending(op, w, j)' /\ Pending(op, w, k)' => j = k
      <4> TAKE j, k \in 1 .. Len(chan'[w])
      <4> HAVE Pending(op, w, j)' /\ Pending(op, w, k)'
      <4>1. CASE j \in 1 .. n /\ k \in 1 .. n
        BY <2>0, <2>3, <2>7, <4>1 DEF Single
      <4>2. CASE j = n + 1 \/ k = n + 1
        BY <2>4, <2>5, <3>2, <4>2
      <4>3. QED
        BY <2>5, <4>1, <4>2
    <3>4. \A r \in http', k \in 1 .. Len(chan'[w]) : ~(r.op = op /\ Pending(op, w, k)')
      <4> SUFFICES ASSUME NEW r \in http', NEW k \in 1 .. Len(chan'[w]), r.op = op,
                          Pending(op, w, k)'
                   PROVE  FALSE
        OBVIOUS
      <4>1. k \notin 1 .. n
        BY <2>0, <2>3, <2>7 DEF Single
      <4>2. req.op # op
        BY <2>7 DEF Single
      <4>3. QED
        BY <2>4, <2>5, <4>1, <4>2
    <3>5. QED
      BY <3>1, <3>3, <3>4 DEF Single
  <2>8. QED
    BY <1>2, <2>0, <2>1, <2>3, <2>4, <2>5, <2>6, <2>7
<1>5. QED
  BY <1>1, <1>3, <1>4

\* A post adds one request of its kind, and nothing of any other kind.
LEMMA PostFacts ==
    ASSUME TypeOK, NEW op \in Ops, NEW n \in Nat, Post(op, n), NEW w \in Workers
    PROVE  /\ \A o \in Ops \ {op} : /\ Gone(o, w) => Gone(o, w)'
                                    /\ Single(o, w) => Single(o, w)'
           /\ Gone(op, w) => Single(op, w)'
           /\ \A o \in Ops : \A k : Pending(o, w, k)' <=> Pending(o, w, k)
           /\ \A req \in http' : req = creq' \/ req \in http
           /\ creq'.op = op /\ creq'.id # 0 /\ UNCHANGED <<chan, wk, comm, cgroup>> /\ cpc' = "http"
<1>1. /\ UNCHANGED <<chan, wk, comm, cgroup>> /\ creq'.op = op /\ cpc' = "http"
      /\ \A req \in http' : req = creq' \/ req \in http
  BY DEF Post, workerVars
<1>2. creq'.id # 0
  BY DEF Post, TypeOK
<1>3. \A o \in Ops : \A k : Pending(o, w, k)' <=> Pending(o, w, k)
  BY <1>1 DEF Pending
<1>4. \A o \in Ops \ {op} : (Gone(o, w) => Gone(o, w)') /\ (Single(o, w) => Single(o, w)')
  BY <1>1, <1>3 DEF Gone, Single
<1>5. Gone(op, w) => Single(op, w)'
  BY <1>1, <1>3 DEF Gone, Single
<1>6. QED
  BY <1>1, <1>2, <1>3, <1>4, <1>5

-----------------------------------------------------------------------------
(* The steps.                                                              *)

LEMMA GroupInit == Init => GroupInv
<1> SUFFICES ASSUME Init PROVE GroupInv
  OBVIOUS
<1>1. /\ cpc = "down" /\ http = {} /\ \A w \in Workers : chan[w] = <<>> /\ wk[w] = "boot"
      /\ cgroup = 0
  BY DEF Init
<1>2. \A w \in Workers : Gone("close", w) /\ Single("close", w) /\ Gone("update", w)
  BY <1>1 DEF Gone, Single
<1>3. ~Working
  BY <1>1 DEF Working
<1>4. QED
  BY <1>1, <1>2, <1>3 DEF GroupInv, Stages, AtHand, FailedSends, ClosesInv, UpdatesInv

\* A worker that is done with a command, or begins one, stays in its group.
LEMMA GroupShrink ==
    ASSUME TypeOK, GroupInv, UNCHANGED <<cpc, creq, cgroup, http, comm>>,
           answer' = answer \/ cpc' # "http", AtHand',
           \A w \in Workers : \/ chan'[w] = chan[w] /\ (wk[w] = "load" => wk'[w] = "load")
                              \/ chan'[w] = <<>>
                              \/ chan[w] # <<>> /\ chan'[w] = Tail(chan[w]),
           \A w \in Workers : wk[w] = "dead" => wk'[w] = "dead"
    PROVE  GroupInv'
<1>1. /\ NoneDead' => NoneDead
      /\ \A w \in Workers : Alive(w)' => Alive(w)
  BY DEF NoneDead, Alive
<1>2. Working' <=> Working
  BY DEF Working
<1>3. Stages' /\ FailedSends'
  BY <1>1 DEF GroupInv, Stages, FailedSends
<1>4. \A op \in {"close", "update"}, w \in Workers :
        (Gone(op, w) => Gone(op, w)') /\ (Single(op, w) => Single(op, w)')
  BY ShrinkFacts DEF Ops, FireAndForgetOps
<1>5. ClosesInv'
  BY <1>1, <1>2, <1>4 DEF GroupInv, ClosesInv
<1>6. UpdatesInv'
  <2> SUFFICES ASSUME NoneDead', NEW w \in Workers, ~Gone("update", w)'
               PROVE  /\ comm'[w] # 0 /\ Gone("close", w)' /\ Single("update", w)'
                      /\ Working => /\ cpc \in {"http", "bcast"} /\ creq.op = "update"
                                    /\ \A req \in http : req.op = "update" => req = creq
                                    /\ \A k \in 1 .. Len(chan'[w]) :
                                         Pending("update", w, k)' => chan'[w][k].id = creq.id
    BY <1>2 DEF UpdatesInv
  <2>1. ~Gone("update", w)
    BY <1>4
  <2>2. /\ comm[w] # 0 /\ Gone("close", w) /\ Single("update", w)
        /\ Working => /\ cpc \in {"http", "bcast"} /\ creq.op = "update"
                      /\ \A req \in http : req.op = "update" => req = creq
                      /\ \A k \in 1 .. Len(chan[w]) :
                           Pending("update", w, k) => chan[w][k].id = creq.id
    BY <1>1, <2>1 DEF GroupInv, UpdatesInv
  <2>3. \A k \in 1 .. Len(chan'[w]) : Pending("update", w, k)' =>
          \E j \in 1 .. Len(chan[w]) : Pending("update", w, j) /\ chan'[w][k] = chan[w][j]
    BY ShrinkFacts DEF Ops, FireAndForgetOps
  <2>4. QED
    BY <1>4, <2>2, <2>3
<1>7. QED
  BY <1>3, <1>5, <1>6 DEF GroupInv

\* A step that takes no worker's command and posts nothing.
LEMMA GroupStill ==
    ASSUME TypeOK, GroupInv, UNCHANGED <<http, chan, wk, comm>>,
           Stages', FailedSends', Working' => Working /\ cgroup' = cgroup,
           Working' /\ NoneDead /\ (\E w \in Workers : ~Gone("update", w)) =>
             cpc' \in {"http", "bcast"} /\ creq' = creq
    PROVE  GroupInv'
<1>1. \A w \in Workers :
        /\ \A op, k : Pending(op, w, k)' <=> Pending(op, w, k)
        /\ \A op : (Gone(op, w)' <=> Gone(op, w)) /\ (Single(op, w)' <=> Single(op, w))
        /\ Alive(w)' <=> Alive(w)
  BY DEF Pending, Gone, Single, Alive
<1>2. NoneDead' <=> NoneDead
  BY <1>1 DEF NoneDead
<1>3. AtHand'
  BY DEF GroupInv, AtHand
<1>4. ClosesInv'
  BY <1>1 DEF GroupInv, ClosesInv
<1>5. UpdatesInv'
  <2> SUFFICES ASSUME NoneDead, NEW w \in Workers, ~Gone("update", w)
               PROVE  /\ comm[w] # 0 /\ Gone("close", w) /\ Single("update", w)
                      /\ Working' => /\ cpc' \in {"http", "bcast"} /\ creq'.op = "update"
                                     /\ \A req \in http : req.op = "update" => req = creq'
                                     /\ \A k \in 1 .. Len(chan[w]) :
                                          Pending("update", w, k) => chan[w][k].id = creq'.id
    BY <1>1, <1>2 DEF UpdatesInv
  <2>1. /\ comm[w] # 0 /\ Gone("close", w) /\ Single("update", w)
        /\ Working => /\ cpc \in {"http", "bcast"} /\ creq.op = "update"
                      /\ \A req \in http : req.op = "update" => req = creq
                      /\ \A k \in 1 .. Len(chan[w]) :
                           Pending("update", w, k) => chan[w][k].id = creq.id
    BY DEF GroupInv, UpdatesInv
  <2>2. QED
    BY <2>1
<1>6. QED
  BY <1>3, <1>4, <1>5 DEF GroupInv

\* A post of a trainer that has a group, or asks for one.
LEMMA GroupPost ==
    ASSUME TypeOK, GroupInv, NEW op \in Ops, NEW n \in Nat, Post(op, n), answer = NoAnswer,
           \/ op = "init" /\ cpc = "new"
           \/ op = "close" /\ cpc = "exit" /\ cgroup # 0
           \/ op \in {"update", "reset", "infer"} /\ cpc = "idle"
    PROVE  GroupInv'
<1>1. /\ creq'.op = op /\ creq'.id # 0 /\ UNCHANGED <<chan, wk, comm, cgroup>> /\ cpc' = "http"
      /\ answer' = answer /\ \A req \in http' : req = creq' \/ req \in http
  <2>1. 1 \in Workers
    BY DPAssumption DEF Workers
  <2>2. QED
    BY <2>1, PostFacts DEF Post
<1>2. \A o \in Ops \ {op}, w \in Workers :
        (Gone(o, w) => Gone(o, w)') /\ (Single(o, w) => Single(o, w)')
  BY PostFacts
<1>3. \A w \in Workers : /\ Gone(op, w) => Single(op, w)'
                         /\ \A o \in Ops : \A k : Pending(o, w, k)' <=> Pending(o, w, k)
  BY PostFacts
<1>4. Stages'
  BY <1>1 DEF GroupInv, Stages
<1>5. AtHand' /\ FailedSends'
  BY <1>1 DEF GroupInv, AtHand, FailedSends
<1>6. \A w \in Workers : Alive(w)' <=> Alive(w)
  BY <1>1 DEF Alive
<1>7. NoneDead' <=> NoneDead
  BY <1>6 DEF NoneDead
<1>8. op # "init" => Working
  BY DEF GroupInv, Stages, Working
<1>9. Working' <=> op \notin {"init", "close"}
  BY <1>1, <1>8 DEF Working, GroupInv, Stages
<1>10. ClosesInv'
  <2>1. CASE op = "close"
    <3>1. \A w \in Workers : Gone("close", w) /\ (Alive(w) => comm[w] # 0)
      BY <1>8, <2>1 DEF GroupInv, ClosesInv
    <3>2. QED
      BY <1>1, <1>3, <1>6, <1>9, <2>1, <3>1 DEF ClosesInv
  <2>2. CASE op # "close"
    BY <1>1, <1>2, <1>6, <1>8, <1>9, <2>2 DEF GroupInv, ClosesInv, Ops, FireAndForgetOps
  <2>3. QED
    BY <2>1, <2>2
<1>11. UpdatesInv'
  <2> SUFFICES ASSUME NoneDead, NEW w \in Workers, ~Gone("update", w)'
               PROVE  /\ comm[w] # 0 /\ Gone("close", w)' /\ Single("update", w)'
                      /\ Working' => /\ creq'.op = "update"
                                     /\ \A req \in http' : req.op = "update" => req = creq'
                                     /\ \A k \in 1 .. Len(chan[w]) :
                                          Pending("update", w, k)' => chan[w][k].id = creq'.id
    BY <1>1, <1>7 DEF UpdatesInv
  <2>1. "close" \in Ops /\ "update" \in Ops
    BY DEF Ops, FireAndForgetOps
  <2>2. CASE op = "init"
    <3>1. /\ comm[w] # 0 /\ Gone("close", w) /\ Single("update", w) /\ ~Working'
      BY <1>2, <1>9, <2>1, <2>2 DEF GroupInv, UpdatesInv
    <3>2. QED
      BY <1>2, <2>1, <2>2, <3>1
  <2>3. CASE op # "init"
    <3>1. Gone("update", w) /\ Gone("close", w) /\ comm[w] # 0
      <4>1. Working /\ cpc \in {"idle", "exit"}
        BY <1>8, <2>3
      <4>2. QED
        BY <4>1 DEF GroupInv, UpdatesInv, ClosesInv, NoneDead, Working
    <3>2. op = "update"
      BY <1>2, <2>1, <3>1
    <3>3. \A req \in http : req.op # "update"
      BY <3>1 DEF Gone
    <3>4. \A k \in 1 .. Len(chan[w]) : ~Pending("update", w, k)'
      BY <1>3, <2>1, <3>1 DEF Gone
    <3>5. QED
      BY <1>1, <1>2, <1>3, <2>1, <3>1, <3>2, <3>3, <3>4
  <2>4. QED
    BY <2>2, <2>3
<1>12. QED
  BY <1>4, <1>5, <1>10, <1>11 DEF GroupInv

\* A handler puts what it sends behind the commands that are in the pipes.
LEMMA GroupSend ==
    ASSUME TypeOK, PipeInv, GroupInv, NEW req \in http, http' = http \ {req}, SendAll(req),
           UNCHANGED <<cpc, creq, cgroup, wk, comm>>, FailedSends'
    PROVE  GroupInv'
<1>1. \A op \in {"close", "update"}, w \in Workers :
        (Gone(op, w) => Gone(op, w)') /\ (Single(op, w) => Single(op, w)')
  BY SendFacts DEF Ops, FireAndForgetOps, GroupInv
<1>2. /\ NoneDead' <=> NoneDead
      /\ \A w \in Workers : Alive(w)' <=> Alive(w)
      /\ Working' <=> Working
  BY DEF NoneDead, Alive, Working
<1>3. Stages'
  BY DEF GroupInv, Stages
<1>4. AtHand'
  <2>1. \A w \in Workers : /\ chan[w] # <<>> => chan'[w][1] = chan[w][1]
                           /\ wk[w] = "dead" => chan'[w] = chan[w]
    BY SendFacts DEF GroupInv
  <2>2. QED
    BY <2>1 DEF GroupInv, AtHand, TypeOK
<1>5. ClosesInv'
  BY <1>1, <1>2 DEF GroupInv, ClosesInv
<1>6. UpdatesInv'
  <2> SUFFICES ASSUME NoneDead, NEW w \in Workers, ~Gone("update", w)'
               PROVE  /\ comm[w] # 0 /\ Gone("close", w)' /\ Single("update", w)'
                      /\ Working => /\ cpc \in {"http", "bcast"} /\ creq.op = "update"
                                    /\ \A r \in http' : r.op = "update" => r = creq
                                    /\ \A k \in 1 .. Len(chan'[w]) :
                                         Pending("update", w, k)' => chan'[w][k].id = creq.id
    BY <1>2 DEF UpdatesInv
  <2>1. /\ comm[w] # 0 /\ Gone("close", w) /\ Single("update", w)
        /\ Working => /\ cpc \in {"http", "bcast"} /\ creq.op = "update"
                      /\ \A r \in http : r.op = "update" => r = creq
                      /\ \A k \in 1 .. Len(chan[w]) :
                           Pending("update", w, k) => chan[w][k].id = creq.id
    BY <1>1 DEF GroupInv, UpdatesInv
  <2>2. \A k \in 1 .. Len(chan'[w]) : Pending("update", w, k)' =>
          \/ k \in 1 .. Len(chan[w]) /\ Pending("update", w, k) /\ chan'[w][k] = chan[w][k]
          \/ req.op = "update" /\ chan'[w][k].id = req.id
    BY SendFacts DEF Ops, FireAndForgetOps, GroupInv
  <2>3. QED
    BY <1>1, <2>1, <2>2
<1>7. QED
  BY <1>3, <1>4, <1>5, <1>6, FailedSends' DEF GroupInv

\* close_communicator: the one command to close that was on its way, of a trainer that
\* does not work with its group any more.
LEMMA GroupClose ==
    ASSUME TypeOK, GroupInv, NEW w \in Workers, TakeClose(w)
    PROVE  GroupInv'
<1> USE DEF TakeClose, Taking, Done, clientVars, serverVars
<1>1. /\ wk[w] = "idle" /\ chan[w] \in Seq(Commands) /\ chan[w] # <<>> /\ chan[w][1].op = "close"
      /\ 1 \in 1 .. Len(chan[w]) /\ chan'[w] = Tail(chan[w]) /\ comm'[w] = 0
      /\ \A v \in Workers \ {w} : chan'[v] = chan[v] /\ comm'[v] = comm[v]
  BY TailFacts DEF TypeOK
<1>2. Pending("close", w, 1) /\ ~Gone("close", w)
  BY <1>1 DEF Pending, Gone
<1>3. ~Working
  BY <1>2 DEF GroupInv, ClosesInv
<1>4. \A op \in {"close", "update"}, v \in Workers :
        (Gone(op, v) => Gone(op, v)') /\ (Single(op, v) => Single(op, v)')
  BY <1>1, ShrinkFacts DEF Ops, FireAndForgetOps
<1>5. Gone("close", w)'
  <2>1. \A req \in http : req.op # "close"
    BY <1>1, <1>2 DEF GroupInv, ClosesInv, Single
  <2>2. \A k \in 1 .. Len(chan[w]) : Pending("close", w, k) => k = 1
    BY <1>1, <1>2 DEF GroupInv, ClosesInv, Single
  <2>3. \A k \in 1 .. Len(chan'[w]) : ~Pending("close", w, k)'
    <3> SUFFICES ASSUME NEW k \in 1 .. Len(chan'[w]) PROVE ~Pending("close", w, k)'
      OBVIOUS
    <3>1. k + 1 \in 1 .. Len(chan[w]) /\ chan'[w][k] = chan[w][k + 1]
      <4>1. \A i \in 1 .. Len(Tail(chan[w])) :
              i + 1 \in 1 .. Len(chan[w]) /\ Tail(chan[w])[i] = chan[w][i + 1]
        BY <1>1, TailFacts
      <4>2. QED
        BY <1>1, <4>1
    <3>2. k + 1 # 1
      OBVIOUS
    <3>3. ~Pending("close", w, k + 1)
      BY <2>2, <3>1, <3>2
    <3>4. QED
      BY <3>1, <3>2, <3>3 DEF Pending
  <2>4. QED
    BY <2>1, <2>3 DEF Gone
<1>6. /\ NoneDead' <=> NoneDead
      /\ \A v \in Workers : Alive(v)' <=> Alive(v)
      /\ ~Working'
  BY <1>3 DEF NoneDead, Alive, Working
<1>7. Stages' /\ FailedSends'
  BY <1>6 DEF GroupInv, Stages, FailedSends
<1>8. AtHand'
  BY <1>1 DEF GroupInv, AtHand, TypeOK
<1>9. ClosesInv'
  BY <1>1, <1>4, <1>5, <1>6 DEF GroupInv, ClosesInv
<1>10. UpdatesInv'
  <2>1. NoneDead => Gone("update", w)'
    BY <1>2, <1>4 DEF GroupInv, UpdatesInv
  <2>2. QED
    BY <1>1, <1>4, <1>6, <2>1 DEF GroupInv, UpdatesInv
<1>11. QED
  BY <1>7, <1>8, <1>9, <1>10 DEF GroupInv

\* The rendezvous: no worker has a communicator, so no close and no update of an
\* earlier trainer is on its way.
LEMMA GroupMeet ==
    ASSUME TypeOK, GroupInv, GroupForm
    PROVE  GroupInv'
<1> USE DEF GroupForm, serverVars
<1>1. NoneDead /\ \A w \in Workers : Alive(w) /\ comm[w] = 0 /\ chan[w] # <<>>
  BY DEF NoneDead, Alive, GroupInv, AtHand, TypeOK
<1>2. \A w \in Workers : Gone("close", w) /\ Gone("update", w)
  BY <1>1 DEF GroupInv, ClosesInv, UpdatesInv
<1>3. \A w \in Workers : chan'[w] = Tail(chan[w]) /\ wk'[w] = "idle" /\ comm'[w] = creq.id
  OBVIOUS
<1>4. \A w \in Workers : /\ Gone("close", w)' /\ Gone("update", w)'
                         /\ Single("close", w)'
  <2>1. \A op \in Ops, w \in Workers :
          (Gone(op, w) => Gone(op, w)') /\ (Single(op, w) => Single(op, w)')
    BY <1>1, <1>3, ShrinkFacts
  <2>2. QED
    BY <1>2, <2>1 DEF GroupInv, ClosesInv, Ops, FireAndForgetOps
<1>5. Stages' /\ FailedSends'
  BY DEF GroupInv, Stages, FailedSends
<1>6. AtHand'
  BY <1>3 DEF AtHand
<1>7. ClosesInv' /\ UpdatesInv'
  BY <1>3, <1>4 DEF ClosesInv, UpdatesInv
<1>8. QED
  BY <1>5, <1>6, <1>7 DEF GroupInv

\* The barrier: every worker is in the update posted last, and none is left.
LEMMA GroupBroadcast ==
    ASSUME TypeOK, GroupInv, Broadcast
    PROVE  GroupInv'
<1> USE DEF Broadcast, serverVars
<1>1. NoneDead /\ \A w \in Workers : Alive(w) /\ wk[w] = "bcast" /\ wk'[w] = "load"
  BY DEF NoneDead, Alive
<1>2. \A w \in Workers : /\ chan[w] \in Seq(Commands) /\ chan[w] # <<>>
                         /\ 1 \in 1 .. Len(chan[w]) /\ Pending("update", w, 1)
  BY <1>1, TailFacts DEF TypeOK, GroupInv, AtHand, Pending
<1>3. \A w \in Workers : Single("update", w)
  BY <1>1, <1>2 DEF GroupInv, UpdatesInv, Gone
<1>4. \A w \in Workers : Gone("update", w)'
  <2> TAKE w \in Workers
  <2>1. \A req \in http : req.op # "update"
    BY <1>2, <1>3 DEF Single
  <2>2. \A k \in 1 .. Len(chan[w]) : Pending("update", w, k) => k = 1
    BY <1>2, <1>3 DEF Single
  <2>3. QED
    BY <1>1, <2>1, <2>2 DEF Gone, Pending
<1>5. \A w \in Workers : (Gone("close", w) => Gone("close", w)')
                         /\ (Single("close", w) => Single("close", w)')
  BY <1>1, ShrinkFacts DEF Ops, FireAndForgetOps
<1>6. /\ \A w \in Workers : Alive(w)' <=> Alive(w)
      /\ Working' <=> Working
  BY <1>1 DEF Alive, Working
<1>7. Stages' /\ FailedSends'
  BY DEF GroupInv, Stages, FailedSends
<1>8. AtHand'
  BY <1>1 DEF GroupInv, AtHand
<1>9. ClosesInv'
  BY <1>5, <1>6 DEF GroupInv, ClosesInv
<1>10. UpdatesInv'
  BY <1>4 DEF UpdatesInv
<1>11. QED
  BY <1>7, <1>8, <1>9, <1>10 DEF GroupInv

\* The response arrives. A trainer whose update failed goes away.
LEMMA GroupReceive ==
    ASSUME TypeOK, GroupInv, Receive
    PROVE  GroupInv'
<1> USE DEF Receive, serverVars, workerVars
<1>1. creq.op \in Ops /\ cpc = "http" /\ answer # NoAnswer /\ cpc' = After(creq.op, answer.st)
      /\ creq' = creq /\ cgroup' = cgroup
  BY DEF TypeOK, Request
<1>2. /\ creq.op = "close" => cpc' = "down"
      /\ creq.op # "close" /\ answer.st # "ok" => cpc' = "exit"
      /\ creq.op = "init" /\ answer.st = "ok" => cpc' = "join"
      /\ creq.op = "update" /\ answer.st = "ok" => cpc' = "bcast"
      /\ creq.op \in CallOps /\ answer.st = "ok" => cpc' = "idle"
  BY <1>1 DEF After, CallOps
<1>3. cpc' \in {"down", "exit", "join", "bcast", "idle"}
  BY <1>1, <1>2 DEF Ops, FireAndForgetOps
<1>4. Stages'
  BY <1>1, <1>2, <1>3 DEF GroupInv, Stages, CallOps, Ops, FireAndForgetOps
<1>5. FailedSends'
  BY <1>3 DEF FailedSends
<1>6. Working' => Working
  BY <1>1, <1>2 DEF Working
<1>7. ASSUME Working', NoneDead, NEW w \in Workers, ~Gone("update", w)
      PROVE  cpc' = "bcast"
  BY <1>1, <1>2, <1>6, <1>7 DEF GroupInv, UpdatesInv, FailedSends, FireAndForgetOps
<1>8. QED
  BY <1>1, <1>4, <1>5, <1>6, <1>7, GroupStill

LEMMA GroupStep == TypeOK /\ PipeInv /\ GroupInv /\ [Next]_vars => GroupInv'
<1> SUFFICES ASSUME TypeOK, PipeInv, GroupInv, [Next]_vars PROVE GroupInv'
  OBVIOUS
<1> USE DEF clientVars, serverVars, workerVars
<1>1. cpc # "http" => answer = NoAnswer
  BY DEF TypeOK
<1>2. ASSUME ClientStart \/ BeginExit \/ ExitUnregistered \/ ClientKill \/ ClientJoinTimeout
      PROVE  GroupInv'
  <2>2. Stages'
    BY <1>2 DEF GroupInv, Stages, ClientStart, BeginExit, ExitUnregistered, ClientKill,
                ClientJoinTimeout
  <2>3. FailedSends'
    BY <1>2 DEF FailedSends, ClientStart, BeginExit, ExitUnregistered, ClientKill,
                ClientJoinTimeout
  <2>4. Working' => Working /\ cgroup' = cgroup /\ cpc \notin {"http", "bcast"}
    BY <1>2 DEF GroupInv, Stages, Working, ClientStart, BeginExit, ExitUnregistered,
                ClientKill, ClientJoinTimeout
  <2>5. Working' /\ NoneDead => \A w \in Workers : Gone("update", w)
    BY <2>4 DEF GroupInv, UpdatesInv
  <2>6. UNCHANGED <<http, chan, wk, comm>>
    BY <1>2 DEF ClientStart, BeginExit, ExitUnregistered, ClientKill, ClientJoinTimeout
  <2>7. QED
    BY <2>2, <2>3, <2>4, <2>5, <2>6, GroupStill
<1>3. CASE PostInit
  BY <1>1, <1>3, GroupPost DEF PostInit, Ops, FireAndForgetOps
<1>4. CASE PostUpdate
  BY <1>1, <1>4, GroupPost DEF PostUpdate, Ops, FireAndForgetOps
<1>5. CASE PostReset
  BY <1>1, <1>5, GroupPost DEF PostReset, Ops, CallOps
<1>6. ASSUME NEW n \in 0 .. MaxPrompts, PostInfer(n) PROVE GroupInv'
  BY <1>1, <1>6, GroupPost DEF PostInfer, Ops, CallOps
<1>7. CASE PostClose
  BY <1>1, <1>7, GroupPost DEF PostClose, Ops, FireAndForgetOps
<1>8. ASSUME NEW req \in http, HandleFireAndForget(req) PROVE GroupInv'
  <2>1. FailedSends'
    BY <1>8, NoneDeadFact
       DEF HandleFireAndForget, GroupInv, FailedSends, Respond, Response, NoneDead, Alive
  <2>2. QED
    BY <1>8, <2>1, GroupSend DEF HandleFireAndForget
<1>9. ASSUME NEW req \in http, HandleCall(req) PROVE GroupInv'
  <2>1. FailedSends'
    BY <1>9, NoneDeadFact
       DEF HandleCall, GroupInv, FailedSends, Respond, Response, NoneDead, Alive
  <2>2. QED
    BY <1>9, <2>1, GroupSend DEF HandleCall
<1>10. ASSUME Recv \/ RecvEOF \/ Finish PROVE GroupInv'
  <2>1. UNCHANGED <<http, chan, wk, comm, cpc, creq, cgroup>>
    BY <1>10 DEF Recv, RecvEOF, Finish
  <2>2. Stages' /\ (Working' <=> Working)
    BY <2>1 DEF GroupInv, Stages, Working
  <2>3. NoneDead' <=> NoneDead
    BY <2>1 DEF NoneDead, Alive
  <2>4. FailedSends'
    <3>1. CASE Recv
      BY <2>1, <2>3, <3>1 DEF Recv, GroupInv, FailedSends
    <3>2. CASE RecvEOF
      <4>1. ~NoneDead
        BY <3>2 DEF RecvEOF, NoneDead, Alive, NextConnection, Workers, TypeOK
      <4>2. QED
        BY <2>3, <4>1 DEF FailedSends
    <3>3. CASE Finish
      <4>1. answer' # answer => cpc = "http" /\ creq.id = handler.id /\ handler.op \in CallOps
        BY <3>3 DEF Finish, Respond, Receiving, CallOps
      <4>2. answer' # answer => creq.op \in CallOps
        BY <4>1, OwnRequest DEF Receiving, CallOps
      <4>3. QED
        BY <2>1, <2>3, <4>2 DEF GroupInv, FailedSends, CallOps, FireAndForgetOps
    <3>4. QED
      BY <1>10, <3>1, <3>2, <3>3
  <2>5. Working /\ NoneDead /\ (\E w \in Workers : ~Gone("update", w)) =>
          cpc \in {"http", "bcast"}
    BY DEF GroupInv, UpdatesInv
  <2>6. QED
    BY <2>1, <2>2, <2>4, <2>5, GroupStill
<1>11. ASSUME NEW w \in Workers,
              WorkerReady(w) \/ TakeInit(w) \/ TakeUpdate(w) \/ Load(w) \/ TakeReset(w)
              \/ TakeInfer(w) \/ WorkerJoinTimeout(w) \/ WorkerDie(w)
       PROVE  GroupInv'
  <2>1. UNCHANGED <<cpc, creq, cgroup, http, comm, answer>>
    BY <1>11 DEF WorkerReady, TakeInit, TakeUpdate, Load, TakeReset, TakeInfer,
                 WorkerJoinTimeout, WorkerDie
  <2>2. /\ \/ chan' = chan /\ wk[w] # "load"
           \/ chan' = [chan EXCEPT ![w] = <<>>]
           \/ chan[w] # <<>> /\ chan' = [chan EXCEPT ![w] = Tail(@)]
        /\ \A v \in Workers \ {w} : wk'[v] = wk[v]
        /\ wk[w] = "dead" => wk'[w] = "dead"
    BY <1>11 DEF WorkerReady, TakeInit, TakeUpdate, Load, TakeReset, TakeInfer,
                 WorkerJoinTimeout, WorkerDie, Taking, Done, TypeOK
  <2>3. \A v \in Workers \ {w} : chan'[v] = chan[v]
    BY <2>2 DEF TypeOK
  <2>4. \/ chan'[w] = chan[w] /\ wk[w] # "load"
        \/ chan'[w] = <<>>
        \/ chan[w] # <<>> /\ chan'[w] = Tail(chan[w])
    BY <2>2 DEF TypeOK
  <2>5. AtHand'
    <3>1. /\ wk'[w] = "join" => comm[w] = 0
          /\ wk'[w] \in {"bcast", "load"} => chan'[w] = chan[w] /\ chan[w][1].op = "update"
          /\ wk'[w] = "dead" => chan'[w] = <<>>
      <4>1. CASE WorkerReady(w) \/ Load(w) \/ WorkerJoinTimeout(w) \/ WorkerDie(w)
        BY <4>1 DEF WorkerReady, Load, WorkerJoinTimeout, WorkerDie, TypeOK
      <4>2. CASE TakeReset(w) \/ TakeInfer(w)
        BY <4>2 DEF TakeReset, TakeInfer, Taking
      <4>3. CASE TakeInit(w) \/ TakeUpdate(w)
        BY <4>3, TailFacts DEF TakeInit, TakeUpdate, Taking, TypeOK
      <4>4. QED
        BY <1>11, <4>1, <4>2, <4>3
    <3>2. QED
      BY <2>1, <2>2, <2>3, <3>1 DEF GroupInv, AtHand
  <2>6. QED
    BY <2>1, <2>2, <2>3, <2>4, <2>5, GroupShrink
<1>12. CASE UNCHANGED vars
  <2>1. Stages' /\ FailedSends' /\ (Working' <=> Working)
    BY <1>12 DEF vars, GroupInv, Stages, FailedSends, NoneDead, Alive, Working
  <2>2. Working /\ NoneDead /\ (\E w \in Workers : ~Gone("update", w)) =>
          cpc \in {"http", "bcast"}
    BY DEF GroupInv, UpdatesInv
  <2>3. QED
    BY <1>12, <2>1, <2>2, GroupStill DEF vars
<1>13. QED
  BY <1>2, <1>3, <1>4, <1>5, <1>6, <1>7, <1>8, <1>9, <1>10, <1>11, <1>12,
     GroupReceive, GroupClose, GroupMeet, GroupBroadcast
     DEF Next, Trainer, ClientStep, Server, Worker, Group, Fault

LEMMA GroupCorrect == Spec => []GroupInv
<1>1. TypeOK /\ PipeInv /\ GroupInv /\ [Next]_vars => GroupInv'
  BY GroupStep
<1>2. QED
  BY <1>1, GroupInit, TypeCorrect, PipeCorrect, PTL DEF Spec

\* The workers and a trainer that works with its NCCL group agree on the group, whatever
\* earlier trainers have left in the server and in the pipes (init_communicator,
\* close_communicator of rollout.py and vllm_client.py).
THEOREM GroupsAgree == Spec => []GroupAgreement
<1>1. GroupInv => GroupAgreement
  BY DEF GroupInv, ClosesInv, GroupAgreement, Working, Alive
<1>2. QED
  BY <1>1, GroupCorrect, PTL

\* A broadcast that goes through carries the tensor of the header every worker is at
\* (update_named_param and its relatives, client.update_* and the NCCL broadcast).
THEOREM HeadersMatch == Spec => []HeaderMatch
<1>1. TypeOK /\ GroupInv => HeaderMatch
  <2> SUFFICES ASSUME TypeOK, GroupInv, cpc = "bcast", \A w \in Workers : wk[w] = "bcast",
                      NEW w \in Workers
               PROVE  Head(chan[w]).id = creq.id
    BY DEF HeaderMatch
  <2>1. chan[w] \in Seq(Commands) /\ chan[w] # <<>> /\ 1 \in 1 .. Len(chan[w])
    BY TailFacts DEF TypeOK
  <2>2. Pending("update", w, 1)
    BY DEF GroupInv, AtHand, Pending
  <2>3. NoneDead /\ Working
    BY DEF NoneDead, Alive, Working, GroupInv, Stages
  <2>4. chan[w][1].id = creq.id
    BY <2>1, <2>2, <2>3 DEF GroupInv, UpdatesInv, Gone
  <2>5. QED
    BY <2>1, <2>4
<1>2. QED
  BY <1>1, GroupCorrect, TypeCorrect, PTL

-----------------------------------------------------------------------------
(* The prompts of a rollout.                                               *)

\* What belongs to the rollout being handled is on its way in the pieces it was cut
\* into: in the command of every worker, in its result, and in what has been read.
PromptsSent ==
    handler.op = "infer" =>
      \A w \in Workers :
        /\ \A k \in 1 .. Len(chan[w]) :
             chan[w][k].op = "infer" => chan[w][k].prompts = PromptsFor(handler.n, DP, w)
        /\ repl[w] # <<>> => repl[w][1].prompts = PromptsFor(handler.n, DP, w)
        /\ w <= Len(got) => got[w].prompts = PromptsFor(handler.n, DP, w)

AnswerWhole ==
    RolloutAnswered =>
      /\ answer.outputs = Slice(0, creq.n)
      /\ DOMAIN answer.by = Kept(creq.n, DP)

PromptsInv == PromptsSent /\ AnswerWhole

LEMMA PromptsInit == Init => PromptsInv
  BY DEF Init, PromptsInv, PromptsSent, AnswerWhole, RolloutAnswered, Booting

\* A step that takes commands from pipes and puts nothing into them.
LEMMA PromptsShrink ==
    ASSUME TypeOK, PromptsSent, UNCHANGED <<handler, got, repl>>,
           \A w \in Workers : \/ chan'[w] = chan[w]
                              \/ chan'[w] = <<>>
                              \/ chan[w] # <<>> /\ chan'[w] = Tail(chan[w])
    PROVE  PromptsSent'
<1> SUFFICES ASSUME handler.op = "infer", NEW w \in Workers, NEW k \in 1 .. Len(chan'[w]),
                    chan'[w][k].op = "infer"
             PROVE  chan'[w][k].prompts = PromptsFor(handler.n, DP, w)
  BY DEF PromptsSent
<1>1. CASE chan'[w] = chan[w]
  BY <1>1 DEF PromptsSent
<1>2. CASE chan'[w] = <<>>
  BY <1>2
<1>3. CASE chan[w] # <<>> /\ chan'[w] = Tail(chan[w])
  <2>1. k + 1 \in 1 .. Len(chan[w]) /\ chan'[w][k] = chan[w][k + 1]
    BY <1>3, TailFacts DEF TypeOK
  <2>2. QED
    BY <2>1 DEF PromptsSent
<1>4. QED
  BY <1>1, <1>2, <1>3

\* A call is sent to pipes that hold no call, and finds no result.
LEMMA PromptsCall ==
    ASSUME TypeOK, PipeInv, NEW req \in http, HandleCall(req)
    PROVE  PromptsSent'
<1> USE DEF HandleCall
<1>1. req \in Request /\ req.op \in CallOps
  BY DEF TypeOK
<1>2. CASE Dead # {}
  BY <1>2 DEF PromptsSent, Idle
<1>3. CASE Dead = {}
  <2>1. NoneDead /\ handler' = req /\ got' = <<>>
    BY <1>3, NoneDeadFact
  <2>2. \A w \in Workers : repl'[w] = <<>> /\ ~(w <= Len(got'))
    BY <2>1, IdlePipes DEF Workers
  <2> SUFFICES ASSUME req.op = "infer", NEW w \in Workers, NEW k \in 1 .. Len(chan'[w]),
                      chan'[w][k].op = "infer"
               PROVE  chan'[w][k].prompts = PromptsFor(req.n, DP, w)
    BY <2>1, <2>2 DEF PromptsSent
  <2>3. k = Len(chan[w]) + 1
    BY <1>1, <2>1, SendAllFacts, IdlePipes DEF CallOps
  <2>4. chan'[w] = Append(chan[w], Command(req, w))
    BY <2>1, NoneDeadFact DEF SendAll, TypeOK
  <2>5. chan[w] \in Seq(Commands) /\ Command(req, w) \in Commands
    BY <1>1, CommandType DEF TypeOK
  <2>6. chan'[w][k] = Command(req, w)
    BY <2>3, <2>4, <2>5, AppendFacts
  <2>7. QED
    BY <2>6 DEF Command
<1>4. QED
  BY <1>2, <1>3

LEMMA PromptsRecv ==
    ASSUME TypeOK, PipeInv, PromptsSent, Recv
    PROVE  PromptsSent'
<1> USE DEF Recv, clientVars
<1>1. PICK v \in Workers : v = NextConnection /\ v = Len(got) + 1 /\ Len(got) \in Nat
  BY DEF NextConnection, TypeOK, Workers
<1>2. /\ repl[v] \in Seq(Results) /\ repl[v] # <<>> /\ Len(repl[v]) <= 1
      /\ got \in Seq(Results)
  BY <1>1 DEF TypeOK, PipeInv, ResultsInPipes
<1>3. /\ Len(got') = Len(got) + 1
      /\ got'[v] = repl[v][1]
      /\ \A k \in 1 .. Len(got) : got'[k] = got[k]
  BY <1>1, <1>2, AppendFacts
<1>4. repl'[v] = <<>> /\ \A w \in Workers \ {v} : repl'[w] = repl[w]
  <2>1. Tail(repl[v]) = <<>>
    BY <1>2
  <2>2. QED
    BY <1>1, <2>1 DEF TypeOK
<1> SUFFICES ASSUME handler.op = "infer", NEW w \in Workers
             PROVE  /\ \A k \in 1 .. Len(chan[w]) : chan[w][k].op = "infer" =>
                         chan[w][k].prompts = PromptsFor(handler.n, DP, w)
                    /\ repl'[w] # <<>> => repl'[w][1].prompts = PromptsFor(handler.n, DP, w)
                    /\ w <= Len(got') => got'[w].prompts = PromptsFor(handler.n, DP, w)
  BY DEF PromptsSent
<1>5. CASE w = v
  BY <1>2, <1>3, <1>4, <1>5 DEF PromptsSent
<1>6. CASE w # v
  <2>1. w <= Len(got') => w \in 1 .. Len(got)
    BY <1>1, <1>3, <1>6 DEF Workers
  <2>2. repl'[w] = repl[w]
    BY <1>4, <1>6
  <2>3. w <= Len(got') => got'[w] = got[w] /\ w <= Len(got)
    BY <1>1, <1>3, <2>1
  <2>4. /\ \A k \in 1 .. Len(chan[w]) : chan[w][k].op = "infer" =>
              chan[w][k].prompts = PromptsFor(handler.n, DP, w)
        /\ repl[w] # <<>> => repl[w][1].prompts = PromptsFor(handler.n, DP, w)
        /\ w <= Len(got) => got[w].prompts = PromptsFor(handler.n, DP, w)
    BY DEF PromptsSent
  <2>5. QED
    BY <2>2, <2>3, <2>4
<1>7. QED
  BY <1>5, <1>6

\* A worker turns the call at the head of its pipe into a result for the same prompts.
LEMMA PromptsAnswer ==
    ASSUME TypeOK, PipeInv, PromptsSent, NEW w \in Workers, NEW ok \in BOOLEAN,
           chan[w] # <<>>, Head(chan[w]).op \in CallOps, Done(w),
           repl' = [repl EXCEPT ![w] = Append(@, Result(w, ok))],
           UNCHANGED <<handler, got>>
    PROVE  PromptsSent'
<1> SUFFICES ASSUME handler.op = "infer" PROVE PromptsSent'
  BY DEF PromptsSent
<1>1. chan[w] \in Seq(Commands) /\ 1 \in 1 .. Len(chan[w]) /\ Head(chan[w]) = chan[w][1]
  BY TailFacts DEF TypeOK
<1>2. chan[w][1].op = "infer" /\ repl[w] = <<>>
  BY <1>1 DEF PipeInv, CallsInPipes, Receiving, CallOps
<1>3. chan[w][1].prompts = PromptsFor(handler.n, DP, w)
  BY <1>1, <1>2 DEF PromptsSent
<1>4. repl'[w] = <<Result(w, ok)>> /\ \A u \in Workers \ {w} : repl'[u] = repl[u]
  BY <1>2 DEF TypeOK
<1>5. repl'[w][1].prompts = PromptsFor(handler.n, DP, w)
  BY <1>1, <1>3, <1>4 DEF Result
<1>6. \A u \in Workers : repl'[u] # <<>> => repl'[u][1].prompts = PromptsFor(handler.n, DP, u)
  BY <1>4, <1>5 DEF PromptsSent
<1>7. ASSUME NEW u \in Workers, NEW k \in 1 .. Len(chan'[u]), chan'[u][k].op = "infer"
      PROVE  chan'[u][k].prompts = PromptsFor(handler.n, DP, u)
  <2>1. CASE u = w
    <3>1. chan'[w] = Tail(chan[w])
      BY DEF Done, TypeOK
    <3>2. k + 1 \in 1 .. Len(chan[w]) /\ chan'[w][k] = chan[w][k + 1]
      BY <1>1, <1>7, <2>1, <3>1, TailFacts
    <3>3. QED
      BY <1>7, <2>1, <3>2 DEF PromptsSent
  <2>2. CASE u # w
    <3>1. chan'[u] = chan[u]
      BY <2>2 DEF Done, TypeOK
    <3>2. QED
      BY <1>7, <3>1 DEF PromptsSent
  <2>3. QED
    BY <2>1, <2>2
<1>8. QED
  BY <1>6, <1>7 DEF PromptsSent

\* infer puts together what the workers answered to the pieces of the batch.
LEMMA PromptsFinish ==
    ASSUME TypeOK, PipeInv, PromptsInv, Finish
    PROVE  AnswerWhole'
<1> USE DEF Finish, workerVars
<1>1. CASE answer' = answer
  BY <1>1 DEF PromptsInv, AnswerWhole, RolloutAnswered
<1>2. CASE answer' # answer
  <2>1. handler = creq /\ handler.op # "boot"
    <3>1. handler.op # "boot" /\ creq.id = handler.id
      BY <1>2 DEF Respond, Receiving, CallOps
    <3>2. QED
      BY <3>1, OwnRequest
  <2> SUFFICES ASSUME RolloutAnswered' PROVE AnswerWhole'
    BY DEF AnswerWhole
  <2>2. handler.op = "infer" /\ cpc = "http"
    BY <2>1 DEF RolloutAnswered
  <2>3. answer' = InferResponse
    BY <1>2, <2>2 DEF Respond
  <2> DEFINE outs == [w \in Workers |-> got[w].prompts]
  <2>4. /\ answer'.by = [w \in Kept(handler.n, DP) |-> got[w]]
        /\ answer'.outputs = Assemble(handler.n, DP, outs)
    BY <2>3 DEF InferResponse, Response, RolloutAnswered
  <2>5. \A w \in Workers : outs[w] = PromptsFor(handler.n, DP, w)
    BY <2>2 DEF PromptsInv, PromptsSent, Workers
  <2>6. handler.n \in Nat /\ \A w \in Kept(handler.n, DP) : w \in Workers
    BY DEF TypeOK, Kept, Workers
  <2> HIDE DEF outs
  <2>7. Assemble(handler.n, DP, outs) = Slice(0, handler.n)
    BY <2>5, <2>6, AssembleWhole, DPAssumption
  <2>8. QED
    BY <2>1, <2>4, <2>7 DEF AnswerWhole
<1>3. QED
  BY <1>1, <1>2

LEMMA PromptsServer ==
    ASSUME TypeOK, PipeInv, PromptsInv, Server
    PROVE  PromptsInv'
<1> USE DEF workerVars, clientVars
<1>1. UNCHANGED <<cpc, creq>>
  BY DEF Server, HandleFireAndForget, HandleCall, Recv, RecvEOF, Finish
<1>2. ASSUME answer' = answer \/ answer'.st # "ok" \/ creq.op # "infer" PROVE AnswerWhole'
  <2>1. CASE answer' = answer
    BY <1>1, <2>1 DEF PromptsInv, AnswerWhole, RolloutAnswered
  <2>2. QED
    BY <1>1, <1>2, <2>1 DEF AnswerWhole, RolloutAnswered
<1>3. ASSUME NEW req \in http, HandleFireAndForget(req) PROVE PromptsInv'
  <2>1. PromptsSent'
    BY <1>3 DEF HandleFireAndForget, PromptsSent, Idle
  <2>2. answer' = answer \/ creq.op # "infer"
    BY <1>3, OwnRequest DEF HandleFireAndForget, Respond, FireAndForgetOps
  <2>3. QED
    BY <1>2, <2>1, <2>2 DEF PromptsInv
<1>4. ASSUME NEW req \in http, HandleCall(req) PROVE PromptsInv'
  <2>1. answer' = answer \/ answer'.st # "ok"
    BY <1>4 DEF HandleCall, Respond, Response
  <2>2. QED
    BY <1>2, <1>4, <2>1, PromptsCall DEF PromptsInv
<1>5. CASE RecvEOF
  <2>1. PromptsSent'
    BY <1>5 DEF RecvEOF, PromptsSent, Idle, Failed
  <2>2. answer' = answer \/ answer'.st # "ok"
    BY <1>5 DEF RecvEOF, Respond, Response
  <2>3. QED
    BY <1>2, <2>1, <2>2 DEF PromptsInv
<1>6. CASE Recv
  <2>1. answer' = answer
    BY <1>6 DEF Recv
  <2>2. QED
    BY <1>2, <1>6, <2>1, PromptsRecv DEF PromptsInv
<1>7. CASE Finish
  <2>1. PromptsSent'
    BY <1>7 DEF Finish, PromptsSent, Idle
  <2>2. QED
    BY <1>7, <2>1, PromptsFinish DEF PromptsInv
<1>8. QED
  BY <1>3, <1>4, <1>5, <1>6, <1>7 DEF Server

LEMMA PromptsStep == TypeOK /\ PipeInv /\ PromptsInv /\ [Next]_vars => PromptsInv'
<1> SUFFICES ASSUME TypeOK, PipeInv, PromptsInv, [Next]_vars PROVE PromptsInv'
  OBVIOUS
<1> USE DEF clientVars, serverVars, workerVars
<1>1. CASE Server
  BY <1>1, PromptsServer
<1>2. ASSUME UNCHANGED <<handler, got, repl, chan>> PROVE PromptsSent'
  BY <1>2 DEF PromptsInv, PromptsSent
<1>3. ASSUME UNCHANGED <<handler, got, repl>>,
             \A w \in Workers : \/ chan'[w] = chan[w]
                                \/ chan'[w] = <<>>
                                \/ chan[w] # <<>> /\ chan'[w] = Tail(chan[w])
      PROVE  PromptsSent'
  BY <1>3, PromptsShrink DEF PromptsInv
<1>4. ASSUME UNCHANGED <<cpc, creq, answer>> PROVE AnswerWhole'
  BY <1>4 DEF PromptsInv, AnswerWhole, RolloutAnswered
<1>5. CASE Trainer \/ ClientKill \/ ClientJoinTimeout
  <2>1. UNCHANGED <<handler, got, repl, chan>>
    BY <1>5 DEF Trainer, ClientStep, ClientStart, PostInit, PostReset, PostClose,
                ExitUnregistered, Receive, PostUpdate, BeginExit, PostInfer, Post,
                ClientKill, ClientJoinTimeout
  <2>2. cpc' # "http" \/ answer'.st # "ok"
    <3>1. ASSUME NEW op, NEW n, Post(op, n), cpc # "http" PROVE answer'.st # "ok"
      BY <3>1, OwnRequest DEF Post, NoAnswer
    <3>2. CASE Receive
      BY <3>2 DEF Receive, After, TypeOK, Request, Ops, CallOps, FireAndForgetOps
    <3>3. QED
      BY <1>5, <3>1, <3>2
         DEF Trainer, ClientStep, ClientStart, PostInit, PostReset, PostClose,
             ExitUnregistered, PostUpdate, BeginExit, PostInfer, ClientKill, ClientJoinTimeout
  <2>3. QED
    BY <1>2, <2>1, <2>2 DEF PromptsInv, AnswerWhole, RolloutAnswered
<1>6. CASE GroupForm
  <2>1. \A w \in Workers : chan[w] # <<>> /\ chan'[w] = Tail(chan[w])
    BY <1>6 DEF GroupForm, TypeOK
  <2>2. UNCHANGED <<handler, got, repl>> /\ cpc' # "http"
    BY <1>6 DEF GroupForm
  <2>3. QED
    BY <1>3, <2>1, <2>2 DEF PromptsInv, AnswerWhole, RolloutAnswered
<1>7. CASE Broadcast
  <2>1. UNCHANGED <<handler, got, repl, chan>> /\ cpc' # "http"
    BY <1>7 DEF Broadcast
  <2>2. QED
    BY <1>2, <2>1 DEF PromptsInv, AnswerWhole, RolloutAnswered
<1>8. ASSUME NEW w \in Workers,
             \/ WorkerJoinTimeout(w) \/ TakeInit(w) \/ TakeUpdate(w) \/ TakeClose(w)
             \/ WorkerDie(w) \/ Load(w)
      PROVE  PromptsInv'
  <2>1. UNCHANGED <<handler, got, repl, cpc, creq, answer>>
    BY <1>8 DEF WorkerJoinTimeout, TakeInit, TakeUpdate, TakeClose, WorkerDie, Load
  <2>2. UNCHANGED chan \/ chan' = [chan EXCEPT ![w] = <<>>] \/ (chan[w] # <<>> /\ Done(w))
    BY <1>8 DEF WorkerJoinTimeout, TakeInit, TakeUpdate, TakeClose, WorkerDie, Load, Taking,
                Done, TypeOK
  <2>3. \A v \in Workers : \/ chan'[v] = chan[v]
                           \/ chan'[v] = <<>>
                           \/ chan[v] # <<>> /\ chan'[v] = Tail(chan[v])
    BY <2>2 DEF Done, TypeOK
  <2>4. QED
    BY <1>3, <1>4, <2>1, <2>3 DEF PromptsInv
<1>9. ASSUME NEW w \in Workers, WorkerReady(w) PROVE PromptsInv'
  <2>1. handler'.op # "infer" /\ UNCHANGED <<cpc, creq, answer>>
    BY <1>9 DEF WorkerReady, PipeInv, BootPipes
  <2>2. QED
    BY <1>4, <2>1 DEF PromptsInv, PromptsSent
<1>10. ASSUME NEW w \in Workers, TakeReset(w) \/ TakeInfer(w) PROVE PromptsInv'
  <2>1. UNCHANGED <<handler, got, cpc, creq, answer>> /\ chan[w] # <<>> /\ Done(w)
        /\ Head(chan[w]).op \in CallOps
    BY <1>10 DEF TakeReset, TakeInfer, Taking, CallOps
  <2>2. PICK ok \in BOOLEAN : repl' = [repl EXCEPT ![w] = Append(@, Result(w, ok))]
    BY <1>10 DEF TakeReset, TakeInfer
  <2>3. PromptsSent'
    BY <2>1, <2>2, PromptsAnswer DEF PromptsInv
  <2>4. QED
    BY <1>4, <2>1, <2>3 DEF PromptsInv
<1>11. CASE UNCHANGED vars
  BY <1>2, <1>4, <1>11 DEF vars, PromptsInv
<1>12. QED
  BY <1>1, <1>5, <1>6, <1>7, <1>8, <1>9, <1>10, <1>11
     DEF Next, Worker, Group, Fault

LEMMA PromptsCorrect == Spec => []PromptsInv
  BY PromptsInit, PromptsStep, TypeCorrect, PipeCorrect, PTL DEF Spec

\* A rollout that is answered has every prompt once, in the order of the request,
\* whatever the number of workers; placeholders leave no trace.
THEOREM RolloutsInOrder == Spec => []InOrder
<1>1. TypeOK /\ PromptsInv => InOrder
  <2> SUFFICES ASSUME TypeOK, PromptsInv, RolloutAnswered
               PROVE  answer.outputs = [i \in 1 .. creq.n |-> i]
    BY DEF InOrder
  <2>1. answer.outputs = Slice(0, creq.n) /\ creq.n \in Nat
    BY DEF PromptsInv, AnswerWhole, TypeOK, Request
  <2>2. Slice(0, creq.n) = [i \in 1 .. creq.n |-> i]
    BY <2>1 DEF Slice
  <2>3. QED
    BY <2>1, <2>2
<1>2. QED
  BY <1>1, PromptsCorrect, TypeCorrect, PTL

-----------------------------------------------------------------------------
(* The abstract service.                                                   *)

\* A request is served once: when it is being handled it is not waiting any more,
\* and when it is answered it is neither.
ServedOnce ==
    /\ handler = creq => creq \notin http
    /\ answer # NoAnswer => creq \notin http /\ handler # creq

\* Updates are published in the order of their requests.
Published ==
    /\ pushed <= calls
    /\ cpc \in {"http", "bcast"} => creq.id > pushed

ServiceInv == ServedOnce /\ Published

\* What the service sees of a state.
Stage == <<pushed, IF Asking THEN creq.n ELSE -1, ServiceReply>>

LEMMA ServiceInit == Init => ServiceInv
  BY DEF Init, ServiceInv, ServedOnce, Published, NoRequest, Booting

LEMMA ServicePost ==
    ASSUME TypeOK, PipeInv, ServiceInv, NEW op \in Ops, NEW n \in Nat, Post(op, n),
           cpc # "http"
    PROVE  ServiceInv'
<1> USE DEF Post
<1>1. answer' = NoAnswer /\ handler' # creq'
  BY OwnRequest
<1>2. creq'.id = calls + 1 /\ calls' = calls + 1 /\ pushed' = pushed
  BY DEF Post
<1>3. pushed \in Nat /\ calls \in Nat /\ pushed <= calls
  BY DEF TypeOK, ServiceInv, Published
<1>4. pushed' <= calls' /\ creq'.id > pushed'
  BY <1>2, <1>3
<1>5. QED
  BY <1>1, <1>4 DEF ServiceInv, ServedOnce, Published

LEMMA ServiceServer ==
    ASSUME TypeOK, PipeInv, ServiceInv, Server
    PROVE  ServiceInv'
<1> USE DEF workerVars, clientVars
<1>1. UNCHANGED <<cpc, creq, pushed, calls>>
  BY DEF Server, HandleFireAndForget, HandleCall, Recv, RecvEOF, Finish
<1>2. Published'
  BY <1>1 DEF ServiceInv, Published
<1>3. creq \in Request /\ Idle # creq /\ Failed # creq
  BY DEF TypeOK, Request, Idle, Failed, Ops, CallOps, FireAndForgetOps
<1>4. ASSUME NEW req \in http, HandleFireAndForget(req) PROVE ServedOnce'
  <2>1. answer' # answer => req = creq
    BY <1>4, OwnRequest DEF HandleFireAndForget, Respond
  <2>2. handler' = handler /\ handler = Idle /\ http' = http \ {req}
    BY <1>4 DEF HandleFireAndForget
  <2>3. QED
    BY <1>1, <1>3, <2>1, <2>2 DEF ServiceInv, ServedOnce
<1>5. ASSUME NEW req \in http, HandleCall(req) PROVE ServedOnce'
  <2>1. answer' # answer => req = creq /\ handler' = handler
    BY <1>5, OwnRequest DEF HandleCall, Respond
  <2>2. handler = Idle /\ http' = http \ {req} /\ handler' \in {handler, req}
    BY <1>5 DEF HandleCall
  <2>3. handler' = req => answer' = answer
    BY <1>5, <2>2 DEF HandleCall, Idle, Request, TypeOK, CallOps
  <2>4. QED
    BY <1>1, <1>3, <2>1, <2>2, <2>3 DEF ServiceInv, ServedOnce
<1>6. CASE Recv
  <2>1. UNCHANGED <<answer, http, handler>>
    BY <1>6 DEF Recv
  <2>2. QED
    BY <1>1, <1>2, <2>1 DEF ServiceInv, ServedOnce
<1>7. CASE RecvEOF \/ Finish
  <2>1. answer' # answer => handler = creq
    BY <1>7, OwnRequest DEF RecvEOF, Finish, Respond, Receiving, CallOps
  <2>2. handler' # creq /\ http' = http
    BY <1>3, <1>7 DEF RecvEOF, Finish
  <2>3. answer' # NoAnswer => creq \notin http
    BY <2>1 DEF ServiceInv, ServedOnce
  <2>4. QED
    BY <1>1, <1>2, <2>2, <2>3 DEF ServiceInv, ServedOnce
<1>8. QED
  BY <1>2, <1>4, <1>5, <1>6, <1>7 DEF Server, ServiceInv

LEMMA ServiceStep == TypeOK /\ PipeInv /\ ServiceInv /\ [Next]_vars => ServiceInv'
<1> SUFFICES ASSUME TypeOK, PipeInv, ServiceInv, [Next]_vars PROVE ServiceInv'
  OBVIOUS
<1> USE DEF clientVars, serverVars, workerVars
<1>1. CASE Server
  BY <1>1, ServiceServer
<1>2. CASE PostInit \/ PostUpdate \/ PostReset \/ PostClose \/ \E n \in 0 .. MaxPrompts : PostInfer(n)
  <2>1. PICK op \in Ops, n \in Nat : Post(op, n)
    BY <1>2, BoundsAssumption
       DEF PostInit, PostUpdate, PostReset, PostClose, PostInfer, Ops, CallOps, FireAndForgetOps
  <2>2. cpc # "http"
    BY <1>2 DEF PostInit, PostUpdate, PostReset, PostClose, PostInfer
  <2>3. QED
    BY <2>1, <2>2, ServicePost
<1>3. ASSUME UNCHANGED <<handler, http, creq, pushed, calls>>, answer' \in {answer, NoAnswer},
             cpc' \in {"http", "bcast"} => cpc \in {"http", "bcast"}
      PROVE  ServiceInv'
  BY <1>3 DEF ServiceInv, ServedOnce, Published
<1>4. CASE ClientStart
  <2>1. handler' # creq' /\ creq' \notin http'
    BY <1>4 DEF ClientStart, Idle, NoRequest, PipeInv, RequestIds
  <2>2. cpc' = "new" /\ UNCHANGED <<pushed, calls>>
    BY <1>4 DEF ClientStart
  <2>3. QED
    BY <2>1, <2>2 DEF ServiceInv, ServedOnce, Published
<1>5. CASE BeginExit \/ ExitUnregistered \/ Receive \/ ClientKill \/ ClientJoinTimeout \/ GroupForm
  BY <1>3, <1>5 DEF BeginExit, ExitUnregistered, Receive, ClientKill, ClientJoinTimeout, GroupForm
<1>6. CASE Broadcast
  <2>1. pushed' = creq.id /\ creq.id <= calls /\ cpc' = "idle" /\ calls' = calls
    BY <1>6 DEF Broadcast, PipeInv, RequestIds
  <2>2. UNCHANGED <<handler, http, creq, answer>>
    BY <1>6 DEF Broadcast
  <2>3. QED
    BY <2>1, <2>2 DEF ServiceInv, ServedOnce, Published
<1>7. ASSUME NEW w \in Workers, Worker(w) \/ WorkerJoinTimeout(w) \/ WorkerDie(w) PROVE ServiceInv'
  BY <1>3, <1>7 DEF Worker, WorkerReady, TakeInit, TakeUpdate, Load, TakeClose, TakeReset,
                    TakeInfer, WorkerJoinTimeout, WorkerDie
<1>8. CASE UNCHANGED vars
  BY <1>3, <1>8 DEF vars
<1>9. QED
  BY <1>1, <1>2, <1>4, <1>5, <1>6, <1>7, <1>8 DEF Next, Trainer, ClientStep, Group, Fault

LEMMA ServiceCorrect == Spec => []ServiceInv
  BY ServiceInit, ServiceStep, TypeCorrect, PipeCorrect, PTL DEF Spec

\* Without a fault of the loads none is lost.
LoadsKept == \A w \in Workers : "load" \notin lost[w]

LEMMA LoadsStep ==
    ASSUME "load" \notin Faults
    PROVE  TypeOK /\ LoadsKept /\ [Next]_vars => LoadsKept'
<1> SUFFICES ASSUME TypeOK, LoadsKept, [Next]_vars PROVE LoadsKept'
  OBVIOUS
<1> USE DEF clientVars, serverVars, workerVars
<1>1. CASE lost' = lost
  BY <1>1 DEF LoadsKept
<1>2. ASSUME NEW w \in Workers, TakeReset(w) PROVE LoadsKept'
  <2>1. lost' = lost \/ lost' = [lost EXCEPT ![w] = lost[w] \union {"reset"}]
    BY <1>2 DEF TakeReset
  <2>2. \A v \in Workers : lost'[v] = lost[v] \/ lost'[v] = lost[v] \union {"reset"}
    BY <2>1 DEF TypeOK
  <2>3. "load" # "reset"
    OBVIOUS
  <2>4. QED
    BY <2>2, <2>3 DEF LoadsKept
<1>3. ASSUME NEW w \in Workers, Load(w) PROVE LoadsKept'
  BY <1>1, <1>3 DEF Load
<1>4. CASE Trainer \/ Server \/ Group \/ ClientKill \/ ClientJoinTimeout
  BY <1>1, <1>4 DEF Trainer, ClientStep, ClientStart, PostInit, PostReset, PostClose,
                ExitUnregistered, Receive, PostUpdate, BeginExit, PostInfer, Post,
                ClientKill, ClientJoinTimeout, Group, GroupForm, Broadcast,
                Server, HandleFireAndForget, HandleCall, Recv, RecvEOF, Finish
<1>5. ASSUME NEW w \in Workers,
             \/ WorkerReady(w) \/ TakeInit(w) \/ TakeUpdate(w) \/ TakeClose(w) \/ TakeInfer(w)
             \/ WorkerJoinTimeout(w) \/ WorkerDie(w)
      PROVE  LoadsKept'
  BY <1>1, <1>5 DEF WorkerReady, TakeInit, TakeUpdate, TakeClose, TakeInfer, WorkerJoinTimeout,
                    WorkerDie
<1>6. CASE UNCHANGED vars
  BY <1>1, <1>6 DEF vars
<1>7. QED
  BY <1>2, <1>3, <1>4, <1>5, <1>6 DEF Next, Worker, Fault

LEMMA LoadsCorrect ==
    ASSUME "load" \notin Faults
    PROVE  Spec => []LoadsKept
<1>1. Init => LoadsKept
  BY DEF Init, LoadsKept
<1>2. QED
  BY <1>1, LoadsStep, TypeCorrect, PTL DEF Spec

-----------------------------------------------------------------------------
\* Every trainer waits for one thing at a time.
LEMMA StageFacts ==
    ASSUME TypeOK, PipeInv
    PROVE  /\ cpc # "http" => Stage = <<pushed, -1, [st |-> "none"]>>
           /\ ~Asking => Stage = <<pushed, -1, [st |-> "none"]>>
           /\ Asking /\ answer = NoAnswer => Stage = <<pushed, creq.n, [st |-> "none"]>>
           /\ Asking /\ answer.st # "ok" => Stage = <<pushed, creq.n, answer>>
  BY DEF Stage, Asking, ServiceReply, NoAnswer

\* What is kept of a batch is nothing only when there is nothing in it.
LEMMA KeptFacts ==
    ASSUME NEW n \in Nat
    PROVE  Kept(n, DP) = {} <=> n = 0
<1>1. CASE n = 0
  <2>1. \A w \in 0 .. DP : ChunkStart(n, DP, w) = 0
    BY <1>1, DPAssumption DEF ChunkStart, Least
  <2>2. Slice(0, 0) = <<>>
    BY SliceFacts, 0 \in Nat, 0 <= 0
  <2>4. ASSUME NEW w \in 1 .. DP PROVE Chunk(n, DP, w) = <<>>
    <3>1. w - 1 \in 0 .. DP /\ w \in 0 .. DP
      BY DPAssumption
    <3>2. ChunkStart(n, DP, w - 1) = 0 /\ ChunkStart(n, DP, w) = 0
      BY <2>1, <3>1, Zenon
    <3>3. QED
      BY <2>2, <3>2 DEF Chunk
  <2>3. QED
    BY <1>1, <2>4 DEF Kept
<1>2. CASE n # 0
  <2>1. 1 \in 1 .. DP
    BY DPAssumption
  <2>2. ChunkStart(n, DP, 0) = 0 /\ ChunkStart(n, DP, 1) \in Nat
    BY <2>1, ChunkBounds, ChunksPartition, DPAssumption
  <2>3. ChunkStart(n, DP, 1) # 0
    <3>1. n \div DP \in Nat /\ n % DP \in Nat /\ DP * (n \div DP) + (n % DP) = n
      <4>1. n % DP \in 0 .. (DP - 1) => n % DP \in Nat
        OBVIOUS
      <4>2. QED
        BY <4>1, DivMod, DPAssumption, Zenon
    <3>2. ChunkStart(n, DP, 1) = n \div DP + Least(1, n % DP)
      BY <3>1 DEF ChunkStart
    <3>3. CASE n % DP = 0
      <4>1. n \div DP # 0
        BY ONLY <1>2, <3>1, <3>3, DPAssumption, n \in Nat
      <4>2. QED
        BY <3>1, <3>2, <3>3, <4>1 DEF Least
    <3>4. CASE n % DP # 0
      BY <3>1, <3>2, <3>4 DEF Least
    <3>5. QED
      BY <3>3, <3>4
  <2>4. Chunk(n, DP, 1) # <<>>
    BY <2>2, <2>3, SliceFacts DEF Chunk
  <2>5. QED
    BY <1>2, <2>1, <2>4 DEF Kept
<1>3. QED
  BY <1>1, <1>2

-----------------------------------------------------------------------------
(* Every step is a step of the service, or none.                           *)

\* What the server answers to a rollout: a response to it is its first one, and either
\* a refusal or what the workers have generated.
LEMMA AnswerFacts ==
    ASSUME TypeOK, PipeInv, ServiceInv, Server, Asking, answer' # answer
    PROVE  /\ answer = NoAnswer
           /\ answer'.st = "ok" \/ answer' = [st |-> "error"]
<1> USE DEF workerVars, clientVars
<1>1. ASSUME NEW req \in http, HandleFireAndForget(req) PROVE FALSE
  BY <1>1, OwnRequest DEF HandleFireAndForget, Respond, Asking, FireAndForgetOps
<1>2. ASSUME NEW req \in http, HandleCall(req)
      PROVE  creq \in http /\ answer' = [st |-> "error"]
  BY <1>2, OwnRequest DEF HandleCall, Respond, Response
<1>3. CASE Recv
  BY <1>3 DEF Recv
<1>4. CASE RecvEOF
  <2>1. handler = creq /\ answer' = [st |-> "error"]
    BY <1>4, OwnRequest DEF RecvEOF, Respond, Response
  <2>2. QED
    BY <2>1 DEF ServiceInv, ServedOnce
<1>5. CASE Finish
  <2>1. handler = creq
    BY <1>5, OwnRequest DEF Finish, Respond, Receiving, CallOps
  <2>2. answer' = InferResponse
    BY <1>5, <2>1 DEF Finish, Respond, Asking
  <2>3. answer'.st = "ok" \/ answer' = [st |-> "error"]
    BY <2>2 DEF InferResponse, Response
  <2>4. QED
    BY <2>1, <2>3 DEF ServiceInv, ServedOnce
<1>6. QED
  BY <1>1, <1>2, <1>3, <1>4, <1>5 DEF Server, ServiceInv, ServedOnce

\* A rollout that is answered was generated with one version, the one pushed last.
LEMMA OneVersion ==
    ASSUME TypeOK, AnswerGood, AnswerWhole, LoadsKept, RolloutAnswered
    PROVE  ServiceReply = Service!Generated(creq.n, pushed)
<1>1. creq.n \in Nat /\ answer.outputs = Slice(0, creq.n) /\ DOMAIN answer.by = Kept(creq.n, DP)
  BY DEF TypeOK, Request, AnswerWhole
<1>2. answer.outputs = [i \in 1 .. creq.n |-> i]
  BY <1>1 DEF Slice
<1>3. \A w \in Kept(creq.n, DP) : answer.by[w].ver = pushed
  BY <1>1 DEF AnswerGood, Good, LoadsKept
<1>4. {answer.by[w].ver : w \in DOMAIN answer.by} = IF creq.n = 0 THEN {} ELSE {pushed}
  <2>1. Kept(creq.n, DP) = {} <=> creq.n = 0
    BY <1>1, KeptFacts
  <2>2. QED
    BY <1>1, <1>3, <2>1
<1>5. ServiceReply = [st |-> "ok", outputs |-> answer.outputs,
                      versions |-> {answer.by[w].ver : w \in DOMAIN answer.by}]
  BY DEF ServiceReply, RolloutAnswered, Asking
<1>6. QED
  BY <1>2, <1>4, <1>5 DEF Service!Generated

LEMMA ServerServes ==
    ASSUME TypeOK, PipeInv, ServiceInv, Server,
           TypeOK', AnswerGood', AnswerWhole', LoadsKept'
    PROVE  [Service!Next]_Stage
<1>1. UNCHANGED <<cpc, creq, pushed>>
  BY DEF Server, HandleFireAndForget, HandleCall, Recv, RecvEOF, Finish, clientVars
<1>2. CASE answer' = answer
  <2>1. Stage' = Stage
    BY <1>1, <1>2 DEF Stage, Asking, ServiceReply
  <2>2. QED
    BY <2>1
<1>3. CASE ~Asking
  <2>1. Stage' = Stage
    BY <1>1, <1>3 DEF Stage, Asking, ServiceReply
  <2>2. QED
    BY <2>1
<1>4. CASE answer' # answer /\ Asking
  <2>1. /\ answer = NoAnswer
        /\ answer'.st = "ok" \/ answer' = [st |-> "error"]
    BY <1>4, AnswerFacts
  <2>2. Asking' /\ creq' = creq /\ pushed' = pushed
    BY <1>1, <1>4 DEF Asking
  <2>3. ServiceReply = [st |-> "none"]
    BY <2>1 DEF ServiceReply, NoAnswer
  <2>4. ServiceReply' \in {Service!Generated(creq.n, pushed), [st |-> "error"]}
    <3>1. CASE answer'.st = "ok"
      <4>1. RolloutAnswered'
        BY <2>2, <3>1 DEF RolloutAnswered, Asking
      <4>2. (ServiceReply = Service!Generated(creq.n, pushed))'
        BY <4>1, OneVersion, PTL
      <4>3. QED
        BY <2>2, <4>2
    <3>2. CASE answer' = [st |-> "error"]
      BY <2>2, <3>2 DEF ServiceReply
    <3>3. QED
      BY <2>1, <3>1, <3>2
  <2>5. creq.n \in Nat
    BY DEF TypeOK, Request
  <2>6. Service!Answer
    BY <1>4, <2>2, <2>3, <2>4, <2>5
       DEF Service!Answer, Service!NoRollout, Service!Silence, Service!Refusal
  <2>7. QED
    BY <2>6 DEF Service!Next
<1>5. QED
  BY <1>2, <1>3, <1>4

\* The steps of a trainer.
LEMMA TrainerServes ==
    ASSUME TypeOK, PipeInv, ServiceInv, TypeOK',
           Trainer \/ ClientKill \/ ClientJoinTimeout \/ Group
    PROVE  [Service!Next]_Stage
<1>1. cpc # "http" => answer = NoAnswer
  BY OwnRequest
<1>2. ASSUME ~Asking, ~Asking', pushed' = pushed PROVE [Service!Next]_Stage
  <2>1. Stage' = Stage
    BY <1>2 DEF Stage, ServiceReply
  <2>2. QED
    BY <2>1
<1>3. ASSUME Asking, ~Asking', pushed' = pushed PROVE [Service!Next]_Stage
  <2>1. creq.n \in Nat
    BY DEF TypeOK, Request
  <2>2. Service!Leave
    BY <1>3, <2>1 DEF Service!Leave, Service!NoRollout, Service!Silence, ServiceReply
  <2>3. QED
    BY <2>2 DEF Service!Next
<1>4. ASSUME NEW n \in 0 .. MaxPrompts, PostInfer(n) PROVE [Service!Next]_Stage
  <2>1. Asking' /\ creq'.n = n /\ n \in Nat /\ pushed' = pushed /\ ~Asking /\ answer' = NoAnswer
    BY <1>1, <1>4 DEF PostInfer, Post, Asking
  <2>2. ServiceReply' = ServiceReply
    BY <2>1 DEF ServiceReply, NoAnswer
  <2>3. Service!Ask
    BY <2>1, <2>2 DEF Service!Ask, Service!NoRollout
  <2>4. QED
    BY <2>3 DEF Service!Next
<1>5. CASE PostInit \/ PostUpdate \/ PostReset \/ PostClose
  <2>1. ~Asking /\ ~Asking' /\ pushed' = pushed
    BY <1>5 DEF PostInit, PostUpdate, PostReset, PostClose, Post, Asking
  <2>2. QED
    BY <1>2, <2>1
<1>6. CASE Broadcast
  <2>1. ~Asking /\ ~Asking' /\ pushed' = creq.id
    BY <1>6 DEF Broadcast, Asking
  <2>2. pushed' > pushed /\ pushed' \in Nat
    BY <1>6, <2>1 DEF Broadcast, ServiceInv, Published, TypeOK
  <2>3. ServiceReply' = ServiceReply
    BY <2>1 DEF ServiceReply
  <2>4. Service!Publish
    BY <2>1, <2>2, <2>3 DEF Service!Publish, Service!NoRollout
  <2>5. QED
    BY <2>4 DEF Service!Next
<1>7. CASE Receive \/ ClientKill
  <2>1. ~Asking' /\ pushed' = pushed
    BY <1>7 DEF Receive, ClientKill, Asking, After, TypeOK, Request, Ops, CallOps, FireAndForgetOps
  <2>2. QED
    BY <1>2, <1>3, <2>1
<1>8. CASE ClientStart \/ BeginExit \/ ExitUnregistered \/ ClientJoinTimeout \/ GroupForm
  <2>1. ~Asking /\ ~Asking' /\ pushed' = pushed
    BY <1>8 DEF ClientStart, BeginExit, ExitUnregistered, ClientJoinTimeout, GroupForm, Asking
  <2>2. QED
    BY <1>2, <2>1
<1>9. QED
  BY <1>4, <1>5, <1>6, <1>7, <1>8 DEF Trainer, ClientStep, Group

LEMMA WorkersServe ==
    ASSUME UNCHANGED clientVars
    PROVE  [Service!Next]_Stage
<1>1. Stage' = Stage
  BY DEF clientVars, Stage, Asking, ServiceReply
<1>2. QED
  BY <1>1

\* Everything the refinement rests on.
ServesInv == TypeOK /\ PipeInv /\ ServiceInv /\ AnswerGood /\ AnswerWhole /\ LoadsKept

LEMMA StepServes == ServesInv /\ ServesInv' /\ [Next]_vars => [Service!Next]_Stage
<1> SUFFICES ASSUME ServesInv, ServesInv', [Next]_vars PROVE [Service!Next]_Stage
  OBVIOUS
<1>1. CASE Server
  BY <1>1, ServerServes DEF ServesInv
<1>2. CASE Trainer \/ ClientKill \/ ClientJoinTimeout \/ Group
  BY <1>2, TrainerServes DEF ServesInv
<1>3. ASSUME NEW w \in Workers, Worker(w) \/ WorkerJoinTimeout(w) \/ WorkerDie(w)
      PROVE  [Service!Next]_Stage
  <2>1. UNCHANGED clientVars
    BY <1>3 DEF Worker, WorkerReady, TakeInit, TakeUpdate, Load, TakeClose, TakeReset,
                TakeInfer, WorkerJoinTimeout, WorkerDie
  <2>2. QED
    BY <2>1, WorkersServe
<1>4. CASE UNCHANGED vars
  BY <1>4, WorkersServe DEF vars
<1>5. QED
  BY <1>1, <1>2, <1>3, <1>4 DEF Next, Fault

\* Pipes, handlers, workers, rendezvous and broadcasts together are one atomic service:
\* a rollout is refused, or answered as if all of it had been generated at one instant
\* with the weights published last, whatever workers and trainers die and whichever
\* calls raise, except a load.
THEOREM ServerImplements ==
    ASSUME "load" \notin Faults
    PROVE  Spec => ImplementsService
<1>1. Init => Service!Init
  BY DEF Init, Asking, ServiceReply, Service!Init, Service!NoRollout, Service!Silence
<1>2. ServesInv /\ ServesInv' /\ [Next]_vars => [Service!Next]_<<pushed,
        IF Asking THEN creq.n ELSE -1, ServiceReply>>
  BY StepServes DEF Stage
<1>3. IInv => AnswerGood
  BY DEF IInv, ResultsInv
<1>4. PromptsInv => AnswerWhole
  BY DEF PromptsInv
<1>5. Spec => []ServesInv
  BY <1>3, <1>4, TypeCorrect, PipeCorrect, ServiceCorrect, InvCorrect, PromptsCorrect,
     LoadsCorrect, PTL DEF ServesInv
<1>6. QED
  BY <1>1, <1>2, <1>5, PTL DEF Spec, ImplementsService, Service!Spec, Service!serviceVars

=============================================================================
