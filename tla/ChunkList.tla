------------------------------ MODULE ChunkList ------------------------------
(***************************************************************************)
(* How a batch of rollout requests is cut up and put together again.       *)
(*                                                                         *)
(* The client cuts the batch over its servers with a ceiling division      *)
(* (VLLMClient.infer), and each server cuts what it gets over its          *)
(* data-parallel workers as evenly as possible (chunk_list).  A worker     *)
(* whose piece is empty is handed one placeholder prompt, because vLLM     *)
(* needs every data-parallel rank to take part, and the server drops what  *)
(* that worker answers.  Requests are numbered 1..n in the caller's order  *)
(* and 0 is the placeholder; a worker answers a prompt with its number.    *)
(***************************************************************************)
EXTENDS Integers, Sequences, SequencesExt

Placeholder == 0

Least(a, b) == IF a <= b THEN a ELSE b

\* The slice lst[lo:hi] of the batch <<1, ..., n>>.
Slice(lo, hi) == [j \in 1 .. (hi - lo) |-> lo + j]

-----------------------------------------------------------------------------
(* Server side: chunk_list(lst, dp), worker w in 1..dp.                    *)

\* Where the slice of the worker with 0-based index i begins.
ChunkStart(n, dp, i) == i * (n \div dp) + Least(i, n % dp)

Chunk(n, dp, w) == Slice(ChunkStart(n, dp, w - 1), ChunkStart(n, dp, w))

\* What is sent to worker w: its slice, or one placeholder if that is empty.
PromptsFor(n, dp, w) ==
    IF Chunk(n, dp, w) = <<>> THEN <<Placeholder>> ELSE Chunk(n, dp, w)

\* Mutant of Kept: the answers to placeholder prompts are not dropped.
Kept_All(n, dp) == 1 .. dp

\* The workers whose answers the server keeps.
Kept(n, dp) == {w \in 1 .. dp : Chunk(n, dp, w) # <<>>}

\* chain.from_iterable over the kept answers, in connection order; outs[w] is worker
\* w's answer.
Assemble(n, dp, outs) ==
    FlattenSeq([w \in 1 .. dp |-> IF w \in Kept(n, dp) THEN outs[w] ELSE <<>>])

-----------------------------------------------------------------------------
(* Client side: server s in 1..servers gets lst[(s-1)*c : s*c] where c is  *)
(* the ceiling of n / servers.  Later servers may get nothing.             *)

CeilDiv(n, d) == (n + d - 1) \div d

\* Where the slice of the server with 0-based index i begins.
ServerStart(n, servers, i) == Least(i * CeilDiv(n, servers), n)

ServerChunk(n, servers, s) ==
    Slice(ServerStart(n, servers, s - 1), ServerStart(n, servers, s))

=============================================================================
