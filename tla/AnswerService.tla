---------------------------- MODULE AnswerService ----------------------------
(***************************************************************************)
(* What an inference front end promises its callers: a request that was    *)
(* put is answered once, with a result computed for it or with an error,   *)
(* and is not answered before it was put.  EngineBatching (the queue, task *)
(* pool and worker thread of TransformersEngine) and EvalBatching (the     *)
(* batch thread of the evaluation) implement it.                           *)
(***************************************************************************)
CONSTANT Requests

VARIABLE state    \* state[r]: where request r is

States == {"new", "asked", "answered", "failed"}

Init == state = [r \in Requests |-> "new"]

Ask(r) ==
    /\ state[r] = "new"
    /\ state' = [state EXCEPT ![r] = "asked"]

\* Several requests of one batch may be answered together.
Answer(S) ==
    /\ S # {}
    /\ \A r \in S : state[r] = "asked"
    /\ \E outcome \in [S -> {"answered", "failed"}] :
           state' = [r \in Requests |-> IF r \in S THEN outcome[r] ELSE state[r]]

\* The caller has read the answer and may ask again.
Renew(r) ==
    /\ state[r] \in {"answered", "failed"}
    /\ state' = [state EXCEPT ![r] = "new"]

Next == \/ \E r \in Requests : Ask(r) \/ Renew(r)
        \/ \E S \in SUBSET Requests : Answer(S)

Spec == Init /\ [][Next]_state

=============================================================================
