---------------------------- MODULE RolloutService ----------------------------
(***************************************************************************)
(* What a trainer may rely on: the rollout server as one atomic service.   *)
(*                                                                         *)
(* There is one version of the weights.  A trainer publishes a new one or  *)
(* asks for a rollout, one thing at a time.  A rollout is answered as if   *)
(* all of it had been generated at one instant with the version published  *)
(* last, prompt by prompt in the order it was asked for, or it is refused. *)
(* The trainer may go away while it waits; another one then starts over.   *)
(***************************************************************************)
EXTENDS Integers, Sequences

VARIABLES
    version,  \* the weights published last
    asked,    \* the number of prompts of the rollout asked for, or NoRollout
    reply     \* what the service says to it so far

serviceVars == <<version, asked, reply>>

NoRollout == -1
Silence == [st |-> "none"]
Refusal == [st |-> "error"]

Generated(n, v) ==
    [st |-> "ok",
     outputs |-> [i \in 1 .. n |-> i],
     versions |-> IF n = 0 THEN {} ELSE {v}]

Init == version = 0 /\ asked = NoRollout /\ reply = Silence

Publish ==
    /\ asked = NoRollout
    /\ version' \in Nat /\ version' > version
    /\ UNCHANGED <<asked, reply>>

Ask ==
    /\ asked = NoRollout
    /\ asked' \in Nat
    /\ UNCHANGED <<version, reply>>

Answer ==
    /\ asked # NoRollout /\ reply = Silence
    /\ reply' \in {Generated(asked, version), Refusal}
    /\ UNCHANGED <<version, asked>>

\* The trainer takes the reply, or is gone.
Leave ==
    /\ asked # NoRollout
    /\ asked' = NoRollout /\ reply' = Silence
    /\ UNCHANGED version

Next == Publish \/ Ask \/ Answer \/ Leave

Spec == Init /\ [][Next]_serviceVars

=============================================================================
