--------------------------- MODULE MCEvalBatching ---------------------------
EXTENDS EvalBatching

\* One batch size for all, smaller than the number of callers; and two models with
\* different ones, so that an item can miss the equality and a batch grows to three.
MCSizes ==
    { [c \in Callers |-> 2],
      [c \in Callers |-> IF c = CHOOSE d \in Callers : TRUE THEN 1 ELSE 2] }

\* A batch of three takes two slices.
MCMaxBatches == {2}

=============================================================================
