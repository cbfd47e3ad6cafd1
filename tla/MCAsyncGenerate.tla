--------------------------- MODULE MCAsyncGenerate ---------------------------
EXTENDS AsyncGenerate

Training(genEvery, gas, evalSteps, evalBatches) ==
    [microsteps |-> 8, genEvery |-> genEvery, gas |-> gas, evalSteps |-> evalSteps,
     evalBatches |-> evalBatches, evalOnStart |-> FALSE, sp |-> 1]

\* One generation per optimizer step, several optimizer steps per generation,
\* and several generations per optimizer step; evaluations at every, at every
\* other and at no step, with one to three batches.
MCConfigs ==
    { Training(g, a, e, b) : g \in {1, 2, 4}, a \in {1, 2, 4}, e \in {0, 1, 2, 3}, b \in 1 .. 3 }

\* --eval_on_start
EvalOnStartConfigs == { [Training(2, 2, 2, 2) EXCEPT !.evalOnStart = TRUE] }

\* --sequence_parallel_size 2
SequenceParallelConfigs == { [Training(2, 2, 0, 1) EXCEPT !.sp = 2] }

=============================================================================
