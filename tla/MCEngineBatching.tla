-------------------------- MODULE MCEngineBatching --------------------------
EXTENDS EngineBatching

Engine(maxBatch, config, streams, strict) ==
    [maxBatch |-> maxBatch, config |-> config, streams |-> streams, strict |-> strict]

OneFor(S) == [r \in S |-> "a"]
OddOneOut(S) == LET odd == CHOOSE r \in S : TRUE
                IN [r \in S |-> IF r = odd THEN "b" ELSE "a"]

\* One config or two; no limit, one at a time and two at a time; streams one at a
\* time, as the documentation asks for.
MCSettings ==
    { Engine(m, c, {}, s) : m \in {0, 1, 2}, c \in {OneFor(Requests), OddOneOut(Requests)},
                            s \in BOOLEAN }
    \cup { Engine(1, OddOneOut(Requests), {"a"}, FALSE) }

\* Two streams in one batch, as a deployment with --max_batch_size makes them.
StreamSettings == { Engine(2, OneFor(Requests), {"a"}, TRUE) }

=============================================================================
