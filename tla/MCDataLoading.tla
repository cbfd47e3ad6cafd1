---------------------------- MODULE MCDataLoading ----------------------------
EXTENDS DataLoading

Ok(n) == [i \in 1 .. n |-> "ok"]

Map(n, b, drop, ord, skip) ==
    [streaming |-> FALSE, quality |-> Ok(n), strict |-> FALSE, batch |-> b,
     dropLast |-> drop, order |-> ord, skip |-> skip]

Stream(quality, strict, b, skip) ==
    [streaming |-> TRUE, quality |-> quality, strict |-> strict, batch |-> b,
     dropLast |-> FALSE, order |-> "plain", skip |-> skip]

\* Up to five samples; group_by_length needs shuffling, so it comes as an order of its
\* own; streams whose length is and is not a multiple of the interval, with samples
\* that are dropped, that end a process, and that are skipped after a resume.
MCSettings ==
    { Map(n, b, d, o, s) : n \in {0, 4, 5}, b \in {1, 2}, d \in BOOLEAN,
                           o \in {"plain", "grouped"}, s \in {0, 1} }
    \cup { Map(5, 2, FALSE, "shuffled", 0) }
    \cup { Stream(q, s, b, k) : q \in { <<>>, Ok(4), Ok(5), <<"ok", "bad", "ok", "long">> },
                                s \in BOOLEAN, b \in {1, 2}, k \in {0, 1} }

=============================================================================
