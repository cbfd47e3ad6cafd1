----------------------------- MODULE MCSampling -----------------------------
EXTENDS Sampling

Base == [samples |-> 2, pieces |-> 1, size |-> 1, limit |-> 9, returns |-> 1,
         cached |-> <<0, 0, 0, 0, 0>>, fails |-> {}, override |-> FALSE, resumes |-> TRUE]

\* One process that resumes, with 0 to 3 batches; pieces of a data set that does not
\* divide evenly, without resume; batches in which samples are cached, are cached with
\* another number of choices, and fail; runs that are repeated.
MCSettings ==
    { [Base EXCEPT !.samples = n] : n \in 0 .. 3 }
    \cup { [Base EXCEPT !.samples = 4, !.size = 2, !.returns = 2, !.cached = c, !.fails = f] :
               c \in { <<0, 0, 0, 0>>, <<0, 2, 1, 2>>, <<2, 1, 2, 2>> },
               f \in { {}, {<<1, 1>>, <<3, 1>>, <<3, 2>>} } }
    \cup { [Base EXCEPT !.samples = 5, !.pieces = 2, !.limit = l, !.resumes = FALSE, !.override = o] :
               l \in {1, 9}, o \in BOOLEAN }

=============================================================================
