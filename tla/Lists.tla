-------------------------------- MODULE Lists --------------------------------
(***************************************************************************)
(* What loops over a list leave: the list extended piece by piece, or the  *)
(* elements that pass a test.  Written with a recursive function, which    *)
(* the proofs can follow.                                                  *)
(***************************************************************************)
EXTENDS Integers, Sequences, FiniteSets

\* The first n pieces one after another: what a loop has extended a list with.
Joined(pieces, n) ==
    LET joined[k \in 0 .. n] == IF k = 0 THEN <<>> ELSE joined[k - 1] \o pieces[k]
    IN  joined[n]

\* The elements of s at the places in P, in their order.
Chosen(s, P) == Joined([k \in DOMAIN s |-> IF k \in P THEN <<s[k]>> ELSE <<>>], Len(s))

\* The elements of s that are not in S, in their order.
Without(s, S) == Joined([k \in DOMAIN s |-> IF s[k] \in S THEN <<>> ELSE <<s[k]>>], Len(s))

\* How often x is in s.
Times(x, s) == Cardinality({k \in DOMAIN s : s[k] = x})

=============================================================================
