-------------------------------- MODULE Order --------------------------------
(***************************************************************************)
(* Finite sets of numbers, and sequences of numbers, in their order.       *)
(***************************************************************************)
EXTENDS Naturals, Sequences, FiniteSets

Least(S) == CHOOSE x \in S : \A y \in S : x <= y

Greatest(S) == CHOOSE x \in S : \A y \in S : y <= x

\* The sequence of numbers is in order, with no number twice.
Increasing(q) == \A i, j \in DOMAIN q : i < j => q[i] < q[j]

Rank(n, S) == Cardinality({m \in S : m <= n})

\* The n least members of S, or all of them.
FirstOf(n, S) == {m \in S : Rank(m, S) <= n}

\* The sequence of the members of S, least first.
Ascending(S) == [i \in 1..Cardinality(S) |-> CHOOSE n \in S : Rank(n, S) = i]
=============================================================================
