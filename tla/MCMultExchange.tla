---------------------------- MODULE MCMultExchange ---------------------------
(* Small instances of MultExchange for TLC. *)
EXTENDS MultExchange, TLC

CONSTANTS q1, q2

OneQuery == {q1}
TwoQueries == {q1, q2}

\* The rounds of the queries: a reshare only, or a reshare and a multiplication.
OneFilter == [q \in Query |-> 1]
TwoFilters == [q \in Query |-> 2]

\* Queries with as many filters each are interchangeable.
QuerySymmetry == Permutations(Query)
=============================================================================
