---------------------------- MODULE MCFilterEval -----------------------------
(* Small instances of FilterEval for TLC. *)
EXTENDS FilterEval

\* A stand-in for AES: not linear, and its period does not divide the steps by
\* which the counters advance.
MCPrf(k, c) == (((c + 1) * (c + 5 * k + 2)) \div 7 + 3 * k + c) % Modulus

\* rand() without srand in three processes, and keys of their own.
SameOrOwn == {[i \in Server |-> 1], [i \in Server |-> i]}

\* A reshare only, then a query with multiplications.
OneThenThree == <<1, 3>>
=============================================================================
