------------------------------ MODULE MCAggTree ------------------------------
(* A small instance of AggTree for TLC. *)
EXTENDS AggTree

\* A choice at every third index, the same value elsewhere.
MCValues(i) == IF i % 3 = 2 THEN {1, 3} ELSE {2}
=============================================================================
