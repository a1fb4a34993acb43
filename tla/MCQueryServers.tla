---------------------------- MODULE MCQueryServers ---------------------------
(* The three servers, a client that asks queries and one that only updates. *)
EXTENDS QueryServers

CONSTANTS c1, c2, dcf, list, other

MCTables == [c \in Client |-> IF c = c1 THEN {dcf, list} ELSE {other}]

MCMaxCalls == [c \in Client |-> IF c = c1 THEN 3 ELSE 2]
=============================================================================
