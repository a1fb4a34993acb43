----------------------------- MODULE MCTableKeys -----------------------------
(* Small instances of TableKeys for TLC. *)
EXTENDS TableKeys

CONSTANTS p1, r1, r2

AggQuery(ts) == [rpc |-> "AggQuery", filters |-> ts]

DCFQuery(t) == [rpc |-> "DCFQuery", filters |-> <<t>>]

\* Combined filters over one table each, as in the tests.
OneTable ==
  {AggQuery([f \in 1 .. n |-> t]) : n \in 1 .. 3, t \in Table}

\* Range queries.
RangeQueries == {DCFQuery(t) : t \in DCFTables}

OneTableOrRange == OneTable \cup RangeQueries
=============================================================================
