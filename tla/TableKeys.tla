------------------------------ MODULE TableKeys ------------------------------
(***************************************************************************)
(* How the FSS keys of a request reach the evaluation of a table.  Every   *)
(* table object keeps a vector key: deserialize_key appends to it, an      *)
(* evaluation picks keys out of it by their place, and only the parallel   *)
(* evaluation of EvalFilter clears it.  One server is modelled, and of its *)
(* two objects per table one: all of them are given keys in the same order.*)
(* Requests come from one client, which waits for each answer, as in       *)
(* correctness_tests.cpp and bench.cpp.                                    *)
(***************************************************************************)
EXTENDS Naturals, Sequences

CONSTANTS DPFTables,    \* the point tables
          DCFTables,    \* the range tables
          Requests,     \* what the client may ask, see Request
          MaxRequests   \* bound on the requests sent

Table == DPFTables \cup DCFTables

\* The RPC DCFQuery asks for one range; AggQuery carries a combined filter, here
\* the tables of its base filters.
Request == [rpc : {"DCFQuery", "AggQuery"}, filters : Seq(Table)]

ASSUME ConstantsAssumption ==
  /\ DPFTables \cap DCFTables = {}
  /\ MaxRequests \in Nat
  /\ \A r \in Requests :
        /\ r \in Request /\ r.filters # <<>>
        /\ r.rpc = "DCFQuery" => r.filters \in [{1} -> DCFTables]

VARIABLES
  sent,     \* number of requests sent, which names the current one
  request,  \* the current request
  pc,       \* where its handler is
  next,     \* the base filter whose key is deserialised next
  key,      \* key[t]: the vector key of table t
  res,      \* res[f]: the keys that gave the result of base filter f
  direct    \* direct[t]: DCFQuery calls since t was added (for the properties)

vars == <<sent, request, pc, next, key, res, direct>>

-----------------------------------------------------------------------------

\* A point filter comes with one key, a range filter with two.
Parts(t) == IF t \in DPFTables THEN <<"point">> ELSE <<"left", "right">>

\* Mutant of KeysOf: the right key of a range is not pushed.
KeysOfLeft(f) ==
  [k \in {1} |-> [req |-> sent, filter |-> f, part |-> Parts(request.filters[f])[1]]]

\* The keys of base filter f of the current request.
KeysOf(f) ==
  [k \in DOMAIN Parts(request.filters[f]) |->
     [req |-> sent, filter |-> f, part |-> Parts(request.filters[f])[k]]]

\* The keys evaluation i of table t uses: key[i] of a point table, key[2i] and
\* key[2i + 1] of a range table (places count from 0 in the code).
KeysAt(t, i) ==
  LET n == Len(Parts(t))
  IN  SubSeq(key[t], (i - 1) * n + 1, i * n)

NumFilters == Len(request.filters)

Last == request.filters[NumFilters]

\* What malloc left in a result that no evaluation wrote.
Nothing == <<>>

NoRequest == [rpc |-> "AggQuery", filters |-> <<>>]

Init ==
  /\ sent = 0 /\ pc = "idle" /\ next = 1
  /\ request = NoRequest
  /\ key = [t \in Table |-> <<>>]
  /\ res = <<>>
  /\ direct = [t \in Table |-> 0]

\* A request arrives; EvalFilter and DCFQuery allocate the results with malloc.
Receive ==
  /\ pc = "idle" /\ sent < MaxRequests
  /\ sent' = sent + 1
  /\ request' \in Requests
  /\ res' = [f \in DOMAIN request'.filters |-> Nothing]
  /\ next' = 1 /\ pc' = "deserialize"
  /\ UNCHANGED <<key, direct>>

\* Mutant of AppendKeys: the keys go to the front.
PrependKeys(t, ks) == [key EXCEPT ![t] = ks \o @]

\* deserialize_key pushes the keys back.
AppendKeys(t, ks) == [key EXCEPT ![t] = @ \o ks]

\* One turn of the loop over the base filters.
DeserializeKey ==
  /\ pc = "deserialize" /\ next <= NumFilters
  /\ key' = AppendKeys(request.filters[next], KeysOf(next))
  /\ next' = next + 1
  /\ UNCHANGED <<sent, request, pc, res, direct>>

\* DCFQuery evaluates with idx 0 and returns.
EvalFirst ==
  /\ pc = "deserialize" /\ next > NumFilters /\ request.rpc = "DCFQuery"
  /\ res' = [f \in {1} |-> KeysAt(Last, 1)]
  /\ direct' = [direct EXCEPT ![Last] = @ + 1]
  /\ pc' = "answered"
  /\ UNCHANGED <<sent, request, next, key>>

\* numEvals of parallel_eval_dpf_table and parallel_ic_eval_dcf_table.
NumEvals(t) == Len(key[t]) \div Len(Parts(t))

\* Mutant of ClearKeys: the vector keeps its keys.
LeaveKeys(t) == key

\* An empty vector, of the evaluated table or of a new one.
ClearKeys(t) == [key EXCEPT ![t] = <<>>]

\* EvalFilter evaluates the table of the last base filter, once per key there.
EvalTable ==
  /\ pc = "deserialize" /\ next > NumFilters /\ request.rpc = "AggQuery"
  /\ NumEvals(Last) <= NumFilters
  /\ res' = [f \in DOMAIN res |->
               IF f <= NumEvals(Last) THEN KeysAt(Last, f) ELSE Nothing]
  /\ key' = ClearKeys(Last)
  /\ pc' = "answered"
  /\ UNCHANGED <<sent, request, next, direct>>

\* More keys than base filters: a thread writes through res[i] beyond the array
\* of pointers.  What the process does then is undefined; the model stops.
EvalBeyond ==
  /\ pc = "deserialize" /\ next > NumFilters /\ request.rpc = "AggQuery"
  /\ NumEvals(Last) > NumFilters
  /\ pc' = "undefined"
  /\ UNCHANGED <<sent, request, next, key, res, direct>>

Answer ==
  /\ pc = "answered"
  /\ pc' = "idle" /\ res' = <<>>
  /\ UNCHANGED <<sent, request, next, key, direct>>

\* DCFAddTable and DPFAddTable put a new object, without keys, in the map.
AddTable(t) ==
  /\ pc = "idle" /\ sent < MaxRequests
  /\ key' = ClearKeys(t)
  /\ direct' = [direct EXCEPT ![t] = 0]
  /\ UNCHANGED <<sent, request, pc, next, res>>

Next ==
  \/ Receive \/ DeserializeKey \/ EvalFirst \/ EvalTable \/ EvalBeyond \/ Answer
  \/ \E t \in Table : AddTable(t)

Spec == Init /\ [][Next]_vars

-----------------------------------------------------------------------------

KeyType == [req : 1 .. MaxRequests, filter : Nat, part : {"point", "left", "right"}]

\* The types of the state; a table only ever holds keys of its own kind.
TypeOK ==
  /\ sent \in 0 .. MaxRequests /\ request \in Requests \cup {NoRequest}
  /\ pc \in {"idle", "deserialize", "answered", "undefined"}
  /\ next \in 1 .. NumFilters + 1
  /\ DOMAIN key = Table
  /\ \A t \in Table : \A k \in DOMAIN key[t] :
        /\ key[t][k] \in KeyType
        /\ key[t][k].part = Parts(t)[((k - 1) % Len(Parts(t))) + 1]
  /\ direct \in [Table -> 0 .. MaxRequests]

Answered(f) == res[f] = KeysOf(f)

\* Every base filter of a request gets the result of its own keys, not of keys
\* that an earlier request left, of another filter's keys, or none (malloc).
\* EvalFilter's comment assumes only that the filters have the same type, and
\* dcfTableTest checks DCFQuery's result against the range of that query.
FiltersAnswered ==
  pc = "answered" => \A f \in DOMAIN request.filters : Answered(f)

\* No DCFQuery has left its keys in t.
Fresh(t) == direct[t] = 0

\* Between two requests a table holds no keys but those DCFQuery left there: an
\* aggregate query, whatever it met before, uses up what it brought.
KeysConsumed == pc = "idle" => \A t \in Table : Fresh(t) => key[t] = <<>>

\* Aggregate queries on a table without such keys, and the first DCFQuery on it, get
\* the answers of their own keys; adding a table anew restores this.  It is what
\* the tests do: every one of them adds its table and asks for it in one way.
FreshAnswered ==
  pc = "answered" /\ direct[Last] = (IF request.rpc = "DCFQuery" THEN 1 ELSE 0) =>
     \A f \in DOMAIN request.filters : Answered(f)

\* EvalFilter runs more evaluations than it allocated results only because of keys
\* that DCFQuery left.
EvalInBounds == pc = "undefined" => ~Fresh(Last)
=============================================================================
