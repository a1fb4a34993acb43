---------------------------- MODULE RoundExchange ----------------------------
(***************************************************************************)
(* What one exchange of shares promises to the arithmetic built on it      *)
(* (RSSReshare and Multiply in util.cpp): the servers stand in a ring, a   *)
(* query runs a number of rounds, in each round every server gives one     *)
(* share to its successor, and the k-th share a server works with is the   *)
(* one its predecessor gave in round k of the same query.  How the share   *)
(* travels (RPC, completion queue, one-place slot, condition variables) is *)
(* the business of MultExchange, which implements this specification.      *)
(***************************************************************************)
EXTENDS Naturals, Sequences

CONSTANTS NUM_SERVERS,   \* number of servers in the ring
          Query,         \* the queries
          NumFilters     \* NumFilters[q]: base filters of q, one round each

VARIABLES given,  \* given[s][q]: number of shares s has given in query q
          got     \* got[s][q]: the shares s has got in query q, in order

vars == <<given, got>>

Server == 0 .. NUM_SERVERS - 1

\* The server every SendMult of s goes to: addrs[(serverID + 1) % NUM_SERVERS].
Succ(s) == (s + 1) % NUM_SERVERS

Pred(s) == CHOOSE p \in Server : Succ(p) = s

\* A share is abstracted to where it comes from: the server that computed it,
\* the query and the round it belongs to.
Share == [from : Server, query : Query, round : Nat]

ShareOf(s, q, r) == [from |-> s, query |-> q, round |-> r]

-----------------------------------------------------------------------------

Init ==
  /\ given = [s \in Server |-> [q \in Query |-> 0]]
  /\ got = [s \in Server |-> [q \in Query |-> <<>>]]

\* s gives its share of the next round, having finished the round before.
Give(s, q) ==
  /\ given[s][q] = Len(got[s][q])
  /\ given[s][q] < NumFilters[q]
  /\ given' = [given EXCEPT ![s][q] = @ + 1]
  /\ UNCHANGED got

\* s gets the share its predecessor gave in the round s is in.
Get(s, q) ==
  /\ Len(got[s][q]) < given[s][q]
  /\ Len(got[s][q]) < given[Pred(s)][q]
  /\ got' = [got EXCEPT ![s][q] = Append(@, ShareOf(Pred(s), q, Len(@)))]
  /\ UNCHANGED given

Next == \E s \in Server, q \in Query : Give(s, q) \/ Get(s, q)

\* Joining a query is up to the client; once in it a server goes on.
Fairness ==
  \A s \in Server, q \in Query :
     WF_vars(Get(s, q)) /\ WF_vars(got[s][q] # <<>> /\ Give(s, q))

Spec == Init /\ [][Next]_vars /\ Fairness
=============================================================================
