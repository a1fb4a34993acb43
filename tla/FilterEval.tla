------------------------------ MODULE FilterEval ------------------------------
(***************************************************************************)
(* The arithmetic of an aggregate query, EvalFilter and AggFilterQuery of  *)
(* util.cpp, on the three servers.  The base filters are evaluated to      *)
(* additive shares; RSSReshare turns these into replicated shares, in      *)
(* which server i has res0 of its predecessor's share and its own share    *)
(* res1; Multiply combines the filters; the last sum gives each server an  *)
(* additive share of the aggregate.  With malicious set every value        *)
(* travels with its MAC, alpha times the value.                            *)
(*                                                                         *)
(* One row of the window is followed: rows are computed independently of   *)
(* each other, and AggFilterQuery adds them up.  The shares move as        *)
(* RoundExchange promises, which MultExchange implements.                  *)
(***************************************************************************)
EXTENDS Integers, Sequences

CONSTANTS Modulus,       \* 2^125 in the code, which divides the 2^128 at which uint128_t wraps
          NumQueries,    \* queries 1 .. NumQueries, sent one after the other
          NumFilters,    \* NumFilters[q]: base_filters_size() of query q
          Modes,         \* the settings of malicious to look at
          WindowSize,    \* rows of the tables, a multiple of numChunks
          Row,           \* the row that is followed
          Alpha,         \* the client's MAC key
          PrfInputs,     \* 2^128 in the code, where the sum of the counter and an index wraps
          Prf(_, _),     \* prfFieldElem of a key and one of the PrfInputs
          KeyRings,      \* the keys the constructors may have drawn, see prfKey0
          Seeds          \* the client's randomness, see Split

NUM_SERVERS == 3

Server == 0 .. NUM_SERVERS - 1

Query == 1 .. NumQueries

Elem == 0 .. Modulus - 1

ASSUME ConstantsAssumption ==
  /\ Modulus \in Nat \ {0, 1, 2} /\ NumQueries \in Nat
  /\ NumFilters \in [Query -> Nat \ {0}]
  /\ Modes \subseteq BOOLEAN
  /\ WindowSize \in Nat \ {0} /\ WindowSize % 4 = 0
  /\ KeyRings \subseteq [Server -> Nat]
  /\ Row \in 0 .. WindowSize - 1 /\ Alpha \in Elem /\ Seeds \subseteq Elem
  /\ PrfInputs \in Nat \ {0}
  /\ \A ring \in KeyRings, i \in Server, c \in 0 .. PrfInputs - 1 : Prf(ring[i], c) \in Elem

VARIABLES
  malicious,   \* do MACs accompany the values?
  prfKey0,     \* prfKey0[i]: the key server i has drawn
  query,       \* the query the client has sent last, 0 before the first
  op_is_and,   \* are its filters ANDed, or else ORed?
  truth,       \* truth[f]: does the row satisfy base filter f?
  value,       \* the row's value in the list that is aggregated
  seed,        \* the randomness of the client's shares
  pc,          \* pc[i]: where the handler of server i is
  prfCounter,  \* prfCounter[i]
  res,         \* res[i][f]: the shares of base filter f
  filter,      \* filter[i]: the shares of the filters combined so far
  linComb,     \* linComb[i]: the two batch MAC accumulators
  answer,      \* answer[i]: server i's share of the aggregate
  sent,        \* sent[i][q]: what i has put into its messages
  given, got   \* the exchange

setupVars == <<malicious, prfKey0>>
clientVars == <<query, op_is_and, truth, value, seed>>
exchangeVars == <<sent, given, got>>
vars == <<setupVars, clientVars, pc, prfCounter, res, filter, linComb, answer,
          exchangeVars>>

Exchange == INSTANCE RoundExchange

Pred(i) == (i + 2) % NUM_SERVERS

-----------------------------------------------------------------------------
(* Values with their MACs, and shares of them.                             *)

Halves == IF malicious THEN {"val", "mac"} ELSE {"val"}

mac_factor == IF malicious THEN 2 ELSE 1

len == mac_factor * WindowSize

Vec == [Halves -> Elem]

Zeros == [h \in Halves |-> 0]

Plus(a, b) == [h \in Halves |-> (a[h] + b[h]) % Modulus]

NoShares == [r0 |-> Zeros, r1 |-> Zeros]

\* The client's additive shares of v; its generator is the seed.
Split(v, i, k) ==
  CASE i = 0 -> (seed * (k + 1)) % Modulus
    [] i = 1 -> (seed + k) % Modulus
    [] i = 2 -> (v - seed * (k + 1) - (seed + k)) % Modulus

\* What the tables hold for filter f on the row, as the two FSS evaluations of
\* server i (with key0 and key1) give it: shares that add up over both
\* evaluations and all servers to the filter's bit, and to its MAC.
TableShare(i, f) ==
  LET bit == IF truth[f] THEN 1 ELSE 0
      sum == [h \in Halves |-> IF h = "val" THEN Split(bit, i, f)
                               ELSE Split(Alpha * bit, i, f + 1)]
      part == [h \in Halves |-> (seed + i) % Modulus]
  IN  [r0 |-> part, r1 |-> [h \in Halves |-> (sum[h] - part[h]) % Modulus]]

\* The value list, replicated like the filters are.
ValShare(i) == [r0 |-> Split(value, Pred(i), 0), r1 |-> Split(value, i, 0)]

\* What the predecessor sent at start-up.
prfKey1(i) == prfKey0[Pred(i)]

PrfInput(i, idx) == (prfCounter[i] + idx) % PrfInputs

ZeroShare(i, idx) ==
  (Prf(prfKey1(i), PrfInput(i, idx)) - Prf(prfKey0[i], PrfInput(i, idx))) % Modulus

RandCoeff(i, idx) ==
  [r0 |-> Prf(prfKey0[i], PrfInput(i, idx)),
   r1 |-> Prf(prfKey1(i), PrfInput(i, idx))]

\* The products a server computes locally of a replicated x (one half of it)
\* and a replicated y.
Cross(x0, x1, y) == (x0 * y.r0 + x1 * y.r0 + x0 * y.r1) % Modulus

\* One half of a sharing.
HalfOf(x, h) == [r0 |-> x.r0[h], r1 |-> x.r1[h]]

-----------------------------------------------------------------------------

Init ==
  /\ malicious \in Modes /\ prfKey0 \in KeyRings
  /\ query = 0 /\ op_is_and = TRUE /\ truth = <<>> /\ value = 0 /\ seed = 0
  /\ pc = [i \in Server |-> "idle"]
  /\ prfCounter = [i \in Server |-> 0]
  /\ res = [i \in Server |-> <<>>]
  /\ filter = [i \in Server |-> NoShares]
  /\ linComb = [i \in Server |-> Zeros]
  /\ answer = [i \in Server |-> Zeros]
  /\ sent = [i \in Server |-> [q \in Query |-> <<>>]]
  /\ Exchange!Init

Round(i) == Len(got[i][query])

\* The client sends the next query once all servers answered the last one.
ClientSends ==
  /\ query < NumQueries /\ \A i \in Server : pc[i] = "idle"
  /\ query' = query + 1
  /\ truth' \in [0 .. NumFilters[query'] - 1 -> BOOLEAN]
  /\ op_is_and' \in BOOLEAN
  /\ value' \in {1, 2} /\ seed' \in Seeds
  /\ pc' = [i \in Server |-> "reshare"]
  /\ UNCHANGED <<setupVars, prfCounter, res, filter, linComb, answer, exchangeVars>>

Send(i, v) ==
  /\ Exchange!Give(i, query)
  /\ sent' = [sent EXCEPT ![i][query] = Append(@, v)]

\* The payload of the share that i gets in this round.
Receive(i) == sent[Pred(i)][query][Round(i) + 1]

\* Mutant of AdjustPRFCounter: the amount is taken in bytes.
AdjustPRFCounterBytes(i, amount) ==
  prfCounter' = [prfCounter EXCEPT ![i] = @ + 16 * amount]

\* Mutant of AdjustPRFCounter: only the server that starts the ring advances.
AdjustPRFCounterOfFirst(i, amount) ==
  prfCounter' = IF i = 0 THEN [prfCounter EXCEPT ![i] = @ + amount] ELSE prfCounter

AdjustPRFCounter(i, amount) ==
  prfCounter' = [prfCounter EXCEPT ![i] = @ + amount]

\* EvalFilter evaluates the tables, and RSSReshare adds up the two evaluations
\* and a share of zero, the same for all entries of a filter, and sends the sum.
RSSReshare(i) ==
  LET n == NumFilters[query]
      sum == [f \in 0 .. n - 1 |->
                LET t == TableShare(i, f)
                    zero == [h \in Halves |-> ZeroShare(i, f * n + len)]
                IN  Plus(Plus(t.r0, t.r1), zero)]
  IN  /\ pc[i] = "reshare"
      /\ res' = [res EXCEPT ![i] =
                   [f \in 0 .. n - 1 |->
                      [r0 |-> TableShare(i, f).r0, r1 |-> sum[f],
                       coeff |-> RandCoeff(i, n * len + f * n + len),
                       zero |-> 0]]]
      /\ AdjustPRFCounter(i, mac_factor * n * len)
      /\ Send(i, sum)
      /\ pc' = [pc EXCEPT ![i] = "reshared"]
      /\ UNCHANGED <<setupVars, clientVars, filter, linComb, answer, got>>

\* Mutant of MACCheck: the sum of the MACs lacks a term.
MACCheckFirst(acc, x, coeff) ==
  IF malicious
  THEN [h \in Halves |->
          (acc[h] + x.r0[h] * coeff.r0
             + (IF h = "val" THEN x.r1[h] * coeff.r0 ELSE 0) + x.r0[h] * coeff.r1)
             % Modulus]
  ELSE acc

\* AddToBatchMACCheck and AddToBatchMACCheckFromMult.
MACCheck(acc, x, coeff) ==
  IF malicious
  THEN [h \in Halves |->
          (acc[h] + x.r0[h] * coeff.r0 + x.r1[h] * coeff.r0 + x.r0[h] * coeff.r1)
             % Modulus]
  ELSE acc

\* The index in rand_coeff_shares of the row, filled by chunk j of four.
CoeffIdx(f, n) ==
  LET half == (len \div 4) \div 2
      j == Row \div half
  IN  f * len + j * (len \div 4) + (Row % half) + n * len

\* The predecessor's sums arrive, the accumulators are updated, and EvalFilter
\* prepares the shares of zero and the coefficients of the multiplications.
ReshareReceived(i) ==
  LET n == NumFilters[query]
      m == Receive(i)
      x == [f \in 0 .. n - 1 |-> [r0 |-> m[f], r1 |-> res[i][f].r1]]
      acc[k \in 0 .. n] ==
        IF k = 0 THEN Zeros ELSE MACCheck(acc[k - 1], x[k - 1], res[i][k - 1].coeff)
  IN  /\ pc[i] = "reshared"
      /\ Exchange!Get(i, query)
      /\ linComb' = [linComb EXCEPT ![i] = acc[n]]
      /\ res' = [res EXCEPT ![i] =
                   [f \in 0 .. n - 1 |->
                      [r0 |-> x[f].r0, r1 |-> x[f].r1,
                       coeff |-> IF malicious THEN RandCoeff(i, CoeffIdx(f, n))
                                 ELSE res[i][f].coeff,
                       zero |-> ZeroShare(i, f * len + Row)]]]
      /\ filter' = [filter EXCEPT ![i] = [r0 |-> x[0].r0, r1 |-> x[0].r1]]
      /\ AdjustPRFCounter(i, mac_factor * n * len)
      /\ pc' = [pc EXCEPT ![i] = IF n > 1 THEN "multiply" ELSE "aggregate"]
      /\ UNCHANGED <<setupVars, clientVars, answer, sent>>

\* Mutant of Product: the MAC is multiplied by the MAC of the next filter.
ProductOfMacs(i) ==
  LET x == filter[i]
      y == res[i][Round(i)]
  IN  [h \in Halves |->
         (Cross(x.r0[h], x.r1[h], HalfOf(y, h))
            + (IF h = "val" THEN y.zero ELSE 0)) % Modulus]

\* Multiply by the next filter: the local products of x and the values of y; the
\* shares of zero are added to the values only, not to the MACs.
Product(i) ==
  LET x == filter[i]
      y == res[i][Round(i)]
  IN  [h \in Halves |->
         (Cross(x.r0[h], x.r1[h], HalfOf(y, "val"))
            + (IF h = "val" THEN y.zero ELSE 0)) % Modulus]

Multiply(i) ==
  /\ pc[i] = "multiply"
  /\ Send(i, Product(i))
  /\ pc' = [pc EXCEPT ![i] = "multiplied"]
  /\ UNCHANGED <<setupVars, clientVars, prfCounter, res, filter, linComb, answer, got>>

\* Mutant of OrFilters: shares_out1 keeps the product.
OrFiltersFirst(z, x, y) ==
  [r0 |-> Plus(z.r0, Plus(x.r0, y.r0)), r1 |-> z.r1]

\* x + y + xy, of which Multiply has computed xy.
OrFilters(z, x, y) ==
  [r0 |-> Plus(z.r0, Plus(x.r0, y.r0)), r1 |-> Plus(z.r1, Plus(x.r1, y.r1))]

\* The end of Multiply, and what OrFilters adds to the product.
MultiplyReceived(i) ==
  LET x == filter[i]
      y == res[i][Round(i)]
      z == [r0 |-> Receive(i), r1 |-> sent[i][query][Round(i) + 1]]
  IN  /\ pc[i] = "multiplied"
      /\ Exchange!Get(i, query)
      /\ linComb' = [linComb EXCEPT ![i] = MACCheck(@, z, y.coeff)]
      /\ filter' = [filter EXCEPT ![i] =
                      IF op_is_and THEN z ELSE OrFilters(z, x, y)]
      /\ pc' = [pc EXCEPT ![i] =
                  IF Round(i) + 1 < NumFilters[query] THEN "multiply"
                  ELSE "aggregate"]
      /\ UNCHANGED <<setupVars, clientVars, prfCounter, res, answer, sent>>

\* AggFilterQuery multiplies by the values and answers.
AggFilterQuery(i) ==
  LET v == ValShare(i)
  IN  /\ pc[i] = "aggregate"
      /\ answer' = [answer EXCEPT ![i] =
           [h \in Halves |-> Cross(v.r0, v.r1, HalfOf(filter[i], h))]]
      /\ pc' = [pc EXCEPT ![i] = "answered"]
      /\ UNCHANGED <<setupVars, clientVars, prfCounter, res, filter, linComb, exchangeVars>>

\* The client has all the answers; the servers keep only their counters.
ClientReceives ==
  /\ \A i \in Server : pc[i] = "answered"
  /\ pc' = [i \in Server |-> "idle"]
  /\ res' = [i \in Server |-> <<>>]
  /\ filter' = [i \in Server |-> NoShares]
  /\ linComb' = [i \in Server |-> Zeros]
  /\ answer' = [i \in Server |-> Zeros]
  /\ UNCHANGED <<setupVars, clientVars, prfCounter, exchangeVars>>

Quiescent ==
  query = NumQueries /\ (\A i \in Server : pc[i] = "idle") /\ UNCHANGED vars

Next ==
  \/ ClientSends
  \/ \E i \in Server :
        \/ RSSReshare(i) \/ ReshareReceived(i)
        \/ Multiply(i) \/ MultiplyReceived(i) \/ AggFilterQuery(i)
  \/ ClientReceives
  \/ Quiescent

Spec == Init /\ [][Next]_vars

-----------------------------------------------------------------------------

Sum(f) == (f[0] + f[1] + f[2]) % Modulus

Matches == {f \in DOMAIN truth : truth[f]}

\* The client asked for the rows that satisfy all filters, or any of them.
RowMatches == IF op_is_and THEN Matches = DOMAIN truth ELSE Matches # {}

\* A server has at most computed all rounds of all queries.
MaxCounter ==
  LET upto[q \in 0 .. NumQueries] ==
        IF q = 0 THEN 0 ELSE upto[q - 1] + 2 * mac_factor * NumFilters[q] * len
  IN  upto[query]

Shares == [r0 : Vec, r1 : Vec]

\* The types of the state; a counter never runs ahead of the randomness of the
\* queries that were sent (RSSReshare and EvalFilter each advance it once).
TypeOK ==
  /\ malicious \in BOOLEAN /\ prfKey0 \in KeyRings /\ query \in 0 .. NumQueries /\ op_is_and \in BOOLEAN
  /\ truth \in [DOMAIN truth -> BOOLEAN]
  /\ value \in Elem /\ seed \in Elem
  /\ pc \in [Server -> {"idle", "reshare", "reshared", "multiply",
                        "multiplied", "aggregate", "answered"}]
  /\ prfCounter \in [Server -> 0 .. MaxCounter]
  /\ filter \in [Server -> Shares]
  /\ linComb \in [Server -> Vec] /\ answer \in [Server -> Vec]

\* Servers that have finished the same round hold a replicated sharing: res0 of
\* each is res1 of its predecessor (memcpy from multReceivedShares, and what
\* OrFilters does to both).
Replicated ==
  \A i \in Server :
     LET p == Pred(i)
     IN  /\ pc[i] \in {"multiply", "multiplied", "aggregate"}
         /\ pc[p] \in {"multiply", "multiplied", "aggregate"}
         /\ Round(i) = Round(p)
         => filter[i].r0 = filter[p].r1

AllAnswered == \A i \in Server : pc[i] = "answered"

ValueCorrect ==
  op_is_and \/ (\A f, g \in Matches : f = g) =>
     Sum([i \in Server |-> answer[i].val]) = IF RowMatches THEN value ELSE 0

MacCorrect ==
  malicious =>
     Sum([i \in Server |-> answer[i].mac]) =
        (Alpha * Sum([i \in Server |-> answer[i].val])) % Modulus

\* The answers add up to the row's value if the row matches and to 0 otherwise,
\* whatever the shares, the zero shares and the speed of the servers, and their MACs
\* to alpha times that (AggFilterQuery).  OrFilters counts a row that matches several
\* filters more than once; for OR the value is right where a row matches at most
\* one, and the MAC always fits the value.
AggregateCorrect == AllAnswered => ValueCorrect /\ MacCorrect

SameKeys == \A i \in Server : prfKey0[i] = prfKey0[0]

\* util.cpp 333-335: the accumulators are stored for the client to check later
\* that RSSReshare was error-free, which a MAC of alpha times the value shows.  The
\* servers' keys must be equal, as they are when three processes draw them from
\* rand() without srand: with keys of its own a server would take the coefficients'
\* shares the other way round than those of the values, and the sums would not fit.
MacCheckHolds ==
  AllAnswered /\ malicious /\ SameKeys =>
     Sum([i \in Server |-> linComb[i].mac]) =
        (Alpha * Sum([i \in Server |-> linComb[i].val])) % Modulus
=============================================================================
