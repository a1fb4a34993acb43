--------------------------- MODULE FilterEvalProofs --------------------------
(***************************************************************************)
(* An aggregate query is right, for any number of queries and filters, any *)
(* modulus and any randomness.  First, the shares of the combined filters  *)
(* stay replicated (Inv): two servers finish a round at different times,   *)
(* and what a server has of its predecessor's share is what that one had,  *)
(* or will have, after as many rounds.                                     *)
(*                                                                         *)
(* Second, the numbers.  The client's choices, the keys and the counter at *)
(* the start of a query determine all that its servers will compute: Sums, *)
(* Combined, RoundChain, Answered.  These are triples, a row of shares of  *)
(* which the totals are followed modulo Modulus, from each filter to the   *)
(* next.  Values says that the state of every server, wherever it is in    *)
(* the query, is its part of them; with Inv it is inductive.               *)
(***************************************************************************)
EXTENDS FilterEval, SequenceTheorems, FiniteSetTheorems, TLAPS

-----------------------------------------------------------------------------
(* The inductive invariant of the replicas.                                *)

\* Plus of vectors that have halves hs.
PlusOver(hs, a, b) == [h \in hs |-> (a[h] + b[h]) % Modulus]

\* What a server has in filter.r1 after round k + 1, from x after round k, if it sent s:
\* first its sums, then its product, to which OrFilters adds x and the next filter.
Step(hs, is_and, s, k, x) ==
  IF k = 0 THEN s[1][0]
  ELSE IF is_and THEN s[k + 1] ELSE PlusOver(hs, s[k + 1], PlusOver(hs, x, s[1][k]))

\* After r rounds of one server and rp of its predecessor, which sent s, the halves f0
\* and f1 that they share: the one is at most one round ahead, the other two.
Follows(hs, is_and, s, r, rp, f0, f1) ==
  /\ r = rp => f0 = f1
  /\ r = rp + 1 => f0 = Step(hs, is_and, s, rp, f1)
  /\ rp = r + 1 => f1 = Step(hs, is_and, s, r, f0)
  /\ rp = r + 2 => f1 = Step(hs, is_and, s, r + 1, Step(hs, is_and, s, r, f0))

\* What server i has of its predecessor's share follows that one.
Replica(i) ==
  Follows(Halves, op_is_and, sent[Pred(i)][query], Round(i), Round(Pred(i)),
          filter[i].r0, filter[Pred(i)].r1)

PcPlaces == {"idle", "reshare", "reshared", "multiply", "multiplied", "aggregate", "answered"}

IsSequence(s) == Len(s) \in Nat /\ s = [k \in 1 .. Len(s) |-> s[k]]

Typed ==
  /\ query \in 0 .. NumQueries
  /\ pc \in [Server -> PcPlaces] /\ \A i \in Server : pc[i] # "idle" => query \in Query
  /\ DOMAIN res = Server /\ DOMAIN filter = Server
  /\ given \in [Server -> [Query -> Nat]]
  /\ DOMAIN got = Server /\ DOMAIN sent = Server
  /\ \A i \in Server : DOMAIN got[i] = Query /\ DOMAIN sent[i] = Query
  /\ \A i \in Server, q \in Query :
        IsSequence(got[i][q]) /\ IsSequence(sent[i][q]) /\ Len(sent[i][q]) = given[i][q]

\* Nothing has been exchanged of a query that the client has not sent.
Unsent == \A i \in Server, q \in Query : q > query => given[i][q] = 0 /\ Len(got[i][q]) = 0

\* The rounds that a handler has given (g) and got (r), of n.
AtPlace(place, r, g, n) ==
  /\ place = "reshare" => r = 0 /\ g = 0
  /\ place = "reshared" => r = 0 /\ g = 1
  /\ place = "multiply" => r >= 1 /\ r < n /\ g = r
  /\ place = "multiplied" => r >= 1 /\ r < n /\ g = r + 1
  /\ place \in {"aggregate", "answered"} => r = n /\ g = n

\* A server has never got what its predecessor did not give.
RoundInv ==
  \A i \in Server : pc[i] # "idle" =>
     /\ AtPlace(pc[i], Round(i), given[i][query], NumFilters[query])
     /\ Round(i) <= given[Pred(i)][query]

\* A client's query is over at all servers at once.
TogetherIdle == \A i, j \in Server : pc[i] = "idle" => pc[j] = "idle"

\* A server keeps the sums it sent, and those it got from its predecessor.
ResInv ==
  \A i \in Server : pc[i] \in {"reshared", "multiply", "multiplied"} =>
     \A f \in 0 .. NumFilters[query] - 1 :
        /\ res[i][f].r1 = sent[i][query][1][f]
        /\ pc[i] # "reshared" => res[i][f].r0 = sent[Pred(i)][query][1][f]

Unfiltered ==
  \A i \in Server : pc[i] \in {"idle", "reshare", "reshared"} => filter[i] = NoShares

ReplicaInv == \A i \in Server : pc[i] # "idle" => Replica(i)

Basic == Typed /\ Unsent /\ RoundInv /\ TogetherIdle /\ Unfiltered /\ ReplicaInv

Inv == Basic /\ ResInv

-----------------------------------------------------------------------------
(* Lemmas about the ring, sequences and Follows.                           *)

\* The servers and their predecessors.
LEMMA Ring ==
  /\ Server = {0, 1, 2} /\ Pred(0) = 2 /\ Pred(1) = 0 /\ Pred(2) = 1
  /\ \A i \in Server : /\ Pred(i) \in Server /\ Pred(i) # i /\ Pred(Pred(Pred(i))) = i
                       /\ Exchange!Pred(i) = Pred(i)
<1>1. Server = {0, 1, 2} /\ Pred(0) = 2 /\ Pred(1) = 0 /\ Pred(2) = 1
  BY DEF Server, NUM_SERVERS, Pred
<1>2. Exchange!Server = {0, 1, 2}
  BY DEF Exchange!Server, NUM_SERVERS
<1>3. Exchange!Succ(0) = 1 /\ Exchange!Succ(1) = 2 /\ Exchange!Succ(2) = 0
  BY DEF Exchange!Succ, NUM_SERVERS
<1>4. Exchange!Pred(0) = 2 /\ Exchange!Pred(1) = 0 /\ Exchange!Pred(2) = 1
  BY <1>2, <1>3 DEF Exchange!Pred
<1> QED BY <1>1, <1>4

\* What Append does to any sequence.
LEMMA AppendAny ==
  ASSUME NEW s, IsSequence(s), NEW e
  PROVE  /\ IsSequence(Append(s, e)) /\ Len(Append(s, e)) = Len(s) + 1
         /\ \A k \in 1 .. Len(s) : Append(s, e)[k] = s[k]
         /\ Append(s, e)[Len(s) + 1] = e
<1> DEFINE S == {s[k] : k \in 1 .. Len(s)} \cup {e}
<1>1. s \in Seq(S)
  <2>1. \A k \in 1 .. Len(s) : s[k] \in S
    OBVIOUS
  <2>2. s \in [1 .. Len(s) -> S]
    BY <2>1 DEF IsSequence
  <2> HIDE DEF S
  <2> QED BY <2>2, SeqDef DEF IsSequence
<1>2. e \in S
  OBVIOUS
<1> HIDE DEF S
<1>3. Append(s, e) \in Seq(S) /\ Len(Append(s, e)) = Len(s) + 1
  BY <1>1, <1>2, AppendProperties
<1>4. IsSequence(Append(s, e))
  <2>1. Append(s, e) \in [1 .. Len(Append(s, e)) -> S] /\ Len(Append(s, e)) \in Nat
    BY <1>3, LenProperties
  <2> QED BY <2>1 DEF IsSequence
<1> QED BY <1>1, <1>2, <1>3, <1>4, AppendProperties

\* A server that gets its predecessor's next share does what the predecessor did.
LEMMA FollowsGet ==
  ASSUME NEW hs, NEW is_and, NEW s, NEW r \in Nat, NEW rp \in Nat, NEW f0, NEW f1,
         Follows(hs, is_and, s, r, rp, f0, f1), r <= rp, rp <= r + 2
  PROVE  Follows(hs, is_and, s, r + 1, rp, Step(hs, is_and, s, r, f0), f1)
<1>1. CASE r = rp
  BY <1>1 DEF Follows
<1>2. CASE rp = r + 1
  BY <1>2 DEF Follows
<1>3. CASE rp = r + 2
  <2>1. f1 = Step(hs, is_and, s, r + 1, Step(hs, is_and, s, r, f0))
    BY <1>3 DEF Follows
  <2> QED BY <1>3, <2>1 DEF Follows
<1> QED BY <1>1, <1>2, <1>3

\* The predecessor goes on.
LEMMA FollowsPred ==
  ASSUME NEW hs, NEW is_and, NEW s, NEW r \in Nat, NEW rp \in Nat, NEW f0, NEW f1,
         Follows(hs, is_and, s, r, rp, f0, f1), r <= rp + 1, rp <= r + 1
  PROVE  Follows(hs, is_and, s, r, rp + 1, f0, Step(hs, is_and, s, rp, f1))
<1>1. CASE r = rp
  BY <1>1 DEF Follows
<1>2. CASE r = rp + 1
  BY <1>2 DEF Follows
<1>3. CASE rp = r + 1
  <2>1. f1 = Step(hs, is_and, s, r, f0)
    BY <1>3 DEF Follows
  <2> QED BY <1>3, <2>1 DEF Follows
<1> QED BY <1>1, <1>2, <1>3

\* What the predecessor sends later does not matter yet.
LEMMA FollowsSend ==
  ASSUME NEW hs, NEW is_and, NEW s, NEW t, NEW r \in Nat, NEW rp \in Nat, NEW f0, NEW f1,
         Len(s) \in Nat, \A k \in 1 .. Len(s) : t[k] = s[k], r <= Len(s), rp <= Len(s),
         Follows(hs, is_and, s, r, rp, f0, f1)
  PROVE  Follows(hs, is_and, t, r, rp, f0, f1)
<1>1. ASSUME NEW k \in Nat, k + 1 <= Len(s), NEW x
      PROVE  Step(hs, is_and, t, k, x) = Step(hs, is_and, s, k, x)
  <2>1. t[1] = s[1] /\ t[k + 1] = s[k + 1]
    BY <1>1
  <2> QED BY <2>1 DEF Step
<1>2. CASE r = rp
  BY <1>2 DEF Follows
<1>3. CASE r = rp + 1
  BY <1>1, <1>3 DEF Follows
<1>4. CASE rp = r + 1
  BY <1>1, <1>4 DEF Follows
<1>5. CASE rp = r + 2
  <2>1. r \in Nat /\ r + 1 \in Nat /\ r + 1 <= Len(s) /\ (r + 1) + 1 <= Len(s)
    BY <1>5
  <2> QED BY <1>1, <1>5, <2>1 DEF Follows
<1>6. CASE r # rp /\ r # rp + 1 /\ rp # r + 1 /\ rp # r + 2
  BY <1>6 DEF Follows
<1> QED BY <1>2, <1>3, <1>4, <1>5, <1>6

-----------------------------------------------------------------------------
(* The exchange.                                                           *)

\* While a query is on, its counters are numbers; a server is at most one round ahead of
\* its predecessor, and the predecessor at most two ahead of it.
LEMMA Skew ==
  ASSUME Basic, NEW i \in Server, pc[i] # "idle"
  PROVE  /\ query \in Query /\ NumFilters[query] \in Nat \ {0}
         /\ \A j \in Server :
              /\ pc[j] # "idle" /\ Round(j) \in Nat /\ given[j][query] \in Nat
              /\ IsSequence(sent[j][query]) /\ IsSequence(got[j][query])
              /\ Len(sent[j][query]) = given[j][query]
              /\ Round(j) <= given[j][query] /\ given[j][query] <= Round(j) + 1
              /\ Round(j) <= given[Pred(j)][query]
              /\ Round(j) <= Round(Pred(j)) + 1 /\ Round(Pred(j)) <= Round(j) + 2
<1>1. query \in Query /\ NumFilters[query] \in Nat \ {0}
  BY ConstantsAssumption DEF Basic, Typed
<1>2. ASSUME NEW j \in Server
      PROVE  /\ pc[j] # "idle" /\ Round(j) \in Nat /\ given[j][query] \in Nat
             /\ IsSequence(sent[j][query]) /\ IsSequence(got[j][query])
             /\ Len(sent[j][query]) = given[j][query]
             /\ Round(j) <= given[j][query] /\ given[j][query] <= Round(j) + 1
             /\ Round(j) <= given[Pred(j)][query]
  <2>1. pc[j] # "idle" /\ pc[j] \in PcPlaces
    BY DEF Basic, TogetherIdle, Typed
  <2>2. /\ IsSequence(sent[j][query]) /\ IsSequence(got[j][query])
        /\ Len(sent[j][query]) = given[j][query] /\ given[j][query] \in Nat
    BY <1>1 DEF Basic, Typed
  <2>3. Round(j) \in Nat
    BY <2>2 DEF IsSequence, Round
  <2>4. /\ AtPlace(pc[j], Round(j), given[j][query], NumFilters[query])
        /\ Round(j) <= given[Pred(j)][query]
    BY <2>1 DEF Basic, RoundInv
  <2>5. Round(j) <= given[j][query] /\ given[j][query] <= Round(j) + 1
    BY <2>1, <2>2, <2>3, <2>4 DEF AtPlace, PcPlaces
  <2> QED BY <2>1, <2>2, <2>3, <2>4, <2>5
<1>3. ASSUME NEW j \in Server
      PROVE  Round(j) <= Round(Pred(j)) + 1
  <2>1. Pred(j) \in Server
    BY Ring
  <2>2. Round(j) <= given[Pred(j)][query] /\ given[Pred(j)][query] <= Round(Pred(j)) + 1
    BY <1>2, <2>1
  <2> QED BY <1>2, <2>1, <2>2
<1>4. ASSUME NEW j \in Server
      PROVE  Round(Pred(j)) <= Round(j) + 2
  <2>1. Pred(j) \in Server /\ Pred(Pred(j)) \in Server /\ Pred(Pred(Pred(j))) = j
    BY Ring
  <2>2. Round(Pred(j)) <= Round(Pred(Pred(j))) + 1 /\ Round(Pred(Pred(j))) <= Round(j) + 1
    BY <1>3, <2>1
  <2>3. Round(j) \in Nat /\ Round(Pred(j)) \in Nat /\ Round(Pred(Pred(j))) \in Nat
    BY <1>2, <2>1
  <2> QED BY <2>2, <2>3
<1> QED BY <1>1, <1>2, <1>3, <1>4

\* Handlers of a query that goes on
Unchanging == UNCHANGED <<malicious, query, op_is_and>>

\* Sending a share brings no replica out of step.
LEMMA GiveKeeps ==
  ASSUME Basic, Unchanging, NEW i \in Server, NEW v, Send(i, v),
         NEW to \in PcPlaces \ {"idle", "reshare"},
         pc[i] # "idle", pc' = [pc EXCEPT ![i] = to], to = "reshared" => pc[i] = "reshare",
         AtPlace(to, Round(i), given[i][query] + 1, NumFilters[query]),
         UNCHANGED <<got, filter>>, DOMAIN res' = Server
  PROVE  /\ Basic'
         /\ sent'[i][query] = Append(sent[i][query], v)
         /\ sent'[i][query][given[i][query] + 1] = v
         /\ \A j \in Server : \A k \in 1 .. given[j][query] :
               sent'[j][query][k] = sent[j][query][k]
<1> DEFINE q == query
<1>1. /\ q \in Query /\ NumFilters[q] \in Nat \ {0}
      /\ \A j \in Server :
           /\ pc[j] # "idle" /\ Round(j) \in Nat /\ given[j][q] \in Nat
           /\ IsSequence(sent[j][q]) /\ Len(sent[j][q]) = given[j][q]
           /\ Round(j) <= given[j][q] /\ Round(j) <= given[Pred(j)][q]
           /\ Round(Pred(j)) <= Round(j) + 2
  BY Skew
<1>2. Typed
  BY DEF Basic
<1>3. /\ given' = [given EXCEPT ![i][q] = given[i][q] + 1]
      /\ sent' = [sent EXCEPT ![i][q] = Append(sent[i][q], v)]
  BY DEF Send, Exchange!Give
<1>4. q' = q /\ got' = got /\ filter' = filter /\ Halves' = Halves /\ op_is_and' = op_is_and
  BY DEF Unchanging, Halves
<1>5. /\ given'[i][q] = given[i][q] + 1 /\ sent'[i][q] = Append(sent[i][q], v)
      /\ \A j \in Server, p \in Query : j # i \/ p # q
           => given'[j][p] = given[j][p] /\ sent'[j][p] = sent[j][p]
      /\ given' \in [Server -> [Query -> Nat]] /\ DOMAIN sent' = Server
      /\ \A j \in Server : DOMAIN sent'[j] = Query
  BY <1>1, <1>2, <1>3 DEF Typed
<1>6. /\ IsSequence(sent'[i][q]) /\ Len(sent'[i][q]) = given[i][q] + 1
      /\ \A k \in 1 .. given[i][q] : sent'[i][q][k] = sent[i][q][k]
      /\ sent'[i][q][given[i][q] + 1] = v
  BY <1>1, <1>5, AppendAny
<1>7. \A j \in Server : \A k \in 1 .. given[j][q] : sent'[j][q][k] = sent[j][q][k]
  BY <1>1, <1>5, <1>6
<1>8. /\ pc'[i] = to /\ \A j \in Server : j # i => pc'[j] = pc[j]
      /\ pc' \in [Server -> PcPlaces] /\ \A j \in Server : pc'[j] # "idle"
  BY <1>1, <1>2 DEF Typed
<1> HIDE DEF q
<1>9. Typed'
  <2>1. ASSUME NEW j \in Server, NEW p \in Query
        PROVE  /\ IsSequence(got'[j][p]) /\ IsSequence(sent'[j][p])
               /\ Len(sent'[j][p]) = given'[j][p]
    BY <1>2, <1>4, <1>5, <1>6 DEF Typed
  <2> QED BY <1>1, <1>2, <1>4, <1>5, <1>8, <2>1 DEF Typed, q
<1>10. Unsent'
  <2> SUFFICES ASSUME NEW j \in Server, NEW p \in Query, p > q
               PROVE  given'[j][p] = 0 /\ Len(got'[j][p]) = 0
    BY <1>4 DEF Unsent, q
  <2>1. p # q
    BY <1>1 DEF Query
  <2>2. given[j][p] = 0 /\ Len(got[j][p]) = 0
    BY DEF Basic, Unsent, q
  <2> QED BY <2>1, <2>2, <1>4, <1>5
<1>11. \A j \in Server : Round(j)' = Round(j)
  BY <1>4 DEF Round, q
<1>12. RoundInv'
  <2> SUFFICES ASSUME NEW j \in Server
               PROVE  /\ AtPlace(pc'[j], Round(j), given'[j][q], NumFilters[q])
                      /\ Round(j) <= given'[Pred(j)][q]
    BY <1>4, <1>11 DEF RoundInv, q
  <2>1. AtPlace(pc'[j], Round(j), given'[j][q], NumFilters[q])
    <3>1. CASE j = i
      BY <3>1, <1>5, <1>8 DEF q
    <3>2. CASE j # i
      BY <3>2, <1>1, <1>5, <1>8 DEF Basic, RoundInv, q
    <3> QED BY <3>1, <3>2
  <2>2. Round(j) <= given'[Pred(j)][q]
    <3>1. Pred(j) \in Server
      BY Ring
    <3>2. given'[Pred(j)][q] = given[Pred(j)][q] \/ given'[Pred(j)][q] = given[Pred(j)][q] + 1
      BY <3>1, <1>1, <1>5
    <3> QED BY <3>1, <3>2, <1>1
  <2> QED BY <2>1, <2>2
<1>13. TogetherIdle'
  BY <1>8 DEF TogetherIdle
<1>14. Unfiltered'
  <2>1. ASSUME NEW j \in Server, pc'[j] \in {"idle", "reshare", "reshared"}
        PROVE  filter[j] = NoShares
    BY <2>1, <1>8 DEF Basic, Unfiltered
  <2>2. NoShares' = NoShares
    BY <1>4 DEF NoShares, Zeros
  <2> QED BY <2>1, <2>2, <1>4 DEF Unfiltered
<1>15. ReplicaInv'
  <2> SUFFICES ASSUME NEW j \in Server
               PROVE  Follows(Halves, op_is_and, sent'[Pred(j)][q], Round(j), Round(Pred(j)),
                              filter[j].r0, filter[Pred(j)].r1)
    <3>1. \A j \in Server : Pred(j) \in Server
      BY Ring
    <3> QED BY <3>1, <1>4, <1>11 DEF ReplicaInv, Replica, q
  <2>1. Pred(j) \in Server
    BY Ring
  <2>2. Follows(Halves, op_is_and, sent[Pred(j)][q], Round(j), Round(Pred(j)),
                filter[j].r0, filter[Pred(j)].r1)
    BY <1>1 DEF Basic, ReplicaInv, Replica, q
  <2>3. /\ Len(sent[Pred(j)][q]) \in Nat
        /\ Round(j) <= Len(sent[Pred(j)][q]) /\ Round(Pred(j)) <= Len(sent[Pred(j)][q])
        /\ Round(j) \in Nat /\ Round(Pred(j)) \in Nat
    BY <1>1, <2>1
  <2>4. \A k \in 1 .. Len(sent[Pred(j)][q]) : sent'[Pred(j)][q][k] = sent[Pred(j)][q][k]
    BY <1>1, <1>7, <2>1
  <2> QED BY <2>2, <2>3, <2>4, FollowsSend
<1> QED BY <1>5, <1>6, <1>7, <1>9, <1>10, <1>12, <1>13, <1>14, <1>15 DEF Basic, q

\* Getting a share takes a server a round further, from x as its predecessor went on.
LEMMA GetKeeps ==
  ASSUME Basic, Unchanging, NEW i \in Server, Exchange!Get(i, query),
         NEW to \in {"multiply", "aggregate"},
         pc[i] # "idle", pc' = [pc EXCEPT ![i] = to],
         AtPlace(to, Round(i) + 1, given[i][query], NumFilters[query]),
         NEW f, filter' = [filter EXCEPT ![i] = f],
         f.r0 = Step(Halves, op_is_and, sent[Pred(i)][query], Round(i), filter[i].r0),
         f.r1 = Step(Halves, op_is_and, sent[i][query], Round(i), filter[i].r1),
         UNCHANGED sent, DOMAIN res' = Server
  PROVE  Basic'
<1> DEFINE q == query
<1>1. /\ q \in Query /\ NumFilters[q] \in Nat \ {0}
      /\ \A j \in Server :
           /\ pc[j] # "idle" /\ Round(j) \in Nat /\ given[j][q] \in Nat
           /\ IsSequence(sent[j][q]) /\ IsSequence(got[j][q])
           /\ Len(sent[j][q]) = given[j][q]
           /\ Round(j) <= given[j][q] /\ given[j][q] <= Round(j) + 1
           /\ Round(j) <= given[Pred(j)][q]
           /\ Round(j) <= Round(Pred(j)) + 1 /\ Round(Pred(j)) <= Round(j) + 2
  BY Skew
<1>2. Typed
  BY DEF Basic
<1>3. PICK e : got' = [got EXCEPT ![i][q] = Append(got[i][q], e)]
  BY DEF Exchange!Get
<1>4. /\ Round(i) < given[i][q] /\ Round(i) < given[Pred(i)][q]
      /\ given' = given /\ sent' = sent
  BY Ring DEF Exchange!Get, Round
<1>5. q' = q /\ Halves' = Halves /\ op_is_and' = op_is_and
  BY DEF Unchanging, Halves
<1>6. /\ got'[i][q] = Append(got[i][q], e)
      /\ \A j \in Server, p \in Query : j # i \/ p # q => got'[j][p] = got[j][p]
      /\ DOMAIN got' = Server /\ \A j \in Server : DOMAIN got'[j] = Query
  BY <1>1, <1>2, <1>3 DEF Typed
<1>7. IsSequence(got'[i][q]) /\ Len(got'[i][q]) = Round(i) + 1
  BY <1>1, <1>6, AppendAny DEF Round
<1>8. /\ pc'[i] = to /\ \A j \in Server : j # i => pc'[j] = pc[j]
      /\ pc' \in [Server -> PcPlaces] /\ \A j \in Server : pc'[j] # "idle"
  BY <1>1, <1>2 DEF Typed, PcPlaces
<1>9. /\ filter'[i] = f /\ \A j \in Server : j # i => filter'[j] = filter[j]
      /\ DOMAIN filter' = Server
  BY <1>2 DEF Typed
<1> HIDE DEF q
<1>10. Typed'
  <2>1. ASSUME NEW j \in Server, NEW p \in Query
        PROVE  /\ IsSequence(got'[j][p]) /\ IsSequence(sent'[j][p])
               /\ Len(sent'[j][p]) = given'[j][p]
    BY <1>2, <1>4, <1>6, <1>7 DEF Typed
  <2> QED BY <1>1, <1>2, <1>4, <1>5, <1>6, <1>8, <1>9, <2>1 DEF Typed, q
<1>11. Unsent'
  <2> SUFFICES ASSUME NEW j \in Server, NEW p \in Query, p > q
               PROVE  given'[j][p] = 0 /\ Len(got'[j][p]) = 0
    BY <1>5 DEF Unsent, q
  <2>1. p # q
    BY <1>1 DEF Query
  <2>2. given[j][p] = 0 /\ Len(got[j][p]) = 0
    BY DEF Basic, Unsent, q
  <2> QED BY <2>1, <2>2, <1>4, <1>6
<1>12. /\ Round(i)' = Round(i) + 1
       /\ \A j \in Server : j # i => Round(j)' = Round(j)
  BY <1>1, <1>5, <1>6, <1>7 DEF Round, q
<1>13. RoundInv'
  <2> SUFFICES ASSUME NEW j \in Server
               PROVE  /\ AtPlace(pc'[j], Round(j)', given[j][q], NumFilters[q])
                      /\ Round(j)' <= given[Pred(j)][q]
    BY <1>4, <1>5 DEF RoundInv, q
  <2>1. CASE j = i
    <3>1. Pred(i) \in Server
      BY Ring
    <3>2. Round(i) + 1 <= given[Pred(i)][q]
      BY <3>1, <1>1, <1>4
    <3> QED BY <2>1, <3>2, <1>8, <1>12 DEF q
  <2>2. CASE j # i
    BY <2>2, <1>1, <1>8, <1>12 DEF Basic, RoundInv, q
  <2> QED BY <2>1, <2>2
<1>14. TogetherIdle'
  BY <1>8 DEF TogetherIdle
<1>15. Unfiltered'
  <2>1. ASSUME NEW j \in Server, pc'[j] \in {"idle", "reshare", "reshared"}
        PROVE  filter'[j] = NoShares
    BY <2>1, <1>8, <1>9 DEF Basic, Unfiltered
  <2>2. NoShares' = NoShares
    BY <1>5 DEF NoShares, Zeros
  <2> QED BY <2>1, <2>2 DEF Unfiltered
<1>16. ReplicaInv'
  <2> DEFINE Kept(j, r, rp, f0, f1) ==
               Follows(Halves, op_is_and, sent[Pred(j)][q], r, rp, f0, f1)
  <2> SUFFICES ASSUME NEW j \in Server
               PROVE  Kept(j, Round(j)', Round(Pred(j))', filter'[j].r0, filter'[Pred(j)].r1)
    BY <1>4, <1>5 DEF ReplicaInv, Replica, q
  <2>1. Pred(j) \in Server /\ Pred(j) # j /\ Pred(i) \in Server /\ Pred(i) # i
    BY Ring
  <2>2. Kept(j, Round(j), Round(Pred(j)), filter[j].r0, filter[Pred(j)].r1)
    BY <1>1 DEF Basic, ReplicaInv, Replica, q
  <2>3. Round(j) \in Nat /\ Round(Pred(j)) \in Nat /\ Round(Pred(j)) <= Round(j) + 2
    BY <1>1, <2>1
  <2>4. CASE j = i
    <3>1. /\ Round(j)' = Round(j) + 1 /\ Round(Pred(j))' = Round(Pred(j))
          /\ filter'[Pred(j)] = filter[Pred(j)]
          /\ filter'[j].r0
               = Step(Halves, op_is_and, sent[Pred(j)][q], Round(j), filter[j].r0)
      BY <2>1, <2>4, <1>9, <1>12 DEF q
    <3>2. Round(j) <= Round(Pred(j))
      <4>1. given[Pred(i)][q] <= Round(Pred(i)) + 1 /\ given[Pred(i)][q] \in Nat
        BY <1>1, <2>1
      <4> QED BY <2>3, <2>4, <4>1, <1>4
    <3> QED BY <2>2, <2>3, <3>1, <3>2, FollowsGet
  <2>5. CASE Pred(j) = i
    <3>1. /\ Round(j)' = Round(j) /\ Round(Pred(j))' = Round(Pred(j)) + 1
          /\ filter'[j] = filter[j]
          /\ filter'[Pred(j)].r1
               = Step(Halves, op_is_and, sent[Pred(j)][q], Round(Pred(j)), filter[Pred(j)].r1)
      BY <2>1, <2>5, <1>9, <1>12 DEF q
    <3>2. Round(j) <= Round(Pred(j)) + 1
      BY <1>1
    <3>3. Round(Pred(j)) <= Round(j) + 1
      <4>1. Pred(Pred(Pred(j))) = j
        BY Ring
      <4>2. Round(Pred(i)) <= Round(j) + 1 /\ Round(Pred(i)) \in Nat
        BY <1>1, <2>1, <2>5, <4>1
      <4>3. given[Pred(i)][q] <= Round(Pred(i)) + 1 /\ given[Pred(i)][q] \in Nat
        BY <1>1, <2>1
      <4> QED BY <2>3, <2>5, <4>2, <4>3, <1>4
    <3> QED BY <2>2, <2>3, <3>1, <3>2, <3>3, FollowsPred
  <2>6. CASE j # i /\ Pred(j) # i
    BY <2>1, <2>2, <2>6, <1>9, <1>12
  <2> QED BY <2>4, <2>5, <2>6
<1> QED BY <1>10, <1>11, <1>13, <1>14, <1>15, <1>16 DEF Basic

\* The sums that were sent first stay where they are.
LEMMA ResKept ==
  ASSUME Inv, Unchanging, NEW j \in Server,
         pc[j] \in {"reshared", "multiply", "multiplied"},
         \A p \in Server : \A k \in 1 .. given[p][query] : sent'[p][query][k] = sent[p][query][k]
  PROVE  \A f \in 0 .. NumFilters[query] - 1 :
            /\ res[j][f].r1 = sent'[j][query][1][f]
            /\ pc[j] # "reshared" => res[j][f].r0 = sent'[Pred(j)][query][1][f]
<1>1. Basic /\ ResInv /\ Pred(j) \in Server
  BY Ring DEF Inv
<1>2. /\ given[j][query] \in Nat /\ given[Pred(j)][query] \in Nat /\ Round(j) \in Nat
      /\ Round(j) <= given[Pred(j)][query]
  BY <1>1, Skew
<1>3. AtPlace(pc[j], Round(j), given[j][query], NumFilters[query])
  BY <1>1 DEF Basic, RoundInv
<1>4. given[j][query] >= 1
  BY <1>2, <1>3 DEF AtPlace
<1>5. sent'[j][query][1] = sent[j][query][1]
  BY <1>2, <1>4
<1>6. pc[j] # "reshared" => sent'[Pred(j)][query][1] = sent[Pred(j)][query][1]
  <2> SUFFICES ASSUME pc[j] # "reshared"
               PROVE  sent'[Pred(j)][query][1] = sent[Pred(j)][query][1]
    OBVIOUS
  <2>1. given[Pred(j)][query] >= 1
    BY <1>2, <1>3 DEF AtPlace
  <2> QED BY <1>1, <1>2, <2>1
<1> QED BY <1>1, <1>5, <1>6 DEF ResInv

-----------------------------------------------------------------------------
(* The handlers.                                                           *)

\* RSSReshare sends the sums.
LEMMA ReshareStep ==
  ASSUME Inv, NEW i \in Server, RSSReshare(i)
  PROVE  Inv'
<1> DEFINE n == NumFilters[query]
<1>1. PICK sum :
        /\ pc[i] = "reshare" /\ Send(i, sum) /\ pc' = [pc EXCEPT ![i] = "reshared"]
        /\ UNCHANGED <<malicious, query, op_is_and, filter, got>>
        /\ res' = [res EXCEPT ![i] = [f \in 0 .. n - 1 |->
                     [r0 |-> TableShare(i, f).r0, r1 |-> sum[f],
                      coeff |-> RandCoeff(i, n * len + f * n + len), zero |-> 0]]]
  BY DEF RSSReshare, setupVars, clientVars
<1>2. Basic /\ ResInv /\ Unchanging
  BY <1>1 DEF Inv, Unchanging
<1>3. DOMAIN res = Server /\ pc \in [Server -> PcPlaces]
  BY <1>2 DEF Basic, Typed
<1>4. /\ \A f \in 0 .. n - 1 : res'[i][f].r1 = sum[f]
      /\ \A j \in Server : j # i => res'[j] = res[j]
      /\ DOMAIN res' = Server
  BY <1>1, <1>3
<1>5. AtPlace(pc[i], Round(i), given[i][query], n) /\ given[i][query] \in Nat
  BY <1>1, <1>2, Skew DEF Basic, RoundInv
<1>6. Round(i) = 0 /\ given[i][query] = 0
  BY <1>1, <1>5 DEF AtPlace
<1>7. AtPlace("reshared", Round(i), given[i][query] + 1, n)
  BY <1>6 DEF AtPlace
<1>8. "reshared" \in PcPlaces \ {"idle", "reshare"} /\ pc[i] # "idle"
  BY <1>1 DEF PcPlaces
<1>9. /\ Basic' /\ sent'[i][query][given[i][query] + 1] = sum
      /\ \A j \in Server : \A k \in 1 .. given[j][query] : sent'[j][query][k] = sent[j][query][k]
  BY <1>1, <1>2, <1>4, <1>7, <1>8, GiveKeeps
<1>10. ResInv'
  <2> SUFFICES ASSUME NEW j \in Server, pc'[j] \in {"reshared", "multiply", "multiplied"}
               PROVE  \A f \in 0 .. n - 1 :
                         /\ res'[j][f].r1 = sent'[j][query][1][f]
                         /\ pc'[j] # "reshared" => res'[j][f].r0 = sent'[Pred(j)][query][1][f]
    BY <1>1 DEF ResInv
  <2>1. CASE j = i
    <3>1. pc'[i] = "reshared" /\ sent'[i][query][1] = sum
      BY <1>1, <1>3, <1>6, <1>9
    <3> QED BY <2>1, <3>1, <1>4
  <2>2. CASE j # i
    <3>1. pc'[j] = pc[j] /\ res'[j] = res[j]
      BY <2>2, <1>1, <1>3, <1>4
    <3> QED BY <3>1, <1>2, <1>9, ResKept
  <2> QED BY <2>1, <2>2
<1> QED BY <1>9, <1>10 DEF Inv

\* Multiply sends its product.
LEMMA MultiplyStep ==
  ASSUME Inv, NEW i \in Server, Multiply(i)
  PROVE  Inv'
<1> DEFINE n == NumFilters[query]
<1>1. /\ pc[i] = "multiply" /\ Send(i, Product(i)) /\ pc' = [pc EXCEPT ![i] = "multiplied"]
      /\ UNCHANGED <<malicious, query, op_is_and, filter, got, res>>
  BY DEF Multiply, setupVars, clientVars
<1>2. Basic /\ ResInv /\ Unchanging
  BY <1>1 DEF Inv, Unchanging
<1>3. DOMAIN res' = Server /\ pc \in [Server -> PcPlaces]
  BY <1>1, <1>2 DEF Basic, Typed
<1>4. AtPlace(pc[i], Round(i), given[i][query], n) /\ given[i][query] \in Nat
  BY <1>1, <1>2, Skew DEF Basic, RoundInv
<1>5. AtPlace("multiplied", Round(i), given[i][query] + 1, n)
  BY <1>1, <1>4 DEF AtPlace
<1>6. "multiplied" \in PcPlaces \ {"idle", "reshare"} /\ pc[i] # "idle"
  BY <1>1 DEF PcPlaces
<1>7. /\ Basic'
      /\ \A j \in Server : \A k \in 1 .. given[j][query] : sent'[j][query][k] = sent[j][query][k]
  BY <1>1, <1>2, <1>3, <1>5, <1>6, GiveKeeps
<1>8. ResInv'
  <2> SUFFICES ASSUME NEW j \in Server, pc'[j] \in {"reshared", "multiply", "multiplied"}
               PROVE  \A f \in 0 .. n - 1 :
                         /\ res[j][f].r1 = sent'[j][query][1][f]
                         /\ pc'[j] # "reshared" => res[j][f].r0 = sent'[Pred(j)][query][1][f]
    BY <1>1 DEF ResInv
  <2>1. pc[j] \in {"reshared", "multiply", "multiplied"} /\ (pc'[j] # "reshared" <=> pc[j] # "reshared")
    BY <1>1, <1>3
  <2> QED BY <2>1, <1>2, <1>7, ResKept
<1> QED BY <1>7, <1>8 DEF Inv

\* The sums of the predecessor arrive.
LEMMA ReshareReceivedStep ==
  ASSUME Inv, NEW i \in Server, ReshareReceived(i)
  PROVE  Inv'
<1> DEFINE n == NumFilters[query]
           m == sent[Pred(i)][query][Round(i) + 1]
           to == IF n > 1 THEN "multiply" ELSE "aggregate"
<1>1. /\ pc[i] = "reshared" /\ Exchange!Get(i, query) /\ pc' = [pc EXCEPT ![i] = to]
      /\ UNCHANGED <<malicious, query, op_is_and, sent>>
  BY DEF ReshareReceived, setupVars, clientVars
<1>2. PICK c, z : res' = [res EXCEPT ![i] = [f \in 0 .. n - 1 |->
                           [r0 |-> m[f], r1 |-> res[i][f].r1, coeff |-> c[f], zero |-> z[f]]]]
  <2> DEFINE c == [f \in 0 .. n - 1 |-> IF malicious THEN RandCoeff(i, CoeffIdx(f, n))
                                        ELSE res[i][f].coeff]
             z == [f \in 0 .. n - 1 |-> ZeroShare(i, f * len + Row)]
  <2>1. res' = [res EXCEPT ![i] = [f \in 0 .. n - 1 |->
                  [r0 |-> m[f], r1 |-> res[i][f].r1,
                   coeff |-> IF malicious THEN RandCoeff(i, CoeffIdx(f, n))
                             ELSE res[i][f].coeff,
                   zero |-> ZeroShare(i, f * len + Row)]]]
    BY DEF ReshareReceived, Receive
  <2>2. res' = [res EXCEPT ![i] = [f \in 0 .. n - 1 |->
                  [r0 |-> m[f], r1 |-> res[i][f].r1, coeff |-> c[f], zero |-> z[f]]]]
    BY <2>1
  <2> QED BY <2>2
<1>3. Basic /\ ResInv /\ Unchanging
  BY <1>1 DEF Inv, Unchanging
<1>4. DOMAIN res = Server /\ pc \in [Server -> PcPlaces]
  BY <1>3 DEF Basic, Typed
<1>5. /\ \A f \in 0 .. n - 1 : res'[i][f].r0 = m[f] /\ res'[i][f].r1 = res[i][f].r1
      /\ \A j \in Server : j # i => res'[j] = res[j]
      /\ DOMAIN res' = Server
  BY <1>2, <1>4
<1>6. /\ AtPlace(pc[i], Round(i), given[i][query], n) /\ given[i][query] \in Nat
      /\ n \in Nat \ {0} /\ 0 \in 0 .. n - 1
  BY <1>1, <1>3, Skew DEF Basic, RoundInv
<1>7. Round(i) = 0 /\ given[i][query] = 1 /\ m = sent[Pred(i)][query][1]
  BY <1>1, <1>6 DEF AtPlace
<1>8. AtPlace(to, Round(i) + 1, given[i][query], n)
  BY <1>6, <1>7 DEF AtPlace
<1>9. filter' = [filter EXCEPT ![i] = [r0 |-> m[0], r1 |-> res[i][0].r1]]
  BY <1>6 DEF ReshareReceived, Receive
<1>10. \A f \in 0 .. n - 1 : res[i][f].r1 = sent[i][query][1][f]
  BY <1>1, <1>3 DEF ResInv
<1>11. Basic'
  <2> DEFINE f == [r0 |-> m[0], r1 |-> res[i][0].r1]
  <2>1. /\ f.r0 = Step(Halves, op_is_and, sent[Pred(i)][query], Round(i), filter[i].r0)
        /\ f.r1 = Step(Halves, op_is_and, sent[i][query], Round(i), filter[i].r1)
    BY <1>6, <1>7, <1>10 DEF Step
  <2>2. filter' = [filter EXCEPT ![i] = f]
    BY <1>9
  <2>3. to \in {"multiply", "aggregate"} /\ pc[i] # "idle"
    BY <1>1
  <2> HIDE DEF f, to
  <2> QED BY <2>1, <2>2, <2>3, <1>1, <1>3, <1>5, <1>8, GetKeeps
<1>12. ResInv'
  <2> SUFFICES ASSUME NEW j \in Server, pc'[j] \in {"reshared", "multiply", "multiplied"}
               PROVE  \A f \in 0 .. n - 1 :
                         /\ res'[j][f].r1 = sent[j][query][1][f]
                         /\ pc'[j] # "reshared" => res'[j][f].r0 = sent[Pred(j)][query][1][f]
    BY <1>1 DEF ResInv
  <2>1. CASE j = i
    BY <2>1, <1>5, <1>7, <1>10
  <2>2. CASE j # i
    <3>1. pc'[j] = pc[j] /\ res'[j] = res[j]
      BY <2>2, <1>1, <1>4, <1>5
    <3> QED BY <3>1, <1>3 DEF ResInv
  <2> QED BY <2>1, <2>2
<1> QED BY <1>11, <1>12 DEF Inv

\* The product of the predecessor arrives.
LEMMA MultiplyReceivedStep ==
  ASSUME Inv, NEW i \in Server, MultiplyReceived(i)
  PROVE  Inv'
<1> DEFINE n == NumFilters[query]
           r == Round(i)
           x == filter[i]
           y == res[i][Round(i)]
           z == [r0 |-> sent[Pred(i)][query][r + 1], r1 |-> sent[i][query][r + 1]]
           f == IF op_is_and THEN z ELSE OrFilters(z, x, y)
           to == IF r + 1 < n THEN "multiply" ELSE "aggregate"
<1>1. /\ pc[i] = "multiplied" /\ Exchange!Get(i, query) /\ pc' = [pc EXCEPT ![i] = to]
      /\ filter' = [filter EXCEPT ![i] = f]
      /\ UNCHANGED <<malicious, query, op_is_and, sent, res>>
  BY DEF MultiplyReceived, Receive, setupVars, clientVars
<1>2. Basic /\ ResInv /\ Unchanging
  BY <1>1 DEF Inv, Unchanging
<1>3. DOMAIN res' = Server /\ pc \in [Server -> PcPlaces]
  BY <1>1, <1>2 DEF Basic, Typed
<1>4. /\ AtPlace(pc[i], r, given[i][query], n) /\ given[i][query] \in Nat
      /\ n \in Nat \ {0} /\ r \in Nat
  BY <1>1, <1>2, Skew DEF Basic, RoundInv
<1>5. r >= 1 /\ r < n /\ given[i][query] = r + 1 /\ r \in 0 .. n - 1
  BY <1>1, <1>4 DEF AtPlace
<1>6. AtPlace(to, r + 1, given[i][query], n)
  BY <1>4, <1>5 DEF AtPlace
<1>7. y.r1 = sent[i][query][1][r] /\ y.r0 = sent[Pred(i)][query][1][r]
  BY <1>1, <1>2, <1>5 DEF ResInv
<1>8. /\ f.r0 = Step(Halves, op_is_and, sent[Pred(i)][query], r, x.r0)
      /\ f.r1 = Step(Halves, op_is_and, sent[i][query], r, x.r1)
  <2>1. CASE op_is_and
    BY <2>1, <1>5 DEF Step
  <2>2. CASE ~op_is_and
    <3>1. \A a, b : Plus(a, b) = PlusOver(Halves, a, b)
      BY DEF Plus, PlusOver
    <3>2. /\ f.r0 = PlusOver(Halves, z.r0, PlusOver(Halves, x.r0, y.r0))
          /\ f.r1 = PlusOver(Halves, z.r1, PlusOver(Halves, x.r1, y.r1))
      BY <2>2, <3>1 DEF OrFilters
    <3>3. \A s, x0 : Step(Halves, op_is_and, s, r, x0)
                       = PlusOver(Halves, s[r + 1], PlusOver(Halves, x0, s[1][r]))
      BY <2>2, <1>5 DEF Step
    <3>4. z.r0 = sent[Pred(i)][query][r + 1] /\ z.r1 = sent[i][query][r + 1]
      OBVIOUS
    <3> HIDE DEF f, x, y, z, r
    <3> QED BY <3>2, <3>3, <3>4, <1>7
  <2> QED BY <2>1, <2>2
<1>9. Basic'
  <2>1. to \in {"multiply", "aggregate"} /\ pc[i] # "idle"
    BY <1>1
  <2> HIDE DEF f, to
  <2> QED BY <2>1, <1>1, <1>2, <1>3, <1>6, <1>8, GetKeeps
<1>10. ResInv'
  <2> SUFFICES ASSUME NEW j \in Server, pc'[j] \in {"reshared", "multiply", "multiplied"}
               PROVE  \A k \in 0 .. n - 1 :
                         /\ res[j][k].r1 = sent[j][query][1][k]
                         /\ pc'[j] # "reshared" => res[j][k].r0 = sent[Pred(j)][query][1][k]
    BY <1>1 DEF ResInv
  <2>1. CASE j = i
    BY <2>1, <1>1, <1>2 DEF ResInv
  <2>2. CASE j # i
    BY <2>2, <1>1, <1>2, <1>3 DEF ResInv
  <2> QED BY <2>1, <2>2
<1> QED BY <1>9, <1>10 DEF Inv

\* The last handler of a query; the servers' replicas stay as they are.
LEMMA AnswerStep ==
  ASSUME Inv, NEW i \in Server, AggFilterQuery(i)
  PROVE  Inv'
<1>1. /\ pc[i] = "aggregate" /\ pc' = [pc EXCEPT ![i] = "answered"]
      /\ UNCHANGED <<malicious, query, op_is_and, filter, res, given, got, sent>>
  BY DEF AggFilterQuery, setupVars, clientVars, exchangeVars
<1>2. Typed /\ Unsent /\ RoundInv /\ TogetherIdle /\ Unfiltered /\ ReplicaInv /\ ResInv
  BY DEF Inv, Basic
<1>3. /\ pc'[i] = "answered" /\ \A j \in Server : j # i => pc'[j] = pc[j]
      /\ pc' \in [Server -> PcPlaces]
      /\ \A j \in Server : (pc'[j] = "idle" <=> pc[j] = "idle")
      /\ \A j \in Server : Round(j)' = Round(j)
      /\ Halves' = Halves /\ NoShares' = NoShares
  BY <1>1, <1>2 DEF Typed, PcPlaces, Round, Halves, NoShares, Zeros
<1>4. Typed' /\ Unsent' /\ TogetherIdle'
  BY <1>1, <1>2, <1>3 DEF Typed, Unsent, TogetherIdle
<1>5. RoundInv'
  <2>1. ASSUME NEW j \in Server, pc'[j] # "idle"
        PROVE  /\ AtPlace(pc'[j], Round(j), given[j][query], NumFilters[query])
               /\ Round(j) <= given[Pred(j)][query]
    BY <2>1, <1>1, <1>2, <1>3 DEF RoundInv, AtPlace
  <2> QED BY <2>1, <1>1, <1>3 DEF RoundInv
<1>6. Unfiltered' /\ ResInv'
  BY <1>1, <1>2, <1>3 DEF Unfiltered, ResInv
<1>7. ReplicaInv'
  BY <1>1, <1>2, <1>3 DEF ReplicaInv, Replica, Round
<1> QED BY <1>4, <1>5, <1>6, <1>7 DEF Inv, Basic

\* A query starts with nothing exchanged of it at any server.
LEMMA SendsStep ==
  ASSUME Inv, ClientSends
  PROVE  Inv'
<1>1. /\ query < NumQueries /\ \A i \in Server : pc[i] = "idle"
      /\ query' = query + 1 /\ pc' = [i \in Server |-> "reshare"]
      /\ UNCHANGED <<malicious, filter, res, given, got, sent>>
  BY DEF ClientSends, setupVars, exchangeVars
<1>2. Typed /\ Unsent /\ Unfiltered
  BY DEF Inv, Basic
<1>3. query \in Nat /\ query' \in Query /\ query' \in 0 .. NumQueries /\ NumQueries \in Nat
  BY <1>1, <1>2, ConstantsAssumption DEF Typed, Query
<1>4. \A i \in Server : given[i][query'] = 0 /\ Len(got[i][query']) = 0
  BY <1>1, <1>2, <1>3 DEF Unsent
<1>5. \A i \in Server : pc'[i] = "reshare" /\ Round(i)' = 0
  BY <1>1, <1>4 DEF Round
<1>6. Typed'
  BY <1>1, <1>2, <1>3 DEF Typed, PcPlaces
<1>7. Unsent'
  <2> SUFFICES ASSUME NEW j \in Server, NEW p \in Query, p > query + 1
               PROVE  given[j][p] = 0 /\ Len(got[j][p]) = 0
    BY <1>1 DEF Unsent
  <2>1. p > query
    BY <1>3 DEF Query
  <2> QED BY <2>1, <1>2 DEF Unsent
<1>8. RoundInv' /\ TogetherIdle' /\ ResInv'
  BY <1>1, <1>4, <1>5, Ring DEF RoundInv, AtPlace, TogetherIdle, ResInv
<1>9. Halves' = Halves /\ NoShares' = NoShares /\ \A i \in Server : filter[i] = NoShares
  BY <1>1, <1>2 DEF Halves, NoShares, Zeros, Unfiltered
<1>10. Unfiltered' /\ ReplicaInv'
  <2>1. NoShares.r0 = NoShares.r1
    BY DEF NoShares
  <2>2. \A i \in Server : /\ Pred(i) \in Server /\ filter'[i].r0 = filter'[Pred(i)].r1
                          /\ Round(i)' = 0 /\ Round(Pred(i))' = 0
    BY <2>1, <1>1, <1>5, <1>9, Ring
  <2>3. Unfiltered'
    BY <1>1, <1>9 DEF Unfiltered
  <2>4. \A i \in Server : Replica(i)'
    BY <2>2 DEF Replica, Follows
  <2> QED BY <2>3, <2>4 DEF ReplicaInv
<1> QED BY <1>6, <1>7, <1>8, <1>10 DEF Inv, Basic

\* After a query the filters are gone.
LEMMA ReceivesStep ==
  ASSUME Inv, ClientReceives
  PROVE  Inv'
<1>1. /\ pc' = [i \in Server |-> "idle"] /\ filter' = [i \in Server |-> NoShares]
      /\ res' = [i \in Server |-> <<>>]
      /\ UNCHANGED <<malicious, query, given, got, sent>>
  BY DEF ClientReceives, setupVars, clientVars, exchangeVars
<1>2. Typed /\ Unsent
  BY DEF Inv, Basic
<1>3. \A i \in Server : pc'[i] = "idle"
  BY <1>1
<1>4. Typed' /\ Unsent'
  BY <1>1, <1>2 DEF Typed, Unsent, PcPlaces
<1>5. RoundInv' /\ TogetherIdle' /\ ResInv' /\ ReplicaInv'
  BY <1>3 DEF RoundInv, TogetherIdle, ResInv, ReplicaInv
<1>6. Unfiltered'
  BY <1>1 DEF Unfiltered, NoShares, Zeros, Halves
<1> QED BY <1>4, <1>5, <1>6 DEF Inv, Basic

-----------------------------------------------------------------------------
(* The replicas.                                                           *)

\* The invariant holds at first.
LEMMA InitInv == Init => Inv
<1> SUFFICES ASSUME Init PROVE Inv
  OBVIOUS
<1>1. /\ query = 0 /\ pc = [i \in Server |-> "idle"] /\ res = [i \in Server |-> <<>>]
      /\ filter = [i \in Server |-> NoShares]
      /\ sent = [i \in Server |-> [q \in Query |-> <<>>]]
      /\ given = [i \in Server |-> [q \in Query |-> 0]]
      /\ got = [i \in Server |-> [q \in Query |-> <<>>]]
  BY DEF Init, Exchange!Init, Exchange!Server, Server
<1>2. IsSequence(<<>>) /\ Len(<<>>) = 0
  BY DEF IsSequence
<1>3. Typed
  BY <1>1, <1>2, ConstantsAssumption DEF Typed, PcPlaces
<1>4. Unsent /\ RoundInv /\ TogetherIdle /\ Unfiltered /\ ReplicaInv /\ ResInv
  BY <1>1, <1>2 DEF Unsent, RoundInv, TogetherIdle, Unfiltered, ReplicaInv, ResInv
<1> QED BY <1>3, <1>4 DEF Inv, Basic

\* Every step keeps it.
LEMMA NextInv ==
  ASSUME Inv, [Next]_vars
  PROVE  Inv'
<1>1. CASE UNCHANGED vars
  <2>1. UNCHANGED <<malicious, query, op_is_and, pc, res, filter, sent, given, got>>
    BY <1>1 DEF vars, setupVars, clientVars, exchangeVars
  <2>2. \A i \in Server : Round(i)' = Round(i) /\ Replica(i)' = Replica(i)
    BY <2>1 DEF Round, Replica, Halves
  <2>3. NoShares' = NoShares
    BY <2>1 DEF NoShares, Zeros, Halves
  <2>4. Typed' /\ Unsent' /\ TogetherIdle' /\ ResInv'
    BY <2>1 DEF Inv, Basic, Typed, Unsent, TogetherIdle, ResInv
  <2>5. RoundInv' /\ Unfiltered' /\ ReplicaInv'
    BY <2>1, <2>2, <2>3 DEF Inv, Basic, RoundInv, Unfiltered, ReplicaInv
  <2> QED BY <2>4, <2>5 DEF Inv, Basic
<1>2. CASE ClientSends
  BY <1>2, SendsStep
<1>3. ASSUME NEW i \in Server, RSSReshare(i) PROVE Inv'
  BY <1>3, ReshareStep
<1>4. ASSUME NEW i \in Server, ReshareReceived(i) PROVE Inv'
  BY <1>4, ReshareReceivedStep
<1>5. ASSUME NEW i \in Server, Multiply(i) PROVE Inv'
  BY <1>5, MultiplyStep
<1>6. ASSUME NEW i \in Server, MultiplyReceived(i) PROVE Inv'
  BY <1>6, MultiplyReceivedStep
<1>7. ASSUME NEW i \in Server, AggFilterQuery(i) PROVE Inv'
  BY <1>7, AnswerStep
<1>8. CASE ClientReceives
  BY <1>8, ReceivesStep
<1> QED BY <1>1, <1>2, <1>3, <1>4, <1>5, <1>6, <1>7, <1>8 DEF Next, Quiescent

\* Servers that have done as many rounds hold replicated shares of the combined filters,
\* though one may be two rounds ahead of its successor: what RSSReshare and Multiply
\* copy from multReceivedShares, and what OrFilters adds to both halves, stays in step.
THEOREM StayReplicated == Spec => []Replicated
<1>1. Inv => Replicated
  <2> SUFFICES ASSUME Inv, NEW i \in Server,
                      pc[i] \in {"multiply", "multiplied", "aggregate"},
                      Round(i) = Round(Pred(i))
               PROVE  filter[i].r0 = filter[Pred(i)].r1
    BY DEF Replicated
  <2>1. Replica(i)
    BY DEF Inv, Basic, ReplicaInv
  <2> QED BY <2>1 DEF Replica, Follows
<1> QED BY <1>1, InitInv, NextInv, PTL DEF Spec

-----------------------------------------------------------------------------
(* Induction and recursion over the levels 0 .. d, and remainders.         *)

\* A set with 0 that is closed under adding 1 has all natural numbers.
LEMMA NatSet ==
  ASSUME NEW S, 0 \in S, \A n \in Nat : n \in S => n + 1 \in S
  PROVE  Nat \subseteq S
<1>. SUFFICES ASSUME NEW n \in Nat, n \notin S PROVE FALSE
  OBVIOUS
<1> DEFINE U == S \cap (0 .. n)
           V == U \ {0}
           f == [x \in U |-> x + 1]
<1>1. IsFiniteSet(0 .. n) BY FS_Interval
<1>2. IsFiniteSet(U) BY <1>1, FS_Subset
<1>3. 0 \in U OBVIOUS
<1>4. /\ IsFiniteSet(V) /\ Cardinality(V) = Cardinality(U) - 1
      /\ Cardinality(U) \in Nat
  BY <1>2, <1>3, FS_RemoveElement, FS_CardinalityType
<1>5. f \in [U -> V]
  <2>. SUFFICES ASSUME NEW x \in U PROVE x + 1 \in V
    OBVIOUS
  <2>1. x \in Nat /\ x # n /\ x <= n OBVIOUS
  <2>. QED BY <2>1
<1>6. \A x, y \in U : f[x] = f[y] => x = y OBVIOUS
<1>. HIDE DEF U, V, f
<1>7. Cardinality(V) < Cardinality(U) BY <1>4
<1>8. \E x, y \in U : x # y /\ f[x] = f[y]
  BY <1>2, <1>4, <1>5, <1>7, FS_PigeonHole
<1>. QED BY <1>6, <1>8

\* The same up to a bound: what holds at the root and goes down a level holds at all levels.
LEMMA IntervalInduction ==
  ASSUME NEW d \in Nat, NEW S, 0 \in S, \A i \in 1 .. d : i - 1 \in S => i \in S
  PROVE  \A i \in 0 .. d : i \in S
<1> DEFINE H == {n \in Nat : n \in 0 .. d => n \in S}
<1>1. 0 \in H OBVIOUS
<1>2. \A n \in Nat : n \in H => n + 1 \in H
  <2>. SUFFICES ASSUME NEW n \in Nat, n \in H, n + 1 \in 0 .. d PROVE n + 1 \in S
    OBVIOUS
  <2>1. n \in S /\ n + 1 \in 1 .. d /\ (n + 1) - 1 = n OBVIOUS
  <2>. QED BY <2>1
<1>3. Nat \subseteq H
  <2>. HIDE DEF H
  <2>. QED BY <1>1, <1>2, NatSet
<1>. QED BY <1>3

\* For each of d steps the function by which it makes one member of T of another.
Steps(d, T) == [1 .. d -> [T -> T]]

\* The functions that start with a and take these steps.
Runs(d, T, a, step) ==
  {g \in [0 .. d -> T] : g[0] = a /\ \A i \in 1 .. d : g[i] = step[i][g[i - 1]]}

\* A function may be defined by recursion over its index.
LEMMA Recursion ==
  ASSUME NEW d \in Nat, NEW T, NEW a \in T, NEW step \in Steps(d, T)
  PROVE  \E g : g \in Runs(d, T, a, step)
<1> DEFINE Fits(n, g) == g \in [0 .. n -> T] /\ g[0] = a
                           /\ \A i \in 1 .. n : g[i] = step[i][g[i - 1]]
           S == {n \in Nat : \E g : Fits(n, g)}
<1>0. step \in [1 .. d -> [T -> T]] BY DEF Steps
<1>1. 0 \in S
  <2>. DEFINE g == [i \in 0 .. 0 |-> a]
  <2>1. Fits(0, g) OBVIOUS
  <2>. QED BY <2>1
<1>2. \A n \in 1 .. d : n - 1 \in S => n \in S
  <2>. SUFFICES ASSUME NEW n \in 1 .. d, n - 1 \in S PROVE n \in S
    OBVIOUS
  <2>1. PICK g : Fits(n - 1, g) OBVIOUS
  <2>. DEFINE h == [i \in 0 .. n |-> IF i = n THEN step[n][g[n - 1]] ELSE g[i]]
  <2>2. g[n - 1] \in T BY <2>1
  <2>3. step[n][g[n - 1]] \in T BY <1>0, <2>2
  <2>4. h \in [0 .. n -> T] BY <2>1, <2>3
  <2>5. h[0] = a BY <2>1
  <2>6. \A i \in 1 .. n : h[i] = step[i][h[i - 1]]
    <3>. TAKE i \in 1 .. n
    <3>1. h[i - 1] = g[i - 1] OBVIOUS
    <3>2. CASE i = n
      <4>1. h[n] = step[n][g[n - 1]] OBVIOUS
      <4>2. h[n - 1] = g[n - 1] OBVIOUS
      <4>. HIDE DEF h
      <4>. QED BY <3>2, <4>1, <4>2, Zenon
    <3>3. CASE i # n
      <4>1. i \in 1 .. n - 1 /\ h[i] = g[i] BY <3>3
      <4>. QED BY <2>1, <3>1, <4>1
    <3>. QED BY <3>2, <3>3
  <2>. HIDE DEF h
  <2>7. Fits(n, h) /\ n \in Nat BY <2>4, <2>5, <2>6
  <2>. HIDE DEF Fits
  <2>. QED BY <2>7
<1>3. d \in S
  <2>. HIDE DEF S
  <2>1. \A i \in 0 .. d : i \in S BY <1>1, <1>2, IntervalInduction
  <2>. QED BY <2>1
<1>. QED BY <1>3 DEF Runs

\* Quotient and remainder.
LEMMA DivMod ==
  ASSUME NEW a \in Int, NEW m \in Nat \ {0}
  PROVE  a % m \in 0 .. m - 1 /\ a = (a \div m) * m + (a % m) /\ a \div m \in Int
BY SMTT(30)

\* A remainder is the only number below m that differs from a by a multiple of m.
LEMMA ModUnique ==
  ASSUME NEW a \in Int, NEW m \in Nat \ {0}, NEW q \in Int, NEW r \in 0 .. m - 1, a = q * m + r
  PROVE  a % m = r
<1>1. a % m \in 0 .. m - 1 /\ a = (a \div m) * m + (a % m) /\ a \div m \in Int BY DivMod
<1> DEFINE p == a \div m
           s == a % m
<1>2. (p - q) * m = r - s BY <1>1
<1>. HIDE DEF p, s
<1>3. p \in Int /\ s \in 0 .. m - 1 BY <1>1 DEF p, s
<1>4. CASE p = q BY <1>2, <1>3, <1>4 DEF s
<1>5. CASE p > q
  <2>1. (p - q) * m >= m BY <1>3, <1>5
  <2>. QED BY <1>2, <1>3, <2>1
<1>6. CASE p < q
  <2>1. (q - p) * m >= m BY <1>3, <1>6
  <2>2. (q - p) * m = s - r BY <1>2, <1>3
  <2>. QED BY <1>3, <2>1, <2>2
<1>. QED BY <1>3, <1>4, <1>5, <1>6

\* Adding a multiple of m leaves the residue alone.
LEMMA ModShift ==
  ASSUME NEW a \in Int, NEW q \in Int, NEW m \in Nat \ {0}
  PROVE  (a + q * m) % m = a % m
<1>1. a % m \in 0 .. m - 1 /\ a = (a \div m) * m + (a % m) /\ a \div m \in Int BY DivMod
<1> DEFINE p == a \div m
           r == a % m
<1>2. p \in Int /\ r \in 0 .. m - 1 /\ a = p * m + r BY <1>1
<1>. HIDE DEF p, r
<1>3. a + q * m = (p + q) * m + r /\ p + q \in Int /\ a + q * m \in Int BY <1>2
<1>4. (a + q * m) % m = r BY <1>2, <1>3, ModUnique
<1>. QED BY <1>4 DEF r

\* A residue differs from its number by a multiple of m.
LEMMA ModWitness ==
  ASSUME NEW a \in Int, NEW m \in Nat \ {0}
  PROVE  \E q \in Int : a % m = a + q * m
<1>1. a = (a \div m) * m + (a % m) /\ a \div m \in Int /\ a % m \in 0 .. m - 1 BY DivMod
<1> DEFINE p == a \div m
           r == a % m
<1>2. p \in Int /\ r \in Int /\ a = p * m + r BY <1>1
<1>. HIDE DEF p, r
<1>3. -p \in Int /\ r = a + (-p) * m BY <1>2
<1>. QED BY <1>3 DEF r

\* The two numbers differ by a multiple of Modulus.
Congruent(a, b) == \E q \in Int : a = b + q * Modulus

\* Congruence is kept by sums and by negation, and is an equivalence.
LEMMA CongruentSum ==
  ASSUME NEW a \in Int, NEW b \in Int, NEW c \in Int, NEW d \in Int,
         Congruent(a, b), Congruent(c, d)
  PROVE  Congruent(a + c, b + d)
<1>1. Modulus \in Int BY ConstantsAssumption
<1>2. PICK q \in Int : a = b + q * Modulus BY DEF Congruent
<1>3. PICK r \in Int : c = d + r * Modulus BY DEF Congruent
<1>4. a + c = (b + d) + (q + r) * Modulus /\ q + r \in Int BY <1>1, <1>2, <1>3
<1>. QED BY <1>4 DEF Congruent

\* Negation.
LEMMA CongruentMinus ==
  ASSUME NEW a \in Int, NEW b \in Int, Congruent(a, b)
  PROVE  Congruent(-a, -b)
<1>1. Modulus \in Int BY ConstantsAssumption
<1>2. PICK q \in Int : a = b + q * Modulus BY DEF Congruent
<1>3. -a = -b + (-q) * Modulus /\ -q \in Int BY <1>1, <1>2
<1>. QED BY <1>3 DEF Congruent

\* Transitivity.
LEMMA CongruentTrans ==
  ASSUME NEW a \in Int, NEW b \in Int, NEW c \in Int, Congruent(a, b), Congruent(b, c)
  PROVE  Congruent(a, c)
<1>1. Modulus \in Int BY ConstantsAssumption
<1>2. PICK q \in Int : a = b + q * Modulus BY DEF Congruent
<1>3. PICK r \in Int : b = c + r * Modulus BY DEF Congruent
<1>4. a = c + (q + r) * Modulus /\ q + r \in Int BY <1>1, <1>2, <1>3
<1>. QED BY <1>4 DEF Congruent

\* Symmetry.
LEMMA CongruentSym ==
  ASSUME NEW a \in Int, NEW b \in Int, Congruent(a, b)
  PROVE  Congruent(b, a)
<1>1. Modulus \in Int BY ConstantsAssumption
<1>2. PICK q \in Int : a = b + q * Modulus BY DEF Congruent
<1>3. b = a + (-q) * Modulus /\ -q \in Int BY <1>1, <1>2
<1>. QED BY <1>3 DEF Congruent

\* Reflexivity.
LEMMA CongruentSelf ==
  ASSUME NEW a \in Int
  PROVE  Congruent(a, a)
<1>1. Modulus \in Int BY ConstantsAssumption
<1>2. a = a + 0 * Modulus BY <1>1
<1>. QED BY <1>2 DEF Congruent

\* Congruent numbers have the same residue.
LEMMA CongruentResidue ==
  ASSUME NEW a \in Int, NEW b \in Int, Congruent(a, b)
  PROVE  a % Modulus = b % Modulus
<1>1. Modulus \in Nat \ {0} BY ConstantsAssumption
<1>2. PICK q \in Int : a = b + q * Modulus BY DEF Congruent
<1>. QED BY <1>1, <1>2, ModShift, Zenon

\* Congruence is kept by products.
LEMMA CongruentProduct ==
  ASSUME NEW a \in Int, NEW b \in Int, NEW c \in Int, NEW d \in Int,
         Congruent(a, b), Congruent(c, d)
  PROVE  Congruent(a * c, b * d)
<1>1. Modulus \in Int BY ConstantsAssumption
<1>2. PICK q \in Int : a = b + q * Modulus BY DEF Congruent
<1>3. PICK r \in Int : c = d + r * Modulus BY DEF Congruent
<1> DEFINE s == q * d + b * r + q * r * Modulus
<1>4. a * c = b * d + s * Modulus
  <2>1. a * c = (b + q * Modulus) * (d + r * Modulus) BY <1>2, <1>3
  <2>2. (b + q * Modulus) * (d + r * Modulus) = b * d + s * Modulus BY <1>1
  <2>. QED BY <2>1, <2>2
<1>5. s \in Int BY <1>1
<1>. HIDE DEF s
<1>. QED BY <1>4, <1>5 DEF Congruent

\* A residue is an element, and congruent to its number.
LEMMA Residue ==
  ASSUME NEW a \in Int
  PROVE  a % Modulus \in Elem /\ a % Modulus \in Int /\ Congruent(a % Modulus, a)
<1>1. Modulus \in Nat \ {0} BY ConstantsAssumption
<1>2. a % Modulus \in 0 .. Modulus - 1 BY <1>1, DivMod
<1>3. \E q \in Int : a % Modulus = a + q * Modulus BY <1>1, ModWitness, Zenon
<1>. QED BY <1>2, <1>3 DEF Congruent, Elem

\* Three residues.
LEMMA ThreeResidues ==
  ASSUME NEW a \in Int, NEW b \in Int, NEW c \in Int
  PROVE  Congruent((a % Modulus) + (b % Modulus) + (c % Modulus), a + b + c)
<1>1. /\ a % Modulus \in Int /\ Congruent(a % Modulus, a)
      /\ b % Modulus \in Int /\ Congruent(b % Modulus, b)
      /\ c % Modulus \in Int /\ Congruent(c % Modulus, c)
  BY Residue
<1> DEFINE x == a % Modulus
           y == b % Modulus
           z == c % Modulus
<1>. HIDE DEF x, y, z
<1>2. /\ x \in Int /\ Congruent(x, a) /\ y \in Int /\ Congruent(y, b)
      /\ z \in Int /\ Congruent(z, c)
  BY <1>1 DEF x, y, z
<1>3. Congruent(x + y, a + b) /\ x + y \in Int /\ a + b \in Int BY <1>2, CongruentSum
<1>4. Congruent((x + y) + z, (a + b) + c) BY <1>2, <1>3, CongruentSum
<1>. QED BY <1>4 DEF x, y, z

\* Sums over the servers: of numbers that are congruent one by one.
LEMMA ThreeSum ==
  ASSUME NEW a \in Int, NEW b \in Int, NEW c \in Int, NEW x \in Int, NEW y \in Int, NEW z \in Int,
         Congruent(a, x), Congruent(b, y), Congruent(c, z)
  PROVE  Congruent(a + b + c, x + y + z)
<1>1. Congruent(a + b, x + y) /\ a + b \in Int /\ x + y \in Int BY CongruentSum
<1>. QED BY <1>1, CongruentSum

\* The client's shares add up to what it splits.
LEMMA SplitSum ==
  ASSUME NEW v \in Int, NEW k \in Int, seed \in Elem
  PROVE  /\ \A i \in Server : Split(v, i, k) \in Elem /\ Split(v, i, k) \in Int
         /\ Congruent(Split(v, 0, k) + Split(v, 1, k) + Split(v, 2, k), v)
<1>0. seed \in Int BY DEF Elem
<1> DEFINE a == seed * (k + 1)
           b == seed + k
           c == v - seed * (k + 1) - (seed + k)
<1>1. a \in Int /\ b \in Int /\ c \in Int /\ a + b + c = v BY <1>0
<1>2. Split(v, 0, k) = a % Modulus /\ Split(v, 1, k) = b % Modulus /\ Split(v, 2, k) = c % Modulus
  BY DEF Split
<1>. HIDE DEF a, b, c
<1>3. Congruent(Split(v, 0, k) + Split(v, 1, k) + Split(v, 2, k), v)
  BY <1>1, <1>2, ThreeResidues
<1>4. \A i \in Server : Split(v, i, k) \in Elem /\ Split(v, i, k) \in Int
  BY <1>1, <1>2, Residue, Ring
<1>. QED BY <1>3, <1>4

-----------------------------------------------------------------------------
(* The values of a query.                                                  *)

\* What the shares of half h in x stand for, up to the modulus.
Total(x, h) == x[0][h] + x[1][h] + x[2][h]

\* A row of shares, one of each server.
Triple == [Server -> Vec]

\* The bit of filter f.
BitOf(f) == IF truth[f] THEN 1 ELSE 0

\* What a share of a half stands for, if its values stand for v.
Worth(v, h) == IF h = "val" THEN v ELSE Alpha * v

\* Components of a triple.
LEMMA TripleParts ==
  ASSUME NEW x \in Triple, NEW h \in Halves
  PROVE  /\ x[0][h] \in Elem /\ x[1][h] \in Elem /\ x[2][h] \in Elem
         /\ x[0][h] \in Int /\ x[1][h] \in Int /\ x[2][h] \in Int /\ Total(x, h) \in Int
<1>1. x[0][h] \in Elem /\ x[1][h] \in Elem /\ x[2][h] \in Elem
  BY Ring DEF Triple, Vec
<1>2. \A e \in Elem : e \in Int BY DEF Elem
<1>3. x[0][h] \in Int /\ x[1][h] \in Int /\ x[2][h] \in Int BY <1>1, <1>2
<1>4. Total(x, h) \in Int BY <1>3 DEF Total
<1>. QED BY <1>1, <1>3, <1>4

\* Sums of halves
LEMMA PlusType ==
  ASSUME NEW a \in Vec, NEW b \in Vec
  PROVE  Plus(a, b) \in Vec
<1>1. \A h \in Halves : (a[h] + b[h]) % Modulus \in Elem
  <2>. TAKE h \in Halves
  <2>1. a[h] + b[h] \in Int BY DEF Vec, Elem
  <2>. QED BY <2>1, Residue
<1>. QED BY <1>1 DEF Plus, Vec

\* The shares of zero of the three servers at one counter.
Zero(i, c) ==
  (Prf(prfKey1(i), c % PrfInputs) - Prf(prfKey0[i], c % PrfInputs)) % Modulus

\* They add up to zero.
LEMMA ZerosCancel ==
  ASSUME NEW c \in Int, prfKey0 \in KeyRings
  PROVE  /\ \A i \in Server : Zero(i, c) \in Elem /\ Zero(i, c) \in Int
         /\ Congruent(Zero(0, c) + Zero(1, c) + Zero(2, c), 0)
<1> DEFINE d == c % PrfInputs
           p(i) == Prf(prfKey0[i], d)
<1>1. d \in 0 .. PrfInputs - 1 BY ConstantsAssumption, DivMod
<1>. HIDE DEF d
<1>2. \A i \in Server : p(i) \in Elem BY <1>1, ConstantsAssumption
<1>3. p(0) \in Int /\ p(1) \in Int /\ p(2) \in Int BY <1>2, Ring DEF Elem
<1>4. /\ Zero(0, c) = (p(2) - p(0)) % Modulus /\ Zero(1, c) = (p(0) - p(1)) % Modulus
      /\ Zero(2, c) = (p(1) - p(2)) % Modulus
  BY Ring DEF Zero, prfKey1, d
<1>. HIDE DEF p
<1>5. /\ p(2) - p(0) \in Int /\ p(0) - p(1) \in Int /\ p(1) - p(2) \in Int
      /\ (p(2) - p(0)) + (p(0) - p(1)) + (p(1) - p(2)) = 0
  BY <1>3
<1>6. Congruent(Zero(0, c) + Zero(1, c) + Zero(2, c), 0)
  BY <1>4, <1>5, ThreeResidues
<1>7. \A i \in Server : Zero(i, c) \in Elem /\ Zero(i, c) \in Int
  BY <1>4, <1>5, Residue, Ring
<1>. QED BY <1>6, <1>7

\* The products of three servers with replicated x and y, and shares of zero z.
ProductOf(x, y, z) ==
  [i \in Server |-> [h \in Halves |->
     (Cross(x[Pred(i)][h], x[i][h], [r0 |-> y[Pred(i)]["val"], r1 |-> y[i]["val"]])
        + (IF h = "val" THEN z[i] ELSE 0)) % Modulus]]

\* Local products of numbers, as residues
LEMMA CrossResidue ==
  ASSUME NEW a0 \in Int, NEW a1 \in Int, NEW b0 \in Int, NEW b1 \in Int
  PROVE  /\ Cross(a0, a1, [r0 |-> b0, r1 |-> b1]) \in Elem
         /\ Cross(a0, a1, [r0 |-> b0, r1 |-> b1]) \in Int
         /\ Congruent(Cross(a0, a1, [r0 |-> b0, r1 |-> b1]), a0 * b0 + a1 * b0 + a0 * b1)
<1> DEFINE n == a0 * b0 + a1 * b0 + a0 * b1
<1>1. n \in Int OBVIOUS
<1>2. Cross(a0, a1, [r0 |-> b0, r1 |-> b1]) = n % Modulus BY DEF Cross
<1>. HIDE DEF n
<1>3. n % Modulus \in Elem /\ n % Modulus \in Int /\ Congruent(n % Modulus, n) BY <1>1, Residue
<1>. QED BY <1>2, <1>3 DEF n

\* All the products that the servers compute, each of them once.
LEMMA CrossSum ==
  ASSUME NEW a0 \in Int, NEW a1 \in Int, NEW a2 \in Int,
         NEW b0 \in Int, NEW b1 \in Int, NEW b2 \in Int
  PROVE  (a2 * b2 + a0 * b2 + a2 * b0) + (a0 * b0 + a1 * b0 + a0 * b1)
           + (a1 * b1 + a2 * b1 + a1 * b2) = (a0 + a1 + a2) * (b0 + b1 + b2)
OBVIOUS

\* What is multiplied by shares is multiplied.
LEMMA CrossTotal ==
  ASSUME NEW a0 \in Int, NEW a1 \in Int, NEW a2 \in Int,
         NEW b0 \in Int, NEW b1 \in Int, NEW b2 \in Int
  PROVE  Congruent(Cross(a2, a0, [r0 |-> b2, r1 |-> b0]) + Cross(a0, a1, [r0 |-> b0, r1 |-> b1])
                     + Cross(a1, a2, [r0 |-> b1, r1 |-> b2]),
                   (a0 + a1 + a2) * (b0 + b1 + b2))
<1> DEFINE p0 == Cross(a2, a0, [r0 |-> b2, r1 |-> b0])
           p1 == Cross(a0, a1, [r0 |-> b0, r1 |-> b1])
           p2 == Cross(a1, a2, [r0 |-> b1, r1 |-> b2])
           n0 == a2 * b2 + a0 * b2 + a2 * b0
           n1 == a0 * b0 + a1 * b0 + a0 * b1
           n2 == a1 * b1 + a2 * b1 + a1 * b2
<1>1. /\ p0 \in Int /\ Congruent(p0, n0) /\ p1 \in Int /\ Congruent(p1, n1)
      /\ p2 \in Int /\ Congruent(p2, n2)
  <2>. HIDE DEF n0, n1, n2, p0, p1, p2
  <2>1. p0 \in Int /\ Congruent(p0, n0) BY CrossResidue DEF p0, n0
  <2>2. p1 \in Int /\ Congruent(p1, n1) BY CrossResidue DEF p1, n1
  <2>3. p2 \in Int /\ Congruent(p2, n2) BY CrossResidue DEF p2, n2
  <2>. QED BY <2>1, <2>2, <2>3
<1>2. n0 \in Int /\ n1 \in Int /\ n2 \in Int OBVIOUS
<1>3. n0 + n1 + n2 = (a0 + a1 + a2) * (b0 + b1 + b2) BY CrossSum
<1>. HIDE DEF p0, p1, p2, n0, n1, n2
<1>4. Congruent(p0 + p1 + p2, n0 + n1 + n2) BY <1>1, <1>2, ThreeSum
<1>. QED BY <1>3, <1>4 DEF p0, p1, p2

\* The product of a round: the values multiplied, and the MACs by the value.
LEMMA ProductTotal ==
  ASSUME NEW x \in Triple, NEW y \in Triple, NEW z \in [Server -> Elem],
         Congruent(z[0] + z[1] + z[2], 0)
  PROVE  /\ ProductOf(x, y, z) \in Triple
         /\ \A h \in Halves : Congruent(Total(ProductOf(x, y, z), h), Total(x, h) * Total(y, "val"))
<1>0. "val" \in Halves BY DEF Halves
<1>1. ASSUME NEW h \in Halves
      PROVE  /\ \A i \in Server : ProductOf(x, y, z)[i][h] \in Elem
             /\ Congruent(Total(ProductOf(x, y, z), h), Total(x, h) * Total(y, "val"))
  <2> DEFINE a0 == x[0][h]
             a1 == x[1][h]
             a2 == x[2][h]
             b0 == y[0]["val"]
             b1 == y[1]["val"]
             b2 == y[2]["val"]
             c0 == Cross(a2, a0, [r0 |-> b2, r1 |-> b0])
             c1 == Cross(a0, a1, [r0 |-> b0, r1 |-> b1])
             c2 == Cross(a1, a2, [r0 |-> b1, r1 |-> b2])
             e(i) == IF h = "val" THEN z[i] ELSE 0
  <2>1. /\ a0 \in Int /\ a1 \in Int /\ a2 \in Int /\ b0 \in Int /\ b1 \in Int /\ b2 \in Int
        /\ Total(x, h) = a0 + a1 + a2 /\ Total(y, "val") = b0 + b1 + b2
    BY <1>0, TripleParts DEF Total
  <2>2. /\ ProductOf(x, y, z)[0][h] = (c0 + e(0)) % Modulus
        /\ ProductOf(x, y, z)[1][h] = (c1 + e(1)) % Modulus
        /\ ProductOf(x, y, z)[2][h] = (c2 + e(2)) % Modulus
    BY Ring DEF ProductOf
  <2>3. e(0) \in Int /\ e(1) \in Int /\ e(2) \in Int /\ Congruent(e(0) + e(1) + e(2), 0)
    <3>1. z[0] \in Int /\ z[1] \in Int /\ z[2] \in Int
      <4>1. z[0] \in Elem /\ z[1] \in Elem /\ z[2] \in Elem BY Ring
      <4>2. \A n \in Elem : n \in Int BY DEF Elem
      <4>. QED BY <4>1, <4>2
    <3>2. CASE h = "val" BY <3>1, <3>2
    <3>3. CASE h # "val"
      <4>1. e(0) = 0 /\ e(1) = 0 /\ e(2) = 0 BY <3>3
      <4>2. Congruent(0, 0) BY CongruentSelf
      <4>. HIDE DEF e
      <4>3. e(0) + e(1) + e(2) = 0 BY <4>1
      <4>. QED BY <4>1, <4>2, <4>3
    <3>. QED BY <3>2, <3>3
  <2>. HIDE DEF a0, a1, a2, b0, b1, b2, e
  <2>4. Congruent(c0 + c1 + c2, (a0 + a1 + a2) * (b0 + b1 + b2)) BY <2>1, CrossTotal
  <2>5. c0 \in Int /\ c1 \in Int /\ c2 \in Int BY <2>1, CrossResidue
  <2>. HIDE DEF c0, c1, c2
  <2> DEFINE d == (a0 + a1 + a2) * (b0 + b1 + b2)
             f0 == (c0 + e(0)) % Modulus
             f1 == (c1 + e(1)) % Modulus
             f2 == (c2 + e(2)) % Modulus
             u == c0 + c1 + c2
             v == e(0) + e(1) + e(2)
  <2>6. d \in Int /\ u \in Int /\ v \in Int BY <2>1, <2>3, <2>5
  <2>7. c0 + e(0) \in Int /\ c1 + e(1) \in Int /\ c2 + e(2) \in Int BY <2>3, <2>5
  <2>8. f0 \in Elem /\ f1 \in Elem /\ f2 \in Elem /\ f0 \in Int /\ f1 \in Int /\ f2 \in Int
    BY <2>7, Residue
  <2>9. Congruent(f0 + f1 + f2, (c0 + e(0)) + (c1 + e(1)) + (c2 + e(2)))
    BY <2>7, ThreeResidues
  <2>10. (c0 + e(0)) + (c1 + e(1)) + (c2 + e(2)) = u + v BY <2>3, <2>5
  <2>11. Congruent(u, d) /\ Congruent(v, 0) BY <2>3, <2>4
  <2>12. /\ ProductOf(x, y, z)[0][h] = f0 /\ ProductOf(x, y, z)[1][h] = f1
         /\ ProductOf(x, y, z)[2][h] = f2
    BY <2>2
  <2>. HIDE DEF d, f0, f1, f2, u, v
  <2>13. Congruent(u + v, d + 0) BY <2>6, <2>11, CongruentSum
  <2>14. d + 0 = d /\ u + v \in Int /\ f0 + f1 + f2 \in Int BY <2>6, <2>8
  <2>15. Congruent(f0 + f1 + f2, d) BY <2>6, <2>9, <2>10, <2>13, <2>14, CongruentTrans
  <2>16. Total(x, h) * Total(y, "val") = d BY <2>1 DEF d
  <2>17. Total(ProductOf(x, y, z), h) = f0 + f1 + f2 BY <2>12 DEF Total
  <2>18. \A i \in Server : ProductOf(x, y, z)[i][h] \in Elem BY <2>8, <2>12, Ring
  <2>. QED BY <2>15, <2>16, <2>17, <2>18
<1>2. ProductOf(x, y, z) \in Triple
  <2> DEFINE t == ProductOf(x, y, z)
  <2>1. \A i \in Server : t[i] \in Vec
    <3>. TAKE i \in Server
    <3>1. \A h \in Halves : t[i][h] \in Elem BY <1>1
    <3>2. t[i] = [h \in Halves |-> t[i][h]] BY DEF ProductOf
    <3>. HIDE DEF t
    <3>. QED BY <3>1, <3>2 DEF Vec
  <2>2. t = [i \in Server |-> t[i]] BY DEF ProductOf
  <2>. HIDE DEF t
  <2>3. t \in Triple BY <2>1, <2>2 DEF Triple
  <2>. QED BY <2>3 DEF t
<1>. QED BY <1>1, <1>2

-----------------------------------------------------------------------------
(* The counters.                                                           *)

\* The recursive function in MaxCounter.
Upto == CHOOSE g : g = [q \in 0 .. NumQueries |->
          IF q = 0 THEN 0 ELSE g[q - 1] + 2 * mac_factor * NumFilters[q] * len]

\* How far a query takes the counters, twice.
Stride == mac_factor * NumFilters[query] * len

\* Sizes are numbers.
LEMMA SizeTypes ==
  /\ mac_factor \in Nat /\ len \in Nat /\ NumQueries \in Nat
  /\ \A q \in Query : NumFilters[q] \in Nat \ {0}
<1>1. WindowSize \in Nat /\ NumQueries \in Nat /\ NumFilters \in [Query -> Nat \ {0}]
  BY ConstantsAssumption
<1>2. mac_factor \in Nat BY DEF mac_factor
<1>3. len \in Nat BY <1>1, <1>2 DEF len
<1>. QED BY <1>1, <1>2, <1>3

\* It is one, and grows by two strides a query.
LEMMA UptoLevels ==
  /\ Upto \in [0 .. NumQueries -> Nat] /\ Upto[0] = 0
  /\ \A q \in Query : Upto[q] = Upto[q - 1] + 2 * mac_factor * NumFilters[q] * len
<1> DEFINE amount(q) == 2 * mac_factor * NumFilters[q] * len
           step == [q \in 1 .. NumQueries |-> [u \in Nat |-> u + amount(q)]]
<1>1. NumQueries \in Nat /\ 0 \in Nat /\ Query = 1 .. NumQueries BY SizeTypes DEF Query
<1>2. \A q \in Query : amount(q) \in Nat
  <2>. TAKE q \in Query
  <2>1. mac_factor \in Nat /\ len \in Nat /\ NumFilters[q] \in Nat BY SizeTypes
  <2>2. 2 * mac_factor \in Nat BY <2>1
  <2>3. 2 * mac_factor * NumFilters[q] \in Nat BY <2>1, <2>2
  <2>. QED BY <2>1, <2>3
<1>3. \A q \in 1 .. NumQueries, u \in Nat : u + amount(q) \in Nat BY <1>1, <1>2
<1>4. step \in Steps(NumQueries, Nat) BY <1>3 DEF Steps
<1>. HIDE DEF step
<1>5. \E g : g \in Runs(NumQueries, Nat, 0, step) BY <1>1, <1>4, Recursion, Zenon
<1>6. PICK g \in [0 .. NumQueries -> Nat] :
        g[0] = 0 /\ \A q \in 1 .. NumQueries : g[q] = step[q][g[q - 1]]
  BY <1>5 DEF Runs
<1>7. \A q \in 1 .. NumQueries : g[q] = g[q - 1] + amount(q)
  <2>. TAKE q \in 1 .. NumQueries
  <2>1. g[q - 1] \in Nat BY <1>1
  <2>. QED BY <1>6, <2>1 DEF step
<1>8. g = [q \in 0 .. NumQueries |->
             IF q = 0 THEN 0 ELSE g[q - 1] + 2 * mac_factor * NumFilters[q] * len]
  BY <1>1, <1>6, <1>7
<1>9. Upto = [q \in 0 .. NumQueries |->
             IF q = 0 THEN 0 ELSE Upto[q - 1] + 2 * mac_factor * NumFilters[q] * len]
  BY <1>8 DEF Upto
<1>10. /\ DOMAIN Upto = 0 .. NumQueries /\ Upto[0] = 0
       /\ \A q \in 1 .. NumQueries : Upto[q] = Upto[q - 1] + amount(q)
  BY <1>1, <1>9
<1>11. \A q \in 0 .. NumQueries : Upto[q] \in Nat
  <2>. DEFINE S == {q \in 0 .. NumQueries : Upto[q] \in Nat}
  <2>. HIDE DEF amount
  <2>1. 0 \in S BY <1>1, <1>10
  <2>2. \A q \in 1 .. NumQueries : q - 1 \in S => q \in S BY <1>1, <1>2, <1>10
  <2>3. \A q \in 0 .. NumQueries : q \in S
    <3>. HIDE DEF S
    <3>. QED BY <1>1, <2>1, <2>2, IntervalInduction
  <2>. QED BY <2>3
<1>. QED BY <1>1, <1>9, <1>10, <1>11

\* MaxCounter is its value at the current query.
LEMMA MaxCounterUpto ==
  /\ MaxCounter = Upto[query]
  /\ query \in 0 .. NumQueries => MaxCounter \in Nat
<1>1. MaxCounter = Upto[query] BY DEF MaxCounter, Upto
<1>. QED BY <1>1, UptoLevels

\* Where the counters are before RSSReshare of the query, and after it.
Mid == MaxCounter - Stride
Base == Mid - Stride

\* Where a handler's counter is at each place.
CounterAt(place) ==
  IF place = "reshare" THEN Base ELSE IF place = "reshared" THEN Mid ELSE MaxCounter

\* The stops of a query.
LEMMA CounterStops ==
  ASSUME query \in Query
  PROVE  /\ MaxCounter \in Nat /\ Stride \in Nat /\ Mid \in Nat /\ Base \in Nat
         /\ Base = Upto[query - 1]
         /\ Base + Stride = Mid /\ Mid + Stride = MaxCounter
<1>1. query \in Nat /\ query - 1 \in 0 .. NumQueries /\ query \in 0 .. NumQueries
  BY SizeTypes DEF Query
<1>2. MaxCounter = Upto[query] /\ MaxCounter \in Nat BY <1>1, MaxCounterUpto
<1>3. Upto[query - 1] \in Nat BY <1>1, UptoLevels
<1>4. Upto[query] = Upto[query - 1] + 2 * mac_factor * NumFilters[query] * len BY UptoLevels
<1> DEFINE a == mac_factor
           b == NumFilters[query]
           c == len
<1>5. a \in Nat /\ b \in Nat /\ c \in Nat BY SizeTypes
<1>. HIDE DEF a, b, c
<1>6. a * b * c \in Nat /\ 2 * a * b * c = 2 * (a * b * c)
  <2>1. a * b \in Nat BY <1>5
  <2>. QED BY <1>5, <2>1
<1>7. Stride = a * b * c BY DEF Stride, a, b, c
<1>8. Upto[query] = Upto[query - 1] + 2 * a * b * c BY <1>4 DEF a, b, c
<1>9. Upto[query] = Upto[query - 1] + 2 * Stride /\ Stride \in Nat BY <1>6, <1>7, <1>8
<1>. QED BY <1>2, <1>3, <1>9 DEF Mid, Base

-----------------------------------------------------------------------------
(* What the servers compute in a query, whenever they do: the sums that    *)
(* RSSReshare sends, the products, and the combined filters.  All of it is *)
(* given by the client's choices, the keys and the counter at its start.   *)

\* The filters of the query.
Count == NumFilters[query]

\* What has been chosen once a query is on its way.
Chosen ==
  /\ query \in Query /\ malicious \in BOOLEAN /\ op_is_and \in BOOLEAN /\ prfKey0 \in KeyRings
  /\ truth \in [0 .. Count - 1 -> BOOLEAN] /\ value \in Elem /\ seed \in Elem

\* RSSReshare's sum for filter f at server i.
SumOf(i, f) ==
  Plus(Plus(TableShare(i, f).r0, TableShare(i, f).r1),
       [h \in Halves |-> Zero(i, Base + (f * Count + len))])

\* The sums of all servers, which are shares of the filters.
Sums == [f \in 0 .. Count - 1 |-> [i \in Server |-> SumOf(i, f)]]

\* The shares of zero of the multiplications.
ZeroRow == [f \in 0 .. Count - 1 |-> [i \in Server |-> Zero(i, Mid + (f * len + Row))]]

\* A sharing x of which the MAC fits the value.
Fits(x) == "mac" \in Halves => Congruent(Total(x, "mac"), Alpha * Total(x, "val"))

\* The numbers that are split.
LEMMA WorthInt ==
  ASSUME NEW f, NEW h
  PROVE  /\ BitOf(f) \in {0, 1} /\ BitOf(f) \in Int /\ Worth(BitOf(f), h) \in Int
         /\ Alpha \in Int /\ Worth(BitOf(f), "val") = BitOf(f)
         /\ Worth(BitOf(f), "mac") = Alpha * BitOf(f)
<1>1. BitOf(f) \in {0, 1} BY DEF BitOf
<1>2. Alpha \in Int BY ConstantsAssumption DEF Elem
<1>3. Alpha * BitOf(f) \in Int BY <1>1, <1>2
<1>. QED BY <1>1, <1>2, <1>3 DEF Worth

\* The shares of the tables add up to the filter's bit and its MAC.
LEMMA TableSum ==
  ASSUME Chosen, NEW f \in 0 .. Count - 1, NEW h \in Halves
  PROVE  /\ \A i \in Server : TableShare(i, f).r0 \in Vec /\ TableShare(i, f).r1 \in Vec
         /\ \E s0, s1, s2 \in Int :
              /\ Congruent(s0 + s1 + s2, Worth(BitOf(f), h))
              /\ Congruent(TableShare(0, f).r0[h] + TableShare(0, f).r1[h], s0)
              /\ Congruent(TableShare(1, f).r0[h] + TableShare(1, f).r1[h], s1)
              /\ Congruent(TableShare(2, f).r0[h] + TableShare(2, f).r1[h], s2)
<1> DEFINE bit == BitOf(f)
           s(i, g) == IF g = "val" THEN Split(bit, i, f) ELSE Split(Alpha * bit, i, f + 1)
           p(i) == (seed + i) % Modulus
<1>0. seed \in Elem /\ seed \in Int /\ f \in Int /\ f + 1 \in Int
  BY SizeTypes DEF Chosen, Elem
<1>1. bit \in Int /\ Alpha * bit \in Int BY WorthInt
<1>2. \A i \in Server, g \in Halves : s(i, g) \in Elem /\ s(i, g) \in Int
  <2>. HIDE DEF bit
  <2>. QED BY <1>0, <1>1, SplitSum
<1>3. Congruent(s(0, h) + s(1, h) + s(2, h), Worth(bit, h))
  <2>. HIDE DEF bit
  <2>1. CASE h = "val" BY <1>0, <1>1, <2>1, SplitSum DEF Worth
  <2>2. CASE h # "val" BY <1>0, <1>1, <2>2, SplitSum DEF Worth
  <2>. QED BY <2>1, <2>2
<1>4. \A i \in Server : p(i) \in Elem /\ p(i) \in Int
  <2>. TAKE i \in Server
  <2>1. seed + i \in Int BY <1>0 DEF Server, NUM_SERVERS
  <2>. QED BY <2>1, Residue
<1>5. \A i \in Server :
        /\ TableShare(i, f).r0 = [g \in Halves |-> p(i)]
        /\ TableShare(i, f).r1 = [g \in Halves |-> (s(i, g) - p(i)) % Modulus]
  BY DEF TableShare, BitOf
<1>. HIDE DEF bit, s, p
<1>6. ASSUME NEW i \in Server, NEW g \in Halves
      PROVE  /\ (s(i, g) - p(i)) % Modulus \in Elem
             /\ Congruent(p(i) + ((s(i, g) - p(i)) % Modulus), s(i, g))
  <2> DEFINE d == s(i, g) - p(i)
             e == d % Modulus
  <2>1. s(i, g) \in Int /\ p(i) \in Int /\ d \in Int /\ p(i) + d = s(i, g) BY <1>2, <1>4
  <2>2. e \in Elem /\ e \in Int /\ Congruent(e, d)
    <3>. HIDE DEF d
    <3>. QED BY <2>1, Residue
  <2>3. Congruent(p(i), p(i)) BY <2>1, CongruentSelf
  <2>. HIDE DEF d, e
  <2>4. Congruent(p(i) + e, p(i) + d) BY <2>1, <2>2, <2>3, CongruentSum
  <2>5. e \in Elem /\ Congruent(p(i) + e, s(i, g)) BY <2>1, <2>2, <2>4
  <2>. QED BY <2>5 DEF d, e
<1>7. \A i \in Server : TableShare(i, f).r0 \in Vec /\ TableShare(i, f).r1 \in Vec
  BY <1>4, <1>5, <1>6 DEF Vec
<1>8. \A i \in Server : Congruent(TableShare(i, f).r0[h] + TableShare(i, f).r1[h], s(i, h))
  BY <1>5, <1>6
<1>9. s(0, h) \in Int /\ s(1, h) \in Int /\ s(2, h) \in Int BY <1>2, Ring
<1>10. /\ Congruent(TableShare(0, f).r0[h] + TableShare(0, f).r1[h], s(0, h))
       /\ Congruent(TableShare(1, f).r0[h] + TableShare(1, f).r1[h], s(1, h))
       /\ Congruent(TableShare(2, f).r0[h] + TableShare(2, f).r1[h], s(2, h))
  BY <1>8, Ring
<1>11. Congruent(s(0, h) + s(1, h) + s(2, h), Worth(BitOf(f), h)) BY <1>3 DEF bit
<1>. QED BY <1>7, <1>9, <1>10, <1>11

\* The sum of two halves that are added.
LEMMA PlusPart ==
  ASSUME NEW a \in Vec, NEW b \in Vec, NEW h \in Halves
  PROVE  /\ a[h] \in Int /\ b[h] \in Int /\ Plus(a, b)[h] \in Int
         /\ Congruent(Plus(a, b)[h], a[h] + b[h])
<1>1. a[h] \in Int /\ b[h] \in Int
  <2>1. a[h] \in Elem /\ b[h] \in Elem BY DEF Vec
  <2>. QED BY <2>1 DEF Elem
<1>2. Plus(a, b)[h] = (a[h] + b[h]) % Modulus BY DEF Plus
<1> DEFINE n == a[h] + b[h]
<1>3. n \in Int BY <1>1
<1>. HIDE DEF n
<1>4. n % Modulus \in Int /\ Congruent(n % Modulus, n) BY <1>3, Residue
<1>5. Plus(a, b)[h] = n % Modulus BY <1>2 DEF n
<1>6. Plus(a, b)[h] \in Int /\ Congruent(Plus(a, b)[h], n) BY <1>4, <1>5
<1>. QED BY <1>1, <1>6 DEF n

\* What RSSReshare sends adds up to the filter's bit and its MAC.
LEMMA SumsTotal ==
  ASSUME Chosen, NEW f \in 0 .. Count - 1
  PROVE  /\ Sums[f] \in Triple
         /\ \A h \in Halves : Congruent(Total(Sums[f], h), Worth(BitOf(f), h))
<1> DEFINE c == Base + (f * Count + len)
           zero(i) == [h \in Halves |-> Zero(i, c)]
           both(i) == Plus(TableShare(i, f).r0, TableShare(i, f).r1)
<1>1. c \in Int
  <2>1. Count \in Int /\ len \in Int /\ Base \in Int /\ f \in Int
    BY SizeTypes, CounterStops DEF Chosen, Count
  <2>2. f * Count \in Int BY <2>1
  <2>. QED BY <2>1, <2>2
<1>. HIDE DEF c
<1>2. prfKey0 \in KeyRings BY DEF Chosen
<1>3. /\ \A i \in Server : Zero(i, c) \in Elem /\ Zero(i, c) \in Int
      /\ Congruent(Zero(0, c) + Zero(1, c) + Zero(2, c), 0)
  BY <1>1, <1>2, ZerosCancel
<1>4. \A i \in Server : zero(i) \in Vec BY <1>3 DEF Vec
<1>5. "val" \in Halves BY DEF Halves
<1>6. \A i \in Server : both(i) \in Vec BY <1>5, TableSum, PlusType
<1>7. \A i \in Server : Sums[f][i] = Plus(both(i), zero(i)) BY DEF Sums, SumOf, c
<1>8. Sums[f] \in Triple
  <2>1. \A i \in Server : Plus(both(i), zero(i)) \in Vec
    <3>. HIDE DEF both, zero
    <3>. QED BY <1>4, <1>6, PlusType
  <2>2. Sums[f] = [i \in Server |-> SumOf(i, f)] BY DEF Sums
  <2>3. \A i \in Server : Sums[f][i] \in Vec
    <3>. HIDE DEF both, zero
    <3>. QED BY <1>7, <2>1
  <2>4. Sums[f] = [i \in Server |-> Sums[f][i]] BY <2>2
  <2>. QED BY <2>3, <2>4 DEF Triple
<1>9. ASSUME NEW h \in Halves PROVE Congruent(Total(Sums[f], h), Worth(BitOf(f), h))
  <2> DEFINE t(i) == TableShare(i, f).r0[h] + TableShare(i, f).r1[h]
  <2>1. \A i \in Server : TableShare(i, f).r0 \in Vec /\ TableShare(i, f).r1 \in Vec
    BY TableSum
  <2>2. PICK s0 \in Int, s1 \in Int, s2 \in Int :
          /\ Congruent(s0 + s1 + s2, Worth(BitOf(f), h))
          /\ Congruent(t(0), s0) /\ Congruent(t(1), s1) /\ Congruent(t(2), s2)
    BY TableSum
  <2>3. ASSUME NEW i \in Server, NEW s \in Int, Congruent(t(i), s)
        PROVE  Sums[f][i][h] \in Int /\ Congruent(Sums[f][i][h], s + Zero(i, c))
    <3>1. t(i) \in Int /\ both(i)[h] \in Int /\ Congruent(both(i)[h], t(i))
      BY <2>1, PlusPart
    <3>2. Congruent(both(i)[h], s)
      <4>. HIDE DEF t, both
      <4>. QED BY <2>3, <3>1, CongruentTrans
    <3>3. zero(i)[h] = Zero(i, c) /\ Zero(i, c) \in Int BY <1>3
    <3>4. /\ Plus(both(i), zero(i))[h] \in Int
          /\ Congruent(Plus(both(i), zero(i))[h], both(i)[h] + zero(i)[h])
      <4>. HIDE DEF both, zero
      <4>. QED BY <1>4, <1>6, PlusPart
    <3>5. Congruent(Zero(i, c), Zero(i, c)) BY <3>3, CongruentSelf
    <3>. HIDE DEF t, both, zero
    <3>6. Congruent(both(i)[h] + Zero(i, c), s + Zero(i, c))
      BY <3>1, <3>2, <3>3, <3>5, CongruentSum
    <3>7. Congruent(Plus(both(i), zero(i))[h], both(i)[h] + Zero(i, c)) BY <3>3, <3>4
    <3>8. both(i)[h] + Zero(i, c) \in Int /\ s + Zero(i, c) \in Int BY <3>1, <3>3
    <3>9. Congruent(Plus(both(i), zero(i))[h], s + Zero(i, c))
      BY <3>4, <3>6, <3>7, <3>8, CongruentTrans
    <3>. QED BY <1>7, <3>4, <3>9
  <2>. HIDE DEF t
  <2>4. /\ Sums[f][0][h] \in Int /\ Congruent(Sums[f][0][h], s0 + Zero(0, c))
        /\ Sums[f][1][h] \in Int /\ Congruent(Sums[f][1][h], s1 + Zero(1, c))
        /\ Sums[f][2][h] \in Int /\ Congruent(Sums[f][2][h], s2 + Zero(2, c))
    BY <2>2, <2>3, Ring
  <2> DEFINE z0 == Zero(0, c)
             z1 == Zero(1, c)
             z2 == Zero(2, c)
             a0 == Sums[f][0][h]
             a1 == Sums[f][1][h]
             a2 == Sums[f][2][h]
             w == Worth(BitOf(f), h)
  <2>5. z0 \in Int /\ z1 \in Int /\ z2 \in Int /\ Congruent(z0 + z1 + z2, 0) /\ w \in Int
    BY <1>3, WorthInt, Ring
  <2>6. Total(Sums[f], h) = a0 + a1 + a2 BY DEF Total
  <2>7. Congruent(s0 + s1 + s2, w) BY <2>2
  <2>8. /\ a0 \in Int /\ Congruent(a0, s0 + z0) /\ a1 \in Int /\ Congruent(a1, s1 + z1)
        /\ a2 \in Int /\ Congruent(a2, s2 + z2)
    BY <2>4
  <2>. HIDE DEF z0, z1, z2, a0, a1, a2, w
  <2>9. s0 + z0 \in Int /\ s1 + z1 \in Int /\ s2 + z2 \in Int BY <2>5
  <2>10. Congruent(a0 + a1 + a2, (s0 + z0) + (s1 + z1) + (s2 + z2)) BY <2>8, <2>9, ThreeSum
  <2> DEFINE s == s0 + s1 + s2
             z == z0 + z1 + z2
             a == a0 + a1 + a2
  <2>11. s \in Int /\ z \in Int /\ a \in Int BY <2>5, <2>8
  <2>12. (s0 + z0) + (s1 + z1) + (s2 + z2) = s + z BY <2>5
  <2>13. Congruent(s, w) /\ Congruent(z, 0) /\ Congruent(a, s + z) BY <2>5, <2>7, <2>10, <2>12
  <2>14. Total(Sums[f], h) = a BY <2>6
  <2>. HIDE DEF s, z, a
  <2>15. Congruent(s + z, w + 0) BY <2>5, <2>11, <2>13, CongruentSum
  <2>16. w + 0 = w /\ s + z \in Int BY <2>5, <2>11
  <2>17. Congruent(a, w) BY <2>5, <2>11, <2>13, <2>15, <2>16, CongruentTrans
  <2>. QED BY <2>14, <2>17 DEF w
<1>. QED BY <1>8, <1>9

\* The shares of zero of a multiplication.
LEMMA ZeroRowTotal ==
  ASSUME Chosen, NEW f \in 0 .. Count - 1
  PROVE  /\ ZeroRow[f] \in [Server -> Elem]
         /\ Congruent(ZeroRow[f][0] + ZeroRow[f][1] + ZeroRow[f][2], 0)
<1> DEFINE c == Mid + (f * len + Row)
<1>1. c \in Int
  <2>1. len \in Int /\ Mid \in Int /\ f \in Int /\ Row \in Int
    BY SizeTypes, CounterStops, ConstantsAssumption DEF Chosen, Count
  <2>2. f * len \in Int BY <2>1
  <2>. QED BY <2>1, <2>2
<1>2. ZeroRow[f] = [i \in Server |-> Zero(i, c)] BY DEF ZeroRow
<1>. HIDE DEF c
<1>3. prfKey0 \in KeyRings BY DEF Chosen
<1>4. /\ \A i \in Server : Zero(i, c) \in Elem
      /\ Congruent(Zero(0, c) + Zero(1, c) + Zero(2, c), 0)
  BY <1>1, <1>3, ZerosCancel
<1>. QED BY <1>2, <1>4, Ring

\* The sum of two sharings.
PlusTriple(x, y) == [i \in Server |-> Plus(x[i], y[i])]

\* It is one, of the sum of what they stand for.
LEMMA PlusTotal ==
  ASSUME NEW x \in Triple, NEW y \in Triple
  PROVE  /\ PlusTriple(x, y) \in Triple
         /\ \A h \in Halves : Congruent(Total(PlusTriple(x, y), h), Total(x, h) + Total(y, h))
<1>1. \A i \in Server : x[i] \in Vec /\ y[i] \in Vec BY DEF Triple
<1>2. PlusTriple(x, y) \in Triple BY <1>1, PlusType DEF PlusTriple, Triple
<1>3. ASSUME NEW h \in Halves
      PROVE  Congruent(Total(PlusTriple(x, y), h), Total(x, h) + Total(y, h))
  <2> DEFINE s(i) == Plus(x[i], y[i])[h]
             a(i) == x[i][h]
             b(i) == y[i][h]
  <2>1. \A i \in Server : a(i) \in Int /\ b(i) \in Int /\ s(i) \in Int /\ Congruent(s(i), a(i) + b(i))
    BY <1>1, PlusPart
  <2>2. Total(PlusTriple(x, y), h) = s(0) + s(1) + s(2) BY Ring DEF Total, PlusTriple
  <2>3. Total(x, h) = a(0) + a(1) + a(2) /\ Total(y, h) = b(0) + b(1) + b(2) BY DEF Total
  <2>. HIDE DEF s, a, b
  <2>4. /\ s(0) \in Int /\ s(1) \in Int /\ s(2) \in Int
        /\ a(0) \in Int /\ a(1) \in Int /\ a(2) \in Int
        /\ b(0) \in Int /\ b(1) \in Int /\ b(2) \in Int
        /\ Congruent(s(0), a(0) + b(0)) /\ Congruent(s(1), a(1) + b(1))
        /\ Congruent(s(2), a(2) + b(2))
    BY <2>1, Ring
  <2>5. a(0) + b(0) \in Int /\ a(1) + b(1) \in Int /\ a(2) + b(2) \in Int BY <2>4
  <2>6. Congruent(s(0) + s(1) + s(2), (a(0) + b(0)) + (a(1) + b(1)) + (a(2) + b(2)))
    BY <2>4, <2>5, ThreeSum
  <2>7. (a(0) + b(0)) + (a(1) + b(1)) + (a(2) + b(2))
          = (a(0) + a(1) + a(2)) + (b(0) + b(1) + b(2))
    BY <2>4
  <2>. QED BY <2>2, <2>3, <2>6, <2>7
<1>. QED BY <1>2, <1>3

\* A number congruent to alpha times another.
Scaled(m, v) == Congruent(m, Alpha * v)

\* Sums of values with their MACs.
LEMMA ScaledSum ==
  ASSUME NEW m \in Int, NEW v \in Int, NEW n \in Int, NEW w \in Int, Scaled(m, v), Scaled(n, w)
  PROVE  Scaled(m + n, v + w)
<1>1. Alpha \in Int BY ConstantsAssumption DEF Elem
<1> DEFINE a == Alpha * v
           b == Alpha * w
<1>2. a \in Int /\ b \in Int /\ Alpha * (v + w) = a + b BY <1>1
<1>3. Congruent(m, a) /\ Congruent(n, b) BY DEF Scaled
<1>. HIDE DEF a, b
<1>4. Congruent(m + n, a + b) BY <1>2, <1>3, CongruentSum
<1>. QED BY <1>2, <1>4 DEF Scaled

\* A value with its MAC times a number.
LEMMA ScaledTimes ==
  ASSUME NEW m \in Int, NEW v \in Int, NEW w \in Int, Scaled(m, v)
  PROVE  Scaled(m * w, v * w)
<1>1. Alpha \in Int BY ConstantsAssumption DEF Elem
<1> DEFINE a == Alpha * v
<1>2. a \in Int BY <1>1
<1>3. Congruent(m, a) /\ Congruent(w, w) BY CongruentSelf DEF Scaled
<1>4. Alpha * (v * w) = a * w BY <1>1
<1>. HIDE DEF a
<1>5. Congruent(m * w, a * w) BY <1>2, <1>3, CongruentProduct
<1>. QED BY <1>4, <1>5 DEF Scaled

\* The numbers may be replaced by congruent ones.
LEMMA ScaledCongruent ==
  ASSUME NEW m \in Int, NEW v \in Int, NEW n \in Int, NEW w \in Int, Scaled(n, w),
         Congruent(m, n), Congruent(v, w)
  PROVE  Scaled(m, v)
<1>1. Alpha \in Int BY ConstantsAssumption DEF Elem
<1>2. Congruent(Alpha, Alpha) /\ Congruent(w, v) BY <1>1, CongruentSelf, CongruentSym
<1>3. Congruent(Alpha * w, Alpha * v) BY <1>1, <1>2, CongruentProduct
<1> DEFINE a == Alpha * w
           b == Alpha * v
<1>4. a \in Int /\ b \in Int BY <1>1
<1>5. Congruent(n, a) /\ Congruent(a, b) BY <1>3 DEF Scaled
<1>. HIDE DEF a, b
<1>6. Congruent(n, b) BY <1>4, <1>5, CongruentTrans
<1>7. Congruent(m, b) BY <1>4, <1>6, CongruentTrans
<1>. QED BY <1>7 DEF b, Scaled

\* Filters combined so far with the next one.
CombinedWith(x, y, z) ==
  IF op_is_and THEN ProductOf(x, y, z) ELSE PlusTriple(ProductOf(x, y, z), PlusTriple(x, y))

\* What they stand for.
Joined(a, b, c) == IF op_is_and THEN a * b ELSE a * b + (a + c)

\* A combination of sharings is one of what they stand for.
LEMMA CombinedTotal ==
  ASSUME NEW x \in Triple, NEW y \in Triple, NEW z \in [Server -> Elem],
         Congruent(z[0] + z[1] + z[2], 0)
  PROVE  /\ CombinedWith(x, y, z) \in Triple
         /\ \A h \in Halves : Congruent(Total(CombinedWith(x, y, z), h),
                                        Joined(Total(x, h), Total(y, "val"), Total(y, h)))
<1> DEFINE p == ProductOf(x, y, z)
           s == PlusTriple(x, y)
<1>1. /\ p \in Triple /\ \A h \in Halves : Congruent(Total(p, h), Total(x, h) * Total(y, "val"))
  BY ProductTotal
<1>2. s \in Triple /\ \A h \in Halves : Congruent(Total(s, h), Total(x, h) + Total(y, h))
  BY PlusTotal
<1>3. CombinedWith(x, y, z) = IF op_is_and THEN p ELSE PlusTriple(p, s) BY DEF CombinedWith
<1>. HIDE DEF p, s
<1>4. CASE op_is_and BY <1>1, <1>3, <1>4 DEF Joined
<1>5. CASE ~op_is_and
  <2>1. PlusTriple(p, s) \in Triple BY <1>1, <1>2, PlusTotal
  <2>2. ASSUME NEW h \in Halves
        PROVE  Congruent(Total(PlusTriple(p, s), h),
                         Total(x, h) * Total(y, "val") + (Total(x, h) + Total(y, h)))
    <3> DEFINE a == Total(x, h) * Total(y, "val")
               b == Total(x, h) + Total(y, h)
               c == Total(p, h)
               d == Total(s, h)
               e == Total(PlusTriple(p, s), h)
    <3>1. a \in Int /\ b \in Int /\ c \in Int /\ d \in Int /\ e \in Int
      <4>1. "val" \in Halves BY DEF Halves
      <4>2. Total(x, h) \in Int /\ Total(y, h) \in Int /\ Total(y, "val") \in Int
            /\ Total(p, h) \in Int /\ Total(s, h) \in Int /\ Total(PlusTriple(p, s), h) \in Int
        BY <1>1, <1>2, <2>1, <4>1, TripleParts
      <4>. QED BY <4>2
    <3>2. Congruent(c, a) /\ Congruent(d, b) /\ Congruent(e, c + d)
      BY <1>1, <1>2, PlusTotal
    <3>. HIDE DEF a, b, c, d, e
    <3>3. Congruent(c + d, a + b) /\ c + d \in Int /\ a + b \in Int
      BY <3>1, <3>2, CongruentSum
    <3>4. Congruent(e, a + b) BY <3>1, <3>2, <3>3, CongruentTrans
    <3>. QED BY <3>4 DEF a, b, e
  <2>. QED BY <1>3, <1>5, <2>1, <2>2 DEF Joined
<1>. QED BY <1>4, <1>5

\* The MAC of a combination fits its value, and that of a product.
LEMMA CombinedFits ==
  ASSUME NEW x \in Triple, NEW y \in Triple, NEW z \in [Server -> Elem],
         Congruent(z[0] + z[1] + z[2], 0), Fits(x), Fits(y)
  PROVE  Fits(ProductOf(x, y, z)) /\ Fits(CombinedWith(x, y, z))
<1>. SUFFICES ASSUME "mac" \in Halves
              PROVE  Fits(ProductOf(x, y, z)) /\ Fits(CombinedWith(x, y, z))
  BY DEF Fits
<1> DEFINE p == ProductOf(x, y, z)
           c == CombinedWith(x, y, z)
           xm == Total(x, "mac")
           xv == Total(x, "val")
           ym == Total(y, "mac")
           yv == Total(y, "val")
<1>0. "val" \in Halves BY DEF Halves
<1>1. p \in Triple /\ Congruent(Total(p, "mac"), xm * yv) /\ Congruent(Total(p, "val"), xv * yv)
  BY <1>0, ProductTotal
<1>2. c \in Triple /\ Congruent(Total(c, "mac"), Joined(xm, yv, ym))
      /\ Congruent(Total(c, "val"), Joined(xv, yv, yv))
  BY <1>0, CombinedTotal
<1>3. xm \in Int /\ xv \in Int /\ ym \in Int /\ yv \in Int BY <1>0, TripleParts
<1>4. Total(p, "mac") \in Int /\ Total(p, "val") \in Int /\ Total(c, "mac") \in Int
      /\ Total(c, "val") \in Int
  BY <1>0, <1>1, <1>2, TripleParts
<1>5. Scaled(xm, xv) /\ Scaled(ym, yv) BY DEF Fits, Scaled
<1>. HIDE DEF p, c, xm, xv, ym, yv
<1>6. Scaled(xm * yv, xv * yv) BY <1>3, <1>5, ScaledTimes
<1>7. xm * yv \in Int /\ xv * yv \in Int /\ xm + ym \in Int /\ xv + yv \in Int BY <1>3
<1>8. Scaled(xm + ym, xv + yv) BY <1>3, <1>5, ScaledSum
<1> DEFINE mv == xm * yv
           vv == xv * yv
           ms == xm + ym
           vs == xv + yv
<1>9. /\ mv \in Int /\ vv \in Int /\ ms \in Int /\ vs \in Int
      /\ Scaled(mv, vv) /\ Scaled(ms, vs)
      /\ Congruent(Total(p, "mac"), mv) /\ Congruent(Total(p, "val"), vv)
  BY <1>1, <1>6, <1>7, <1>8
<1>10. /\ Joined(xm, yv, ym) = IF op_is_and THEN mv ELSE mv + ms
       /\ Joined(xv, yv, yv) = IF op_is_and THEN vv ELSE vv + vs
  BY DEF Joined
<1>. HIDE DEF mv, vv, ms, vs
<1>11. Scaled(mv + ms, vv + vs) /\ mv + ms \in Int /\ vv + vs \in Int BY <1>9, ScaledSum
<1>12. /\ Scaled(Joined(xm, yv, ym), Joined(xv, yv, yv))
       /\ Joined(xm, yv, ym) \in Int /\ Joined(xv, yv, yv) \in Int
  BY <1>9, <1>10, <1>11
<1>13. Scaled(Total(p, "mac"), Total(p, "val")) BY <1>4, <1>9, ScaledCongruent
<1>14. Scaled(Total(c, "mac"), Total(c, "val")) BY <1>2, <1>4, <1>12, ScaledCongruent
<1>. QED BY <1>13, <1>14 DEF p, c, Fits, Scaled

\* The filters combined up to each one: what MultiplyReceived makes at the servers.
Combined ==
  CHOOSE g : g = [k \in 0 .. Count - 1 |->
    IF k = 0 THEN Sums[0] ELSE CombinedWith(g[k - 1], Sums[k], ZeroRow[k])]

\* The sums and the shares of zero have their types.
LEMMA RowTypes ==
  ASSUME Chosen
  PROVE  /\ Count \in Nat \ {0} /\ Count - 1 \in Nat
         /\ \A f \in 0 .. Count - 1 :
              /\ Sums[f] \in Triple /\ ZeroRow[f] \in [Server -> Elem]
              /\ Congruent(ZeroRow[f][0] + ZeroRow[f][1] + ZeroRow[f][2], 0)
<1>1. Count \in Nat \ {0} BY SizeTypes DEF Chosen, Count
<1>. QED BY <1>1, SumsTotal, ZeroRowTotal

\* The recursive function is one.
LEMMA CombinedLevels ==
  ASSUME Chosen
  PROVE  /\ Combined \in [0 .. Count - 1 -> Triple] /\ Combined[0] = Sums[0]
         /\ \A k \in 1 .. Count - 1 :
              Combined[k] = CombinedWith(Combined[k - 1], Sums[k], ZeroRow[k])
<1> DEFINE d == Count - 1
           step == [k \in 1 .. d |-> [x \in Triple |-> CombinedWith(x, Sums[k], ZeroRow[k])]]
<1>1. Count \in Nat \ {0} /\ d \in Nat BY RowTypes
<1>2. \A f \in 0 .. d : /\ Sums[f] \in Triple /\ ZeroRow[f] \in [Server -> Elem]
                        /\ Congruent(ZeroRow[f][0] + ZeroRow[f][1] + ZeroRow[f][2], 0)
  BY RowTypes
<1>3. Sums[0] \in Triple BY <1>1, <1>2
<1>4. \A k \in 1 .. d, x \in Triple : CombinedWith(x, Sums[k], ZeroRow[k]) \in Triple
  <2>. TAKE k \in 1 .. d, x \in Triple
  <2>1. k \in 0 .. d BY <1>1
  <2>. QED BY <1>2, <2>1, CombinedTotal
<1>. HIDE DEF d
<1>5. step \in Steps(d, Triple) BY <1>4 DEF Steps
<1>. HIDE DEF step
<1>6. \E g : g \in Runs(d, Triple, Sums[0], step) BY <1>1, <1>3, <1>5, Recursion, Zenon
<1>7. PICK g \in [0 .. d -> Triple] :
        g[0] = Sums[0] /\ \A k \in 1 .. d : g[k] = step[k][g[k - 1]]
  BY <1>6 DEF Runs
<1>8. \A k \in 1 .. d : g[k] = CombinedWith(g[k - 1], Sums[k], ZeroRow[k])
  <2>. TAKE k \in 1 .. d
  <2>1. g[k - 1] \in Triple BY <1>1
  <2>. QED BY <1>7, <2>1 DEF step
<1>9. g = [k \in 0 .. Count - 1 |->
             IF k = 0 THEN Sums[0] ELSE CombinedWith(g[k - 1], Sums[k], ZeroRow[k])]
  BY <1>1, <1>7, <1>8 DEF d
<1>10. Combined = [k \in 0 .. Count - 1 |->
             IF k = 0 THEN Sums[0] ELSE CombinedWith(Combined[k - 1], Sums[k], ZeroRow[k])]
  BY <1>9 DEF Combined
<1>11. /\ DOMAIN Combined = 0 .. d /\ Combined[0] = Sums[0]
       /\ \A k \in 1 .. d : Combined[k] = CombinedWith(Combined[k - 1], Sums[k], ZeroRow[k])
  BY <1>1, <1>10 DEF d
<1>12. \A k \in 0 .. d : Combined[k] \in Triple
  <2>. DEFINE S == {k \in 0 .. d : Combined[k] \in Triple}
  <2>1. 0 \in S BY <1>1, <1>3, <1>11
  <2>2. \A k \in 1 .. d : k - 1 \in S => k \in S BY <1>1, <1>4, <1>11
  <2>3. \A k \in 0 .. d : k \in S
    <3>. HIDE DEF S
    <3>. QED BY <1>1, <2>1, <2>2, IntervalInduction
  <2>. QED BY <2>3
<1>13. Combined \in [0 .. d -> Triple] BY <1>10, <1>12 DEF d
<1>. QED BY <1>11, <1>13 DEF d

\* The message of round k: the product with filter k.
RoundProduct(k) == ProductOf(Combined[k - 1], Sums[k], ZeroRow[k])

\* All MACs fit their values, of the sums, the products and the combined filters.
LEMMA AllFit ==
  ASSUME Chosen
  PROVE  /\ \A k \in 0 .. Count - 1 : Fits(Sums[k]) /\ Fits(Combined[k])
         /\ \A k \in 1 .. Count - 1 : RoundProduct(k) \in Triple /\ Fits(RoundProduct(k))
<1> DEFINE d == Count - 1
<1>1. d \in Nat BY RowTypes
<1>2. \A f \in 0 .. d : /\ Sums[f] \in Triple /\ ZeroRow[f] \in [Server -> Elem]
                        /\ Congruent(ZeroRow[f][0] + ZeroRow[f][1] + ZeroRow[f][2], 0)
  BY RowTypes
<1>3. /\ Combined \in [0 .. d -> Triple] /\ Combined[0] = Sums[0]
      /\ \A k \in 1 .. d : Combined[k] = CombinedWith(Combined[k - 1], Sums[k], ZeroRow[k])
  BY CombinedLevels
<1>4. ASSUME NEW f \in 0 .. d PROVE Fits(Sums[f])
  <2>. SUFFICES ASSUME "mac" \in Halves
                PROVE  Scaled(Total(Sums[f], "mac"), Total(Sums[f], "val"))
    BY DEF Fits, Scaled
  <2> DEFINE m == Total(Sums[f], "mac")
             v == Total(Sums[f], "val")
             b == BitOf(f)
             a == Alpha * b
  <2>0. "val" \in Halves BY DEF Halves
  <2>1. Congruent(m, a) /\ Congruent(v, b)
    <3>1. Congruent(m, Worth(b, "mac")) /\ Congruent(v, Worth(b, "val")) BY <2>0, SumsTotal
    <3>. QED BY <3>1, WorthInt
  <2>2. a \in Int /\ b \in Int /\ m \in Int /\ v \in Int
    <3>1. a \in Int /\ b \in Int BY WorthInt
    <3>2. m \in Int /\ v \in Int BY <1>2, <2>0, TripleParts
    <3>. QED BY <3>1, <3>2
  <2>3. Scaled(a, b) BY <2>2, CongruentSelf DEF Scaled
  <2>. HIDE DEF a, b, m, v
  <2>4. Scaled(m, v) BY <2>1, <2>2, <2>3, ScaledCongruent
  <2>. QED BY <2>4 DEF m, v
<1>. HIDE DEF d
<1>5. ASSUME NEW k \in 1 .. d, Fits(Combined[k - 1])
      PROVE  Fits(RoundProduct(k)) /\ Fits(Combined[k])
  <2>1. k \in 0 .. d /\ k - 1 \in 0 .. d BY <1>1
  <2>2. /\ Combined[k - 1] \in Triple /\ Sums[k] \in Triple /\ ZeroRow[k] \in [Server -> Elem]
        /\ Congruent(ZeroRow[k][0] + ZeroRow[k][1] + ZeroRow[k][2], 0) /\ Fits(Sums[k])
    BY <1>2, <1>3, <1>4, <2>1
  <2>3. /\ Fits(ProductOf(Combined[k - 1], Sums[k], ZeroRow[k]))
        /\ Fits(CombinedWith(Combined[k - 1], Sums[k], ZeroRow[k]))
    BY <1>5, <2>2, CombinedFits
  <2>. QED BY <1>3, <2>3 DEF RoundProduct
<1>6. \A k \in 0 .. d : Fits(Combined[k])
  <2>. DEFINE S == {k \in 0 .. d : Fits(Combined[k])}
  <2>1. 0 \in S BY <1>1, <1>3, <1>4
  <2>2. \A k \in 1 .. d : k - 1 \in S => k \in S BY <1>1, <1>5
  <2>3. \A k \in 0 .. d : k \in S
    <3>. HIDE DEF S
    <3>. QED BY <1>1, <2>1, <2>2, IntervalInduction
  <2>. QED BY <2>3
<1>7. \A k \in 1 .. d : RoundProduct(k) \in Triple /\ Fits(RoundProduct(k))
  <2>. TAKE k \in 1 .. d
  <2>1. k \in 0 .. d /\ k - 1 \in 0 .. d BY <1>1
  <2>2. ProductOf(Combined[k - 1], Sums[k], ZeroRow[k]) \in Triple
    BY <1>2, <1>3, <2>1, ProductTotal
  <2>3. Fits(Combined[k - 1]) BY <1>6, <2>1
  <2>. QED BY <1>5, <2>2, <2>3 DEF RoundProduct
<1>. QED BY <1>4, <1>6, <1>7 DEF d

\* Does the row satisfy the filters up to k, all or any?
JoinedBit(k) ==
  IF op_is_and THEN (IF \A f \in 0 .. k : truth[f] THEN 1 ELSE 0)
  ELSE (IF \E f \in 0 .. k : truth[f] THEN 1 ELSE 0)

\* The values of the combined filters: one if the row satisfies them and zero if not,
\* where with OR the row satisfies at most one of them.
LEMMA CombinedValue ==
  ASSUME Chosen, op_is_and \/ (\A f, g \in Matches : f = g)
  PROVE  \A k \in 0 .. Count - 1 : Congruent(Total(Combined[k], "val"), JoinedBit(k))
<1> DEFINE d == Count - 1
           S == {k \in 0 .. d : Congruent(Total(Combined[k], "val"), JoinedBit(k))}
<1>0. "val" \in Halves /\ truth \in [0 .. d -> BOOLEAN] BY DEF Halves, Chosen
<1>1. d \in Nat BY RowTypes
<1>2. \A f \in 0 .. d : /\ Sums[f] \in Triple /\ ZeroRow[f] \in [Server -> Elem]
                        /\ Congruent(ZeroRow[f][0] + ZeroRow[f][1] + ZeroRow[f][2], 0)
  BY RowTypes
<1>3. /\ Combined \in [0 .. d -> Triple] /\ Combined[0] = Sums[0]
      /\ \A k \in 1 .. d : Combined[k] = CombinedWith(Combined[k - 1], Sums[k], ZeroRow[k])
  BY CombinedLevels
<1>4. \A f \in 0 .. d : Congruent(Total(Sums[f], "val"), BitOf(f))
  <2>. TAKE f \in 0 .. d
  <2>1. Congruent(Total(Sums[f], "val"), Worth(BitOf(f), "val")) BY <1>0, SumsTotal
  <2>. QED BY <2>1, WorthInt
<1>. HIDE DEF d
<1>5. 0 \in S
  <2>1. JoinedBit(0) = BitOf(0) BY DEF JoinedBit, BitOf
  <2>. QED BY <1>1, <1>3, <1>4, <2>1
<1>6. \A k \in 1 .. d : k - 1 \in S => k \in S
  <2>. TAKE k \in 1 .. d
  <2>. HAVE k - 1 \in S
  <2>1. k \in 0 .. d /\ k - 1 \in 0 .. d BY <1>1
  <2> DEFINE x == Total(Combined[k - 1], "val")
             y == Total(Sums[k], "val")
             a == JoinedBit(k - 1)
             b == BitOf(k)
             t == Total(Combined[k], "val")
  <2>2. /\ Combined[k - 1] \in Triple /\ Sums[k] \in Triple /\ ZeroRow[k] \in [Server -> Elem]
        /\ Combined[k] \in Triple
        /\ Congruent(ZeroRow[k][0] + ZeroRow[k][1] + ZeroRow[k][2], 0)
    BY <1>2, <1>3, <2>1
  <2>3. Congruent(t, Joined(x, y, y))
    <3>1. Congruent(Total(CombinedWith(Combined[k - 1], Sums[k], ZeroRow[k]), "val"), Joined(x, y, y))
      BY <1>0, <2>2, CombinedTotal
    <3>. QED BY <1>3, <3>1
  <2>4. Congruent(x, a) /\ Congruent(y, b) BY <1>4, <2>1
  <2>5. x \in Int /\ y \in Int /\ t \in Int BY <1>0, <2>2, TripleParts
  <2>6. a \in {0, 1} /\ b \in {0, 1} BY DEF JoinedBit, BitOf
  <2>7. JoinedBit(k) = IF op_is_and THEN a * b ELSE a * b + (a + b)
    <3>1. 0 .. k = (0 .. k - 1) \cup {k} BY <1>1
    <3>2. CASE op_is_and
      <4>1. (\A f \in 0 .. k : truth[f]) <=> (\A f \in 0 .. k - 1 : truth[f]) /\ truth[k]
        BY <3>1
      <4>. QED BY <3>2, <4>1 DEF JoinedBit, BitOf
    <3>3. CASE ~op_is_and
      <4>1. (\E f \in 0 .. k : truth[f]) <=> (\E f \in 0 .. k - 1 : truth[f]) \/ truth[k]
        BY <3>1
      <4>2. ~((\E f \in 0 .. k - 1 : truth[f]) /\ truth[k])
        <5>. SUFFICES ASSUME NEW f \in 0 .. k - 1, truth[f], truth[k] PROVE FALSE
          OBVIOUS
        <5>1. f \in 0 .. d /\ k \in 0 .. d /\ f # k BY <1>1
        <5>2. f \in Matches /\ k \in Matches BY <1>0, <5>1 DEF Matches
        <5>. QED BY <3>3, <5>1, <5>2
      <4>3. JoinedBit(k) = IF (\E f \in 0 .. k - 1 : truth[f]) \/ truth[k] THEN 1 ELSE 0
        BY <3>3, <4>1 DEF JoinedBit
      <4>4. a = (IF \E f \in 0 .. k - 1 : truth[f] THEN 1 ELSE 0)
            /\ b = IF truth[k] THEN 1 ELSE 0
        BY <3>3 DEF JoinedBit, BitOf
      <4>. HIDE DEF a, b
      <4>. QED BY <3>3, <4>2, <4>3, <4>4
    <3>. QED BY <3>2, <3>3
  <2>. HIDE DEF x, y, a, b, t
  <2>8. Congruent(x * y, a * b) /\ Congruent(x + y, a + b)
    BY <2>4, <2>5, <2>6, CongruentProduct, CongruentSum
  <2> DEFINE p == x * y
             q == a * b
             r == x + y
             s == a + b
  <2>9. p \in Int /\ q \in Int /\ r \in Int /\ s \in Int BY <2>5, <2>6
  <2>10. Congruent(p, q) /\ Congruent(r, s) BY <2>8
  <2>11. Joined(x, y, y) = (IF op_is_and THEN p ELSE p + r)
         /\ JoinedBit(k) = IF op_is_and THEN q ELSE q + s
    BY <2>7 DEF Joined
  <2>. HIDE DEF p, q, r, s
  <2>12. Congruent(p + r, q + s) /\ p + r \in Int /\ q + s \in Int
    BY <2>9, <2>10, CongruentSum
  <2>13. /\ Joined(x, y, y) \in Int /\ JoinedBit(k) \in Int
         /\ Congruent(Joined(x, y, y), JoinedBit(k))
    BY <2>9, <2>10, <2>11, <2>12
  <2>14. Congruent(t, JoinedBit(k)) BY <2>3, <2>5, <2>13, CongruentTrans
  <2>. QED BY <2>1, <2>14 DEF t
<1>7. \A k \in 0 .. d : k \in S
  <2>. HIDE DEF S
  <2>. QED BY <1>1, <1>5, <1>6, IntervalInduction
<1>. QED BY <1>7 DEF d

-----------------------------------------------------------------------------
(* The accumulators of the MAC check.                                      *)

\* Shares of a coefficient.
Pair == [r0 : Elem, r1 : Elem]

\* The shares of a random coefficient at server i.
Coeff(i, c) ==
  [r0 |-> Prf(prfKey0[i], c % PrfInputs), r1 |-> Prf(prfKey1(i), c % PrfInputs)]

\* Every server's accumulator goes on with its halves of x.
Checked(a, x, c) ==
  [i \in Server |-> MACCheck(a[i], [r0 |-> x[Pred(i)], r1 |-> x[i]], c[i])]

\* All halves of all coefficients are the same number.
Even(c) == \E e \in Elem : \A i \in Server : c[i].r0 = e /\ c[i].r1 = e

\* Coefficients are elements, and even if the keys are equal.
LEMMA CoeffTypes ==
  ASSUME NEW c \in Int, prfKey0 \in KeyRings
  PROVE  /\ [i \in Server |-> Coeff(i, c)] \in [Server -> Pair]
         /\ SameKeys => Even([i \in Server |-> Coeff(i, c)])
<1> DEFINE d == c % PrfInputs
           p(i) == Prf(prfKey0[i], d)
<1>1. d \in 0 .. PrfInputs - 1 BY ConstantsAssumption, DivMod
<1>. HIDE DEF d
<1>2. \A i \in Server : p(i) \in Elem BY <1>1, ConstantsAssumption
<1>3. \A i \in Server : Pred(i) \in Server BY Ring
<1>4. \A i \in Server : Coeff(i, c) = [r0 |-> p(i), r1 |-> p(Pred(i))]
  BY DEF Coeff, prfKey1, d
<1>5. SameKeys => \A i \in Server : p(i) = p(0) BY DEF SameKeys
<1>6. 0 \in Server BY Ring
<1>. HIDE DEF p
<1>7. [i \in Server |-> Coeff(i, c)] \in [Server -> Pair] BY <1>2, <1>3, <1>4 DEF Pair
<1>8. SameKeys => Even([i \in Server |-> Coeff(i, c)])
  <2>. SUFFICES ASSUME SameKeys
                PROVE  \A i \in Server : Coeff(i, c).r0 = p(0) /\ Coeff(i, c).r1 = p(0)
    BY <1>2, <1>6 DEF Even
  <2>. QED BY <1>3, <1>4, <1>5
<1>. QED BY <1>7, <1>8

\* Accumulators stay elements.
LEMMA CheckedType ==
  ASSUME NEW a \in Triple, NEW x \in Triple, NEW c, malicious => c \in [Server -> Pair]
  PROVE  Checked(a, x, c) \in Triple
<1>1. ASSUME NEW i \in Server
      PROVE  MACCheck(a[i], [r0 |-> x[Pred(i)], r1 |-> x[i]], c[i]) \in Vec
  <2>1. a[i] \in Vec /\ x[i] \in Vec /\ x[Pred(i)] \in Vec BY Ring DEF Triple
  <2>2. CASE ~malicious BY <2>1, <2>2 DEF MACCheck
  <2>3. CASE malicious
    <3>1. c[i].r0 \in Elem /\ c[i].r1 \in Elem BY <2>3 DEF Pair
    <3>2. \A e \in Elem : e \in Int BY DEF Elem
    <3>3. ASSUME NEW h \in Halves
          PROVE  (a[i][h] + x[Pred(i)][h] * c[i].r0 + x[i][h] * c[i].r0
                    + x[Pred(i)][h] * c[i].r1) % Modulus \in Elem
      <4> DEFINE p == a[i][h]
                 q == x[Pred(i)][h]
                 r == x[i][h]
                 s == c[i].r0
                 t == c[i].r1
      <4>1. p \in Elem /\ q \in Elem /\ r \in Elem /\ s \in Elem /\ t \in Elem
        BY <2>1, <3>1 DEF Vec
      <4>. HIDE DEF p, q, r, s, t
      <4>2. p \in Int /\ q \in Int /\ r \in Int /\ s \in Int /\ t \in Int BY <3>2, <4>1
      <4>3. p + q * s + r * s + q * t \in Int BY <4>2
      <4>4. (p + q * s + r * s + q * t) % Modulus \in Elem BY <4>3, Residue
      <4>. QED BY <4>4 DEF p, q, r, s, t
    <3>. QED BY <2>3, <3>3 DEF MACCheck, Vec
  <2>. QED BY <2>2, <2>3
<1>. QED BY <1>1 DEF Checked, Triple

\* With even coefficients e the accumulators grow by 3 e times what x stands for.
LEMMA CheckedTotal ==
  ASSUME malicious, NEW a \in Triple, NEW x \in Triple, NEW c \in [Server -> Pair], Even(c)
  PROVE  \E e \in Int : \A h \in Halves :
           Congruent(Total(Checked(a, x, c), h), Total(a, h) + Total(x, h) * (3 * e))
<1>1. PICK e \in Elem : \A i \in Server : c[i].r0 = e /\ c[i].r1 = e BY DEF Even
<1>2. e \in Int BY DEF Elem
<1>3. ASSUME NEW h \in Halves
      PROVE  Congruent(Total(Checked(a, x, c), h), Total(a, h) + Total(x, h) * (3 * e))
  <2> DEFINE a0 == a[0][h]
             a1 == a[1][h]
             a2 == a[2][h]
             x0 == x[0][h]
             x1 == x[1][h]
             x2 == x[2][h]
             n0 == a0 + x2 * e + x0 * e + x2 * e
             n1 == a1 + x0 * e + x1 * e + x0 * e
             n2 == a2 + x1 * e + x2 * e + x1 * e
  <2>1. /\ Checked(a, x, c)[0][h] = n0 % Modulus /\ Checked(a, x, c)[1][h] = n1 % Modulus
        /\ Checked(a, x, c)[2][h] = n2 % Modulus
    BY <1>1, Ring DEF Checked, MACCheck
  <2>2. /\ a0 \in Int /\ a1 \in Int /\ a2 \in Int /\ x0 \in Int /\ x1 \in Int /\ x2 \in Int
        /\ Total(a, h) = a0 + a1 + a2 /\ Total(x, h) = x0 + x1 + x2
    BY TripleParts DEF Total
  <2>. HIDE DEF a0, a1, a2, x0, x1, x2
  <2>3. /\ n0 \in Int /\ n1 \in Int /\ n2 \in Int
        /\ n0 + n1 + n2 = (a0 + a1 + a2) + (x0 + x1 + x2) * (3 * e)
    BY <1>2, <2>2
  <2>. HIDE DEF n0, n1, n2
  <2>4. Congruent((n0 % Modulus) + (n1 % Modulus) + (n2 % Modulus), n0 + n1 + n2)
    BY <2>3, ThreeResidues
  <2>. QED BY <2>1, <2>2, <2>3, <2>4 DEF Total
<1>. QED BY <1>2, <1>3

\* Accumulators of values with fitting MACs fit.
LEMMA CheckedFits ==
  ASSUME malicious, NEW a \in Triple, NEW x \in Triple, NEW c \in [Server -> Pair], Even(c),
         Fits(a), Fits(x)
  PROVE  Fits(Checked(a, x, c))
<1> DEFINE am == Total(a, "mac")
           av == Total(a, "val")
           xm == Total(x, "mac")
           xv == Total(x, "val")
           cm == Total(Checked(a, x, c), "mac")
           cv == Total(Checked(a, x, c), "val")
<1>0. "val" \in Halves /\ "mac" \in Halves BY DEF Halves
<1>1. PICK e \in Int : \A h \in Halves :
        Congruent(Total(Checked(a, x, c), h), Total(a, h) + Total(x, h) * (3 * e))
  BY CheckedTotal
<1>2. Checked(a, x, c) \in Triple BY CheckedType
<1>3. /\ am \in Int /\ av \in Int /\ xm \in Int /\ xv \in Int /\ cm \in Int /\ cv \in Int
  BY <1>0, <1>2, TripleParts
<1>4. Scaled(am, av) /\ Scaled(xm, xv) BY <1>0 DEF Fits, Scaled
<1>5. Congruent(cm, am + xm * (3 * e)) /\ Congruent(cv, av + xv * (3 * e)) BY <1>0, <1>1
<1>. HIDE DEF am, av, xm, xv, cm, cv
<1> DEFINE f == 3 * e
<1>6. f \in Int OBVIOUS
<1>7. Congruent(cm, am + xm * f) /\ Congruent(cv, av + xv * f) BY <1>5
<1>. HIDE DEF f
<1> DEFINE m == xm * f
           v == xv * f
<1>8. m \in Int /\ v \in Int BY <1>3, <1>6
<1>9. Scaled(m, v) BY <1>3, <1>4, <1>6, ScaledTimes
<1>10. Congruent(cm, am + m) /\ Congruent(cv, av + v) BY <1>7
<1>. HIDE DEF m, v
<1>11. Scaled(am + m, av + v) /\ am + m \in Int /\ av + v \in Int BY <1>3, <1>4, <1>8, <1>9, ScaledSum
<1>12. Scaled(cm, cv) BY <1>3, <1>10, <1>11, ScaledCongruent
<1>. QED BY <1>12 DEF cm, cv, Fits, Scaled

\* d sharings are checked in turn, from accumulators a.
Chain(d, a, X, C) ==
  CHOOSE g : g = [k \in 0 .. d |-> IF k = 0 THEN a ELSE Checked(g[k - 1], X[k], C[k])]

\* The recursive function is one.
LEMMA ChainLevels ==
  ASSUME NEW d \in Nat, NEW a \in Triple, NEW X, NEW C,
         \A k \in 1 .. d : X[k] \in Triple /\ (malicious => C[k] \in [Server -> Pair])
  PROVE  /\ Chain(d, a, X, C) \in [0 .. d -> Triple] /\ Chain(d, a, X, C)[0] = a
         /\ \A k \in 1 .. d :
              Chain(d, a, X, C)[k] = Checked(Chain(d, a, X, C)[k - 1], X[k], C[k])
<1> DEFINE step == [k \in 1 .. d |-> [x \in Triple |-> Checked(x, X[k], C[k])]]
           chain == Chain(d, a, X, C)
<1>1. \A k \in 1 .. d, x \in Triple : Checked(x, X[k], C[k]) \in Triple BY CheckedType
<1>2. step \in Steps(d, Triple) BY <1>1 DEF Steps
<1>. HIDE DEF step
<1>3. \E g : g \in Runs(d, Triple, a, step) BY <1>2, Recursion, Zenon
<1>4. PICK g \in [0 .. d -> Triple] :
        g[0] = a /\ \A k \in 1 .. d : g[k] = step[k][g[k - 1]]
  BY <1>3 DEF Runs
<1>5. \A k \in 1 .. d : g[k] = Checked(g[k - 1], X[k], C[k])
  <2>. TAKE k \in 1 .. d
  <2>1. g[k - 1] \in Triple OBVIOUS
  <2>. QED BY <1>4, <2>1 DEF step
<1>6. g = [k \in 0 .. d |-> IF k = 0 THEN a ELSE Checked(g[k - 1], X[k], C[k])]
  BY <1>4, <1>5
<1>7. chain = [k \in 0 .. d |-> IF k = 0 THEN a ELSE Checked(chain[k - 1], X[k], C[k])]
  BY <1>6 DEF Chain
<1>8. /\ DOMAIN chain = 0 .. d /\ chain[0] = a
      /\ \A k \in 1 .. d : chain[k] = Checked(chain[k - 1], X[k], C[k])
  <2>. HIDE DEF chain
  <2>. QED BY <1>7
<1>. HIDE DEF chain
<1>9. \A k \in 0 .. d : chain[k] \in Triple
  <2>. DEFINE S == {k \in 0 .. d : chain[k] \in Triple}
  <2>1. 0 \in S BY <1>8
  <2>2. \A k \in 1 .. d : k - 1 \in S => k \in S BY <1>1, <1>8
  <2>3. \A k \in 0 .. d : k \in S
    <3>. HIDE DEF S
    <3>. QED BY <2>1, <2>2, IntervalInduction
  <2>. QED BY <2>3
<1>10. chain \in [0 .. d -> Triple] BY <1>7, <1>9
<1>. QED BY <1>8, <1>10 DEF chain

\* Fitting MACs add up to fitting accumulators.
LEMMA ChainFits ==
  ASSUME malicious, NEW d \in Nat, NEW a \in Triple, NEW X, NEW C, Fits(a),
         \A k \in 1 .. d : X[k] \in Triple /\ Fits(X[k]) /\ C[k] \in [Server -> Pair] /\ Even(C[k])
  PROVE  Fits(Chain(d, a, X, C)[d])
<1> DEFINE chain == Chain(d, a, X, C)
           S == {k \in 0 .. d : Fits(chain[k])}
<1>1. /\ chain \in [0 .. d -> Triple] /\ chain[0] = a
      /\ \A k \in 1 .. d : chain[k] = Checked(chain[k - 1], X[k], C[k])
  BY ChainLevels
<1>. HIDE DEF chain
<1>2. 0 \in S BY <1>1
<1>3. \A k \in 1 .. d : k - 1 \in S => k \in S
  <2>. TAKE k \in 1 .. d
  <2>. HAVE k - 1 \in S
  <2>1. k \in 0 .. d /\ chain[k - 1] \in Triple /\ Fits(chain[k - 1]) BY <1>1
  <2>2. Fits(Checked(chain[k - 1], X[k], C[k])) BY <2>1, CheckedFits
  <2>. QED BY <1>1, <2>1, <2>2
<1>4. \A k \in 0 .. d : k \in S
  <2>. HIDE DEF S
  <2>. QED BY <1>2, <1>3, IntervalInduction
<1>. QED BY <1>4 DEF chain

\* The accumulators before the check.
NoChecks == [i \in Server |-> Zeros]

\* The coefficients of RSSReshare and of the multiplications.
ReshareCoeffs ==
  [k \in 1 .. Count |-> [i \in Server |-> Coeff(i, Base + (Count * len + (k - 1) * Count + len))]]

RoundCoeffs ==
  [k \in 0 .. Count - 1 |-> [i \in Server |-> Coeff(i, Mid + CoeffIdx(k, Count))]]

\* The accumulators after each filter of RSSReshare, and after each multiplication.
ReshareChain == Chain(Count, NoChecks, [k \in 1 .. Count |-> Sums[k - 1]], ReshareCoeffs)
RoundChain == Chain(Count - 1, ReshareChain[Count],
                    [k \in 1 .. Count - 1 |-> RoundProduct(k)], RoundCoeffs)

\* Nothing of it changes while the query is on.
LEMMA Frame ==
  ASSUME UNCHANGED <<malicious, prfKey0, query, op_is_and, truth, value, seed>>
  PROVE  /\ Halves' = Halves /\ Count' = Count /\ Zeros' = Zeros /\ NoChecks' = NoChecks
         /\ Upto' = Upto /\ MaxCounter' = MaxCounter /\ Mid' = Mid /\ Base' = Base
<1>1. Halves' = Halves /\ mac_factor' = mac_factor /\ len' = len /\ Count' = Count
  BY DEF Halves, mac_factor, len, Count
<1>2. Zeros' = Zeros BY <1>1 DEF Zeros
<1>3. NoChecks' = NoChecks BY <1>2 DEF NoChecks
<1>4. Upto' = Upto BY <1>1 DEF Upto
<1>5. MaxCounter' = MaxCounter
  <2>1. MaxCounter = Upto[query] BY DEF MaxCounter, Upto
  <2>2. MaxCounter' = Upto'[query'] BY DEF MaxCounter, Upto
  <2>. QED BY <1>4, <2>1, <2>2
<1>6. Stride' = Stride BY <1>1 DEF Stride, Count
<1>7. Mid' = Mid /\ Base' = Base BY <1>5, <1>6 DEF Mid, Base
<1>. QED BY <1>1, <1>2, <1>3, <1>4, <1>5, <1>7

\* Nothing of it changes while the query is on.
LEMMA Frame2 ==
  ASSUME UNCHANGED <<malicious, prfKey0, query, op_is_and, truth, value, seed>>
  PROVE  /\ Sums' = Sums /\ ZeroRow' = ZeroRow /\ ReshareCoeffs' = ReshareCoeffs
         /\ RoundCoeffs' = RoundCoeffs
         /\ Combined' = Combined /\ ReshareChain' = ReshareChain /\ RoundChain' = RoundChain
         /\ \A k : RoundProduct(k)' = RoundProduct(k)
<1>1. Halves' = Halves /\ mac_factor' = mac_factor /\ len' = len /\ Count' = Count
  BY DEF Halves, mac_factor, len, Count
<1>2. Mid' = Mid /\ Base' = Base /\ NoChecks' = NoChecks BY Frame
<1>3. \A i, c : Zero(i, c)' = Zero(i, c) /\ Coeff(i, c)' = Coeff(i, c)
  BY DEF Zero, Coeff, prfKey1
<1>4. \A i, f : TableShare(i, f)' = TableShare(i, f) BY <1>1 DEF TableShare, Split
<1>5. \A i, f : SumOf(i, f)' = SumOf(i, f) BY <1>1, <1>2, <1>3, <1>4 DEF SumOf, Plus
<1>6. Sums' = Sums BY <1>1, <1>5 DEF Sums
<1>7. ZeroRow' = ZeroRow BY <1>1, <1>2, <1>3 DEF ZeroRow
<1>8. \A f : CoeffIdx(f, Count)' = CoeffIdx(f, Count) BY <1>1 DEF CoeffIdx
<1>9. ReshareCoeffs' = ReshareCoeffs BY <1>1, <1>2, <1>3 DEF ReshareCoeffs
<1>10. RoundCoeffs' = RoundCoeffs BY <1>1, <1>2, <1>3, <1>8 DEF RoundCoeffs
<1>11. \A x, y, z : ProductOf(x, y, z)' = ProductOf(x, y, z) BY <1>1 DEF ProductOf
<1>12. \A x, y, z : CombinedWith(x, y, z)' = CombinedWith(x, y, z)
  BY <1>1, <1>11 DEF CombinedWith, PlusTriple, Plus
<1>13. Combined' = Combined BY <1>1, <1>6, <1>7, <1>12 DEF Combined
<1>14. \A k : RoundProduct(k)' = RoundProduct(k) BY <1>6, <1>7, <1>11, <1>13 DEF RoundProduct
<1>15. \A a, x, c : Checked(a, x, c)' = Checked(a, x, c) BY <1>1 DEF Checked, MACCheck
<1>16. \A d, a, X, C : Chain(d, a, X, C)' = Chain(d, a, X, C) BY <1>15 DEF Chain
<1>17. ReshareChain' = ReshareChain BY <1>1, <1>2, <1>6, <1>9, <1>16 DEF ReshareChain
<1>18. RoundChain' = RoundChain BY <1>1, <1>10, <1>14, <1>16, <1>17 DEF RoundChain
<1>. QED BY <1>6, <1>7, <1>9, <1>10, <1>13, <1>14, <1>17, <1>18

\* The index of a coefficient is a number.
LEMMA CoeffIdxType ==
  ASSUME malicious, NEW f \in Int, NEW n \in Int
  PROVE  CoeffIdx(f, n) \in Int
<1> DEFINE half == (len \div 4) \div 2
<1>1. WindowSize \in Nat \ {0} /\ WindowSize % 4 = 0 /\ Row \in Int BY ConstantsAssumption
<1>2. len = 2 * WindowSize BY DEF len, mac_factor
<1>3. half \in Nat \ {0} /\ len \div 4 \in Int /\ len \in Int BY <1>1, <1>2
<1>4. CoeffIdx(f, n) = f * len + (Row \div half) * (len \div 4) + (Row % half) + n * len
  BY DEF CoeffIdx
<1>. HIDE DEF half
<1>5. Row \div half \in Int /\ Row % half \in Int
  <2>1. Row % half \in 0 .. half - 1 /\ Row \div half \in Int BY <1>1, <1>3, DivMod
  <2>. QED BY <1>3, <2>1
<1> DEFINE a == f * len
           b == (Row \div half) * (len \div 4)
           c == Row % half
           d == n * len
<1>6. a \in Int /\ b \in Int /\ c \in Int /\ d \in Int BY <1>3, <1>5
<1>7. CoeffIdx(f, n) = a + b + c + d BY <1>4
<1>. HIDE DEF a, b, c, d
<1>. QED BY <1>6, <1>7

\* What the accumulators are made of.
LEMMA CheckTypes ==
  ASSUME Chosen
  PROVE  /\ NoChecks \in Triple /\ Fits(NoChecks)
         /\ \A k \in 1 .. Count :
              malicious => ReshareCoeffs[k] \in [Server -> Pair] /\ (SameKeys => Even(ReshareCoeffs[k]))
         /\ \A k \in 0 .. Count - 1 :
              malicious => RoundCoeffs[k] \in [Server -> Pair] /\ (SameKeys => Even(RoundCoeffs[k]))
<1>1. 0 \in Elem BY ConstantsAssumption DEF Elem
<1>2. NoChecks \in Triple BY <1>1 DEF NoChecks, Zeros, Vec, Triple
<1>3. \A h \in Halves : Total(NoChecks, h) = 0 BY Ring DEF Total, NoChecks, Zeros
<1>4. Fits(NoChecks)
  <2>. SUFFICES ASSUME "mac" \in Halves PROVE Congruent(Total(NoChecks, "mac"), Alpha * Total(NoChecks, "val"))
    BY DEF Fits
  <2>1. Total(NoChecks, "mac") = 0 /\ Total(NoChecks, "val") = 0 BY <1>3 DEF Halves
  <2>2. Alpha * 0 = 0 /\ Congruent(0, 0) BY CongruentSelf, ConstantsAssumption DEF Elem
  <2>. QED BY <2>1, <2>2
<1>5. /\ Count \in Int /\ len \in Int /\ Mid \in Int /\ Base \in Int /\ prfKey0 \in KeyRings
  BY RowTypes, SizeTypes, CounterStops DEF Chosen
<1>6. ASSUME NEW k \in 1 .. Count
      PROVE  ReshareCoeffs[k] \in [Server -> Pair] /\ (SameKeys => Even(ReshareCoeffs[k]))
  <2> DEFINE c == Base + (Count * len + (k - 1) * Count + len)
  <2>1. c \in Int
    <3>1. k - 1 \in Int BY <1>5
    <3>2. Count * len \in Int /\ (k - 1) * Count \in Int BY <1>5, <3>1
    <3>. QED BY <1>5, <3>2
  <2>2. ReshareCoeffs[k] = [i \in Server |-> Coeff(i, c)] BY DEF ReshareCoeffs
  <2>. HIDE DEF c
  <2>. QED BY <1>5, <2>1, <2>2, CoeffTypes
<1>7. ASSUME NEW k \in 0 .. Count - 1, malicious
      PROVE  RoundCoeffs[k] \in [Server -> Pair] /\ (SameKeys => Even(RoundCoeffs[k]))
  <2> DEFINE c == Mid + CoeffIdx(k, Count)
  <2>1. c \in Int BY <1>5, <1>7, CoeffIdxType
  <2>2. RoundCoeffs[k] = [i \in Server |-> Coeff(i, c)] BY DEF RoundCoeffs
  <2>. HIDE DEF c
  <2>. QED BY <1>5, <2>1, <2>2, CoeffTypes
<1>. QED BY <1>2, <1>4, <1>6, <1>7

\* The accumulators, level by level.
LEMMA ChecksLevels ==
  ASSUME Chosen
  PROVE  /\ ReshareChain \in [0 .. Count -> Triple] /\ ReshareChain[0] = NoChecks
         /\ \A k \in 1 .. Count :
              ReshareChain[k] = Checked(ReshareChain[k - 1], Sums[k - 1], ReshareCoeffs[k])
         /\ RoundChain \in [0 .. Count - 1 -> Triple] /\ RoundChain[0] = ReshareChain[Count]
         /\ \A k \in 1 .. Count - 1 :
              RoundChain[k] = Checked(RoundChain[k - 1], RoundProduct(k), RoundCoeffs[k])
<1>1. Count \in Nat /\ Count - 1 \in Nat BY RowTypes
<1> DEFINE X == [k \in 1 .. Count |-> Sums[k - 1]]
           Y == [k \in 1 .. Count - 1 |-> RoundProduct(k)]
<1>2. \A k \in 1 .. Count : X[k] = Sums[k - 1] /\ X[k] \in Triple
  <2>. TAKE k \in 1 .. Count
  <2>1. k - 1 \in 0 .. Count - 1 BY <1>1
  <2>. QED BY <2>1, RowTypes
<1>3. \A k \in 1 .. Count - 1 : Y[k] = RoundProduct(k) /\ Y[k] \in Triple BY AllFit
<1>4. ReshareChain = Chain(Count, NoChecks, X, ReshareCoeffs)
      /\ RoundChain = Chain(Count - 1, ReshareChain[Count], Y, RoundCoeffs)
  BY DEF ReshareChain, RoundChain
<1>. HIDE DEF X, Y
<1>5. /\ ReshareChain \in [0 .. Count -> Triple] /\ ReshareChain[0] = NoChecks
      /\ \A k \in 1 .. Count : ReshareChain[k] = Checked(ReshareChain[k - 1], X[k], ReshareCoeffs[k])
  <2>1. NoChecks \in Triple BY CheckTypes
  <2>2. \A k \in 1 .. Count : X[k] \in Triple /\ (malicious => ReshareCoeffs[k] \in [Server -> Pair])
    BY <1>2, CheckTypes
  <2>. QED BY <1>1, <1>4, <2>1, <2>2, ChainLevels
<1>6. /\ RoundChain \in [0 .. Count - 1 -> Triple] /\ RoundChain[0] = ReshareChain[Count]
      /\ \A k \in 1 .. Count - 1 : RoundChain[k] = Checked(RoundChain[k - 1], Y[k], RoundCoeffs[k])
  <2>1. ReshareChain[Count] \in Triple BY <1>1, <1>5
  <2>2. \A k \in 1 .. Count - 1 : Y[k] \in Triple /\ (malicious => RoundCoeffs[k] \in [Server -> Pair])
    <3>. TAKE k \in 1 .. Count - 1
    <3>1. k \in 0 .. Count - 1 BY <1>1
    <3>. QED BY <1>3, <3>1, CheckTypes
  <2>. QED BY <1>1, <1>4, <2>1, <2>2, ChainLevels
<1>. QED BY <1>2, <1>3, <1>5, <1>6

\* After the last multiplication the accumulators of the MACs fit those of the values,
\* where the keys are equal.
LEMMA ChecksFit ==
  ASSUME Chosen, malicious, SameKeys
  PROVE  RoundChain[Count - 1] \in Triple /\ Fits(RoundChain[Count - 1])
<1>1. Count \in Nat /\ Count - 1 \in Nat /\ Count - 1 \in 0 .. Count - 1 BY RowTypes
<1> DEFINE X == [k \in 1 .. Count |-> Sums[k - 1]]
           Y == [k \in 1 .. Count - 1 |-> RoundProduct(k)]
<1>2. \A k \in 1 .. Count :
        /\ X[k] \in Triple /\ Fits(X[k])
        /\ ReshareCoeffs[k] \in [Server -> Pair] /\ Even(ReshareCoeffs[k])
  <2>. TAKE k \in 1 .. Count
  <2>1. k - 1 \in 0 .. Count - 1 /\ X[k] = Sums[k - 1] BY <1>1
  <2>2. X[k] \in Triple /\ Fits(X[k]) BY <2>1, RowTypes, AllFit
  <2>. QED BY <2>2, CheckTypes
<1>3. \A k \in 1 .. Count - 1 :
        /\ Y[k] \in Triple /\ Fits(Y[k])
        /\ RoundCoeffs[k] \in [Server -> Pair] /\ Even(RoundCoeffs[k])
  <2>. TAKE k \in 1 .. Count - 1
  <2>1. k \in 0 .. Count - 1 /\ Y[k] = RoundProduct(k) BY <1>1
  <2>2. Y[k] \in Triple /\ Fits(Y[k]) BY <2>1, AllFit
  <2>. QED BY <2>1, <2>2, CheckTypes
<1>4. ReshareChain = Chain(Count, NoChecks, X, ReshareCoeffs)
      /\ RoundChain = Chain(Count - 1, ReshareChain[Count], Y, RoundCoeffs)
  BY DEF ReshareChain, RoundChain
<1>. HIDE DEF X, Y
<1>5. NoChecks \in Triple /\ Fits(NoChecks) BY CheckTypes
<1>6. Fits(ReshareChain[Count]) BY <1>1, <1>2, <1>4, <1>5, ChainFits
<1>7. ReshareChain[Count] \in Triple BY <1>1, ChecksLevels
<1>8. Fits(RoundChain[Count - 1]) BY <1>1, <1>3, <1>4, <1>6, <1>7, ChainFits
<1>9. RoundChain[Count - 1] \in Triple BY <1>1, ChecksLevels
<1>. QED BY <1>8, <1>9

\* The share of the aggregate that server i answers with.
Answered(i) ==
  [h \in Halves |-> Cross(ValShare(i).r0, ValShare(i).r1,
     [r0 |-> Combined[Count - 1][Pred(i)][h], r1 |-> Combined[Count - 1][i][h]])]

\* The answers add up to the value times what the combined filters stand for.
LEMMA AnswersAdd ==
  ASSUME Chosen, NEW h \in Halves
  PROVE  /\ Combined[Count - 1] \in Triple
         /\ \A i \in Server : Answered(i)[h] \in Elem /\ Answered(i)[h] \in Int
         /\ Congruent(Answered(0)[h] + Answered(1)[h] + Answered(2)[h],
                      value * Total(Combined[Count - 1], h))
<1> DEFINE x == Combined[Count - 1]
           a(i) == Split(value, i, 0)
           b(i) == x[i][h]
           c(i) == Cross(a(Pred(i)), a(i), [r0 |-> b(Pred(i)), r1 |-> b(i)])
<1>1. x \in Triple
  <2>1. Count - 1 \in 0 .. Count - 1 BY RowTypes
  <2>. QED BY <2>1, CombinedLevels
<1>2. value \in Int /\ seed \in Elem BY DEF Chosen, Elem
<1>3. /\ \A i \in Server : a(i) \in Int
      /\ Congruent(a(0) + a(1) + a(2), value)
  BY <1>2, SplitSum
<1>4. /\ b(0) \in Int /\ b(1) \in Int /\ b(2) \in Int /\ Total(x, h) = b(0) + b(1) + b(2)
      /\ Total(x, h) \in Int
  BY <1>1, TripleParts DEF Total
<1>5. \A i \in Server : Answered(i)[h] = c(i) BY DEF Answered, ValShare
<1>6. \A i \in Server : c(i) \in Elem /\ c(i) \in Int
  <2>. HIDE DEF a, b, x
  <2>1. \A i \in Server : b(i) \in Int BY <1>4, Ring
  <2>. QED BY <1>3, <2>1, Ring, CrossResidue
<1>7. /\ c(0) = Cross(a(2), a(0), [r0 |-> b(2), r1 |-> b(0)])
      /\ c(1) = Cross(a(0), a(1), [r0 |-> b(0), r1 |-> b(1)])
      /\ c(2) = Cross(a(1), a(2), [r0 |-> b(1), r1 |-> b(2)])
  <2>. HIDE DEF a, b
  <2>. QED BY Ring
<1>8. a(0) \in Int /\ a(1) \in Int /\ a(2) \in Int BY <1>3, Ring
<1>. HIDE DEF a, b, x
<1>9. Congruent(c(0) + c(1) + c(2), (a(0) + a(1) + a(2)) * (b(0) + b(1) + b(2)))
  <2>. HIDE DEF c
  <2>. QED BY <1>4, <1>7, <1>8, CrossTotal
<1> DEFINE s == a(0) + a(1) + a(2)
           t == Total(x, h)
           u == c(0) + c(1) + c(2)
<1>10. s \in Int /\ t \in Int /\ u \in Int
  <2>1. c(0) \in Int /\ c(1) \in Int /\ c(2) \in Int BY <1>6, Ring
  <2>. HIDE DEF c
  <2>. QED BY <1>4, <1>8, <2>1
<1>11. Congruent(u, s * t) BY <1>4, <1>9
<1>12. Congruent(s, value) BY <1>3
<1>13. Answered(0)[h] + Answered(1)[h] + Answered(2)[h] = u BY <1>5, Ring
<1>. HIDE DEF s, t, u, c
<1>14. Congruent(t, t) BY <1>10, CongruentSelf
<1>15. Congruent(s * t, value * t) BY <1>2, <1>10, <1>12, <1>14, CongruentProduct
<1>16. s * t \in Int /\ value * t \in Int BY <1>2, <1>10
<1>17. Congruent(u, value * t) BY <1>10, <1>11, <1>15, <1>16, CongruentTrans
<1>. QED BY <1>1, <1>5, <1>6, <1>13, <1>17 DEF t, x

\* An element is its own residue.
LEMMA ElemResidue ==
  ASSUME NEW e \in Elem
  PROVE  e % Modulus = e
<1>1. Modulus \in Nat \ {0} /\ e \in 0 .. Modulus - 1 /\ e \in Int BY ConstantsAssumption DEF Elem
<1>2. e = 0 * Modulus + e BY <1>1
<1>. QED BY <1>1, <1>2, ModUnique

\* A residue may be taken first.
LEMMA ScaledResidue ==
  ASSUME NEW m \in Int, NEW v \in Int, Scaled(m, v)
  PROVE  m % Modulus = (Alpha * (v % Modulus)) % Modulus
<1>1. Alpha \in Int BY ConstantsAssumption DEF Elem
<1>2. v % Modulus \in Int /\ Congruent(v % Modulus, v) BY Residue
<1>3. Congruent(Alpha, Alpha) BY <1>1, CongruentSelf
<1> DEFINE r == v % Modulus
<1>4. r \in Int /\ Congruent(r, v) BY <1>2
<1>. HIDE DEF r
<1>5. Congruent(Alpha * r, Alpha * v) BY <1>1, <1>3, <1>4, CongruentProduct
<1> DEFINE a == Alpha * r
           b == Alpha * v
<1>6. a \in Int /\ b \in Int /\ Congruent(a, b) /\ Congruent(m, b) BY <1>1, <1>4, <1>5 DEF Scaled
<1>. HIDE DEF a, b
<1>7. a % Modulus = b % Modulus /\ m % Modulus = b % Modulus BY <1>6, CongruentResidue
<1>. QED BY <1>7 DEF a, r

\* If all answers and accumulators are those of the query, they are right.
LEMMA QueryRight ==
  ASSUME Chosen,
         \A i \in Server : answer[i] = Answered(i) /\ linComb[i] = RoundChain[Count - 1][i]
  PROVE  AggregateCorrect /\ MacCheckHolds
<1>. USE Ring
<1> DEFINE x == Combined[Count - 1]
           t(h) == Total(x, h)
           s(h) == answer[0][h] + answer[1][h] + answer[2][h]
<1>0. "val" \in Halves /\ (malicious => "mac" \in Halves) /\ Count - 1 \in 0 .. Count - 1
  BY RowTypes DEF Halves
<1>1. /\ x \in Triple
      /\ \A h \in Halves : Congruent(s(h), value * t(h))
      /\ \A h \in Halves : answer[0][h] \in Int /\ answer[1][h] \in Int /\ answer[2][h] \in Int
  BY <1>0, AnswersAdd
<1>2. \A h \in Halves : s(h) \in Int /\ t(h) \in Int BY <1>1, TripleParts
<1>3. value \in Int /\ value \in Elem BY DEF Chosen, Elem
<1>4. Fits(x) BY <1>0, AllFit
<1>5. Sum([i \in Server |-> answer[i].val]) = s("val") % Modulus BY DEF Sum
<1>6. Sum([i \in Server |-> answer[i].mac]) = s("mac") % Modulus BY DEF Sum
<1>. HIDE DEF s, x
<1>7. ValueCorrect
  <2>. SUFFICES ASSUME op_is_and \/ (\A f, g \in Matches : f = g)
                PROVE  s("val") % Modulus = IF RowMatches THEN value ELSE 0
    BY <1>5 DEF ValueCorrect
  <2>1. Congruent(t("val"), JoinedBit(Count - 1)) BY <1>0, CombinedValue DEF x
  <2>2. JoinedBit(Count - 1) = IF RowMatches THEN 1 ELSE 0
    <3>1. truth \in [0 .. Count - 1 -> BOOLEAN] BY DEF Chosen
    <3>2. DOMAIN truth = 0 .. Count - 1 BY <3>1
    <3>. QED BY <3>2 DEF JoinedBit, RowMatches, Matches
  <2> DEFINE b == JoinedBit(Count - 1)
             u == t("val")
             v == s("val")
             w == value * u
             e == value * b
  <2>3. b \in Int /\ u \in Int /\ v \in Int BY <1>0, <1>2, <2>2
  <2>4. Congruent(v, w) /\ Congruent(u, b) /\ Congruent(value, value)
    BY <1>0, <1>1, <1>3, <2>1, CongruentSelf
  <2>5. e = IF RowMatches THEN value ELSE 0 BY <1>3, <2>2
  <2>. HIDE DEF b, u, v
  <2>6. w \in Int /\ e \in Int BY <1>3, <2>3
  <2>7. Congruent(w, e) BY <1>3, <2>3, <2>4, CongruentProduct
  <2>. HIDE DEF w, e
  <2>8. Congruent(v, e) BY <2>3, <2>4, <2>6, <2>7, CongruentTrans
  <2>9. v % Modulus = e % Modulus BY <2>3, <2>6, <2>8, CongruentResidue
  <2>10. e \in Elem BY <1>3, <2>5, ConstantsAssumption DEF Elem
  <2>11. e % Modulus = e BY <2>10, ElemResidue
  <2>. QED BY <2>5, <2>9, <2>11 DEF v
<1>8. MacCorrect
  <2>. SUFFICES ASSUME malicious
                PROVE  s("mac") % Modulus = (Alpha * (s("val") % Modulus)) % Modulus
    BY <1>5, <1>6 DEF MacCorrect
  <2>1. Scaled(t("mac"), t("val")) BY <1>0, <1>4 DEF Fits, Scaled
  <2> DEFINE m == t("mac")
             v == t("val")
  <2>2. m \in Int /\ v \in Int /\ Scaled(m, v) BY <1>0, <1>2, <2>1
  <2>3. Congruent(s("mac"), value * m) /\ Congruent(s("val"), value * v) BY <1>0, <1>1
  <2>. HIDE DEF m, v
  <2>4. Scaled(m * value, v * value) BY <1>3, <2>2, ScaledTimes
  <2>5. value * m = m * value /\ value * v = v * value BY <1>3, <2>2
  <2> DEFINE p == m * value
             q == v * value
  <2>6. p \in Int /\ q \in Int BY <1>3, <2>2
  <2>7. Scaled(p, q) /\ Congruent(s("mac"), p) /\ Congruent(s("val"), q) BY <2>3, <2>4, <2>5
  <2>. HIDE DEF p, q
  <2>8. s("mac") \in Int /\ s("val") \in Int BY <1>0, <1>2
  <2>9. Scaled(s("mac"), s("val")) BY <2>6, <2>7, <2>8, ScaledCongruent
  <2>. QED BY <2>8, <2>9, ScaledResidue
<1>9. MacCheckHolds
  <2>. SUFFICES ASSUME malicious, SameKeys
                PROVE  Sum([i \in Server |-> linComb[i].mac]) =
                         (Alpha * Sum([i \in Server |-> linComb[i].val])) % Modulus
    BY DEF MacCheckHolds
  <2> DEFINE y == RoundChain[Count - 1]
             m == Total(y, "mac")
             v == Total(y, "val")
  <2>1. y \in Triple /\ Fits(y) BY ChecksFit
  <2>2. Sum([i \in Server |-> linComb[i].mac]) = m % Modulus
        /\ Sum([i \in Server |-> linComb[i].val]) = v % Modulus
    BY DEF Sum, Total
  <2>. HIDE DEF y
  <2>3. m \in Int /\ v \in Int /\ Scaled(m, v) BY <1>0, <2>1, TripleParts DEF Fits, Scaled
  <2>. HIDE DEF m, v
  <2>. QED BY <2>2, <2>3, ScaledResidue
<1>. QED BY <1>7, <1>8, <1>9 DEF AggregateCorrect

-----------------------------------------------------------------------------
(* The values in the state.                                                *)

\* Before a handler has shares of filters.
Early == {"idle", "reshare", "reshared"}

\* Server i's shares of the combined filters, its accumulators and its answer, at each
\* place after r rounds.
FilterAt(place, r, i) ==
  IF place \in Early THEN NoShares
  ELSE [r0 |-> Combined[r - 1][Pred(i)], r1 |-> Combined[r - 1][i]]

ChecksAt(place, r, i) == IF place \in Early THEN Zeros ELSE RoundChain[r - 1][i]

AnswerAt(place, i) == IF place = "answered" THEN Answered(i) ELSE Zeros

\* The message k of server i: its sums, then its products.
Message(k, i) ==
  IF k = 1 THEN [f \in 0 .. Count - 1 |-> Sums[f][i]] ELSE RoundProduct(k - 1)[i]

\* What a server keeps of filter f in y.
RowAt(place, i, f, y) ==
  /\ place = "reshared" => y.r1 = Sums[f][i] /\ y.coeff = ReshareCoeffs[f + 1][i]
  /\ place \in {"multiply", "multiplied"} =>
       /\ y.r0 = Sums[f][Pred(i)] /\ y.r1 = Sums[f][i] /\ y.zero = ZeroRow[f][i]
       /\ malicious => y.coeff = RoundCoeffs[f][i]

\* The choices: the client's are made once it has sent a query.
Setup ==
  /\ malicious \in BOOLEAN /\ prfKey0 \in KeyRings
  /\ op_is_and \in BOOLEAN /\ value \in Elem /\ seed \in Elem
  /\ query = 0 => truth = <<>>
  /\ query # 0 => Chosen

\* What the servers have computed is their part of the query.
StateInv ==
  /\ prfCounter = [i \in Server |-> CounterAt(pc[i])]
  /\ filter = [i \in Server |-> FilterAt(pc[i], Round(i), i)]
  /\ linComb = [i \in Server |-> ChecksAt(pc[i], Round(i), i)]
  /\ answer = [i \in Server |-> AnswerAt(pc[i], i)]

\* So is what they have sent,
SentInv ==
  \A i \in Server : pc[i] # "idle" =>
     \A k \in 1 .. given[i][query] : sent[i][query][k] = Message(k, i)

\* and what they keep for the filters to come.
RowsInv == \A i \in Server : \A f \in 0 .. Count - 1 : RowAt(pc[i], i, f, res[i][f])

\* The invariant of the numbers.
Values == Setup /\ StateInv /\ SentInv /\ RowsInv

\* What makes no difference to them.
Same == UNCHANGED <<malicious, prfKey0, query, op_is_and, truth, value, seed>>

\* They change only with the place and the rounds.
LEMMA Frame3 ==
  ASSUME Same
  PROVE  /\ Count' = Count /\ NoShares' = NoShares /\ Zeros' = Zeros
         /\ \A place : CounterAt(place)' = CounterAt(place)
         /\ \A place, r, i : FilterAt(place, r, i)' = FilterAt(place, r, i)
         /\ \A place, r, i : ChecksAt(place, r, i)' = ChecksAt(place, r, i)
         /\ \A place, i : AnswerAt(place, i)' = AnswerAt(place, i)
         /\ \A k, i : Message(k, i)' = Message(k, i)
         /\ \A place, i, f, y : RowAt(place, i, f, y)' = RowAt(place, i, f, y)
<1>0. UNCHANGED <<malicious, prfKey0, query, op_is_and, truth, value, seed>> BY DEF Same
<1>1. /\ Halves' = Halves /\ Count' = Count /\ Zeros' = Zeros
      /\ MaxCounter' = MaxCounter /\ Mid' = Mid /\ Base' = Base
  BY <1>0, Frame
<1>2. /\ Sums' = Sums /\ ZeroRow' = ZeroRow /\ ReshareCoeffs' = ReshareCoeffs
      /\ RoundCoeffs' = RoundCoeffs /\ Combined' = Combined /\ RoundChain' = RoundChain
      /\ \A k : RoundProduct(k)' = RoundProduct(k)
  BY <1>0, Frame2
<1>3. NoShares' = NoShares BY <1>1 DEF NoShares
<1>4. \A place : CounterAt(place)' = CounterAt(place) BY <1>1 DEF CounterAt
<1>5. \A place, r, i : FilterAt(place, r, i)' = FilterAt(place, r, i)
  BY <1>2, <1>3 DEF FilterAt
<1>6. \A place, r, i : ChecksAt(place, r, i)' = ChecksAt(place, r, i)
  BY <1>1, <1>2 DEF ChecksAt
<1>7. \A i : Answered(i)' = Answered(i) BY <1>0, <1>1, <1>2 DEF Answered, ValShare, Split
<1>8. \A place, i : AnswerAt(place, i)' = AnswerAt(place, i) BY <1>1, <1>7 DEF AnswerAt
<1>9. \A k, i : Message(k, i)' = Message(k, i) BY <1>1, <1>2 DEF Message
<1>10. \A place, i, f, y : RowAt(place, i, f, y)' = RowAt(place, i, f, y)
  BY <1>0, <1>2 DEF RowAt
<1>. QED BY <1>1, <1>3, <1>4, <1>5, <1>6, <1>8, <1>9, <1>10

\* A step of server i to a place, with the values of that place.
LEMMA StateKept ==
  ASSUME Typed, StateInv, Same, NEW i \in Server, NEW to, pc' = [pc EXCEPT ![i] = to],
         \A j \in Server : j # i => Round(j)' = Round(j),
         prfCounter' = [prfCounter EXCEPT ![i] = CounterAt(to)],
         filter' = [filter EXCEPT ![i] = FilterAt(to, Round(i)', i)],
         linComb' = [linComb EXCEPT ![i] = ChecksAt(to, Round(i)', i)],
         answer' = [answer EXCEPT ![i] = AnswerAt(to, i)]
  PROVE  StateInv'
<1>1. /\ \A place : CounterAt(place)' = CounterAt(place)
      /\ \A place, r, j : FilterAt(place, r, j)' = FilterAt(place, r, j)
      /\ \A place, r, j : ChecksAt(place, r, j)' = ChecksAt(place, r, j)
      /\ \A place, j : AnswerAt(place, j)' = AnswerAt(place, j)
  BY Frame3
<1>2. pc'[i] = to /\ \A j \in Server : j # i => pc'[j] = pc[j]
  BY DEF Typed
<1>3. prfCounter' = [j \in Server |-> CounterAt(pc'[j])]
  <2>1. prfCounter = [j \in Server |-> CounterAt(pc[j])] BY DEF StateInv
  <2>. QED BY <1>2, <2>1
<1>4. filter' = [j \in Server |-> FilterAt(pc'[j], Round(j)', j)]
  <2>1. filter = [j \in Server |-> FilterAt(pc[j], Round(j), j)] BY DEF StateInv
  <2>2. \A j \in Server : filter'[j] = FilterAt(pc'[j], Round(j)', j) BY <1>2, <2>1
  <2>. QED BY <2>1, <2>2
<1>5. linComb' = [j \in Server |-> ChecksAt(pc'[j], Round(j)', j)]
  <2>1. linComb = [j \in Server |-> ChecksAt(pc[j], Round(j), j)] BY DEF StateInv
  <2>2. \A j \in Server : linComb'[j] = ChecksAt(pc'[j], Round(j)', j) BY <1>2, <2>1
  <2>. QED BY <2>1, <2>2
<1>6. answer' = [j \in Server |-> AnswerAt(pc'[j], j)]
  <2>1. answer = [j \in Server |-> AnswerAt(pc[j], j)] BY DEF StateInv
  <2>. QED BY <1>2, <2>1
<1>. QED BY <1>1, <1>3, <1>4, <1>5, <1>6 DEF StateInv

\* The message that a server gives next.
LEMMA SentKept ==
  ASSUME Basic, SentInv, Same, NEW i \in Server, NEW v, Send(i, v), pc[i] # "idle",
         \A j \in Server : pc'[j] # "idle",
         v = Message(given[i][query] + 1, i),
         sent'[i][query][given[i][query] + 1] = v,
         \A j \in Server : \A k \in 1 .. given[j][query] :
            sent'[j][query][k] = sent[j][query][k]
  PROVE  SentInv'
<1>1. \A k, j : Message(k, j)' = Message(k, j) BY Frame3
<1>2. query' = query BY DEF Same
<1>3. /\ \A j \in Server : pc[j] # "idle" /\ given[j][query] \in Nat
      /\ query \in Query /\ Typed
  BY Skew DEF Basic
<1>4. /\ given'[i][query] = given[i][query] + 1
      /\ \A j \in Server : j # i => given'[j][query] = given[j][query]
  BY <1>3 DEF Send, Exchange!Give, Typed
<1>. SUFFICES ASSUME NEW j \in Server, NEW k \in 1 .. given'[j][query]
              PROVE  sent'[j][query][k] = Message(k, j)
  BY <1>1, <1>2 DEF SentInv
<1>5. \A l \in 1 .. given[j][query] : sent[j][query][l] = Message(l, j) BY <1>3 DEF SentInv
<1>6. CASE k \in 1 .. given[j][query] BY <1>5, <1>6
<1>7. CASE k \notin 1 .. given[j][query]
  <2>1. given[j][query] \in Nat BY <1>3
  <2>2. j = i /\ k = given[i][query] + 1 BY <1>4, <1>7, <2>1
  <2>. QED BY <2>2
<1>. QED BY <1>6, <1>7

\* What is kept of the filters.
LEMMA RowsKept ==
  ASSUME Typed, RowsInv, Same, NEW i \in Server, NEW to, pc' = [pc EXCEPT ![i] = to],
         \A j \in Server : j # i => res'[j] = res[j],
         \A f \in 0 .. Count - 1 : RowAt(to, i, f, res'[i][f])
  PROVE  RowsInv'
<1>1. /\ \A place, j, f, y : RowAt(place, j, f, y)' = RowAt(place, j, f, y)
      /\ Count' = Count
  BY Frame3
<1>2. pc'[i] = to /\ \A j \in Server : j # i => pc'[j] = pc[j] BY DEF Typed
<1>3. \A j \in Server : \A f \in 0 .. Count - 1 : RowAt(pc'[j], j, f, res'[j][f])
  BY <1>2 DEF RowsInv
<1>. QED BY <1>1, <1>3 DEF RowsInv

\* The choices stay.
LEMMA SetupKept ==
  ASSUME Setup, Same
  PROVE  Setup'
<1>1. Chosen' = Chosen BY DEF Chosen, Same, Count
<1>. QED BY <1>1 DEF Setup, Same

\* A query that is on has been sent.
LEMMA OnWay ==
  ASSUME Basic, Values, NEW i \in Server, pc[i] # "idle"
  PROVE  /\ Chosen /\ query \in Query
         /\ prfCounter[i] = CounterAt(pc[i]) /\ filter[i] = FilterAt(pc[i], Round(i), i)
         /\ linComb[i] = ChecksAt(pc[i], Round(i), i) /\ answer[i] = AnswerAt(pc[i], i)
         /\ \A f \in 0 .. Count - 1 : RowAt(pc[i], i, f, res[i][f])
         /\ \A j \in Server : \A k \in 1 .. given[j][query] : sent[j][query][k] = Message(k, j)
         /\ prfCounter = [prfCounter EXCEPT ![i] = prfCounter[i]]
         /\ filter = [filter EXCEPT ![i] = filter[i]]
         /\ linComb = [linComb EXCEPT ![i] = linComb[i]]
         /\ answer = [answer EXCEPT ![i] = answer[i]]
<1>1. query \in Query /\ \A j \in Server : pc[j] # "idle" BY Skew
<1>2. query # 0 BY <1>1 DEF Query
<1>3. StateInv /\ SentInv /\ RowsInv BY DEF Values
<1>4. prfCounter[i] = CounterAt(pc[i]) /\ prfCounter = [prfCounter EXCEPT ![i] = prfCounter[i]]
  <2>1. prfCounter = [j \in Server |-> CounterAt(pc[j])] BY <1>3 DEF StateInv
  <2>. QED BY <2>1
<1>5. filter[i] = FilterAt(pc[i], Round(i), i) /\ filter = [filter EXCEPT ![i] = filter[i]]
  <2>1. filter = [j \in Server |-> FilterAt(pc[j], Round(j), j)] BY <1>3 DEF StateInv
  <2>. QED BY <2>1
<1>6. linComb[i] = ChecksAt(pc[i], Round(i), i) /\ linComb = [linComb EXCEPT ![i] = linComb[i]]
  <2>1. linComb = [j \in Server |-> ChecksAt(pc[j], Round(j), j)] BY <1>3 DEF StateInv
  <2>. QED BY <2>1
<1>7. answer[i] = AnswerAt(pc[i], i) /\ answer = [answer EXCEPT ![i] = answer[i]]
  <2>1. answer = [j \in Server |-> AnswerAt(pc[j], j)] BY <1>3 DEF StateInv
  <2>. QED BY <2>1
<1>8. Chosen BY <1>2 DEF Values, Setup
<1>9. \A j \in Server : \A k \in 1 .. given[j][query] : sent[j][query][k] = Message(k, j)
  BY <1>1, <1>3 DEF SentInv
<1>10. \A f \in 0 .. Count - 1 : RowAt(pc[i], i, f, res[i][f]) BY <1>3 DEF RowsInv
<1>. QED BY <1>1, <1>4, <1>5, <1>6, <1>7, <1>8, <1>9, <1>10

\* RSSReshare
LEMMA ReshareValues ==
  ASSUME Inv, Values, NEW i \in Server, RSSReshare(i)
  PROVE  Values'
<1> DEFINE n == NumFilters[query]
           sum == [f \in 0 .. n - 1 |->
                Plus(Plus(TableShare(i, f).r0, TableShare(i, f).r1),
                     [h \in Halves |-> ZeroShare(i, f * n + len)])]
<1>1. /\ pc[i] = "reshare" /\ Send(i, sum) /\ pc' = [pc EXCEPT ![i] = "reshared"]
      /\ UNCHANGED <<filter, linComb, answer, got>> /\ Same
      /\ prfCounter' = [prfCounter EXCEPT ![i] = @ + mac_factor * n * len]
      /\ res' = [res EXCEPT ![i] = [f \in 0 .. n - 1 |->
                     [r0 |-> TableShare(i, f).r0, r1 |-> sum[f],
                      coeff |-> RandCoeff(i, n * len + f * n + len), zero |-> 0]]]
  BY DEF RSSReshare, setupVars, clientVars, Same, AdjustPRFCounter
<1>2. Basic /\ Typed /\ StateInv /\ SentInv /\ RowsInv /\ Setup /\ pc[i] # "idle"
  BY <1>1 DEF Inv, Basic, Values
<1>3. /\ Chosen /\ query \in Query /\ prfCounter[i] = Base
      /\ filter[i] = NoShares /\ linComb[i] = Zeros /\ answer[i] = Zeros
      /\ filter = [filter EXCEPT ![i] = filter[i]]
      /\ linComb = [linComb EXCEPT ![i] = linComb[i]]
      /\ answer = [answer EXCEPT ![i] = answer[i]]
  BY <1>1, <1>2, OnWay DEF CounterAt, FilterAt, ChecksAt, AnswerAt, Early
<1>4. Count \in Nat \ {0} /\ n = Count BY <1>3, RowTypes DEF Count
<1>5. Base + Stride = Mid BY <1>3, CounterStops
<1>6. \A f \in 0 .. n - 1 : sum[f] = Sums[f][i]
  <2>. TAKE f \in 0 .. n - 1
  <2>1. ZeroShare(i, f * n + len) = Zero(i, Base + (f * n + len))
    BY <1>3 DEF ZeroShare, PrfInput, Zero
  <2>2. sum[f] = SumOf(i, f) BY <1>4, <2>1 DEF SumOf
  <2>. HIDE DEF sum
  <2>. QED BY <1>4, <2>2 DEF Sums
<1>7. sum = Message(1, i)
  <2>1. sum = [f \in 0 .. n - 1 |-> sum[f]] OBVIOUS
  <2>. HIDE DEF sum
  <2>. QED BY <1>4, <1>6, <2>1 DEF Message
<1>8. \A f \in 0 .. n - 1 : RandCoeff(i, n * len + f * n + len) = ReshareCoeffs[f + 1][i]
  <2>. TAKE f \in 0 .. n - 1
  <2>1. f + 1 \in 1 .. Count /\ (f + 1) - 1 = f BY <1>4
  <2>2. RandCoeff(i, n * len + f * n + len) = Coeff(i, Base + (n * len + f * n + len))
    BY <1>3 DEF RandCoeff, PrfInput, Coeff
  <2>3. ReshareCoeffs[f + 1][i]
          = Coeff(i, Base + (Count * len + ((f + 1) - 1) * Count + len))
    BY <2>1 DEF ReshareCoeffs
  <2>. QED BY <1>4, <2>1, <2>2, <2>3
<1>. HIDE DEF sum
<1>9. /\ DOMAIN res' = Server /\ \A j \in Server : j # i => res'[j] = res[j]
      /\ \A f \in 0 .. n - 1 :
           res'[i][f].r1 = sum[f] /\ res'[i][f].coeff = RandCoeff(i, n * len + f * n + len)
  BY <1>1, <1>2 DEF Typed
<1>10. AtPlace(pc[i], Round(i), given[i][query], n) /\ given[i][query] \in Nat
  BY <1>2, Skew DEF Basic, RoundInv
<1>11. Round(i) = 0 /\ given[i][query] = 0 BY <1>1, <1>10 DEF AtPlace
<1>12. AtPlace("reshared", Round(i), given[i][query] + 1, n) BY <1>11 DEF AtPlace
<1>13. /\ Basic' /\ sent'[i][query][given[i][query] + 1] = sum
       /\ \A j \in Server : \A k \in 1 .. given[j][query] : sent'[j][query][k] = sent[j][query][k]
  <2>1. "reshared" \in PcPlaces \ {"idle", "reshare"} BY DEF PcPlaces
  <2>2. Unchanging BY <1>1 DEF Unchanging, Same
  <2>3. UNCHANGED <<got, filter>> BY <1>1
  <2>. QED BY <1>1, <1>2, <1>9, <1>12, <2>1, <2>2, <2>3, GiveKeeps
<1>14. SentInv'
  <2>1. \A j \in Server : pc'[j] # "idle" BY <1>1, <1>2, Skew DEF Typed
  <2>2. given[i][query] + 1 = 1 BY <1>11
  <2>. QED BY <1>1, <1>2, <1>7, <1>13, <2>1, <2>2, SentKept
<1>15. RowsInv'
  <2>1. \A f \in 0 .. Count - 1 : RowAt("reshared", i, f, res'[i][f])
    BY <1>4, <1>6, <1>8, <1>9 DEF RowAt
  <2>. QED BY <1>1, <1>2, <1>9, <2>1, RowsKept
<1>16. StateInv'
  <2>1. \A j \in Server : Round(j)' = Round(j) BY <1>1 DEF Round, Same
  <2>2. prfCounter' = [prfCounter EXCEPT ![i] = CounterAt("reshared")]
    BY <1>1, <1>3, <1>4, <1>5 DEF Stride, CounterAt
  <2>3. filter' = [filter EXCEPT ![i] = FilterAt("reshared", Round(i)', i)]
    BY <1>1, <1>3 DEF FilterAt, Early
  <2>4. linComb' = [linComb EXCEPT ![i] = ChecksAt("reshared", Round(i)', i)]
    BY <1>1, <1>3 DEF ChecksAt, Early
  <2>5. answer' = [answer EXCEPT ![i] = AnswerAt("reshared", i)]
    BY <1>1, <1>3 DEF AnswerAt
  <2>. QED BY <1>1, <1>2, <2>1, <2>2, <2>3, <2>4, <2>5, StateKept
<1>17. Setup' BY <1>1, <1>2, SetupKept
<1>. QED BY <1>14, <1>15, <1>16, <1>17 DEF Values

\* Multiply sends the product of the round.
LEMMA MultiplyValues ==
  ASSUME Inv, Values, NEW i \in Server, Multiply(i)
  PROVE  Values'
<1> DEFINE n == NumFilters[query]
           r == Round(i)
<1>1. /\ pc[i] = "multiply" /\ Send(i, Product(i)) /\ pc' = [pc EXCEPT ![i] = "multiplied"]
      /\ UNCHANGED <<prfCounter, filter, linComb, answer, got, res>> /\ Same
  BY DEF Multiply, setupVars, clientVars, Same
<1>2. Basic /\ Typed /\ StateInv /\ SentInv /\ RowsInv /\ Setup /\ pc[i] # "idle"
  BY <1>1 DEF Inv, Basic, Values
<1>3. /\ Chosen /\ query \in Query /\ prfCounter[i] = MaxCounter
      /\ filter[i] = [r0 |-> Combined[r - 1][Pred(i)], r1 |-> Combined[r - 1][i]]
      /\ linComb[i] = RoundChain[r - 1][i] /\ answer[i] = Zeros
      /\ prfCounter = [prfCounter EXCEPT ![i] = prfCounter[i]]
      /\ filter = [filter EXCEPT ![i] = filter[i]]
      /\ linComb = [linComb EXCEPT ![i] = linComb[i]]
      /\ answer = [answer EXCEPT ![i] = answer[i]]
      /\ \A f \in 0 .. Count - 1 : RowAt("multiply", i, f, res[i][f])
  BY <1>1, <1>2, OnWay DEF CounterAt, FilterAt, ChecksAt, AnswerAt, Early
<1>4. AtPlace(pc[i], r, given[i][query], n) /\ given[i][query] \in Nat /\ r \in Nat
      /\ n \in Nat \ {0} /\ n = Count
  BY <1>2, Skew DEF Basic, RoundInv, Count
<1>5. r >= 1 /\ r < n /\ given[i][query] = r /\ r \in 0 .. Count - 1
  BY <1>1, <1>4 DEF AtPlace
<1>6. AtPlace("multiplied", r, given[i][query] + 1, n) BY <1>4, <1>5 DEF AtPlace
<1>7. Product(i) = Message(given[i][query] + 1, i)
  <2>1. /\ res[i][r].r0 = Sums[r][Pred(i)] /\ res[i][r].r1 = Sums[r][i]
        /\ res[i][r].zero = ZeroRow[r][i]
    BY <1>3, <1>5 DEF RowAt
  <2>2. Product(i) = RoundProduct(r)[i]
    BY <1>3, <2>1 DEF Product, RoundProduct, ProductOf, HalfOf
  <2>3. given[i][query] + 1 # 1 /\ (given[i][query] + 1) - 1 = r BY <1>4, <1>5
  <2>. QED BY <2>2, <2>3 DEF Message
<1>8. /\ Basic' /\ sent'[i][query][given[i][query] + 1] = Product(i)
      /\ \A j \in Server : \A k \in 1 .. given[j][query] : sent'[j][query][k] = sent[j][query][k]
  <2>1. "multiplied" \in PcPlaces \ {"idle", "reshare"} BY DEF PcPlaces
  <2>2. Unchanging BY <1>1 DEF Unchanging, Same
  <2>3. UNCHANGED <<got, filter>> /\ DOMAIN res' = Server BY <1>1, <1>2 DEF Typed
  <2>. QED BY <1>1, <1>2, <1>6, <2>1, <2>2, <2>3, GiveKeeps
<1>9. SentInv'
  <2>1. \A j \in Server : pc'[j] # "idle" BY <1>1, <1>2, Skew DEF Typed
  <2>. QED BY <1>1, <1>2, <1>7, <1>8, <2>1, SentKept
<1>10. RowsInv'
  <2>1. \A f \in 0 .. Count - 1 : RowAt("multiplied", i, f, res'[i][f])
    BY <1>1, <1>3 DEF RowAt
  <2>2. \A j \in Server : j # i => res'[j] = res[j] BY <1>1
  <2>. QED BY <1>1, <1>2, <2>1, <2>2, RowsKept
<1>11. StateInv'
  <2>1. \A j \in Server : Round(j)' = Round(j) BY <1>1 DEF Round, Same
  <2>2. prfCounter' = [prfCounter EXCEPT ![i] = CounterAt("multiplied")]
    BY <1>1, <1>3 DEF CounterAt
  <2>3. filter' = [filter EXCEPT ![i] = FilterAt("multiplied", Round(i)', i)]
    BY <1>1, <1>3, <2>1 DEF FilterAt, Early
  <2>4. linComb' = [linComb EXCEPT ![i] = ChecksAt("multiplied", Round(i)', i)]
    BY <1>1, <1>3, <2>1 DEF ChecksAt, Early
  <2>5. answer' = [answer EXCEPT ![i] = AnswerAt("multiplied", i)]
    BY <1>1, <1>3 DEF AnswerAt
  <2>. QED BY <1>1, <1>2, <2>1, <2>2, <2>3, <2>4, <2>5, StateKept
<1>12. Setup' BY <1>1, <1>2, SetupKept
<1>. QED BY <1>9, <1>10, <1>11, <1>12 DEF Values

\* A share that a server gets.
LEMMA GetRounds ==
  ASSUME Basic, Same, NEW i \in Server, Exchange!Get(i, query), pc[i] # "idle"
  PROVE  /\ Round(i)' = Round(i) + 1 /\ \A j \in Server : j # i => Round(j)' = Round(j)
         /\ given' = given /\ Round(i) \in Nat
         /\ Round(i) + 1 \in 1 .. given[i][query]
         /\ Round(i) + 1 \in 1 .. given[Pred(i)][query]
<1>1. /\ query \in Query /\ query' = query /\ Round(i) \in Nat /\ Pred(i) \in Server
      /\ IsSequence(got[i][query]) /\ Typed
      /\ given[i][query] \in Nat /\ given[Pred(i)][query] \in Nat
  BY Skew, Ring DEF Same, Basic
<1>2. PICK e : got' = [got EXCEPT ![i][query] = Append(got[i][query], e)]
  BY DEF Exchange!Get
<1>3. /\ Round(i) < given[i][query] /\ Round(i) < given[Pred(i)][query] /\ given' = given
  BY Ring DEF Exchange!Get, Round
<1>4. got'[i][query] = Append(got[i][query], e) /\ \A j \in Server : j # i => got'[j] = got[j]
  BY <1>1, <1>2 DEF Typed
<1>5. Len(got'[i][query]) = Len(got[i][query]) + 1 BY <1>1, <1>4, AppendAny
<1>6. Round(i)' = Round(i) + 1 /\ \A j \in Server : j # i => Round(j)' = Round(j)
  BY <1>1, <1>4, <1>5 DEF Round
<1>. QED BY <1>1, <1>3, <1>6

\* Nothing is sent.
LEMMA SentStays ==
  ASSUME SentInv, Same, UNCHANGED <<sent, given>>,
         \A j \in Server : pc'[j] # "idle" => pc[j] # "idle"
  PROVE  SentInv'
<1>1. \A k, j : Message(k, j)' = Message(k, j) BY Frame3
<1>. QED BY <1>1 DEF SentInv, Same

\* The shares of RSSReshare arrive, and EvalFilter prepares the multiplications.
LEMMA ReshareReceivedValues ==
  ASSUME Inv, Values, NEW i \in Server, ReshareReceived(i)
  PROVE  Values'
<1> DEFINE n == NumFilters[query]
           m == sent[Pred(i)][query][Round(i) + 1]
           x == [f \in 0 .. n - 1 |-> [r0 |-> m[f], r1 |-> res[i][f].r1]]
           acc == CHOOSE acc : acc = [k \in 0 .. n |->
             IF k = 0 THEN Zeros ELSE MACCheck(acc[k - 1], x[k - 1], res[i][k - 1].coeff)]
           to == IF n > 1 THEN "multiply" ELSE "aggregate"
           coeff(f) == IF malicious THEN RandCoeff(i, CoeffIdx(f, n)) ELSE res[i][f].coeff
           zero(f) == ZeroShare(i, f * len + Row)
<1>1. /\ pc[i] = "reshared" /\ Exchange!Get(i, query) /\ pc' = [pc EXCEPT ![i] = to]
      /\ UNCHANGED <<answer, sent>> /\ Same
      /\ prfCounter' = [prfCounter EXCEPT ![i] = @ + mac_factor * n * len]
      /\ linComb' = [linComb EXCEPT ![i] = acc[n]]
      /\ res' = [res EXCEPT ![i] = [f \in 0 .. n - 1 |->
                     [r0 |-> x[f].r0, r1 |-> x[f].r1, coeff |-> coeff(f), zero |-> zero(f)]]]
      /\ filter' = [filter EXCEPT ![i] = [r0 |-> x[0].r0, r1 |-> x[0].r1]]
  BY DEF ReshareReceived, Receive, setupVars, clientVars, Same, AdjustPRFCounter
<1>2. Basic /\ Typed /\ StateInv /\ SentInv /\ RowsInv /\ Setup /\ pc[i] # "idle"
  BY <1>1 DEF Inv, Basic, Values
<1>3. /\ Chosen /\ query \in Query /\ prfCounter[i] = Mid
      /\ filter[i] = NoShares /\ linComb[i] = Zeros /\ answer[i] = Zeros
      /\ answer = [answer EXCEPT ![i] = answer[i]]
      /\ \A f \in 0 .. Count - 1 : RowAt("reshared", i, f, res[i][f])
      /\ \A j \in Server : \A k \in 1 .. given[j][query] : sent[j][query][k] = Message(k, j)
  <2>1. /\ Chosen /\ query \in Query /\ prfCounter[i] = CounterAt("reshared")
        /\ filter[i] = FilterAt("reshared", Round(i), i)
        /\ linComb[i] = ChecksAt("reshared", Round(i), i) /\ answer[i] = AnswerAt("reshared", i)
        /\ answer = [answer EXCEPT ![i] = answer[i]]
        /\ \A f \in 0 .. Count - 1 : RowAt("reshared", i, f, res[i][f])
        /\ \A j \in Server : \A k \in 1 .. given[j][query] : sent[j][query][k] = Message(k, j)
    BY <1>1, <1>2, OnWay
  <2>. QED BY <2>1 DEF CounterAt, FilterAt, ChecksAt, AnswerAt, Early
<1>4. Count \in Nat \ {0} /\ n = Count /\ 0 \in 0 .. Count - 1 /\ Count \in 0 .. Count
  BY <1>3, RowTypes DEF Count
<1>5. Mid + Stride = MaxCounter BY <1>3, CounterStops
<1>6. /\ Round(i)' = Round(i) + 1 /\ \A j \in Server : j # i => Round(j)' = Round(j)
      /\ given' = given /\ Round(i) \in Nat
      /\ Round(i) + 1 \in 1 .. given[Pred(i)][query]
  BY <1>1, <1>2, GetRounds
<1>7. Round(i) = 0
  <2>1. AtPlace(pc[i], Round(i), given[i][query], n) BY <1>2 DEF Basic, RoundInv
  <2>. QED BY <1>1, <2>1 DEF AtPlace
<1>8. m = [f \in 0 .. Count - 1 |-> Sums[f][Pred(i)]]
  <2>1. Pred(i) \in Server BY Ring
  <2>2. m = Message(1, Pred(i)) BY <1>3, <1>6, <1>7, <2>1
  <2>. HIDE DEF m
  <2>. QED BY <2>2 DEF Message
<1>9. \A f \in 0 .. Count - 1 :
        /\ x[f] = [r0 |-> Sums[f][Pred(i)], r1 |-> Sums[f][i]]
        /\ x[f].r0 = Sums[f][Pred(i)] /\ x[f].r1 = Sums[f][i]
  <2>. TAKE f \in 0 .. Count - 1
  <2>1. res[i][f].r1 = Sums[f][i] BY <1>3 DEF RowAt
  <2>2. m[f] = Sums[f][Pred(i)]
    <3>. HIDE DEF m
    <3>. QED BY <1>8
  <2>3. x[f] = [r0 |-> m[f], r1 |-> res[i][f].r1] BY <1>4
  <2>. HIDE DEF m, x
  <2>. QED BY <2>1, <2>2, <2>3
<1>10. \A f \in 0 .. Count - 1 : res[i][f].coeff = ReshareCoeffs[f + 1][i] BY <1>3 DEF RowAt
<1>11. acc[n] = ReshareChain[Count][i]
  <2> DEFINE G == [k \in 0 .. n |-> ReshareChain[k][i]]
  <2>1. /\ ReshareChain[0] = NoChecks
        /\ \A k \in 1 .. Count :
             ReshareChain[k] = Checked(ReshareChain[k - 1], Sums[k - 1], ReshareCoeffs[k])
    BY <1>3, ChecksLevels
  <2>. HIDE DEF x
  <2>2. G[0] = Zeros BY <1>4, <2>1 DEF NoChecks
  <2>3. \A k \in 1 .. n : G[k] = MACCheck(G[k - 1], x[k - 1], res[i][k - 1].coeff)
    <3>. TAKE k \in 1 .. n
    <3>1. k - 1 \in 0 .. Count - 1 /\ (k - 1) + 1 = k /\ k \in 1 .. Count /\ k - 1 \in 0 .. n
          /\ k \in 0 .. n
      BY <1>4
    <3>2. G[k] = ReshareChain[k][i] /\ G[k - 1] = ReshareChain[k - 1][i] BY <3>1
    <3>3. x[k - 1] = [r0 |-> Sums[k - 1][Pred(i)], r1 |-> Sums[k - 1][i]] BY <1>9, <3>1
    <3>4. res[i][k - 1].coeff = ReshareCoeffs[k][i] BY <1>10, <3>1
    <3>5. ReshareChain[k][i]
            = MACCheck(ReshareChain[k - 1][i],
                       [r0 |-> Sums[k - 1][Pred(i)], r1 |-> Sums[k - 1][i]], ReshareCoeffs[k][i])
      BY <2>1, <3>1 DEF Checked
    <3>. QED BY <3>2, <3>3, <3>4, <3>5
  <2>4. G = [k \in 0 .. n |->
             IF k = 0 THEN Zeros ELSE MACCheck(G[k - 1], x[k - 1], res[i][k - 1].coeff)]
    <3>1. G = [k \in 0 .. n |-> G[k]] OBVIOUS
    <3>. HIDE DEF G
    <3>2. \A k \in 0 .. n : k = 0 \/ k \in 1 .. n BY <1>4
    <3>. QED BY <2>2, <2>3, <3>1, <3>2
  <2>. HIDE DEF G
  <2>5. acc = [k \in 0 .. n |->
             IF k = 0 THEN Zeros ELSE MACCheck(acc[k - 1], x[k - 1], res[i][k - 1].coeff)]
    BY <2>4
  <2>. HIDE DEF acc
  <2>6. \A k \in 0 .. n : acc[k] = G[k]
    <3> DEFINE S == {k \in 0 .. n : acc[k] = G[k]}
    <3>1. 0 \in S BY <1>4, <2>2, <2>5
    <3>2. \A k \in 1 .. n : k - 1 \in S => k \in S BY <1>4, <2>3, <2>5
    <3>3. \A k \in 0 .. n : k \in S
      <4>. HIDE DEF S
      <4>. QED BY <1>4, <3>1, <3>2, IntervalInduction
    <3>. QED BY <3>3
  <2>7. G[n] = ReshareChain[Count][i] BY <1>4 DEF G
  <2>. QED BY <1>4, <2>6, <2>7
<1>. HIDE DEF acc
<1>12. \A f \in 0 .. Count - 1 : zero(f) = ZeroRow[f][i]
  BY <1>3 DEF ZeroShare, PrfInput, Zero, ZeroRow
<1>13. \A f \in 0 .. Count - 1 : malicious => coeff(f) = RoundCoeffs[f][i]
  <2>. SUFFICES ASSUME NEW f \in 0 .. Count - 1, malicious PROVE coeff(f) = RoundCoeffs[f][i]
    OBVIOUS
  <2>1. coeff(f) = Coeff(i, Mid + CoeffIdx(f, Count))
    BY <1>3, <1>4 DEF RandCoeff, PrfInput, Coeff
  <2>2. RoundCoeffs[f][i] = Coeff(i, Mid + CoeffIdx(f, Count)) BY DEF RoundCoeffs
  <2>. QED BY <2>1, <2>2
<1>14. /\ \A j \in Server : j # i => res'[j] = res[j]
       /\ \A f \in 0 .. Count - 1 :
            /\ res'[i][f].r0 = Sums[f][Pred(i)] /\ res'[i][f].r1 = Sums[f][i]
            /\ res'[i][f].coeff = coeff(f) /\ res'[i][f].zero = zero(f)
  <2>1. DOMAIN res = Server BY <1>2 DEF Typed
  <2>2. /\ \A j \in Server : j # i => res'[j] = res[j]
        /\ \A f \in 0 .. n - 1 :
            /\ res'[i][f].r0 = x[f].r0 /\ res'[i][f].r1 = x[f].r1
            /\ res'[i][f].coeff = coeff(f) /\ res'[i][f].zero = zero(f)
    <3>. HIDE DEF x, coeff, zero
    <3>. QED BY <1>1, <2>1
  <2>. HIDE DEF x, coeff, zero
  <2>. QED BY <1>4, <1>9, <2>2
<1>15. to \in {"multiply", "aggregate"} OBVIOUS
<1>16. x[0].r0 = Sums[0][Pred(i)] /\ x[0].r1 = Sums[0][i]
  <2>. HIDE DEF x
  <2>. QED BY <1>4, <1>9
<1>. HIDE DEF x, coeff, zero, to
<1>17. SentInv'
  <2>1. \A j \in Server : pc'[j] # "idle" => pc[j] # "idle" BY <1>1, <1>2 DEF Typed
  <2>. QED BY <1>1, <1>2, <1>6, <2>1, SentStays
<1>18. RowsInv'
  <2>1. \A f \in 0 .. Count - 1 : RowAt(to, i, f, res'[i][f])
    BY <1>12, <1>13, <1>14, <1>15 DEF RowAt
  <2>. QED BY <1>1, <1>2, <1>14, <2>1, RowsKept
<1>19. StateInv'
  <2>1. to \notin Early /\ to # "answered" /\ Round(i)' - 1 = 0 BY <1>6, <1>7, <1>15 DEF Early
  <2>2. prfCounter' = [prfCounter EXCEPT ![i] = CounterAt(to)]
    BY <1>1, <1>3, <1>4, <1>5, <2>1 DEF Stride, CounterAt, Early
  <2>3. filter' = [filter EXCEPT ![i] = FilterAt(to, Round(i)', i)]
    <3>1. Combined[0] = Sums[0] BY <1>3, CombinedLevels
    <3>2. FilterAt(to, Round(i)', i) = [r0 |-> Sums[0][Pred(i)], r1 |-> Sums[0][i]]
      BY <2>1, <3>1 DEF FilterAt
    <3>. QED BY <1>1, <1>16, <3>2
  <2>4. linComb' = [linComb EXCEPT ![i] = ChecksAt(to, Round(i)', i)]
    <3>1. RoundChain[0] = ReshareChain[Count] BY <1>3, ChecksLevels
    <3>2. ChecksAt(to, Round(i)', i) = acc[n] BY <1>11, <2>1, <3>1 DEF ChecksAt
    <3>. QED BY <1>1, <3>2
  <2>5. answer' = [answer EXCEPT ![i] = AnswerAt(to, i)]
    BY <1>1, <1>3, <2>1 DEF AnswerAt
  <2>. QED BY <1>1, <1>2, <1>6, <2>2, <2>3, <2>4, <2>5, StateKept
<1>20. Setup' BY <1>1, <1>2, SetupKept
<1>. QED BY <1>17, <1>18, <1>19, <1>20 DEF Values

\* The product of the round is complete, and combined with the next filter.
LEMMA MultiplyReceivedValues ==
  ASSUME Inv, Values, NEW i \in Server, MultiplyReceived(i)
  PROVE  Values'
<1> DEFINE n == NumFilters[query]
           r == Round(i)
           p == Pred(i)
           x == filter[i]
           y == res[i][r]
           z == [r0 |-> sent[p][query][r + 1], r1 |-> sent[i][query][r + 1]]
           f == IF op_is_and THEN z ELSE OrFilters(z, x, y)
           to == IF r + 1 < n THEN "multiply" ELSE "aggregate"
<1>1. /\ pc[i] = "multiplied" /\ Exchange!Get(i, query) /\ pc' = [pc EXCEPT ![i] = to]
      /\ UNCHANGED <<prfCounter, res, answer, sent>> /\ Same
      /\ linComb' = [linComb EXCEPT ![i] = MACCheck(@, z, y.coeff)]
      /\ filter' = [filter EXCEPT ![i] = f]
  BY DEF MultiplyReceived, Receive, setupVars, clientVars, Same
<1>2. Basic /\ Typed /\ StateInv /\ SentInv /\ RowsInv /\ Setup /\ pc[i] # "idle"
  BY <1>1 DEF Inv, Basic, Values
<1>3. /\ Chosen /\ prfCounter[i] = MaxCounter
      /\ x = [r0 |-> Combined[r - 1][p], r1 |-> Combined[r - 1][i]]
      /\ linComb[i] = RoundChain[r - 1][i] /\ answer[i] = Zeros
      /\ prfCounter = [prfCounter EXCEPT ![i] = prfCounter[i]]
      /\ answer = [answer EXCEPT ![i] = answer[i]]
      /\ \A g \in 0 .. Count - 1 : RowAt("multiplied", i, g, res[i][g])
      /\ \A j \in Server : \A k \in 1 .. given[j][query] : sent[j][query][k] = Message(k, j)
  <2>1. /\ Chosen /\ prfCounter[i] = CounterAt("multiplied")
        /\ filter[i] = FilterAt("multiplied", Round(i), i)
        /\ linComb[i] = ChecksAt("multiplied", Round(i), i)
        /\ answer[i] = AnswerAt("multiplied", i)
        /\ prfCounter = [prfCounter EXCEPT ![i] = prfCounter[i]]
        /\ answer = [answer EXCEPT ![i] = answer[i]]
        /\ \A g \in 0 .. Count - 1 : RowAt("multiplied", i, g, res[i][g])
        /\ \A j \in Server : \A k \in 1 .. given[j][query] : sent[j][query][k] = Message(k, j)
    BY <1>1, <1>2, OnWay
  <2>. QED BY <2>1 DEF CounterAt, FilterAt, ChecksAt, AnswerAt, Early
<1>4. /\ Round(i)' = r + 1 /\ \A j \in Server : j # i => Round(j)' = Round(j)
      /\ given' = given /\ r \in Nat
      /\ r + 1 \in 1 .. given[i][query] /\ r + 1 \in 1 .. given[p][query]
  BY <1>1, <1>2, GetRounds
<1>5. r >= 1 /\ r < n /\ n = Count /\ Count \in Nat /\ r \in 1 .. Count - 1 /\ r \in 0 .. Count - 1
  <2>1. AtPlace(pc[i], r, given[i][query], n) BY <1>2 DEF Basic, RoundInv
  <2>2. r >= 1 /\ r < n BY <1>1, <2>1 DEF AtPlace
  <2>3. n = Count /\ Count \in Nat BY <1>3, RowTypes DEF Count
  <2>. QED BY <1>4, <2>2, <2>3
<1>6. p \in Server BY Ring
<1>7. z.r0 = RoundProduct(r)[p] /\ z.r1 = RoundProduct(r)[i]
  <2>1. \A j \in Server : Message(r + 1, j) = RoundProduct(r)[j] BY <1>4, <1>5 DEF Message
  <2>2. sent[p][query][r + 1] = Message(r + 1, p) /\ sent[i][query][r + 1] = Message(r + 1, i)
    BY <1>3, <1>4, <1>6
  <2>. QED BY <1>6, <2>1, <2>2
<1>8. /\ y.r0 = Sums[r][p] /\ y.r1 = Sums[r][i]
      /\ malicious => y.coeff = RoundCoeffs[r][i]
  BY <1>3, <1>5 DEF RowAt
<1>9. to \in {"multiply", "aggregate"} OBVIOUS
<1>10. x.r0 = Combined[r - 1][p] /\ x.r1 = Combined[r - 1][i] BY <1>3
<1>11. z = [r0 |-> z.r0, r1 |-> z.r1] OBVIOUS
<1>. HIDE DEF p, x, y, z, to, r
<1>12. f = [r0 |-> Combined[r][p], r1 |-> Combined[r][i]]
  <2>1. Combined[r] = CombinedWith(Combined[r - 1], Sums[r], ZeroRow[r])
    BY <1>3, <1>5, CombinedLevels
  <2>2. CASE op_is_and
    <3>1. Combined[r] = RoundProduct(r) BY <2>1, <2>2 DEF CombinedWith, RoundProduct
    <3>. QED BY <1>7, <1>11, <2>2, <3>1
  <2>3. CASE ~op_is_and
    <3>1. Combined[r] = PlusTriple(RoundProduct(r), PlusTriple(Combined[r - 1], Sums[r]))
      BY <2>1, <2>3 DEF CombinedWith, RoundProduct
    <3>2. \A j \in Server :
            Combined[r][j] = Plus(RoundProduct(r)[j], Plus(Combined[r - 1][j], Sums[r][j]))
      BY <3>1 DEF PlusTriple
    <3>3. f = [r0 |-> Plus(z.r0, Plus(x.r0, y.r0)), r1 |-> Plus(z.r1, Plus(x.r1, y.r1))]
      BY <2>3 DEF OrFilters
    <3>. HIDE DEF f
    <3>. QED BY <1>6, <1>7, <1>8, <1>10, <3>2, <3>3
  <2>. QED BY <2>2, <2>3
<1>13. MACCheck(linComb[i], z, y.coeff) = RoundChain[r][i]
  <2>1. RoundChain[r] = Checked(RoundChain[r - 1], RoundProduct(r), RoundCoeffs[r])
    BY <1>3, <1>5, ChecksLevels
  <2>2. RoundChain[r][i]
          = MACCheck(RoundChain[r - 1][i],
                     [r0 |-> RoundProduct(r)[p], r1 |-> RoundProduct(r)[i]], RoundCoeffs[r][i])
    BY <2>1 DEF Checked, p
  <2>3. z = [r0 |-> RoundProduct(r)[p], r1 |-> RoundProduct(r)[i]] BY <1>7, <1>11
  <2>4. CASE malicious BY <1>3, <1>8, <2>2, <2>3, <2>4
  <2>5. CASE ~malicious BY <1>3, <2>2, <2>5 DEF MACCheck
  <2>. QED BY <2>4, <2>5
<1>. HIDE DEF f
<1>14. SentInv'
  <2>1. \A j \in Server : pc'[j] # "idle" => pc[j] # "idle" BY <1>1, <1>2 DEF Typed
  <2>. QED BY <1>1, <1>2, <1>4, <2>1, SentStays
<1>15. RowsInv'
  <2>1. \A g \in 0 .. Count - 1 : RowAt(to, i, g, res'[i][g])
    BY <1>1, <1>3, <1>9 DEF RowAt
  <2>2. \A j \in Server : j # i => res'[j] = res[j] BY <1>1
  <2>. QED BY <1>1, <1>2, <2>1, <2>2, RowsKept
<1>16. StateInv'
  <2>1. to \notin Early /\ to # "answered" /\ Round(i)' - 1 = r BY <1>4, <1>9 DEF Early
  <2>2. prfCounter' = [prfCounter EXCEPT ![i] = CounterAt(to)]
    BY <1>1, <1>3, <2>1 DEF CounterAt, Early
  <2>3. filter' = [filter EXCEPT ![i] = FilterAt(to, Round(i)', i)]
    <3>1. FilterAt(to, Round(i)', i) = f BY <1>12, <2>1 DEF FilterAt, p
    <3>. QED BY <1>1, <3>1
  <2>4. linComb' = [linComb EXCEPT ![i] = ChecksAt(to, Round(i)', i)]
    <3>1. ChecksAt(to, Round(i)', i) = RoundChain[r][i] BY <2>1 DEF ChecksAt
    <3>. QED BY <1>1, <1>13, <3>1
  <2>5. answer' = [answer EXCEPT ![i] = AnswerAt(to, i)] BY <1>1, <1>3, <2>1 DEF AnswerAt
  <2>. QED BY <1>1, <1>2, <1>4, <2>2, <2>3, <2>4, <2>5, StateKept
<1>17. Setup' BY <1>1, <1>2, SetupKept
<1>. QED BY <1>14, <1>15, <1>16, <1>17 DEF Values

\* The answer is computed of the last combination.
LEMMA AnswerValues ==
  ASSUME Inv, Values, NEW i \in Server, AggFilterQuery(i)
  PROVE  Values'
<1> DEFINE r == Round(i)
           v == ValShare(i)
           a == [h \in Halves |-> Cross(v.r0, v.r1, HalfOf(filter[i], h))]
<1>1. /\ pc[i] = "aggregate" /\ pc' = [pc EXCEPT ![i] = "answered"]
      /\ UNCHANGED <<prfCounter, res, filter, linComb, sent, given, got>> /\ Same
      /\ answer' = [answer EXCEPT ![i] = a]
  BY DEF AggFilterQuery, setupVars, clientVars, exchangeVars, Same
<1>2. Basic /\ Typed /\ StateInv /\ SentInv /\ RowsInv /\ Setup /\ pc[i] # "idle"
  BY <1>1 DEF Inv, Basic, Values
<1>3. /\ Chosen /\ prfCounter[i] = MaxCounter
      /\ filter[i] = [r0 |-> Combined[r - 1][Pred(i)], r1 |-> Combined[r - 1][i]]
      /\ linComb[i] = RoundChain[r - 1][i]
      /\ prfCounter = [prfCounter EXCEPT ![i] = prfCounter[i]]
      /\ filter = [filter EXCEPT ![i] = filter[i]]
      /\ linComb = [linComb EXCEPT ![i] = linComb[i]]
  <2>1. /\ Chosen /\ prfCounter[i] = CounterAt("aggregate")
        /\ filter[i] = FilterAt("aggregate", Round(i), i)
        /\ linComb[i] = ChecksAt("aggregate", Round(i), i)
        /\ prfCounter = [prfCounter EXCEPT ![i] = prfCounter[i]]
        /\ filter = [filter EXCEPT ![i] = filter[i]]
        /\ linComb = [linComb EXCEPT ![i] = linComb[i]]
    BY <1>1, <1>2, OnWay
  <2>. QED BY <2>1 DEF CounterAt, FilterAt, ChecksAt, Early
<1>4. r = Count
  <2>1. AtPlace(pc[i], r, given[i][query], NumFilters[query]) BY <1>2 DEF Basic, RoundInv
  <2>. QED BY <1>1, <2>1 DEF AtPlace, Count
<1>5. a = Answered(i) BY <1>3, <1>4 DEF Answered, HalfOf
<1>. HIDE DEF a
<1>6. SentInv'
  <2>1. \A j \in Server : pc'[j] # "idle" => pc[j] # "idle" BY <1>1, <1>2 DEF Typed
  <2>. QED BY <1>1, <1>2, <2>1, SentStays
<1>7. RowsInv'
  <2>1. \A g \in 0 .. Count - 1 : RowAt("answered", i, g, res'[i][g]) BY DEF RowAt
  <2>2. \A j \in Server : j # i => res'[j] = res[j] BY <1>1
  <2>. QED BY <1>1, <1>2, <2>1, <2>2, RowsKept
<1>8. StateInv'
  <2>1. \A j \in Server : Round(j)' = Round(j) BY <1>1 DEF Round, Same
  <2>2. prfCounter' = [prfCounter EXCEPT ![i] = CounterAt("answered")]
    BY <1>1, <1>3 DEF CounterAt
  <2>3. filter' = [filter EXCEPT ![i] = FilterAt("answered", Round(i)', i)]
    BY <1>1, <1>3, <2>1 DEF FilterAt, Early
  <2>4. linComb' = [linComb EXCEPT ![i] = ChecksAt("answered", Round(i)', i)]
    BY <1>1, <1>3, <2>1 DEF ChecksAt, Early
  <2>5. answer' = [answer EXCEPT ![i] = AnswerAt("answered", i)]
    BY <1>1, <1>5 DEF AnswerAt
  <2>. QED BY <1>1, <1>2, <2>1, <2>2, <2>3, <2>4, <2>5, StateKept
<1>9. Setup' BY <1>1, <1>2, SetupKept
<1>. QED BY <1>6, <1>7, <1>8, <1>9 DEF Values

\* Two strides take the counters to where the next query ends.
LEMMA TwoStrides ==
  ASSUME NEW q \in Query
  PROVE  (Upto[q] - mac_factor * NumFilters[q] * len) - mac_factor * NumFilters[q] * len
           = Upto[q - 1]
<1>1. q - 1 \in 0 .. NumQueries BY SizeTypes DEF Query
<1>2. Upto[q - 1] \in Nat BY <1>1, UptoLevels
<1>3. Upto[q] = Upto[q - 1] + 2 * mac_factor * NumFilters[q] * len BY UptoLevels
<1> DEFINE a == mac_factor
           b == NumFilters[q]
           c == len
<1>4. a \in Nat /\ b \in Nat /\ c \in Nat BY SizeTypes
<1>. HIDE DEF a, b, c
<1>5. a * b * c \in Nat /\ 2 * a * b * c = 2 * (a * b * c)
  <2>1. a * b \in Nat BY <1>4
  <2>. QED BY <1>4, <2>1
<1>6. Upto[q] = Upto[q - 1] + 2 * a * b * c BY <1>3 DEF a, b, c
<1>7. (Upto[q] - a * b * c) - a * b * c = Upto[q - 1] BY <1>2, <1>5, <1>6
<1>. QED BY <1>7 DEF a, b, c

\* A query starts where the counters have stopped.
LEMMA SendsValues ==
  ASSUME Inv, Values, ClientSends
  PROVE  Values'
<1>1. /\ query < NumQueries /\ \A i \in Server : pc[i] = "idle"
      /\ query' = query + 1 /\ pc' = [i \in Server |-> "reshare"]
      /\ truth' \in [0 .. NumFilters[query'] - 1 -> BOOLEAN] /\ op_is_and' \in BOOLEAN
      /\ value' \in {1, 2} /\ seed' \in Seeds
      /\ UNCHANGED <<malicious, prfKey0, prfCounter, filter, linComb, answer, given>>
  BY DEF ClientSends, setupVars, exchangeVars
<1>2. Typed /\ Unsent /\ StateInv /\ Setup BY DEF Inv, Basic, Values
<1>3. /\ query \in Nat /\ query' \in Query /\ query' # 0 /\ query \in 0 .. NumQueries
      /\ query' - 1 = query
  BY <1>1, <1>2, SizeTypes DEF Typed, Query
<1>4. Setup'
  <2>1. value' \in Elem
    <3>1. Modulus \in Nat \ {0, 1, 2} BY ConstantsAssumption
    <3>. QED BY <1>1, <3>1 DEF Elem
  <2>2. seed' \in Elem BY <1>1, ConstantsAssumption
  <2>3. malicious' \in BOOLEAN /\ prfKey0' \in KeyRings BY <1>1, <1>2 DEF Setup
  <2>4. truth' \in [0 .. NumFilters[query'] - 1 -> BOOLEAN] /\ op_is_and' \in BOOLEAN BY <1>1
  <2>. QED BY <1>3, <2>1, <2>2, <2>3, <2>4 DEF Setup, Chosen, Count
<1>5. /\ Halves' = Halves /\ mac_factor' = mac_factor /\ len' = len
  BY <1>1 DEF Halves, mac_factor, len
<1>6. Zeros' = Zeros /\ NoShares' = NoShares BY <1>5 DEF Zeros, NoShares
<1>7. Upto' = Upto BY <1>5 DEF Upto
<1>8. Base' = MaxCounter
  <2>1. MaxCounter = Upto[query] BY DEF MaxCounter, Upto
  <2>2. MaxCounter' = Upto[query']
    <3>1. MaxCounter' = Upto'[query'] BY DEF MaxCounter, Upto
    <3>. QED BY <1>7, <3>1
  <2>3. Stride' = mac_factor * NumFilters[query'] * len BY <1>5 DEF Stride
  <2>4. Base' = (MaxCounter' - Stride') - Stride' BY DEF Base, Mid
  <2>5. Base' = (Upto[query'] - mac_factor * NumFilters[query'] * len)
                 - mac_factor * NumFilters[query'] * len
    BY <2>2, <2>3, <2>4
  <2>. QED BY <1>3, <2>1, <2>5, TwoStrides
<1>9. \A i \in Server : pc'[i] = "reshare" /\ Round(i)' = Round(i)'
  BY <1>1
<1>10. StateInv'
  <2>1. /\ \A i \in Server : prfCounter[i] = MaxCounter
        /\ \A i \in Server : filter[i] = NoShares
        /\ \A i \in Server : linComb[i] = Zeros
        /\ \A i \in Server : answer[i] = Zeros
    BY <1>1, <1>2 DEF StateInv, CounterAt, FilterAt, ChecksAt, AnswerAt, Early
  <2>2. /\ prfCounter = [i \in Server |-> prfCounter[i]]
        /\ filter = [i \in Server |-> filter[i]]
        /\ linComb = [i \in Server |-> linComb[i]]
        /\ answer = [i \in Server |-> answer[i]]
    BY <1>2 DEF StateInv
  <2>3. \A i \in Server : CounterAt(pc[i])' = MaxCounter BY <1>8, <1>9 DEF CounterAt
  <2>4. \A i \in Server : FilterAt(pc[i], Round(i), i)' = NoShares
    BY <1>6, <1>9 DEF FilterAt, Early
  <2>5. \A i \in Server : ChecksAt(pc[i], Round(i), i)' = Zeros
    BY <1>6, <1>9 DEF ChecksAt, Early
  <2>6. \A i \in Server : AnswerAt(pc[i], i)' = Zeros
    BY <1>6, <1>9 DEF AnswerAt
  <2>7. prfCounter' = [i \in Server |-> CounterAt(pc[i])'] BY <1>1, <2>1, <2>2, <2>3
  <2>8. filter' = [i \in Server |-> FilterAt(pc[i], Round(i), i)'] BY <1>1, <2>1, <2>2, <2>4
  <2>9. linComb' = [i \in Server |-> ChecksAt(pc[i], Round(i), i)'] BY <1>1, <2>1, <2>2, <2>5
  <2>10. answer' = [i \in Server |-> AnswerAt(pc[i], i)'] BY <1>1, <2>1, <2>2, <2>6
  <2>. QED BY <2>7, <2>8, <2>9, <2>10 DEF StateInv
<1>11. SentInv'
  <2>1. \A i \in Server : given'[i][query'] = 0 BY <1>1, <1>2, <1>3 DEF Unsent
  <2>. QED BY <2>1 DEF SentInv
<1>12. RowsInv' BY <1>9 DEF RowsInv, RowAt
<1>. QED BY <1>4, <1>10, <1>11, <1>12 DEF Values

\* Between queries only the counters stay.
LEMMA ReceivesValues ==
  ASSUME Inv, Values, ClientReceives
  PROVE  Values'
<1>1. /\ \A i \in Server : pc[i] = "answered"
      /\ pc' = [i \in Server |-> "idle"] /\ filter' = [i \in Server |-> NoShares]
      /\ linComb' = [i \in Server |-> Zeros] /\ answer' = [i \in Server |-> Zeros]
      /\ UNCHANGED prfCounter /\ Same
  BY DEF ClientReceives, setupVars, clientVars, Same
<1>2. StateInv /\ Setup BY DEF Values
<1>3. /\ \A place : CounterAt(place)' = CounterAt(place)
      /\ NoShares' = NoShares /\ Zeros' = Zeros
  BY <1>1, Frame3
<1>4. \A i \in Server : pc'[i] = "idle" BY <1>1
<1>5. StateInv'
  <2>1. prfCounter' = [i \in Server |-> CounterAt(pc'[i])]
    <3>1. prfCounter = [i \in Server |-> CounterAt(pc[i])] BY <1>2 DEF StateInv
    <3>2. CounterAt("answered") = CounterAt("idle") BY DEF CounterAt
    <3>. QED BY <1>1, <1>4, <3>1, <3>2
  <2>2. \A i \in Server : FilterAt(pc[i], Round(i), i)' = NoShares
    BY <1>3, <1>4 DEF FilterAt, Early
  <2>3. \A i \in Server : ChecksAt(pc[i], Round(i), i)' = Zeros
    BY <1>3, <1>4 DEF ChecksAt, Early
  <2>4. \A i \in Server : AnswerAt(pc[i], i)' = Zeros
    BY <1>3, <1>4 DEF AnswerAt
  <2>. QED BY <1>1, <1>3, <2>1, <2>2, <2>3, <2>4 DEF StateInv
<1>6. SentInv' /\ RowsInv' BY <1>4 DEF SentInv, RowsInv, RowAt
<1>7. Setup' BY <1>1, <1>2, SetupKept
<1>. QED BY <1>5, <1>6, <1>7 DEF Values

\* At first there are no shares, and all counters are zero.
LEMMA InitValues == Init => Values
<1>. SUFFICES ASSUME Init PROVE Values
  OBVIOUS
<1>1. /\ malicious \in Modes /\ prfKey0 \in KeyRings
      /\ query = 0 /\ op_is_and = TRUE /\ truth = <<>> /\ value = 0 /\ seed = 0
      /\ pc = [i \in Server |-> "idle"] /\ prfCounter = [i \in Server |-> 0]
      /\ filter = [i \in Server |-> NoShares] /\ linComb = [i \in Server |-> Zeros]
      /\ answer = [i \in Server |-> Zeros]
  BY DEF Init
<1>2. Setup
  <2>1. 0 \in Elem BY ConstantsAssumption DEF Elem
  <2>2. malicious \in BOOLEAN BY <1>1, ConstantsAssumption
  <2>. QED BY <1>1, <2>1, <2>2 DEF Setup
<1>3. StateInv
  <2>1. MaxCounter = 0
    <3>1. MaxCounter = Upto[query] BY DEF MaxCounter, Upto
    <3>. QED BY <1>1, <3>1, UptoLevels
  <2>. QED BY <1>1, <2>1 DEF StateInv, CounterAt, FilterAt, ChecksAt, AnswerAt, Early
<1>4. SentInv /\ RowsInv BY <1>1 DEF SentInv, RowsInv, RowAt
<1>. QED BY <1>2, <1>3, <1>4 DEF Values

\* Every step keeps the invariant of the numbers.
LEMMA NextValues ==
  ASSUME Inv, Values, [Next]_vars
  PROVE  Values'
<1>1. CASE UNCHANGED vars
  <2>1. Same /\ UNCHANGED <<pc, prfCounter, res, filter, linComb, answer, sent, given, got>>
    BY <1>1 DEF vars, setupVars, clientVars, exchangeVars, Same
  <2>2. StateInv /\ SentInv /\ RowsInv /\ Setup BY DEF Values
  <2>3. /\ \A place : CounterAt(place)' = CounterAt(place)
        /\ \A place, r, i : FilterAt(place, r, i)' = FilterAt(place, r, i)
        /\ \A place, r, i : ChecksAt(place, r, i)' = ChecksAt(place, r, i)
        /\ \A place, i : AnswerAt(place, i)' = AnswerAt(place, i)
        /\ \A place, i, f, y : RowAt(place, i, f, y)' = RowAt(place, i, f, y)
        /\ Count' = Count
    BY <2>1, Frame3
  <2>4. \A i \in Server : Round(i)' = Round(i) BY <2>1 DEF Round, Same
  <2>5. StateInv' BY <2>1, <2>2, <2>3, <2>4 DEF StateInv
  <2>6. RowsInv' BY <2>1, <2>2, <2>3 DEF RowsInv
  <2>7. SentInv' BY <2>1, <2>2, SentStays
  <2>8. Setup' BY <2>1, <2>2, SetupKept
  <2>. QED BY <2>5, <2>6, <2>7, <2>8 DEF Values
<1>2. CASE ClientSends BY <1>2, SendsValues
<1>3. ASSUME NEW i \in Server, RSSReshare(i) PROVE Values' BY <1>3, ReshareValues
<1>4. ASSUME NEW i \in Server, ReshareReceived(i) PROVE Values' BY <1>4, ReshareReceivedValues
<1>5. ASSUME NEW i \in Server, Multiply(i) PROVE Values' BY <1>5, MultiplyValues
<1>6. ASSUME NEW i \in Server, MultiplyReceived(i) PROVE Values' BY <1>6, MultiplyReceivedValues
<1>7. ASSUME NEW i \in Server, AggFilterQuery(i) PROVE Values' BY <1>7, AnswerValues
<1>8. CASE ClientReceives BY <1>8, ReceivesValues
<1>. QED BY <1>1, <1>2, <1>3, <1>4, <1>5, <1>6, <1>7, <1>8 DEF Next, Quiescent

\* Both invariants.
LEMMA AlwaysValues == Spec => [](Inv /\ Values)
<1>1. Init => Inv /\ Values BY InitInv, InitValues
<1>2. Inv /\ Values /\ [Next]_vars => (Inv /\ Values)' BY NextInv, NextValues
<1>. QED BY <1>1, <1>2, PTL DEF Spec

\* Once all have answered, answers and accumulators are those of the query.
LEMMA RightAtTheEnd == Inv /\ Values => AggregateCorrect /\ MacCheckHolds
<1>. SUFFICES ASSUME Inv, Values PROVE AggregateCorrect /\ MacCheckHolds
  OBVIOUS
<1>1. CASE ~AllAnswered BY <1>1 DEF AggregateCorrect, MacCheckHolds
<1>2. CASE AllAnswered
  <2>1. \A i \in Server : pc[i] = "answered" BY <1>2 DEF AllAnswered
  <2>2. Basic BY DEF Inv
  <2>3. Chosen
    <3>1. 0 \in Server BY Ring
    <3>2. pc[0] # "idle" BY <2>1, <3>1
    <3>. QED BY <2>2, <3>1, <3>2, OnWay
  <2>4. ASSUME NEW i \in Server
        PROVE  answer[i] = Answered(i) /\ linComb[i] = RoundChain[Count - 1][i]
    <3>1. pc[i] = "answered" BY <2>1
    <3>2. linComb[i] = ChecksAt("answered", Round(i), i) /\ answer[i] = AnswerAt("answered", i)
      BY <2>2, <3>1, OnWay
    <3>3. AtPlace("answered", Round(i), given[i][query], NumFilters[query])
      BY <2>2, <3>1 DEF Basic, RoundInv
    <3>4. Round(i) = Count BY <3>3 DEF AtPlace, Count
    <3>. QED BY <3>2, <3>4 DEF ChecksAt, AnswerAt, Early
  <2>. QED BY <2>3, <2>4, QueryRight
<1>. QED BY <1>1, <1>2

\* The numbers have their types.
LEMMA TypesHold == Inv /\ Values => TypeOK
<1>. SUFFICES ASSUME Inv, Values PROVE TypeOK
  OBVIOUS
<1>1. Basic /\ Typed /\ StateInv /\ Setup BY DEF Inv, Basic, Values
<1>2. query \in 0 .. NumQueries /\ pc \in [Server -> PcPlaces] /\ MaxCounter \in Nat
  BY <1>1, MaxCounterUpto DEF Typed
<1>3. truth \in [DOMAIN truth -> BOOLEAN]
  <2>1. CASE query = 0 BY <1>1, <2>1 DEF Setup
  <2>2. CASE query # 0 BY <1>1, <2>2 DEF Setup, Chosen
  <2>. QED BY <2>1, <2>2
<1>4. Zeros \in Vec
  <2>1. 0 \in Elem BY ConstantsAssumption DEF Elem
  <2>. QED BY <2>1 DEF Zeros, Vec
<1>5. NoShares \in Shares BY <1>4 DEF NoShares, Shares
<1>6. ASSUME NEW i \in Server
      PROVE  /\ CounterAt(pc[i]) \in 0 .. MaxCounter /\ FilterAt(pc[i], Round(i), i) \in Shares
             /\ ChecksAt(pc[i], Round(i), i) \in Vec /\ AnswerAt(pc[i], i) \in Vec
  <2>1. CASE pc[i] = "idle"
    BY <1>2, <1>4, <1>5, <2>1 DEF CounterAt, FilterAt, ChecksAt, AnswerAt, Early
  <2>2. CASE pc[i] # "idle"
    <3>1. Chosen /\ query \in Query BY <1>1, <2>2, OnWay
    <3>2. CounterAt(pc[i]) \in 0 .. MaxCounter
      <4>1. /\ MaxCounter \in Nat /\ Stride \in Nat /\ Mid \in Nat /\ Base \in Nat
            /\ Base + Stride = Mid /\ Mid + Stride = MaxCounter
        BY <3>1, CounterStops
      <4>2. Base <= MaxCounter /\ Mid <= MaxCounter BY <4>1
      <4>. QED BY <4>1, <4>2 DEF CounterAt
    <3>3. AnswerAt(pc[i], i) \in Vec
      <4>1. \A h \in Halves : Answered(i)[h] \in Elem BY <3>1, AnswersAdd
      <4>2. Answered(i) = [h \in Halves |-> Answered(i)[h]] BY DEF Answered
      <4>3. Answered(i) \in Vec BY <4>1, <4>2 DEF Vec
      <4>. QED BY <1>4, <4>3 DEF AnswerAt
    <3>4. FilterAt(pc[i], Round(i), i) \in Shares /\ ChecksAt(pc[i], Round(i), i) \in Vec
      <4>1. CASE pc[i] \in Early BY <1>4, <1>5, <4>1 DEF FilterAt, ChecksAt
      <4>2. CASE pc[i] \notin Early
        <5>1. AtPlace(pc[i], Round(i), given[i][query], Count) /\ Round(i) \in Nat
          BY <1>1, <2>2, Skew DEF Basic, RoundInv, Count
        <5>2. pc[i] \in {"multiply", "multiplied", "aggregate", "answered"}
          BY <1>2, <4>2 DEF PcPlaces, Early
        <5>3. Count \in Nat \ {0} BY <3>1, RowTypes
        <5>4. Round(i) - 1 \in 0 .. Count - 1 BY <5>1, <5>2, <5>3 DEF AtPlace
        <5>5. Combined[Round(i) - 1] \in Triple /\ RoundChain[Round(i) - 1] \in Triple
          BY <3>1, <5>4, CombinedLevels, ChecksLevels
        <5>6. Pred(i) \in Server BY Ring
        <5>. QED BY <4>2, <5>5, <5>6 DEF FilterAt, ChecksAt, Triple, Shares
      <4>. QED BY <4>1, <4>2
    <3>. QED BY <3>2, <3>3, <3>4
  <2>. QED BY <2>1, <2>2
<1>7. /\ prfCounter \in [Server -> 0 .. MaxCounter] /\ filter \in [Server -> Shares]
      /\ linComb \in [Server -> Vec] /\ answer \in [Server -> Vec]
  BY <1>1, <1>6 DEF StateInv
<1>8. pc \in [Server -> {"idle", "reshare", "reshared", "multiply", "multiplied", "aggregate",
                         "answered"}]
  BY <1>2 DEF PcPlaces
<1>. QED BY <1>1, <1>2, <1>3, <1>7, <1>8 DEF TypeOK, Setup

-----------------------------------------------------------------------------
(* The results.                                                            *)

\* The state has its types; in particular the counter from which a server takes its
\* random numbers (AdjustPRFCounter) is never ahead of the queries that were sent.
THEOREM TypesAlways == Spec => []TypeOK
BY AlwaysValues, TypesHold, PTL

\* When all servers have answered, their answers add up to the value of the row if it
\* satisfies the filters and to 0 if it does not, and the MACs to alpha times that, for any
\* modulus, keys, counters and shares, however many filters EvalFilter combined and
\* however far apart the servers were: the shares of zero cancel (the counters agree), and
\* the products of Multiply are all the products of the shares, each of them once.
THEOREM AggregateAlways == Spec => []AggregateCorrect
<1>1. Inv /\ Values => AggregateCorrect BY RightAtTheEnd
<1>. QED BY <1>1, AlwaysValues, PTL

\* The accumulators of AddToBatchMACCheck fit, in every query with MACs, if the servers'
\* keys are equal: each half of a coefficient is then the same number e, and every row
\* that is added changes the accumulators' totals by 3 e times what it stands for.
THEOREM MacCheckAlways == Spec => []MacCheckHolds
<1>1. Inv /\ Values => MacCheckHolds BY RightAtTheEnd
<1>. QED BY <1>1, AlwaysValues, PTL
=============================================================================
