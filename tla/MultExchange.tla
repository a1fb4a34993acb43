---------------------------- MODULE MultExchange -----------------------------
(***************************************************************************)
(* The share exchange between the query servers, as util.cpp runs it       *)
(* without USE_EMP.  On every server                                       *)
(*   - each query has a handler thread of the synchronous gRPC service; it *)
(*     runs RSSReshare (round 0) and then one Multiply per further filter  *)
(*     (rounds 1, 2, ...), and in each round calls SendMult on the         *)
(*     successor, waits for the answer, and then waits on multCV for the   *)
(*     predecessor's share in the one-place slot multReceivedShares;       *)
(*   - one thread serves the completion queue: it turns each SendMult      *)
(*     request into a FinishMultiply, which waits on orderCV until the     *)
(*     slot is empty and stores the share.                                 *)
(* Both sides use the slot under multLock.                                 *)
(***************************************************************************)
EXTENDS Naturals, Sequences, FiniteSets

CONSTANTS NUM_SERVERS,   \* common.h: 3
          Query,         \* the aggregate queries the client sends
          NumFilters,    \* NumFilters[q]: base filters of q's CombinedFilter
          Serial,        \* does the client wait for q's answers before the next?
          Flaky,         \* the servers whose SendMult calls may fail (status ignored)
          NULL, CQ       \* no share / no owner, and the queue's thread

Server == 0 .. NUM_SERVERS - 1

\* A share is abstracted to the server that computed it and to the query and
\* the round it was computed in.  The message itself carries only the numbers.
Share == [from : Server, query : Query, round : Nat]

ASSUME ConstantsAssumption ==
  /\ NUM_SERVERS \in Nat \ {0}
  /\ NumFilters \in [Query -> Nat \ {0}]
  /\ Serial \in BOOLEAN /\ Flaky \subseteq Server
  /\ CQ \notin Query /\ NULL \notin Query /\ NULL # CQ /\ NULL \notin Share

VARIABLES
  issued,    \* the queries the client has sent
  pc,        \* pc[s][q]: where the handler of q on server s is
  round,     \* round[s][q]: the exchange the handler is in, 0 is RSSReshare's
  res0,      \* res0[s][q]: the shares the handler has copied from the slot
  net,       \* net[s]: SendMult requests on their way to s
  posted,    \* posted[s]: MULT CallData of s that wait for a request
  matched,   \* matched[s]: requests tied to a CallData, not yet taken by Next
  cqpc,      \* cqpc[s]: where the completion queue's thread is
  cqReq,     \* cqReq[s]: the request it is handling
  multLock,  \* multLock[s]: the thread of s that holds multLock
  multReceivedShares  \* multReceivedShares[s]: the slot

handlerVars == <<pc, round, res0>>
queueVars == <<posted, matched, cqpc, cqReq>>
slotVars == <<multLock, multReceivedShares>>
vars == <<issued, handlerVars, net, queueVars, slotVars>>

\* multStub of s is connected to addrs[(serverID + 1) % NUM_SERVERS].
Succ(s) == (s + 1) % NUM_SERVERS

ShareOf(s, q, r) == [from |-> s, query |-> q, round |-> r]

\* Places of a handler.  It is blocked in the call in "calling", on multCV in
\* "waiting"; it owns multLock in "locked" and, until the scope of the
\* unique_lock ends (the MAC accumulation), in "taken".
HandlerPc == {"idle", "ready", "calling", "called", "locked", "waiting",
              "woken", "taken", "done"}

\* Places of the queue's thread: in cq->Next, at the head of FinishMultiply,
\* with multLock, on orderCV, woken from it, and at responderMult.Finish.
QueuePc == {"next", "enter", "locked", "waiting", "woken", "finish"}

-----------------------------------------------------------------------------

Init ==
  /\ issued = {}
  /\ pc = [s \in Server |-> [q \in Query |-> "idle"]]
  /\ round = [s \in Server |-> [q \in Query |-> 0]]
  /\ res0 = [s \in Server |-> [q \in Query |-> <<>>]]
  /\ net = [s \in Server |-> {}]
  /\ posted = [s \in Server |-> 1]
  /\ matched = [s \in Server |-> {}]
  /\ cqpc = [s \in Server |-> "next"]
  /\ cqReq = [s \in Server |-> NULL]
  /\ multLock = [s \in Server |-> NULL]
  /\ multReceivedShares = [s \in Server |-> NULL]

-----------------------------------------------------------------------------
(* The client and the handler threads.                                     *)

Answered(q) == \A s \in Server : pc[s][q] = "done"

\* The client sends q to every server; a serial client has had the answers to
\* all its earlier queries.
ClientSends(q) ==
  /\ q \notin issued
  /\ Serial => \A p \in issued : Answered(p)
  /\ issued' = issued \cup {q}
  /\ UNCHANGED <<handlerVars, net, queueVars, slotVars>>

\* SendAggQuery reaches s: EvalFilter evaluates the tables and enters
\* RSSReshare, which prepares sendShares.
SendAggQuery(s, q) ==
  /\ q \in issued /\ pc[s][q] = "idle"
  /\ pc' = [pc EXCEPT ![s][q] = "ready"]
  /\ UNCHANGED <<issued, round, res0, net, queueVars, slotVars>>

\* multStub->SendMult: the handler blocks until the successor has answered.
SendMult(s, q) ==
  /\ pc[s][q] = "ready"
  /\ pc' = [pc EXCEPT ![s][q] = "calling"]
  /\ net' = [net EXCEPT ![Succ(s)] = @ \cup {ShareOf(s, q, round[s][q])}]
  /\ UNCHANGED <<issued, round, res0, queueVars, slotVars>>

\* The call fails, before or after the request reached the successor.  The
\* handler does not look at the status and goes on as after an answer.
SendMultFails(s, q) ==
  /\ s \in Flaky /\ pc[s][q] = "calling"
  /\ pc' = [pc EXCEPT ![s][q] = "called"]
  /\ \/ net' = [net EXCEPT ![Succ(s)] = @ \ {ShareOf(s, q, round[s][q])}]
     \/ UNCHANGED net
  /\ UNCHANGED <<issued, round, res0, queueVars, slotVars>>

SlotFull(s) == multReceivedShares[s] # NULL

\* Mutant of ShareArrived: the wait is not a loop, a wake-up is taken for a share.
ShareAssumed(s) == TRUE

\* The test of the loop a handler waits in on multCV.
ShareArrived(s) == SlotFull(s)

\* Mutant of SlotOccupied: FinishMultiply stores without waiting.
SlotIgnored(s) == FALSE

\* The test of the loop FinishMultiply waits in on orderCV.
SlotOccupied(s) == SlotFull(s)

\* unique_lock lk(multLock), on entry or when woken from multCV.  RSSReshare,
\* unlike Multiply, posts one more CallData when it finds no share.
LockMult(s, q) ==
  /\ pc[s][q] \in {"called", "woken"}
  /\ multLock[s] = NULL
  /\ multLock' = [multLock EXCEPT ![s] = q]
  /\ pc' = [pc EXCEPT ![s][q] = "locked"]
  /\ posted' = IF pc[s][q] = "called" /\ round[s][q] = 0 /\ ~SlotFull(s)
               THEN [posted EXCEPT ![s] = @ + 1]
               ELSE posted
  /\ UNCHANGED <<issued, round, res0, net, matched, cqpc, cqReq,
                 multReceivedShares>>

\* multCV.wait(lk): gives multLock up and waits.
WaitMult(s, q) ==
  /\ pc[s][q] = "locked" /\ ~ShareArrived(s)
  /\ pc' = [pc EXCEPT ![s][q] = "waiting"]
  /\ multLock' = [multLock EXCEPT ![s] = NULL]
  /\ UNCHANGED <<issued, round, res0, net, queueVars, multReceivedShares>>

\* Mutant of OrderCVNotify: the notification is missing.
OrderCVSilent(s) == UNCHANGED cqpc

\* orderCV.notify_one(): only the queue's thread ever waits there.
OrderCVNotify(s) ==
  cqpc' = IF cqpc[s] = "waiting" THEN [cqpc EXCEPT ![s] = "woken"] ELSE cqpc

\* Mutant of EmptySlot: the slot is freed but not reset.
KeepSlot(s) == UNCHANGED multReceivedShares

\* multReceivedShares = NULL
EmptySlot(s) == multReceivedShares' = [multReceivedShares EXCEPT ![s] = NULL]

\* The share is copied into res0 (shares_out0 in Multiply), the slot is emptied
\* and FinishMultiply is notified.
TakeShare(s, q) ==
  /\ pc[s][q] = "locked" /\ ShareArrived(s)
  /\ res0' = [res0 EXCEPT ![s][q] = Append(@, multReceivedShares[s])]
  /\ EmptySlot(s)
  /\ OrderCVNotify(s)
  /\ pc' = [pc EXCEPT ![s][q] = "taken"]
  /\ UNCHANGED <<issued, round, net, posted, matched, cqReq, multLock>>

\* End of RSSReshare or Multiply: the lock is released, and EvalFilter goes on
\* with the next filter or AggFilterQuery answers the client.
LeaveRound(s, q) ==
  /\ pc[s][q] = "taken"
  /\ multLock' = [multLock EXCEPT ![s] = NULL]
  /\ round' = [round EXCEPT ![s][q] = @ + 1]
  /\ pc' = [pc EXCEPT ![s][q] =
              IF round[s][q] + 1 < NumFilters[q] THEN "ready" ELSE "done"]
  /\ UNCHANGED <<issued, res0, net, queueVars, multReceivedShares>>

SpuriousWakeMult(s, q) ==
  /\ pc[s][q] = "waiting"
  /\ pc' = [pc EXCEPT ![s][q] = "woken"]
  /\ UNCHANGED <<issued, round, res0, net, queueVars, slotVars>>

-----------------------------------------------------------------------------
(* The completion queue's thread.                                          *)

\* gRPC ties a request to a CallData on which RequestSendMult was called.
MatchMult(s) ==
  /\ posted[s] > 0
  /\ \E m \in net[s] :
        /\ net' = [net EXCEPT ![s] = @ \ {m}]
        /\ matched' = [matched EXCEPT ![s] = @ \cup {m}]
  /\ posted' = [posted EXCEPT ![s] = @ - 1]
  /\ UNCHANGED <<issued, handlerVars, cqpc, cqReq, slotVars>>

\* Mutant of PostCallData: the next CallData is not posted.
PostNothing(s) == UNCHANGED posted

\* new CallData(*this, service, cq, MULT)
PostCallData(s) == posted' = [posted EXCEPT ![s] = @ + 1]

\* cq->Next returns a request and Proceed serves it, after posting the CallData
\* of the next one.
ProceedMult(s) ==
  /\ cqpc[s] = "next"
  /\ \E m \in matched[s] :
        /\ cqReq' = [cqReq EXCEPT ![s] = m]
        /\ matched' = [matched EXCEPT ![s] = @ \ {m}]
  /\ PostCallData(s)
  /\ cqpc' = [cqpc EXCEPT ![s] = "enter"]
  /\ UNCHANGED <<issued, handlerVars, net, slotVars>>

\* FinishMultiply gets multLock, on entry or when woken from orderCV; on entry
\* it posts one more CallData if the slot is occupied.
LockFinish(s) ==
  /\ cqpc[s] \in {"enter", "woken"}
  /\ multLock[s] = NULL
  /\ multLock' = [multLock EXCEPT ![s] = CQ]
  /\ cqpc' = [cqpc EXCEPT ![s] = "locked"]
  /\ posted' = IF cqpc[s] = "enter" /\ SlotFull(s)
               THEN [posted EXCEPT ![s] = @ + 1]
               ELSE posted
  /\ UNCHANGED <<issued, handlerVars, net, matched, cqReq, multReceivedShares>>

\* orderCV.wait(lk)
WaitFinish(s) ==
  /\ cqpc[s] = "locked" /\ SlotOccupied(s)
  /\ cqpc' = [cqpc EXCEPT ![s] = "waiting"]
  /\ multLock' = [multLock EXCEPT ![s] = NULL]
  /\ UNCHANGED <<issued, handlerVars, net, posted, matched, cqReq,
                 multReceivedShares>>

\* Mutant of MultCVNotify: the notification is missing.
MultCVSilent(s) == UNCHANGED pc

\* multCV.notify_one(): wakes one of the handlers that wait, if any does.
MultCVNotify(s) ==
  \/ \E q \in Query :
        pc[s][q] = "waiting" /\ pc' = [pc EXCEPT ![s][q] = "woken"]
  \/ (\A q \in Query : pc[s][q] # "waiting") /\ UNCHANGED pc

\* The share goes into the slot, a handler is notified, multLock is released.
StoreShare(s) ==
  /\ cqpc[s] = "locked" /\ ~SlotOccupied(s)
  /\ multReceivedShares' = [multReceivedShares EXCEPT ![s] = cqReq[s]]
  /\ MultCVNotify(s)
  /\ multLock' = [multLock EXCEPT ![s] = NULL]
  /\ cqpc' = [cqpc EXCEPT ![s] = "finish"]
  /\ UNCHANGED <<issued, round, res0, net, posted, matched, cqReq>>

\* responderMult.Finish: the caller's SendMult returns, if it is still in it.
AnswerMult(s) ==
  LET m == cqReq[s]
  IN  /\ cqpc[s] = "finish"
      /\ pc' = IF pc[m.from][m.query] = "calling" /\ round[m.from][m.query] = m.round
               THEN [pc EXCEPT ![m.from][m.query] = "called"]
               ELSE pc
      /\ cqpc' = [cqpc EXCEPT ![s] = "next"]
      /\ cqReq' = [cqReq EXCEPT ![s] = NULL]
      /\ UNCHANGED <<issued, round, res0, net, posted, matched, slotVars>>

SpuriousWakeFinish(s) ==
  /\ cqpc[s] = "waiting"
  /\ cqpc' = [cqpc EXCEPT ![s] = "woken"]
  /\ UNCHANGED <<issued, handlerVars, net, posted, matched, cqReq, slotVars>>

-----------------------------------------------------------------------------

\* Every query has been answered and every queue is at rest.
Quiescent ==
  /\ issued = Query /\ \A q \in Query : Answered(q)
  /\ \A s \in Server : cqpc[s] = "next"
  /\ UNCHANGED vars

Handler(s, q) ==
  \/ SendAggQuery(s, q) \/ SendMult(s, q) \/ LockMult(s, q)
  \/ WaitMult(s, q) \/ TakeShare(s, q) \/ LeaveRound(s, q)

Queue(s) ==
  \/ ProceedMult(s) \/ LockFinish(s) \/ WaitFinish(s)
  \/ StoreShare(s) \/ AnswerMult(s)

Next ==
  \/ \E q \in Query : ClientSends(q)
  \/ \E s \in Server, q \in Query :
        Handler(s, q) \/ SendMultFails(s, q) \/ SpuriousWakeMult(s, q)
  \/ \E s \in Server : MatchMult(s) \/ Queue(s) \/ SpuriousWakeFinish(s)
  \/ Quiescent

\* Threads run and the network delivers.  A mutex that is free again and again
\* is eventually acquired: spurious wake-ups may go on for ever.
Fairness ==
  /\ \A s \in Server, q \in Query :
        WF_vars(Handler(s, q)) /\ SF_vars(LockMult(s, q))
  /\ \A s \in Server :
        WF_vars(MatchMult(s)) /\ WF_vars(Queue(s)) /\ SF_vars(LockFinish(s))

Spec == Init /\ [][Next]_vars

FairSpec == Spec /\ Fairness
-----------------------------------------------------------------------------
(* Properties.                                                             *)

\* Every variable has its type.
TypeOK ==
  /\ issued \subseteq Query
  /\ pc \in [Server -> [Query -> HandlerPc]]
  /\ round \in [Server -> [Query -> Nat]]
  /\ res0 \in [Server -> [Query -> Seq(Share)]]
  /\ net \in [Server -> SUBSET Share]
  /\ posted \in [Server -> Nat]
  /\ matched \in [Server -> SUBSET Share]
  /\ cqpc \in [Server -> QueuePc]
  /\ cqReq \in [Server -> Share \cup {NULL}]
  /\ multLock \in [Server -> Query \cup {CQ, NULL}]
  /\ multReceivedShares \in [Server -> Share \cup {NULL}]

Pred(s) == (s + NUM_SERVERS - 1) % NUM_SERVERS

\* The number of SendMult calls the handler of q on s has made.
Given(s, q) ==
  round[s][q] + (IF pc[s][q] \in {"idle", "ready", "done"} THEN 0 ELSE 1)

\* The request the queue's thread of s has taken but not stored yet.
Handling(s) == cqpc[s] \in {"enter", "locked", "waiting", "woken"}

\* The number of places at server s where share m is, or was copied to.
Copies(s, m) ==
  LET taken == {q \in Query : \E i \in DOMAIN res0[s][q] : res0[s][q][i] = m}
  IN  Cardinality({p \in {"net", "matched", "queue", "slot"} :
                     \/ p = "net" /\ m \in net[s]
                     \/ p = "matched" /\ m \in matched[s]
                     \/ p = "queue" /\ Handling(s) /\ cqReq[s] = m
                     \/ p = "slot" /\ multReceivedShares[s] = m})
      + Cardinality(taken)

\* A share RSSReshare or Multiply has sent is in exactly one place on its way
\* to the successor's res0, or was copied into the res0 of exactly one handler:
\* the slot, the two condition variables and the extra CallData neither lose
\* nor repeat a share, whatever the interleaving, one query or several.
ShareInOnePlace ==
  \A s \in Server, q \in Query :
     \A r \in 0 .. Given(s, q) - 1 : Copies(Succ(s), ShareOf(s, q, r)) = 1

\* When calls may fail a share can disappear, but it is never used twice.
ShareNeverDuplicated ==
  \A s \in Server, q \in Query :
     \A r \in 0 .. Given(s, q) - 1 : Copies(Succ(s), ShareOf(s, q, r)) <= 1

\* What a handler copies out of the slot in RSSReshare or Multiply is the share
\* its predecessor computed in the same step of the same query, although the
\* message carries neither: the result of EvalFilter depends on it.
SharesPaired ==
  \A s \in Server, q \in Query :
     \A i \in DOMAIN res0[s][q] : res0[s][q][i] = ShareOf(Pred(s), q, i - 1)

\* FinishMultiply never stores over a share no handler has taken, and a handler
\* never finds another share than the one stored: the slot changes only from
\* empty to full and from full to empty.
HandoffStep ==
  \A s \in Server :
     multReceivedShares'[s] # multReceivedShares[s]
       => (SlotFull(s) <=> ~SlotFull(s)')

SlotHandoff == [][HandoffStep]_vars

\* notify_one is enough: while a share is in the slot and a handler still waits
\* on multCV, some handler is awake and will take it; and the queue's thread
\* waits on orderCV only while the slot is full.
HandlerWakes(s) ==
  SlotFull(s) /\ (\E q \in Query : pc[s][q] = "waiting")
    => \E q \in Query : pc[s][q] \in {"woken", "locked"}

QueueWakes(s) == cqpc[s] = "waiting" => SlotFull(s)

NoLostWakeup == \A s \in Server : HandlerWakes(s) /\ QueueWakes(s)

\* A server stays able to receive SendMult: a CallData is posted, or Proceed is
\* still to run for a matched one and will post the next.
ServerReachable == \A s \in Server : posted[s] > 0 \/ matched[s] # {}

\* The one-place slot throttles the ring: in a query no server gets two rounds
\* ahead of its successor or its predecessor.
BoundedSkew ==
  \A s \in Server, q \in Query :
     /\ round[s][q] <= round[Succ(s)][q] + 1
     /\ round[Succ(s)][q] <= round[s][q] + 1

\* Every query the client sends is answered by all servers.
QueriesAnswered == \A q \in Query : q \in issued ~> Answered(q)

-----------------------------------------------------------------------------

\* The exchange implements the abstract one: a share is given by the call of
\* SendMult and got by the copy into res0.
Abstract == INSTANCE RoundExchange WITH
  given <- [s \in Server |-> [q \in Query |-> Given(s, q)]],
  got <- res0

ImplementsRoundExchange == Abstract!Spec

\* The part of it without fairness: every step of the exchange is a Give, a Get or
\* no step at all of RoundExchange.
StepsAreRounds == Abstract!Init /\ [][Abstract!Next]_(Abstract!vars)
=============================================================================
