-------------------------- MODULE MultExchangeProofs --------------------------
(***************************************************************************)
(* Theorems about MultExchange, for every number of servers, queries and   *)
(* rounds, serial or concurrent clients, reliable or failing calls.  Only  *)
(* InOnePlace needs calls that do not fail, and the parts from "Reliable   *)
(* calls and a serial client" on also a client that waits for its answers. *)
(***************************************************************************)
EXTENDS MultExchange, FiniteSetTheorems, TLAPS

\* The successor is a server.
LEMMA SuccInServer == \A s \in Server : Succ(s) \in Server
  BY ConstantsAssumption DEF Server, Succ

\* What a handler sends is a share.
LEMMA ShareOfIsShare ==
  \A s \in Server, q \in Query, r \in Nat : ShareOf(s, q, r) \in Share
  BY DEF ShareOf, Share

-----------------------------------------------------------------------------
(* The inductive invariant: the types, and what the places of the threads  *)
(* say about the lock and about the request the queue is handling.         *)

\* multLock is held by the thread whose place says so, hence by at most one.
LockInv ==
  \A s \in Server :
     /\ \A q \in Query : pc[s][q] \in {"locked", "taken"} <=> multLock[s] = q
     /\ cqpc[s] = "locked" <=> multLock[s] = CQ

\* The queue's thread has a request whenever it is not in cq->Next.
QueueInv == \A s \in Server : cqpc[s] # "next" => cqReq[s] \in Share

\* The initial values have their types.
LEMMA TypeInit == Init => TypeOK
  BY DEF Init, TypeOK, HandlerPc, QueuePc

\* A notification keeps the handlers' places well-formed.
LEMMA WakeType ==
  ASSUME NEW s \in Server, pc \in [Server -> [Query -> HandlerPc]],
         MultCVNotify(s)
  PROVE  pc' \in [Server -> [Query -> HandlerPc]]
BY DEF MultCVNotify, HandlerPc

\* A step keeps the types.
LEMMA TypeNext == TypeOK /\ QueueInv /\ [Next]_vars => TypeOK'
<1> SUFFICES ASSUME TypeOK, QueueInv, [Next]_vars
             PROVE  TypeOK'
  OBVIOUS
<1> USE DEF TypeOK, HandlerPc, QueuePc
<1>1. ASSUME NEW q \in Query, ClientSends(q)
      PROVE  TypeOK'
  BY <1>1 DEF ClientSends, handlerVars, queueVars, slotVars
<1>2. ASSUME NEW s \in Server, NEW q \in Query, SendAggQuery(s, q)
      PROVE  TypeOK'
  BY <1>2 DEF SendAggQuery, queueVars, slotVars
<1>3. ASSUME NEW s \in Server, NEW q \in Query, SendMult(s, q)
      PROVE  TypeOK'
  BY <1>3, SuccInServer, ShareOfIsShare DEF SendMult, queueVars, slotVars
<1>4. ASSUME NEW s \in Server, NEW q \in Query, SendMultFails(s, q)
      PROVE  TypeOK'
  BY <1>4, SuccInServer DEF SendMultFails, queueVars, slotVars
<1>5. ASSUME NEW s \in Server, NEW q \in Query, LockMult(s, q)
      PROVE  TypeOK'
  BY <1>5 DEF LockMult
<1>6. ASSUME NEW s \in Server, NEW q \in Query, WaitMult(s, q)
      PROVE  TypeOK'
  BY <1>6 DEF WaitMult, queueVars
<1>7. ASSUME NEW s \in Server, NEW q \in Query, TakeShare(s, q)
      PROVE  TypeOK'
  BY <1>7 DEF TakeShare, ShareArrived, SlotFull, EmptySlot, OrderCVNotify
<1>8. ASSUME NEW s \in Server, NEW q \in Query, LeaveRound(s, q)
      PROVE  TypeOK'
  BY <1>8 DEF LeaveRound, queueVars
<1>9. ASSUME NEW s \in Server, NEW q \in Query, SpuriousWakeMult(s, q)
      PROVE  TypeOK'
  BY <1>9 DEF SpuriousWakeMult, queueVars, slotVars
<1>10. ASSUME NEW s \in Server, MatchMult(s)
       PROVE  TypeOK'
  BY <1>10 DEF MatchMult, handlerVars, slotVars
<1>11. ASSUME NEW s \in Server, ProceedMult(s)
       PROVE  TypeOK'
  BY <1>11 DEF ProceedMult, PostCallData, handlerVars, slotVars
<1>12. ASSUME NEW s \in Server, LockFinish(s)
       PROVE  TypeOK'
  BY <1>12 DEF LockFinish, handlerVars
<1>13. ASSUME NEW s \in Server, WaitFinish(s)
       PROVE  TypeOK'
  BY <1>13 DEF WaitFinish, handlerVars
<1>14. ASSUME NEW s \in Server, StoreShare(s)
       PROVE  TypeOK'
  BY <1>14, WakeType DEF StoreShare
<1>15. ASSUME NEW s \in Server, AnswerMult(s)
       PROVE  TypeOK'
  BY <1>15 DEF AnswerMult, QueueInv, Share, slotVars
<1>16. ASSUME NEW s \in Server, SpuriousWakeFinish(s)
       PROVE  TypeOK'
  BY <1>16 DEF SpuriousWakeFinish, handlerVars, slotVars
<1>17. CASE UNCHANGED vars
  BY <1>17 DEF vars, handlerVars, queueVars, slotVars
<1>18. QED
  BY <1>1, <1>2, <1>3, <1>4, <1>5, <1>6, <1>7, <1>8, <1>9, <1>10, <1>11,
     <1>12, <1>13, <1>14, <1>15, <1>16, <1>17
  DEF Next, Handler, Queue, Quiescent

\* notify_one wakes a handler that waits and moves no other.
LEMMA StoreWakes ==
  ASSUME TypeOK, NEW s \in Server, StoreShare(s), NEW t \in Server, NEW p \in Query
  PROVE  pc'[t][p] = pc[t][p] \/ (pc[t][p] = "waiting" /\ pc'[t][p] = "woken")
<1>1. CASE \E q \in Query : pc[s][q] = "waiting" /\ pc' = [pc EXCEPT ![s][q] = "woken"]
  BY <1>1 DEF TypeOK
<1>2. CASE pc' = pc
  BY <1>2
<1>3. QED
  BY <1>1, <1>2 DEF StoreShare, MultCVNotify

\* The answer ends the call that it answers and no other.
LEMMA AnswerReturns ==
  ASSUME TypeOK, QueueInv, NEW s \in Server, AnswerMult(s), NEW t \in Server, NEW p \in Query
  PROVE  IF pc[t][p] = "calling" /\ cqReq[s] = ShareOf(t, p, round[t][p])
         THEN pc'[t][p] = "called"
         ELSE pc'[t][p] = pc[t][p]
<1>1. cqReq[s] \in Share /\ round[t][p] \in Nat
  BY DEF AnswerMult, QueueInv, TypeOK
<1>2. cqReq[s] = ShareOf(t, p, round[t][p])
        <=> cqReq[s].from = t /\ cqReq[s].query = p /\ cqReq[s].round = round[t][p]
  BY <1>1 DEF Share, ShareOf
<1>3. QED
  <2>1. cqReq[s].from \in Server /\ cqReq[s].query \in Query
    BY <1>1 DEF Share
  <2>2. QED
    BY <1>2, <2>1 DEF AnswerMult, TypeOK

\* The lock is handed over only when it is free.
LEMMA LockNext == TypeOK /\ LockInv /\ QueueInv /\ [Next]_vars => LockInv'
<1> SUFFICES ASSUME TypeOK, LockInv, QueueInv, [Next]_vars
             PROVE  LockInv'
  OBVIOUS
<1>14. ASSUME NEW s \in Server, StoreShare(s)
       PROVE  LockInv'
  <2>1. \A t \in Server, p \in Query :
           pc'[t][p] \in {"locked", "taken"} <=> pc[t][p] \in {"locked", "taken"}
    BY <1>14, StoreWakes
  <2>2. /\ cqpc[s] = "locked" /\ cqpc'[s] = "finish" /\ multLock'[s] = NULL
        /\ \A t \in Server : t # s => cqpc'[t] = cqpc[t] /\ multLock'[t] = multLock[t]
    BY <1>14 DEF StoreShare, TypeOK
  <2>3. QED
    BY <2>1, <2>2, ConstantsAssumption DEF LockInv
<1>15. ASSUME NEW s \in Server, AnswerMult(s)
       PROVE  LockInv'
  <2>1. \A t \in Server, p \in Query :
           pc'[t][p] \in {"locked", "taken"} <=> pc[t][p] \in {"locked", "taken"}
    BY <1>15, AnswerReturns
  <2>2. /\ cqpc[s] = "finish" /\ cqpc'[s] = "next" /\ multLock' = multLock
        /\ \A t \in Server : t # s => cqpc'[t] = cqpc[t]
    BY <1>15 DEF AnswerMult, slotVars, TypeOK
  <2>3. QED
    BY <2>1, <2>2, ConstantsAssumption DEF LockInv
<1> USE ConstantsAssumption DEF TypeOK, LockInv, HandlerPc, QueuePc
<1>1. ASSUME NEW q \in Query, ClientSends(q)
      PROVE  LockInv'
  BY <1>1 DEF ClientSends, handlerVars, queueVars, slotVars
<1>2. ASSUME NEW s \in Server, NEW q \in Query, SendAggQuery(s, q)
      PROVE  LockInv'
  BY <1>2 DEF SendAggQuery, queueVars, slotVars
<1>3. ASSUME NEW s \in Server, NEW q \in Query, SendMult(s, q)
      PROVE  LockInv'
  BY <1>3 DEF SendMult, queueVars, slotVars
<1>4. ASSUME NEW s \in Server, NEW q \in Query, SendMultFails(s, q)
      PROVE  LockInv'
  BY <1>4 DEF SendMultFails, queueVars, slotVars
<1>5. ASSUME NEW s \in Server, NEW q \in Query, LockMult(s, q)
      PROVE  LockInv'
  BY <1>5 DEF LockMult
<1>6. ASSUME NEW s \in Server, NEW q \in Query, WaitMult(s, q)
      PROVE  LockInv'
  BY <1>6 DEF WaitMult, queueVars
<1>7. ASSUME NEW s \in Server, NEW q \in Query, TakeShare(s, q)
      PROVE  LockInv'
  BY <1>7 DEF TakeShare, EmptySlot, OrderCVNotify
<1>8. ASSUME NEW s \in Server, NEW q \in Query, LeaveRound(s, q)
      PROVE  LockInv'
  BY <1>8 DEF LeaveRound, queueVars
<1>9. ASSUME NEW s \in Server, NEW q \in Query, SpuriousWakeMult(s, q)
      PROVE  LockInv'
  BY <1>9 DEF SpuriousWakeMult, queueVars, slotVars
<1>10. ASSUME NEW s \in Server, MatchMult(s)
       PROVE  LockInv'
  BY <1>10 DEF MatchMult, handlerVars, slotVars
<1>11. ASSUME NEW s \in Server, ProceedMult(s)
       PROVE  LockInv'
  BY <1>11 DEF ProceedMult, PostCallData, handlerVars, slotVars
<1>12. ASSUME NEW s \in Server, LockFinish(s)
       PROVE  LockInv'
  BY <1>12 DEF LockFinish, handlerVars
<1>13. ASSUME NEW s \in Server, WaitFinish(s)
       PROVE  LockInv'
  BY <1>13 DEF WaitFinish, handlerVars
<1>16. ASSUME NEW s \in Server, SpuriousWakeFinish(s)
       PROVE  LockInv'
  BY <1>16 DEF SpuriousWakeFinish, handlerVars, slotVars
<1>17. CASE UNCHANGED vars
  BY <1>17 DEF vars, handlerVars, queueVars, slotVars
<1>18. QED
  BY <1>1, <1>2, <1>3, <1>4, <1>5, <1>6, <1>7, <1>8, <1>9, <1>10, <1>11,
     <1>12, <1>13, <1>14, <1>15, <1>16, <1>17
  DEF Next, Handler, Queue, Quiescent

\* The queue's thread takes a request before it leaves cq->Next.
LEMMA QueueNext == TypeOK /\ QueueInv /\ [Next]_vars => QueueInv'
<1> SUFFICES ASSUME TypeOK, QueueInv, [Next]_vars
             PROVE  QueueInv'
  OBVIOUS
<1> USE DEF TypeOK, QueueInv, QueuePc
<1>1. ASSUME NEW q \in Query, ClientSends(q)
      PROVE  QueueInv'
  BY <1>1 DEF ClientSends, handlerVars, queueVars, slotVars
<1>2. ASSUME NEW s \in Server, NEW q \in Query, SendAggQuery(s, q)
      PROVE  QueueInv'
  BY <1>2 DEF SendAggQuery, queueVars, slotVars
<1>3. ASSUME NEW s \in Server, NEW q \in Query, SendMult(s, q)
      PROVE  QueueInv'
  BY <1>3 DEF SendMult, queueVars, slotVars
<1>4. ASSUME NEW s \in Server, NEW q \in Query, SendMultFails(s, q)
      PROVE  QueueInv'
  BY <1>4 DEF SendMultFails, queueVars, slotVars
<1>5. ASSUME NEW s \in Server, NEW q \in Query, LockMult(s, q)
      PROVE  QueueInv'
  BY <1>5 DEF LockMult
<1>6. ASSUME NEW s \in Server, NEW q \in Query, WaitMult(s, q)
      PROVE  QueueInv'
  BY <1>6 DEF WaitMult, queueVars
<1>7. ASSUME NEW s \in Server, NEW q \in Query, TakeShare(s, q)
      PROVE  QueueInv'
  BY <1>7 DEF TakeShare, EmptySlot, OrderCVNotify, ShareArrived, SlotFull
<1>8. ASSUME NEW s \in Server, NEW q \in Query, LeaveRound(s, q)
      PROVE  QueueInv'
  BY <1>8 DEF LeaveRound, queueVars
<1>9. ASSUME NEW s \in Server, NEW q \in Query, SpuriousWakeMult(s, q)
      PROVE  QueueInv'
  BY <1>9 DEF SpuriousWakeMult, queueVars, slotVars
<1>10. ASSUME NEW s \in Server, MatchMult(s)
       PROVE  QueueInv'
  BY <1>10 DEF MatchMult, handlerVars, slotVars
<1>11. ASSUME NEW s \in Server, ProceedMult(s)
       PROVE  QueueInv'
  BY <1>11 DEF ProceedMult, PostCallData, handlerVars, slotVars
<1>12. ASSUME NEW s \in Server, LockFinish(s)
       PROVE  QueueInv'
  BY <1>12 DEF LockFinish, handlerVars
<1>13. ASSUME NEW s \in Server, WaitFinish(s)
       PROVE  QueueInv'
  BY <1>13 DEF WaitFinish, handlerVars
<1>14. ASSUME NEW s \in Server, StoreShare(s)
       PROVE  QueueInv'
  BY <1>14 DEF StoreShare, MultCVNotify
<1>15. ASSUME NEW s \in Server, AnswerMult(s)
       PROVE  QueueInv'
  BY <1>15 DEF AnswerMult, slotVars
<1>16. ASSUME NEW s \in Server, SpuriousWakeFinish(s)
       PROVE  QueueInv'
  BY <1>16 DEF SpuriousWakeFinish, handlerVars, slotVars
<1>17. CASE UNCHANGED vars
  BY <1>17 DEF vars, handlerVars, queueVars, slotVars
<1>18. QED
  BY <1>1, <1>2, <1>3, <1>4, <1>5, <1>6, <1>7, <1>8, <1>9, <1>10, <1>11,
     <1>12, <1>13, <1>14, <1>15, <1>16, <1>17
  DEF Next, Handler, Queue, Quiescent
-----------------------------------------------------------------------------
(* The theorems.                                                           *)

IInv == TypeOK /\ LockInv /\ QueueInv

\* The inductive invariant holds in every reachable state: in particular at
\* most one thread of a server is between acquiring and releasing multLock.
THEOREM Invariance == Spec => []IInv
<1>1. Init => IInv
  <2>1. Init => LockInv
    BY ConstantsAssumption DEF Init, LockInv
  <2>2. Init => QueueInv
    BY DEF Init, QueueInv
  <2>3. QED
    BY <2>1, <2>2, TypeInit DEF IInv
<1>2. IInv /\ [Next]_vars => IInv'
  BY TypeNext, LockNext, QueueNext DEF IInv
<1>3. QED
  BY <1>1, <1>2, PTL DEF Spec

\* The variables of MultExchange keep their types.
THEOREM TypeCorrect == Spec => []TypeOK
<1>1. IInv => TypeOK
  BY DEF IInv
<1>2. QED
  BY <1>1, Invariance, PTL

\* FinishMultiply never stores over a share that was not taken, and a share in
\* the slot never turns into another one.
THEOREM Handoff == Spec => SlotHandoff
<1>1. IInv /\ [Next]_vars => [HandoffStep]_vars
  <2> SUFFICES ASSUME IInv, [Next]_vars
               PROVE  HandoffStep
    OBVIOUS
  <2> USE DEF IInv, TypeOK, QueueInv, HandoffStep, SlotFull
  <2>1. ASSUME NEW q \in Query, ClientSends(q)
        PROVE  HandoffStep
    BY <2>1 DEF ClientSends, handlerVars, queueVars, slotVars
  <2>2. ASSUME NEW s \in Server, NEW q \in Query, SendAggQuery(s, q)
        PROVE  HandoffStep
    BY <2>2 DEF SendAggQuery, queueVars, slotVars
  <2>3. ASSUME NEW s \in Server, NEW q \in Query, SendMult(s, q)
        PROVE  HandoffStep
    BY <2>3 DEF SendMult, queueVars, slotVars
  <2>4. ASSUME NEW s \in Server, NEW q \in Query, SendMultFails(s, q)
        PROVE  HandoffStep
    BY <2>4 DEF SendMultFails, queueVars, slotVars
  <2>5. ASSUME NEW s \in Server, NEW q \in Query, LockMult(s, q)
        PROVE  HandoffStep
    BY <2>5 DEF LockMult
  <2>6. ASSUME NEW s \in Server, NEW q \in Query, WaitMult(s, q)
        PROVE  HandoffStep
    BY <2>6 DEF WaitMult, queueVars
  <2>7. ASSUME NEW s \in Server, NEW q \in Query, TakeShare(s, q)
        PROVE  HandoffStep
    BY <2>7 DEF TakeShare, EmptySlot, OrderCVNotify
  <2>8. ASSUME NEW s \in Server, NEW q \in Query, LeaveRound(s, q)
        PROVE  HandoffStep
    BY <2>8 DEF LeaveRound, queueVars
  <2>9. ASSUME NEW s \in Server, NEW q \in Query, SpuriousWakeMult(s, q)
        PROVE  HandoffStep
    BY <2>9 DEF SpuriousWakeMult, queueVars, slotVars
  <2>10. ASSUME NEW s \in Server, MatchMult(s)
         PROVE  HandoffStep
    BY <2>10 DEF MatchMult, handlerVars, slotVars
  <2>11. ASSUME NEW s \in Server, ProceedMult(s)
         PROVE  HandoffStep
    BY <2>11 DEF ProceedMult, PostCallData, handlerVars, slotVars
  <2>12. ASSUME NEW s \in Server, LockFinish(s)
         PROVE  HandoffStep
    BY <2>12 DEF LockFinish, handlerVars
  <2>13. ASSUME NEW s \in Server, WaitFinish(s)
         PROVE  HandoffStep
    BY <2>13 DEF WaitFinish, handlerVars
  <2>14. ASSUME NEW s \in Server, StoreShare(s)
         PROVE  HandoffStep
    BY <2>14, ConstantsAssumption DEF StoreShare, SlotOccupied
  <2>15. ASSUME NEW s \in Server, AnswerMult(s)
         PROVE  HandoffStep
    BY <2>15 DEF AnswerMult, slotVars
  <2>16. ASSUME NEW s \in Server, SpuriousWakeFinish(s)
         PROVE  HandoffStep
    BY <2>16 DEF SpuriousWakeFinish, handlerVars, slotVars
  <2>17. CASE UNCHANGED vars
    BY <2>17 DEF vars, handlerVars, queueVars, slotVars
  <2>18. QED
    BY <2>1, <2>2, <2>3, <2>4, <2>5, <2>6, <2>7, <2>8, <2>9, <2>10,
       <2>11, <2>12, <2>13, <2>14, <2>15, <2>16, <2>17
    DEF Next, Handler, Queue, Quiescent
<1>2. QED
  BY <1>1, Invariance, PTL DEF Spec, SlotHandoff

\* One notify_one per store and per take is enough, also with several handlers
\* and spurious wake-ups: no thread sleeps on a condition that holds.
THEOREM Wakeup == Spec => []NoLostWakeup
<1>1. Init => NoLostWakeup
  BY DEF Init, NoLostWakeup, HandlerWakes, QueueWakes, SlotFull
<1>2. IInv /\ NoLostWakeup /\ [Next]_vars
         => \A t \in Server : QueueWakes(t)'
  <2> SUFFICES ASSUME IInv, NoLostWakeup, [Next]_vars, NEW t \in Server
               PROVE  QueueWakes(t)'
    OBVIOUS
  <2> USE ConstantsAssumption
      DEF IInv, TypeOK, LockInv, QueueInv, NoLostWakeup, QueueWakes, SlotFull,
          QueuePc
  <2>1. ASSUME NEW q \in Query, ClientSends(q)
        PROVE  QueueWakes(t)'
    BY <2>1 DEF ClientSends, handlerVars, queueVars, slotVars
  <2>2. ASSUME NEW s \in Server, NEW q \in Query, SendAggQuery(s, q)
        PROVE  QueueWakes(t)'
    BY <2>2 DEF SendAggQuery, queueVars, slotVars
  <2>3. ASSUME NEW s \in Server, NEW q \in Query, SendMult(s, q)
        PROVE  QueueWakes(t)'
    BY <2>3 DEF SendMult, queueVars, slotVars
  <2>4. ASSUME NEW s \in Server, NEW q \in Query, SendMultFails(s, q)
        PROVE  QueueWakes(t)'
    BY <2>4 DEF SendMultFails, queueVars, slotVars
  <2>5. ASSUME NEW s \in Server, NEW q \in Query, LockMult(s, q)
        PROVE  QueueWakes(t)'
    BY <2>5 DEF LockMult
  <2>6. ASSUME NEW s \in Server, NEW q \in Query, WaitMult(s, q)
        PROVE  QueueWakes(t)'
    BY <2>6 DEF WaitMult, queueVars, ShareArrived
  <2>7. ASSUME NEW s \in Server, NEW q \in Query, TakeShare(s, q)
        PROVE  QueueWakes(t)'
    BY <2>7 DEF TakeShare, EmptySlot, OrderCVNotify, ShareArrived
  <2>8. ASSUME NEW s \in Server, NEW q \in Query, LeaveRound(s, q)
        PROVE  QueueWakes(t)'
    BY <2>8 DEF LeaveRound, queueVars
  <2>9. ASSUME NEW s \in Server, NEW q \in Query, SpuriousWakeMult(s, q)
        PROVE  QueueWakes(t)'
    BY <2>9 DEF SpuriousWakeMult, queueVars, slotVars
  <2>10. ASSUME NEW s \in Server, MatchMult(s)
         PROVE  QueueWakes(t)'
    BY <2>10 DEF MatchMult, handlerVars, slotVars
  <2>11. ASSUME NEW s \in Server, ProceedMult(s)
         PROVE  QueueWakes(t)'
    BY <2>11 DEF ProceedMult, PostCallData, handlerVars, slotVars
  <2>12. ASSUME NEW s \in Server, LockFinish(s)
         PROVE  QueueWakes(t)'
    BY <2>12 DEF LockFinish, handlerVars
  <2>13. ASSUME NEW s \in Server, WaitFinish(s)
         PROVE  QueueWakes(t)'
    BY <2>13 DEF WaitFinish, handlerVars, SlotOccupied
  <2>14. ASSUME NEW s \in Server, StoreShare(s)
         PROVE  QueueWakes(t)'
    BY <2>14 DEF StoreShare, MultCVNotify, SlotOccupied
  <2>15. ASSUME NEW s \in Server, AnswerMult(s)
         PROVE  QueueWakes(t)'
    BY <2>15 DEF AnswerMult, slotVars
  <2>16. ASSUME NEW s \in Server, SpuriousWakeFinish(s)
         PROVE  QueueWakes(t)'
    BY <2>16 DEF SpuriousWakeFinish, handlerVars, slotVars
  <2>17. CASE UNCHANGED vars
    BY <2>17 DEF vars, handlerVars, queueVars, slotVars
  <2>18. QED
    BY <2>1, <2>2, <2>3, <2>4, <2>5, <2>6, <2>7, <2>8, <2>9, <2>10,
       <2>11, <2>12, <2>13, <2>14, <2>15, <2>16, <2>17
    DEF Next, Handler, Queue, Quiescent
<1>3. IInv /\ NoLostWakeup /\ [Next]_vars
         => \A t \in Server : HandlerWakes(t)'
  <2> SUFFICES ASSUME IInv, NoLostWakeup, [Next]_vars,
                      NEW t \in Server, SlotFull(t)',
                      NEW w \in Query, pc'[t][w] = "waiting"
               PROVE  \E p \in Query : pc'[t][p] \in {"woken", "locked"}
    BY DEF HandlerWakes
  <2> USE ConstantsAssumption
      DEF IInv, TypeOK, LockInv, QueueInv, NoLostWakeup, SlotFull, HandlerPc
  <2> DEFINE Awake == {"woken", "locked"}
             Stays == /\ SlotFull(t) /\ pc[t][w] = "waiting"
                      /\ \A p \in Query : pc[t][p] \in Awake => pc'[t][p] \in Awake
  <2>0. Stays => \E p \in Query : pc'[t][p] \in {"woken", "locked"}
    BY DEF HandlerWakes
  <2>1. ASSUME NEW q \in Query, ClientSends(q)
        PROVE  \E p \in Query : pc'[t][p] \in {"woken", "locked"}
    <3>1. Stays
      BY <2>1 DEF ClientSends, handlerVars, queueVars, slotVars
    <3>2. QED
      BY <2>0, <3>1
  <2>2. ASSUME NEW s \in Server, NEW q \in Query, SendAggQuery(s, q)
        PROVE  \E p \in Query : pc'[t][p] \in {"woken", "locked"}
    <3>1. Stays
      BY <2>2 DEF SendAggQuery, queueVars, slotVars
    <3>2. QED
      BY <2>0, <3>1
  <2>3. ASSUME NEW s \in Server, NEW q \in Query, SendMult(s, q)
        PROVE  \E p \in Query : pc'[t][p] \in {"woken", "locked"}
    <3>1. Stays
      BY <2>3 DEF SendMult, queueVars, slotVars
    <3>2. QED
      BY <2>0, <3>1
  <2>4. ASSUME NEW s \in Server, NEW q \in Query, SendMultFails(s, q)
        PROVE  \E p \in Query : pc'[t][p] \in {"woken", "locked"}
    <3>1. Stays
      BY <2>4 DEF SendMultFails, queueVars, slotVars
    <3>2. QED
      BY <2>0, <3>1
  <2>5. ASSUME NEW s \in Server, NEW q \in Query, LockMult(s, q)
        PROVE  \E p \in Query : pc'[t][p] \in {"woken", "locked"}
    <3>1. Stays
      BY <2>5 DEF LockMult
    <3>2. QED
      BY <2>0, <3>1
  <2>6. ASSUME NEW s \in Server, NEW q \in Query, WaitMult(s, q)
        PROVE  \E p \in Query : pc'[t][p] \in {"woken", "locked"}
    <3>1. Stays
      BY <2>6 DEF WaitMult, queueVars, ShareArrived
    <3>2. QED
      BY <2>0, <3>1
  <2>7. ASSUME NEW s \in Server, NEW q \in Query, TakeShare(s, q)
        PROVE  \E p \in Query : pc'[t][p] \in {"woken", "locked"}
    <3>1. Stays
      BY <2>7 DEF TakeShare, EmptySlot, OrderCVNotify, ShareArrived
    <3>2. QED
      BY <2>0, <3>1
  <2>8. ASSUME NEW s \in Server, NEW q \in Query, LeaveRound(s, q)
        PROVE  \E p \in Query : pc'[t][p] \in {"woken", "locked"}
    <3>1. Stays
      BY <2>8 DEF LeaveRound, queueVars
    <3>2. QED
      BY <2>0, <3>1
  <2>9. ASSUME NEW s \in Server, NEW q \in Query, SpuriousWakeMult(s, q)
        PROVE  \E p \in Query : pc'[t][p] \in {"woken", "locked"}
    <3>1. Stays
      BY <2>9 DEF SpuriousWakeMult, queueVars, slotVars
    <3>2. QED
      BY <2>0, <3>1
  <2>10. ASSUME NEW s \in Server, MatchMult(s)
         PROVE  \E p \in Query : pc'[t][p] \in {"woken", "locked"}
    <3>1. Stays
      BY <2>10 DEF MatchMult, handlerVars, slotVars
    <3>2. QED
      BY <2>0, <3>1
  <2>11. ASSUME NEW s \in Server, ProceedMult(s)
         PROVE  \E p \in Query : pc'[t][p] \in {"woken", "locked"}
    <3>1. Stays
      BY <2>11 DEF ProceedMult, PostCallData, handlerVars, slotVars
    <3>2. QED
      BY <2>0, <3>1
  <2>12. ASSUME NEW s \in Server, LockFinish(s)
         PROVE  \E p \in Query : pc'[t][p] \in {"woken", "locked"}
    <3>1. Stays
      BY <2>12 DEF LockFinish, handlerVars
    <3>2. QED
      BY <2>0, <3>1
  <2>13. ASSUME NEW s \in Server, WaitFinish(s)
         PROVE  \E p \in Query : pc'[t][p] \in {"woken", "locked"}
    <3>1. Stays
      BY <2>13 DEF WaitFinish, handlerVars, SlotOccupied
    <3>2. QED
      BY <2>0, <3>1
  <2>14. ASSUME NEW s \in Server, StoreShare(s)
         PROVE  \E p \in Query : pc'[t][p] \in {"woken", "locked"}
    <3>1. CASE s = t
      <4>1. PICK p \in Query : pc' = [pc EXCEPT ![s][p] = "woken"]
        BY <2>14, <3>1 DEF StoreShare, MultCVNotify
      <4>2. pc'[t][p] = "woken"
        BY <3>1, <4>1
      <4>3. QED
        BY <4>2
    <3>2. CASE s # t
      <4>1. Stays
        BY <2>14, <3>2 DEF StoreShare, MultCVNotify
      <4>2. QED
        BY <2>0, <4>1
    <3>3. QED
      BY <3>1, <3>2
  <2>15. ASSUME NEW s \in Server, AnswerMult(s)
         PROVE  \E p \in Query : pc'[t][p] \in {"woken", "locked"}
    <3>1. Stays
      <4>1. cqReq[s].from \in Server /\ cqReq[s].query \in Query
        BY <2>15 DEF AnswerMult, Share
      <4>2. PICK a \in Server, b \in Query :
              pc' = pc \/ (pc[a][b] = "calling" /\ pc' = [pc EXCEPT ![a][b] = "called"])
        BY <2>15, <4>1 DEF AnswerMult
      <4>3. multReceivedShares' = multReceivedShares
        BY <2>15 DEF AnswerMult, slotVars
      <4>4. CASE pc' = pc
        BY <4>3, <4>4
      <4>5. CASE pc[a][b] = "calling" /\ pc' = [pc EXCEPT ![a][b] = "called"]
        <5>1. \A p \in Query :
                \/ pc'[t][p] = pc[t][p]
                \/ (pc[t][p] = "calling" /\ pc'[t][p] = "called")
          BY <4>5
        <5>2. QED
          BY <4>3, <5>1
      <4>6. QED
        BY <4>2, <4>4, <4>5
    <3>2. QED
      BY <2>0, <3>1
  <2>16. ASSUME NEW s \in Server, SpuriousWakeFinish(s)
         PROVE  \E p \in Query : pc'[t][p] \in {"woken", "locked"}
    <3>1. Stays
      BY <2>16 DEF SpuriousWakeFinish, handlerVars, slotVars
    <3>2. QED
      BY <2>0, <3>1
  <2>17. CASE UNCHANGED vars
    BY <2>0, <2>17 DEF vars, handlerVars, queueVars, slotVars
  <2>18. QED
    BY <2>1, <2>2, <2>3, <2>4, <2>5, <2>6, <2>7, <2>8, <2>9, <2>10,
       <2>11, <2>12, <2>13, <2>14, <2>15, <2>16, <2>17
    DEF Next, Handler, Queue, Quiescent
<1>4. IInv /\ NoLostWakeup /\ [Next]_vars => NoLostWakeup'
  BY <1>2, <1>3 DEF NoLostWakeup
<1>5. QED
  BY <1>1, <1>4, Invariance, PTL DEF Spec

\* A server can always receive another SendMult.
THEOREM Reachable == Spec => []ServerReachable
<1>1. Init => ServerReachable
  BY DEF Init, ServerReachable
<1>2. IInv /\ ServerReachable /\ [Next]_vars => ServerReachable'
  <2> SUFFICES ASSUME IInv, ServerReachable, [Next]_vars
               PROVE  ServerReachable'
    OBVIOUS
  <2> USE DEF IInv, TypeOK, ServerReachable
  <2>1. ASSUME NEW q \in Query, ClientSends(q)
        PROVE  ServerReachable'
    BY <2>1 DEF ClientSends, handlerVars, queueVars, slotVars
  <2>2. ASSUME NEW s \in Server, NEW q \in Query, SendAggQuery(s, q)
        PROVE  ServerReachable'
    BY <2>2 DEF SendAggQuery, queueVars, slotVars
  <2>3. ASSUME NEW s \in Server, NEW q \in Query, SendMult(s, q)
        PROVE  ServerReachable'
    BY <2>3 DEF SendMult, queueVars, slotVars
  <2>4. ASSUME NEW s \in Server, NEW q \in Query, SendMultFails(s, q)
        PROVE  ServerReachable'
    BY <2>4 DEF SendMultFails, queueVars, slotVars
  <2>5. ASSUME NEW s \in Server, NEW q \in Query, LockMult(s, q)
        PROVE  ServerReachable'
    BY <2>5 DEF LockMult
  <2>6. ASSUME NEW s \in Server, NEW q \in Query, WaitMult(s, q)
        PROVE  ServerReachable'
    BY <2>6 DEF WaitMult, queueVars
  <2>7. ASSUME NEW s \in Server, NEW q \in Query, TakeShare(s, q)
        PROVE  ServerReachable'
    BY <2>7 DEF TakeShare, EmptySlot, OrderCVNotify
  <2>8. ASSUME NEW s \in Server, NEW q \in Query, LeaveRound(s, q)
        PROVE  ServerReachable'
    BY <2>8 DEF LeaveRound, queueVars
  <2>9. ASSUME NEW s \in Server, NEW q \in Query, SpuriousWakeMult(s, q)
        PROVE  ServerReachable'
    BY <2>9 DEF SpuriousWakeMult, queueVars, slotVars
  <2>10. ASSUME NEW s \in Server, MatchMult(s)
         PROVE  ServerReachable'
    <3>1. PICK r \in net[s] : matched' = [matched EXCEPT ![s] = @ \cup {r}]
      BY <2>10 DEF MatchMult
    <3>2. matched'[s] # {}
      BY <3>1
    <3>3. \A t \in Server \ {s} : matched'[t] = matched[t] /\ posted'[t] = posted[t]
      BY <2>10, <3>1 DEF MatchMult
    <3>4. QED
      BY <3>2, <3>3
  <2>11. ASSUME NEW s \in Server, ProceedMult(s)
         PROVE  ServerReachable'
    BY <2>11 DEF ProceedMult, PostCallData, handlerVars, slotVars
  <2>12. ASSUME NEW s \in Server, LockFinish(s)
         PROVE  ServerReachable'
    BY <2>12 DEF LockFinish, handlerVars
  <2>13. ASSUME NEW s \in Server, WaitFinish(s)
         PROVE  ServerReachable'
    BY <2>13 DEF WaitFinish, handlerVars
  <2>14. ASSUME NEW s \in Server, StoreShare(s)
         PROVE  ServerReachable'
    BY <2>14 DEF StoreShare, MultCVNotify
  <2>15. ASSUME NEW s \in Server, AnswerMult(s)
         PROVE  ServerReachable'
    BY <2>15 DEF AnswerMult, slotVars
  <2>16. ASSUME NEW s \in Server, SpuriousWakeFinish(s)
         PROVE  ServerReachable'
    BY <2>16 DEF SpuriousWakeFinish, handlerVars, slotVars
  <2>17. CASE UNCHANGED vars
    BY <2>17 DEF vars, handlerVars, queueVars, slotVars
  <2>18. QED
    BY <2>1, <2>2, <2>3, <2>4, <2>5, <2>6, <2>7, <2>8, <2>9, <2>10,
       <2>11, <2>12, <2>13, <2>14, <2>15, <2>16, <2>17
    DEF Next, Handler, Queue, Quiescent
<1>3. QED
  BY <1>1, <1>2, Invariance, PTL DEF Spec

-----------------------------------------------------------------------------
(* Where a share is: the invariants behind ShareNeverDuplicated and        *)
(* ShareInOnePlace.                                                        *)

\* Share m has been copied out of the slot of s by the handler of q.
TakenBy(s, q, m) == \E i \in DOMAIN res0[s][q] : res0[s][q][i] = m

Queued(s, m) == Handling(s) /\ cqReq[s] = m

Slotted(s, m) == multReceivedShares[s] = m

\* Share m is on its way to s, or has arrived there.
At(s, m) ==
  \/ m \in net[s] \/ m \in matched[s] \/ Queued(s, m) \/ Slotted(s, m)
  \/ \E q \in Query : TakenBy(s, q, m)

\* A share is at most in one place, and at one handler.
OnePlace(s, m) ==
  /\ m \in net[s] =>
       m \notin matched[s] /\ ~Queued(s, m) /\ ~Slotted(s, m)
  /\ m \in matched[s] => ~Queued(s, m) /\ ~Slotted(s, m)
  /\ Queued(s, m) => ~Slotted(s, m)
  /\ m \in net[s] \/ m \in matched[s] \/ Queued(s, m) \/ Slotted(s, m)
       => \A q \in Query : ~TakenBy(s, q, m)
  /\ \A p, q \in Query : TakenBy(s, p, m) /\ TakenBy(s, q, m) => p = q

\* Only shares that were given are anywhere, and only at the giver's successor.
OnlyGiven(s, m) ==
  At(s, m) => s = Succ(m.from) /\ m.round < Given(m.from, m.query)

PlaceInv == \A s \in Server, m \in Share : OnePlace(s, m) /\ OnlyGiven(s, m)

\* No share that was given is lost.
NoneLost ==
  \A s \in Server, q \in Query, r \in Nat :
     r < Given(s, q) => At(Succ(s), ShareOf(s, q, r))

\* The number of calls a handler has made is a natural number.
LEMMA GivenIsNat ==
  /\ TypeOK => \A s \in Server, q \in Query : Given(s, q) \in Nat
  /\ TypeOK' => \A s \in Server, q \in Query : Given(s, q)' \in Nat
<1>1. TypeOK => \A s \in Server, q \in Query : Given(s, q) \in Nat
  BY DEF TypeOK, Given
<1>2. TypeOK' => \A s \in Server, q \in Query : Given(s, q)' \in Nat
  BY DEF TypeOK, Given
<1>3. QED
  BY <1>1, <1>2

\* What is in a sequence of shares after Append.
LEMMA InAppend ==
  ASSUME NEW sq \in Seq(Share), NEW x \in Share, NEW longer, longer = Append(sq, x), NEW m
  PROVE  (\E i \in DOMAIN longer : longer[i] = m) <=> (\E i \in DOMAIN sq : sq[i] = m) \/ m = x
<1>1. /\ DOMAIN longer = 1 .. Len(sq) + 1
      /\ DOMAIN sq = 1 .. Len(sq)
      /\ Len(sq) \in Nat
      /\ \A i \in 1 .. Len(sq) : longer[i] = sq[i]
      /\ longer[Len(sq) + 1] = x
  OBVIOUS
<1>2. QED
  BY <1>1

\* A handler's number of calls changes only when it makes one.
LEMMA GivenStep ==
  TypeOK /\ QueueInv /\ [Next]_vars
    => \A s \in Server, q \in Query :
         \/ Given(s, q)' = Given(s, q)
         \/ SendMult(s, q) /\ Given(s, q)' = Given(s, q) + 1
<1> SUFFICES ASSUME TypeOK, QueueInv, [Next]_vars, NEW t \in Server, NEW p \in Query
             PROVE  \/ Given(t, p)' = Given(t, p)
                    \/ SendMult(t, p) /\ Given(t, p)' = Given(t, p) + 1
  OBVIOUS
<1> USE DEF TypeOK, HandlerPc, Given
<1>1. ASSUME NEW q \in Query, ClientSends(q)
      PROVE  \/ Given(t, p)' = Given(t, p)
             \/ SendMult(t, p) /\ Given(t, p)' = Given(t, p) + 1
  BY <1>1 DEF ClientSends, handlerVars
<1>2. ASSUME NEW s \in Server, NEW q \in Query, SendAggQuery(s, q)
      PROVE  \/ Given(t, p)' = Given(t, p)
             \/ SendMult(t, p) /\ Given(t, p)' = Given(t, p) + 1
  BY <1>2 DEF SendAggQuery
<1>3. ASSUME NEW s \in Server, NEW q \in Query, SendMult(s, q)
      PROVE  \/ Given(t, p)' = Given(t, p)
             \/ SendMult(t, p) /\ Given(t, p)' = Given(t, p) + 1
  <2>1. CASE t = s /\ p = q
    BY <1>3, <2>1 DEF SendMult
  <2>2. CASE t # s \/ p # q
    BY <1>3, <2>2 DEF SendMult
  <2>3. QED
    BY <2>1, <2>2
<1>4. ASSUME NEW s \in Server, NEW q \in Query, SendMultFails(s, q)
      PROVE  \/ Given(t, p)' = Given(t, p)
             \/ SendMult(t, p) /\ Given(t, p)' = Given(t, p) + 1
  BY <1>4 DEF SendMultFails
<1>5. ASSUME NEW s \in Server, NEW q \in Query, LockMult(s, q)
      PROVE  \/ Given(t, p)' = Given(t, p)
             \/ SendMult(t, p) /\ Given(t, p)' = Given(t, p) + 1
  BY <1>5 DEF LockMult
<1>6. ASSUME NEW s \in Server, NEW q \in Query, WaitMult(s, q)
      PROVE  \/ Given(t, p)' = Given(t, p)
             \/ SendMult(t, p) /\ Given(t, p)' = Given(t, p) + 1
  BY <1>6 DEF WaitMult
<1>7. ASSUME NEW s \in Server, NEW q \in Query, TakeShare(s, q)
      PROVE  \/ Given(t, p)' = Given(t, p)
             \/ SendMult(t, p) /\ Given(t, p)' = Given(t, p) + 1
  BY <1>7 DEF TakeShare
<1>8. ASSUME NEW s \in Server, NEW q \in Query, LeaveRound(s, q)
      PROVE  \/ Given(t, p)' = Given(t, p)
             \/ SendMult(t, p) /\ Given(t, p)' = Given(t, p) + 1
  BY <1>8 DEF LeaveRound
<1>9. ASSUME NEW s \in Server, NEW q \in Query, SpuriousWakeMult(s, q)
      PROVE  \/ Given(t, p)' = Given(t, p)
             \/ SendMult(t, p) /\ Given(t, p)' = Given(t, p) + 1
  BY <1>9 DEF SpuriousWakeMult
<1>10. ASSUME NEW s \in Server, StoreShare(s)
       PROVE  \/ Given(t, p)' = Given(t, p)
              \/ SendMult(t, p) /\ Given(t, p)' = Given(t, p) + 1
  <2>1. Given(t, p)' = round[t][p] + (IF pc'[t][p] \in {"idle", "ready", "done"} THEN 0 ELSE 1)
    BY <1>10 DEF StoreShare
  <2>2. pc'[t][p] = pc[t][p] \/ (pc[t][p] = "waiting" /\ pc'[t][p] = "woken")
    <3>1. CASE \E q \in Query : pc[s][q] = "waiting" /\ pc' = [pc EXCEPT ![s][q] = "woken"]
      BY <3>1
    <3>2. CASE pc' = pc
      BY <3>2
    <3>3. QED
      BY <1>10, <3>1, <3>2 DEF StoreShare, MultCVNotify
  <2>3. QED
    BY <2>1, <2>2
<1>11. ASSUME NEW s \in Server, AnswerMult(s)
       PROVE  \/ Given(t, p)' = Given(t, p)
              \/ SendMult(t, p) /\ Given(t, p)' = Given(t, p) + 1
  <2>1. Given(t, p)' = round[t][p] + (IF pc'[t][p] \in {"idle", "ready", "done"} THEN 0 ELSE 1)
    BY <1>11 DEF AnswerMult
  <2>2. pc'[t][p] = pc[t][p] \/ (pc[t][p] = "calling" /\ pc'[t][p] = "called")
    BY <1>11 DEF AnswerMult, QueueInv, Share
  <2>3. QED
    BY <2>1, <2>2
<1>12. ASSUME UNCHANGED handlerVars
       PROVE  \/ Given(t, p)' = Given(t, p)
              \/ SendMult(t, p) /\ Given(t, p)' = Given(t, p) + 1
  BY <1>12 DEF handlerVars
<1>13. QED
  BY <1>1, <1>2, <1>3, <1>4, <1>5, <1>6, <1>7, <1>8, <1>9, <1>10, <1>11, <1>12
  DEF Next, Handler, Queue, Quiescent, MatchMult, ProceedMult, LockFinish,
      WaitFinish, SpuriousWakeFinish, vars

\* A handler never gives fewer shares than before.
LEMMA GivenGrows ==
  TypeOK /\ QueueInv /\ [Next]_vars
    => \A s \in Server, q \in Query : Given(s, q) <= Given(s, q)'
  BY GivenStep, GivenIsNat

\* A share that moves nowhere new, or disappears, keeps the invariant.
LEMMA PlacesKept ==
  ASSUME TypeOK, TypeOK', PlaceInv,
         \A s \in Server, q \in Query : Given(s, q) <= Given(s, q)',
         UNCHANGED <<res0, matched, multReceivedShares>>,
         \A s \in Server : net'[s] \subseteq net[s],
         \A s \in Server : Handling(s)' => Handling(s) /\ cqReq'[s] = cqReq[s]
  PROVE  PlaceInv'
<1> SUFFICES ASSUME NEW s \in Server, NEW m \in Share
             PROVE  OnePlace(s, m)' /\ OnlyGiven(s, m)'
  BY DEF PlaceInv
<1>1. OnePlace(s, m) /\ OnlyGiven(s, m)
  BY DEF PlaceInv
<1>2. /\ m \in net'[s] => m \in net[s]
      /\ m \in matched'[s] <=> m \in matched[s]
      /\ Queued(s, m)' => Queued(s, m)
      /\ Slotted(s, m)' <=> Slotted(s, m)
      /\ \A q \in Query : TakenBy(s, q, m)' <=> TakenBy(s, q, m)
  BY DEF Queued, Slotted, TakenBy
<1>3. OnePlace(s, m)'
  BY <1>1, <1>2 DEF OnePlace
<1>4. OnlyGiven(s, m)'
  <2>1. m.from \in Server /\ m.query \in Query /\ m.round \in Nat
    BY DEF Share
  <2>2. /\ Given(m.from, m.query) \in Nat /\ Given(m.from, m.query)' \in Nat
        /\ Given(m.from, m.query) <= Given(m.from, m.query)'
    BY <2>1, GivenIsNat
  <2>3. At(s, m)' => At(s, m)
    BY <1>2 DEF At
  <2>4. m.round < Given(m.from, m.query) => m.round < Given(m.from, m.query)'
    BY <2>1, <2>2
  <2>5. QED
    BY <1>1, <2>3, <2>4 DEF OnlyGiven, Succ
<1>5. QED
  BY <1>3, <1>4

\* A share at s moves from one place to the next, the others stay where they are.
LEMMA PlacesMoved ==
  ASSUME TypeOK, TypeOK', PlaceInv, NEW t \in Server, NEW x \in Share,
         \A s \in Server, q \in Query : Given(s, q) <= Given(s, q)',
         At(t, x), OnePlace(t, x)',
         \A s \in Server, m \in Share : (s # t \/ m # x) =>
            /\ m \in net'[s] <=> m \in net[s]
            /\ m \in matched'[s] <=> m \in matched[s]
            /\ Queued(s, m)' <=> Queued(s, m)
            /\ Slotted(s, m)' <=> Slotted(s, m)
            /\ \A q \in Query : TakenBy(s, q, m)' <=> TakenBy(s, q, m)
  PROVE  PlaceInv'
<1> SUFFICES ASSUME NEW s \in Server, NEW m \in Share
             PROVE  OnePlace(s, m)' /\ OnlyGiven(s, m)'
  BY DEF PlaceInv
<1>1. OnePlace(s, m) /\ OnlyGiven(s, m)
  BY DEF PlaceInv
<1>2. OnePlace(s, m)'
  BY <1>1 DEF OnePlace
<1>3. OnlyGiven(s, m)'
  <2>1. m.from \in Server /\ m.query \in Query /\ m.round \in Nat
    BY DEF Share
  <2>2. /\ Given(m.from, m.query) \in Nat /\ Given(m.from, m.query)' \in Nat
        /\ Given(m.from, m.query) <= Given(m.from, m.query)'
    BY <2>1, GivenIsNat
  <2>3. At(s, m)' => At(s, m)
    BY DEF At
  <2>4. m.round < Given(m.from, m.query) => m.round < Given(m.from, m.query)'
    BY <2>1, <2>2
  <2>5. QED
    BY <1>1, <2>3, <2>4 DEF OnlyGiven, Succ
<1>4. QED
  BY <1>2, <1>3

\* A step leaves every share in at most one place, at its receiver.
LEMMA PlaceNext ==
  TypeOK /\ QueueInv /\ PlaceInv /\ [Next]_vars => PlaceInv'
<1> SUFFICES ASSUME TypeOK, QueueInv, PlaceInv, [Next]_vars
             PROVE  PlaceInv'
  OBVIOUS
<1>a. TypeOK' /\ \A s \in Server, q \in Query : Given(s, q) <= Given(s, q)'
  BY TypeNext, GivenGrows
<1>1. ASSUME NEW q \in Query, ClientSends(q)
      PROVE  PlaceInv'
  BY <1>a, <1>1, PlacesKept
  DEF ClientSends, handlerVars, queueVars, slotVars, TypeOK, QueuePc, Handling
<1>2. ASSUME NEW s \in Server, NEW q \in Query, SendAggQuery(s, q)
      PROVE  PlaceInv'
  BY <1>a, <1>2, PlacesKept
  DEF SendAggQuery, queueVars, slotVars, TypeOK, QueuePc, Handling
<1>3. ASSUME NEW s \in Server, NEW q \in Query, SendMult(s, q)
      PROVE  PlaceInv'
  <2> DEFINE x == ShareOf(s, q, round[s][q])
  <2>1. /\ x \in Share /\ Succ(s) \in Server
        /\ x.from = s /\ x.query = q /\ x.round = round[s][q]
    BY SuccInServer, ShareOfIsShare DEF TypeOK, ShareOf
  <2>2. Given(s, q) = round[s][q] /\ Given(s, q)' = round[s][q] + 1 /\ round[s][q] \in Nat
    BY <1>3 DEF SendMult, Given, TypeOK
  <2>3. \A t \in Server : ~At(t, x)
    BY <2>1, <2>2 DEF PlaceInv, OnlyGiven
  <2>4. /\ net'[Succ(s)] = net[Succ(s)] \cup {x}
        /\ \A t \in Server : t # Succ(s) => net'[t] = net[t]
        /\ UNCHANGED <<matched, cqReq, cqpc, multReceivedShares, res0>>
    BY <1>3, <2>1 DEF SendMult, TypeOK, queueVars, slotVars
  <2>5. ASSUME NEW t \in Server, NEW m \in Share
        PROVE  OnePlace(t, m)' /\ OnlyGiven(t, m)'
    <3>1. OnePlace(t, m) /\ OnlyGiven(t, m)
      BY DEF PlaceInv
    <3> HIDE DEF x
    <3>2. /\ m \in net'[t] <=> m \in net[t] \/ (t = Succ(s) /\ m = x)
          /\ m \in matched'[t] <=> m \in matched[t]
          /\ Queued(t, m)' <=> Queued(t, m)
          /\ Slotted(t, m)' <=> Slotted(t, m)
          /\ \A p \in Query : TakenBy(t, p, m)' <=> TakenBy(t, p, m)
      BY <2>4 DEF Queued, Slotted, TakenBy, Handling
    <3>3. OnePlace(t, m)'
      BY <2>3, <3>1, <3>2 DEF OnePlace, At
    <3>4. At(t, m)' => At(t, m) \/ (t = Succ(s) /\ m = x)
      BY <3>2 DEF At
    <3>5. m.from \in Server /\ m.query \in Query /\ m.round \in Nat
      BY DEF Share
    <3>6. /\ Given(m.from, m.query) \in Nat /\ Given(m.from, m.query)' \in Nat
          /\ Given(m.from, m.query) <= Given(m.from, m.query)'
      BY <1>a, <3>5, GivenIsNat
    <3>7. CASE At(t, m)
      BY <3>1, <3>3, <3>5, <3>6, <3>7 DEF OnlyGiven, Succ
    <3>8. CASE t = Succ(s) /\ m = x
      BY <2>1, <2>2, <3>3, <3>8 DEF OnlyGiven, Succ
    <3>9. CASE ~At(t, m)'
      BY <3>3, <3>9 DEF OnlyGiven
    <3>10. QED
      BY <3>4, <3>7, <3>8, <3>9
  <2>6. QED
    BY <2>5 DEF PlaceInv
<1>4. ASSUME NEW s \in Server, NEW q \in Query, SendMultFails(s, q)
      PROVE  PlaceInv'
  <2>1. \A t \in Server : net'[t] \subseteq net[t]
    BY <1>4 DEF SendMultFails, TypeOK
  <2>2. QED
    BY <1>a, <1>4, <2>1, PlacesKept DEF SendMultFails, queueVars, slotVars, Handling
<1>5. ASSUME NEW s \in Server, NEW q \in Query, LockMult(s, q)
      PROVE  PlaceInv'
  BY <1>a, <1>5, PlacesKept
  DEF LockMult, TypeOK, QueuePc, Handling
<1>6. ASSUME NEW s \in Server, NEW q \in Query, WaitMult(s, q)
      PROVE  PlaceInv'
  BY <1>a, <1>6, PlacesKept
  DEF WaitMult, queueVars, TypeOK, QueuePc, Handling
<1>7. ASSUME NEW s \in Server, NEW q \in Query, TakeShare(s, q)
      PROVE  PlaceInv'
  <2>1. PICK x \in Share : Slotted(s, x)
    BY <1>7 DEF TakeShare, ShareArrived, SlotFull, TypeOK, Slotted
  <2>2. OnePlace(s, x) /\ At(s, x)
    BY <2>1 DEF PlaceInv, At
  <2>3. /\ res0'[s][q] = Append(res0[s][q], x)
        /\ \A t \in Server, p \in Query : (t # s \/ p # q) => res0'[t][p] = res0[t][p]
        /\ multReceivedShares'[s] = NULL
        /\ \A t \in Server : t # s => multReceivedShares'[t] = multReceivedShares[t]
        /\ UNCHANGED <<net, matched, cqReq>>
    BY <1>7, <2>1 DEF TakeShare, EmptySlot, TypeOK, Slotted
  <2>4. \A t \in Server : Handling(t)' <=> Handling(t)
    BY <1>7 DEF TakeShare, OrderCVNotify, TypeOK, QueuePc, Handling
  <2>5. \A t \in Server, m \in Share : Queued(t, m)' <=> Queued(t, m)
    BY <2>3, <2>4 DEF Queued
  <2>6. res0[s][q] \in Seq(Share) /\ NULL \notin Share
    BY ConstantsAssumption DEF TypeOK
  <2>7. \A t \in Server, p \in Query, m \in Share :
           TakenBy(t, p, m)' <=> TakenBy(t, p, m) \/ (t = s /\ p = q /\ m = x)
    <3> SUFFICES ASSUME NEW t \in Server, NEW p \in Query, NEW m \in Share
                 PROVE  TakenBy(t, p, m)' <=> TakenBy(t, p, m) \/ (t = s /\ p = q /\ m = x)
      OBVIOUS
    <3>1. CASE t = s /\ p = q
      <4>1. (\E i \in DOMAIN res0'[s][q] : res0'[s][q][i] = m)
              <=> (\E i \in DOMAIN res0[s][q] : res0[s][q][i] = m) \/ m = x
        <5>1. /\ res0'[s][q] = Append(res0[s][q], x)
              /\ res0[s][q] \in Seq(Share) /\ x \in Share
          BY <2>1, <2>3, <2>6
        <5>2. QED
          BY <5>1, InAppend
      <4>2. TakenBy(s, q, m)' <=> TakenBy(s, q, m) \/ m = x
        BY <2>3, <4>1 DEF TakenBy
      <4>3. QED
        BY <3>1, <4>2
    <3>2. CASE t # s \/ p # q
      BY <2>3, <3>2 DEF TakenBy
    <3>3. QED
      BY <3>1, <3>2
  <2>8. \A t \in Server, m \in Share :
           Slotted(t, m)' <=> Slotted(t, m) /\ t # s
    BY <2>3, <2>6 DEF Slotted
  <2>9. \A m \in Share : Slotted(s, m) => m = x
    BY <2>1 DEF Slotted
  <2>10. OnePlace(s, x)'
    BY <2>1, <2>2, <2>3, <2>5, <2>7, <2>8 DEF OnePlace
  <2>11. QED
    BY <1>a, <2>1, <2>2, <2>3, <2>5, <2>7, <2>8, <2>9, <2>10, PlacesMoved
<1>8. ASSUME NEW s \in Server, NEW q \in Query, LeaveRound(s, q)
      PROVE  PlaceInv'
  BY <1>a, <1>8, PlacesKept
  DEF LeaveRound, queueVars, TypeOK, QueuePc, Handling
<1>9. ASSUME NEW s \in Server, NEW q \in Query, SpuriousWakeMult(s, q)
      PROVE  PlaceInv'
  BY <1>a, <1>9, PlacesKept
  DEF SpuriousWakeMult, queueVars, slotVars, TypeOK, QueuePc, Handling
<1>10. ASSUME NEW s \in Server, MatchMult(s)
      PROVE  PlaceInv'
  <2>1. PICK x \in net[s] : /\ net' = [net EXCEPT ![s] = @ \ {x}]
                            /\ matched' = [matched EXCEPT ![s] = @ \cup {x}]
    BY <1>10 DEF MatchMult
  <2>2. x \in Share /\ OnePlace(s, x) /\ At(s, x)
    BY DEF TypeOK, PlaceInv, At
  <2>3. /\ net'[s] = net[s] \ {x} /\ matched'[s] = matched[s] \cup {x}
        /\ \A t \in Server : t # s => net'[t] = net[t] /\ matched'[t] = matched[t]
        /\ UNCHANGED <<cqReq, cqpc, multReceivedShares, res0>>
    BY <1>10, <2>1 DEF MatchMult, handlerVars, slotVars, TypeOK
  <2>4. \A t \in Server, m \in Share :
           /\ Queued(t, m)' <=> Queued(t, m)
           /\ Slotted(t, m)' <=> Slotted(t, m)
           /\ \A p \in Query : TakenBy(t, p, m)' <=> TakenBy(t, p, m)
    BY <2>3 DEF Queued, Slotted, TakenBy, Handling
  <2>5. OnePlace(s, x)'
    BY <2>2, <2>3, <2>4 DEF OnePlace
  <2>6. QED
    BY <1>a, <2>2, <2>3, <2>4, <2>5, PlacesMoved
<1>11. ASSUME NEW s \in Server, ProceedMult(s)
      PROVE  PlaceInv'
  <2>1. PICK x \in matched[s] : /\ cqReq' = [cqReq EXCEPT ![s] = x]
                                /\ matched' = [matched EXCEPT ![s] = @ \ {x}]
    BY <1>11 DEF ProceedMult
  <2>2. x \in Share /\ OnePlace(s, x) /\ At(s, x)
    BY DEF TypeOK, PlaceInv, At
  <2>3. /\ matched'[s] = matched[s] \ {x} /\ cqReq'[s] = x
        /\ \A t \in Server : t # s => matched'[t] = matched[t] /\ cqReq'[t] = cqReq[t]
        /\ UNCHANGED <<net, multReceivedShares, res0>>
    BY <1>11, <2>1 DEF ProceedMult, handlerVars, slotVars, TypeOK
  <2>4. /\ ~Handling(s) /\ Handling(s)'
        /\ \A t \in Server : t # s => (Handling(t)' <=> Handling(t))
    BY <1>11 DEF ProceedMult, Handling, TypeOK
  <2>5. \A t \in Server, m \in Share :
           /\ Queued(t, m)' <=> Queued(t, m) \/ (t = s /\ m = x)
           /\ Slotted(t, m)' <=> Slotted(t, m)
           /\ \A p \in Query : TakenBy(t, p, m)' <=> TakenBy(t, p, m)
    BY <2>3, <2>4 DEF Queued, Slotted, TakenBy
  <2>6. OnePlace(s, x)'
    BY <2>2, <2>3, <2>5 DEF OnePlace
  <2>7. QED
    BY <1>a, <2>2, <2>3, <2>5, <2>6, PlacesMoved
<1>12. ASSUME NEW s \in Server, LockFinish(s)
       PROVE  PlaceInv'
  BY <1>a, <1>12, PlacesKept
  DEF LockFinish, handlerVars, TypeOK, QueuePc, Handling
<1>13. ASSUME NEW s \in Server, WaitFinish(s)
       PROVE  PlaceInv'
  BY <1>a, <1>13, PlacesKept
  DEF WaitFinish, handlerVars, TypeOK, QueuePc, Handling
<1>14. ASSUME NEW s \in Server, StoreShare(s)
      PROVE  PlaceInv'
  <2>1. PICK x \in Share : x = cqReq[s] /\ Queued(s, x) /\ multReceivedShares[s] = NULL
    BY <1>14 DEF StoreShare, QueueInv, SlotOccupied, SlotFull, Queued, Handling
  <2>2. OnePlace(s, x) /\ At(s, x) /\ NULL \notin Share
    BY <2>1, ConstantsAssumption DEF PlaceInv, At
  <2>3. /\ multReceivedShares'[s] = x
        /\ \A t \in Server : t # s => multReceivedShares'[t] = multReceivedShares[t]
        /\ UNCHANGED <<net, matched, cqReq, res0>>
    BY <1>14, <2>1 DEF StoreShare, TypeOK
  <2>4. /\ ~Handling(s)'
        /\ \A t \in Server : t # s => (Handling(t)' <=> Handling(t))
    BY <1>14 DEF StoreShare, Handling, TypeOK
  <2>5. \A m \in Share : Queued(s, m) => m = x
    BY <2>1 DEF Queued
  <2>6. \A t \in Server, m \in Share :
           /\ Queued(t, m)' <=> Queued(t, m) /\ t # s
           /\ Slotted(t, m)' <=> Slotted(t, m) \/ (t = s /\ m = x)
           /\ \A p \in Query : TakenBy(t, p, m)' <=> TakenBy(t, p, m)
    BY <2>1, <2>2, <2>3, <2>4 DEF Queued, Slotted, TakenBy
  <2>7. OnePlace(s, x)'
    BY <2>1, <2>2, <2>3, <2>6 DEF OnePlace
  <2>8. QED
    BY <1>a, <2>1, <2>2, <2>3, <2>5, <2>6, <2>7, PlacesMoved
<1>15. ASSUME NEW s \in Server, AnswerMult(s)
       PROVE  PlaceInv'
  BY <1>a, <1>15, PlacesKept
  DEF AnswerMult, slotVars, TypeOK, QueuePc, Handling
<1>16. ASSUME NEW s \in Server, SpuriousWakeFinish(s)
       PROVE  PlaceInv'
  BY <1>a, <1>16, PlacesKept
  DEF SpuriousWakeFinish, handlerVars, slotVars, TypeOK, QueuePc, Handling
<1>17. CASE UNCHANGED vars
  BY <1>a, <1>17, PlacesKept DEF vars, handlerVars, queueVars, slotVars, Handling
<1>18. QED
  BY <1>1, <1>2, <1>3, <1>4, <1>5, <1>6, <1>7, <1>8, <1>9, <1>10, <1>11,
     <1>12, <1>13, <1>14, <1>15, <1>16, <1>17
  DEF Next, Handler, Queue, Quiescent

\* With reliable calls a share stays where it is or moves on.
LEMMA AtStays ==
  ASSUME TypeOK, QueueInv, Flaky = {}, [Next]_vars,
         NEW t \in Server, NEW m \in Share, At(t, m)
  PROVE  At(t, m)'
<1> DEFINE Stays == /\ m \in net[t] => m \in net'[t]
                    /\ m \in matched[t] => m \in matched'[t]
                    /\ Queued(t, m) => Queued(t, m)'
                    /\ Slotted(t, m) => Slotted(t, m)'
                    /\ \A p \in Query : TakenBy(t, p, m) => TakenBy(t, p, m)'
<1>a. Stays => At(t, m)'
  BY DEF At
<1>1. ASSUME NEW q \in Query, ClientSends(q)
      PROVE  At(t, m)'
  BY <1>a, <1>1
  DEF ClientSends, handlerVars, queueVars, slotVars, TypeOK, QueuePc, Handling, Queued, Slotted, TakenBy
<1>2. ASSUME NEW s \in Server, NEW q \in Query, SendAggQuery(s, q)
      PROVE  At(t, m)'
  BY <1>a, <1>2
  DEF SendAggQuery, queueVars, slotVars, TypeOK, QueuePc, Handling, Queued, Slotted, TakenBy
<1>3. ASSUME NEW s \in Server, NEW q \in Query, SendMult(s, q)
      PROVE  At(t, m)'
  BY <1>a, <1>3
  DEF SendMult, queueVars, slotVars, TypeOK, QueuePc, Handling, Queued, Slotted, TakenBy
<1>4. ASSUME NEW s \in Server, NEW q \in Query, SendMultFails(s, q)
      PROVE  At(t, m)'
  BY <1>4 DEF SendMultFails
<1>5. ASSUME NEW s \in Server, NEW q \in Query, LockMult(s, q)
      PROVE  At(t, m)'
  BY <1>a, <1>5
  DEF LockMult, TypeOK, QueuePc, Handling, Queued, Slotted, TakenBy
<1>6. ASSUME NEW s \in Server, NEW q \in Query, WaitMult(s, q)
      PROVE  At(t, m)'
  BY <1>a, <1>6
  DEF WaitMult, queueVars, TypeOK, QueuePc, Handling, Queued, Slotted, TakenBy
<1>7. ASSUME NEW s \in Server, NEW q \in Query, TakeShare(s, q)
      PROVE  At(t, m)'
  <2>1. /\ UNCHANGED <<net, matched, cqReq>>
        /\ \A u \in Server : u # s => multReceivedShares'[u] = multReceivedShares[u]
        /\ \A u \in Server, p \in Query : (u # s \/ p # q) => res0'[u][p] = res0[u][p]
        /\ res0'[s][q] = Append(res0[s][q], multReceivedShares[s])
        /\ res0[s][q] \in Seq(Share) /\ multReceivedShares[s] \in Share
    BY <1>7 DEF TakeShare, EmptySlot, TypeOK, ShareArrived, SlotFull
  <2>2. (\E i \in DOMAIN res0'[s][q] : res0'[s][q][i] = m)
          <=> (\E i \in DOMAIN res0[s][q] : res0[s][q][i] = m) \/ m = multReceivedShares[s]
    BY <2>1, InAppend
  <2>3. \A p \in Query : TakenBy(t, p, m) => TakenBy(t, p, m)'
    BY <2>1, <2>2 DEF TakenBy
  <2>4. Queued(t, m) => Queued(t, m)'
    BY <1>7, <2>1 DEF TakeShare, OrderCVNotify, TypeOK, QueuePc, Handling, Queued
  <2>5. Slotted(t, m) => t # s \/ TakenBy(t, q, m)'
    BY <2>1, <2>2 DEF Slotted, TakenBy
  <2>6. t # s => (Slotted(t, m) => Slotted(t, m)')
    BY <2>1 DEF Slotted
  <2>7. QED
    BY <2>1, <2>3, <2>4, <2>5, <2>6 DEF At
<1>8. ASSUME NEW s \in Server, NEW q \in Query, LeaveRound(s, q)
      PROVE  At(t, m)'
  BY <1>a, <1>8
  DEF LeaveRound, queueVars, TypeOK, QueuePc, Handling, Queued, Slotted, TakenBy
<1>9. ASSUME NEW s \in Server, NEW q \in Query, SpuriousWakeMult(s, q)
      PROVE  At(t, m)'
  BY <1>a, <1>9
  DEF SpuriousWakeMult, queueVars, slotVars, TypeOK, QueuePc, Handling, Queued, Slotted, TakenBy
<1>10. ASSUME NEW s \in Server, MatchMult(s)
       PROVE  At(t, m)'
  <2>1. PICK x \in net[s] : /\ net' = [net EXCEPT ![s] = @ \ {x}]
                            /\ matched' = [matched EXCEPT ![s] = @ \cup {x}]
    BY <1>10 DEF MatchMult
  <2>2. /\ m \in net[t] => m \in net'[t] \/ m \in matched'[t]
        /\ m \in matched[t] => m \in matched'[t]
    BY <2>1 DEF TypeOK
  <2>3. /\ Queued(t, m) => Queued(t, m)'
        /\ Slotted(t, m) => Slotted(t, m)'
        /\ \A p \in Query : TakenBy(t, p, m) => TakenBy(t, p, m)'
    BY <1>10 DEF MatchMult, handlerVars, slotVars, Queued, Handling, Slotted, TakenBy
  <2>4. QED
    BY <2>2, <2>3 DEF At
<1>11. ASSUME NEW s \in Server, ProceedMult(s)
       PROVE  At(t, m)'
  <2>1. PICK x \in matched[s] : /\ cqReq' = [cqReq EXCEPT ![s] = x]
                                /\ matched' = [matched EXCEPT ![s] = @ \ {x}]
    BY <1>11 DEF ProceedMult
  <2>2. cqpc[s] = "next" /\ cqpc' = [cqpc EXCEPT ![s] = "enter"]
    BY <1>11 DEF ProceedMult
  <2>3. m \in matched[t] => m \in matched'[t] \/ Queued(t, m)'
    BY <2>1, <2>2 DEF TypeOK, Queued, Handling
  <2>4. Queued(t, m) => Queued(t, m)'
    BY <2>1, <2>2 DEF TypeOK, Queued, Handling
  <2>5. /\ m \in net[t] => m \in net'[t]
        /\ Slotted(t, m) => Slotted(t, m)'
        /\ \A p \in Query : TakenBy(t, p, m) => TakenBy(t, p, m)'
    BY <1>11 DEF ProceedMult, handlerVars, slotVars, Slotted, TakenBy
  <2>6. QED
    BY <2>3, <2>4, <2>5 DEF At
<1>12. ASSUME NEW s \in Server, LockFinish(s)
       PROVE  At(t, m)'
  BY <1>a, <1>12
  DEF LockFinish, handlerVars, TypeOK, QueuePc, Handling, Queued, Slotted, TakenBy
<1>13. ASSUME NEW s \in Server, WaitFinish(s)
       PROVE  At(t, m)'
  BY <1>a, <1>13
  DEF WaitFinish, handlerVars, TypeOK, QueuePc, Handling, Queued, Slotted, TakenBy
<1>14. ASSUME NEW s \in Server, StoreShare(s)
       PROVE  At(t, m)'
  <2>1. /\ cqpc' = [cqpc EXCEPT ![s] = "finish"] /\ multReceivedShares[s] = NULL
        /\ multReceivedShares' = [multReceivedShares EXCEPT ![s] = cqReq[s]]
        /\ UNCHANGED <<net, matched, cqReq, res0>>
    BY <1>14 DEF StoreShare, SlotOccupied, SlotFull
  <2>2. Queued(t, m) => Queued(t, m)' \/ Slotted(t, m)'
    BY <2>1 DEF TypeOK, Queued, Handling, Slotted
  <2>3. Slotted(t, m) => Slotted(t, m)'
    BY <2>1, ConstantsAssumption DEF TypeOK, Slotted
  <2>4. /\ m \in net[t] => m \in net'[t]
        /\ m \in matched[t] => m \in matched'[t]
        /\ \A p \in Query : TakenBy(t, p, m) => TakenBy(t, p, m)'
    BY <2>1 DEF TakenBy
  <2>5. QED
    BY <2>2, <2>3, <2>4 DEF At
<1>15. ASSUME NEW s \in Server, AnswerMult(s)
       PROVE  At(t, m)'
  BY <1>a, <1>15
  DEF AnswerMult, slotVars, TypeOK, QueuePc, Handling, Queued, Slotted, TakenBy
<1>16. ASSUME NEW s \in Server, SpuriousWakeFinish(s)
       PROVE  At(t, m)'
  BY <1>a, <1>16
  DEF SpuriousWakeFinish, handlerVars, slotVars, TypeOK, QueuePc, Handling, Queued, Slotted, TakenBy
<1>17. CASE UNCHANGED vars
  BY <1>a, <1>17
  DEF vars, handlerVars, queueVars, slotVars, TypeOK, QueuePc, Handling, Queued, Slotted, TakenBy
<1>18. QED
  BY <1>1, <1>2, <1>3, <1>4, <1>5, <1>6, <1>7, <1>8, <1>9, <1>10, <1>11,
     <1>12, <1>13, <1>14, <1>15, <1>16, <1>17
  DEF Next, Handler, Queue, Quiescent

\* So with reliable calls no share is lost.
LEMMA NoneLostNext ==
  ASSUME Flaky = {}
  PROVE  TypeOK /\ QueueInv /\ NoneLost /\ [Next]_vars => NoneLost'
<1> SUFFICES ASSUME TypeOK, QueueInv, NoneLost, [Next]_vars,
                    NEW t \in Server, NEW p \in Query, NEW r \in Nat, r < Given(t, p)',
                    NEW u \in Server, NEW m \in Share,
                    u = Succ(t), m = ShareOf(t, p, r)
             PROVE  At(u, m)'
  BY SuccInServer, ShareOfIsShare DEF NoneLost, Succ, ShareOf
<1>1. Given(t, p) \in Nat /\ Given(t, p)' \in Nat
  BY TypeNext, GivenIsNat
<1>2. CASE r < Given(t, p)
  <2>1. At(u, m)
    BY <1>2 DEF NoneLost
  <2>2. QED
    BY <2>1, AtStays
<1>3. CASE ~(r < Given(t, p))
  <2>1. SendMult(t, p) /\ r = Given(t, p)
    BY <1>1, <1>3, GivenStep
  <2>2. r = round[t][p]
    BY <2>1 DEF SendMult, Given, TypeOK
  <2>3. m \in net'[u]
    BY <2>1, <2>2 DEF SendMult, TypeOK
  <2>4. QED
    BY <2>3 DEF At
<1>4. QED
  BY <1>2, <1>3

-----------------------------------------------------------------------------
(* Counting copies.                                                        *)

\* The places on the way to s that hold m.
Places(s, m) ==
  {p \in {"net", "matched", "queue", "slot"} :
     \/ p = "net" /\ m \in net[s]
     \/ p = "matched" /\ m \in matched[s]
     \/ p = "queue" /\ Handling(s) /\ cqReq[s] = m
     \/ p = "slot" /\ multReceivedShares[s] = m}

\* The handlers that have copied m out of the slot of s.
Takers(s, m) == {q \in Query : TakenBy(s, q, m)}

\* The four places before the copy, counted one by one.
LEMMA CopiesSum == ASSUME NEW s, NEW m
                   PROVE  Copies(s, m) = Cardinality(Places(s, m)) + Cardinality(Takers(s, m))
  BY DEF Copies, Places, Takers, TakenBy

\* A share that is at most in one place counts once, or not at all.
LEMMA CopiesCount ==
  ASSUME NEW s \in Server, NEW m \in Share, OnePlace(s, m)
  PROVE  Copies(s, m) = IF At(s, m) THEN 1 ELSE 0
<1>1. /\ Cardinality({}) = 0
      /\ \A x : Cardinality({x}) = 1
  BY FS_EmptySet, FS_Singleton
<1>2. Places(s, m) = {} \/ \E p : Places(s, m) = {p}
  BY DEF OnePlace, Places, Queued, Slotted
<1>3. Takers(s, m) = {} \/ \E q : Takers(s, m) = {q}
  BY DEF OnePlace, Takers
<1>4. Places(s, m) # {} => Takers(s, m) = {}
  BY DEF OnePlace, Places, Takers, Queued, Slotted
<1>5. At(s, m) <=> Places(s, m) # {} \/ Takers(s, m) # {}
  <2>1. Takers(s, m) # {} <=> \E q \in Query : TakenBy(s, q, m)
    BY DEF Takers
  <2>2. Places(s, m) # {}
           <=> m \in net[s] \/ m \in matched[s] \/ Queued(s, m) \/ Slotted(s, m)
    <3>1. /\ m \in net[s] => "net" \in Places(s, m)
          /\ m \in matched[s] => "matched" \in Places(s, m)
          /\ Queued(s, m) => "queue" \in Places(s, m)
          /\ Slotted(s, m) => "slot" \in Places(s, m)
      BY DEF Places, Queued, Slotted
    <3>2. \A p \in Places(s, m) :
             m \in net[s] \/ m \in matched[s] \/ Queued(s, m) \/ Slotted(s, m)
      BY DEF Places, Queued, Slotted
    <3>3. QED
      BY <3>1, <3>2
  <2>3. QED
    BY <2>1, <2>2 DEF At
<1>6. QED
  <2>1. CASE Places(s, m) # {}
    <3>1. Cardinality(Places(s, m)) = 1 /\ Cardinality(Takers(s, m)) = 0
      BY <1>1, <1>2, <1>4, <2>1
    <3>2. QED
      BY <1>5, <2>1, <3>1, CopiesSum
  <2>2. CASE Places(s, m) = {} /\ Takers(s, m) # {}
    <3>1. Cardinality(Places(s, m)) = 0 /\ Cardinality(Takers(s, m)) = 1
      BY <1>1, <1>3, <2>2
    <3>2. QED
      BY <1>5, <2>2, <3>1, CopiesSum
  <2>3. CASE Places(s, m) = {} /\ Takers(s, m) = {}
    <3>1. Cardinality(Places(s, m)) = 0 /\ Cardinality(Takers(s, m)) = 0
      BY <1>1, <2>3
    <3>2. QED
      BY <1>5, <2>3, <3>1, CopiesSum
  <2>4. QED
    BY <2>1, <2>2, <2>3

-----------------------------------------------------------------------------

\* PlaceInv holds in every reachable state, with failing calls too.
LEMMA PlaceInvariance == Spec => []PlaceInv
<1>1. Init => PlaceInv
  <2> SUFFICES ASSUME Init, NEW s \in Server, NEW m \in Share
               PROVE  OnePlace(s, m) /\ OnlyGiven(s, m)
    BY DEF PlaceInv
  <2>1. ~At(s, m)
    BY ConstantsAssumption DEF Init, At, Queued, Handling, Slotted, TakenBy
  <2>2. QED
    BY <2>1 DEF At, OnePlace, OnlyGiven
<1>2. IInv /\ PlaceInv /\ [Next]_vars => PlaceInv'
  BY PlaceNext DEF IInv
<1>3. QED
  BY <1>1, <1>2, Invariance, PTL DEF Spec

\* No share is ever used twice, whatever calls fail and however the queries
\* interleave: it is in one place at most, or was copied by one handler.
THEOREM NeverDuplicated == Spec => []ShareNeverDuplicated
<1>1. IInv /\ PlaceInv => ShareNeverDuplicated
  <2> SUFFICES ASSUME IInv, PlaceInv, NEW s \in Server, NEW q \in Query,
                      NEW r \in 0 .. Given(s, q) - 1
               PROVE  Copies(Succ(s), ShareOf(s, q, r)) <= 1
    BY DEF ShareNeverDuplicated
  <2>1. Succ(s) \in Server /\ ShareOf(s, q, r) \in Share
    BY SuccInServer, ShareOfIsShare, GivenIsNat DEF IInv
  <2>2. OnePlace(Succ(s), ShareOf(s, q, r))
    BY <2>1 DEF PlaceInv
  <2>3. QED
    BY <2>1, <2>2, CopiesCount
<1>2. QED
  BY <1>1, Invariance, PlaceInvariance, PTL

\* With reliable calls every share that was given is in exactly one place or was
\* copied by exactly one handler, for any number of concurrent queries.
THEOREM InOnePlace == Flaky = {} => (Spec => []ShareInOnePlace)
<1> SUFFICES ASSUME Flaky = {}
             PROVE  Spec => []ShareInOnePlace
  OBVIOUS
<1>1. Init => NoneLost
  BY DEF Init, NoneLost, Given
<1>2. IInv /\ NoneLost /\ [Next]_vars => NoneLost'
  BY NoneLostNext DEF IInv
<1>3. IInv /\ PlaceInv /\ NoneLost => ShareInOnePlace
  <2> SUFFICES ASSUME IInv, PlaceInv, NoneLost, NEW s \in Server, NEW q \in Query,
                      NEW r \in 0 .. Given(s, q) - 1
               PROVE  Copies(Succ(s), ShareOf(s, q, r)) = 1
    BY DEF ShareInOnePlace
  <2>1. /\ Given(s, q) \in Nat /\ r \in Nat /\ r < Given(s, q)
        /\ Succ(s) \in Server /\ ShareOf(s, q, r) \in Share
    BY SuccInServer, ShareOfIsShare, GivenIsNat DEF IInv
  <2>2. OnePlace(Succ(s), ShareOf(s, q, r)) /\ At(Succ(s), ShareOf(s, q, r))
    BY <2>1 DEF PlaceInv, NoneLost
  <2>3. QED
    BY <2>1, <2>2, CopiesCount
<1>4. QED
  BY <1>1, <1>2, <1>3, Invariance, PlaceInvariance, PTL DEF Spec

-----------------------------------------------------------------------------
(* Reliable calls and a serial client.                                     *)

\* The shares the handler of q on s has got: those of the rounds it has left and,
\* until the lock is released, that of the round it is in.
GotInv ==
  \A s \in Server, q \in Query :
     Len(res0[s][q]) = round[s][q] + (IF pc[s][q] = "taken" THEN 1 ELSE 0)

\* A handler is in one of the query's rounds until it is done.
RoundInv ==
  \A s \in Server, q \in Query :
     /\ pc[s][q] = "idle" => round[s][q] = 0
     /\ pc[s][q] = "done" => round[s][q] = NumFilters[q]
     /\ pc[s][q] # "done" => round[s][q] < NumFilters[q]
     /\ q \notin issued => pc[s][q] = "idle"

\* The slot is empty while the handler that emptied it still has the lock.
TakenInv ==
  \A s \in Server, q \in Query : pc[s][q] = "taken" => ~SlotFull(s)

\* The sender of share m is blocked in the call that brings m.
InCall(s, m) ==
  /\ s = Succ(m.from)
  /\ pc[m.from][m.query] = "calling" /\ round[m.from][m.query] = m.round

\* With reliable calls a sender waits until its share has been stored.
CallInv ==
  \A s \in Server :
     /\ \A m \in net[s] : InCall(s, m)
     /\ \A m \in matched[s] : InCall(s, m) /\ m \notin net[s]
     /\ cqpc[s] # "next" =>
          InCall(s, cqReq[s]) /\ cqReq[s] \notin net[s] /\ cqReq[s] \notin matched[s]

\* At most one query is under way.
SerialInv == \A p, q \in issued : p = q \/ Answered(p) \/ Answered(q)

\* The handler of q on s is in a call whose share has not been stored yet.
Pending(s, q) ==
  /\ pc[s][q] = "calling"
  /\ ~(cqpc[Succ(s)] = "finish" /\ cqReq[Succ(s)].query = q)

\* The slot of s is full with a share of q.
Holds(s, q) == SlotFull(s) /\ multReceivedShares[s].query = q

\* The same as numbers.
OnItsWay(s, q) == IF Pending(s, q) THEN 1 ELSE 0

InSlot(s, q) == IF Holds(s, q) THEN 1 ELSE 0

\* Of the shares given to it in a query the successor has got all but the one in its
\* slot and the one on its way.
CountInv ==
  \A s \in Server, q \in Query :
     Given(s, q) = Len(res0[Succ(s)][q]) + InSlot(Succ(s), q) + OnItsWay(s, q)

\* The share in the slot is the one its receiver needs next.
SlotInv ==
  \A s \in Server : SlotFull(s) =>
     LET m == multReceivedShares[s]
     IN  s = Succ(m.from) /\ m.round = Len(res0[s][m.query])

\* The successor and the predecessor in the ring, without the remainders.
LEMMA SuccIs == \A s \in Server : Succ(s) = IF s = NUM_SERVERS - 1 THEN 0 ELSE s + 1
  BY ConstantsAssumption DEF Succ, Server

\* The same for the predecessor.
LEMMA PredIs == \A s \in Server : Pred(s) = IF s = 0 THEN NUM_SERVERS - 1 ELSE s - 1
<1> SUFFICES ASSUME NEW s \in Server
             PROVE  Pred(s) = IF s = 0 THEN NUM_SERVERS - 1 ELSE s - 1
  OBVIOUS
<1>1. CASE s = 0
  BY <1>1, ConstantsAssumption DEF Pred, Server
<1>2. CASE s # 0
  <2>1. s + NUM_SERVERS - 1 = (s - 1) + NUM_SERVERS /\ s - 1 \in 0 .. NUM_SERVERS - 1
    BY <1>2, ConstantsAssumption DEF Server
  <2>2. QED
    BY <1>2, <2>1, ConstantsAssumption DEF Pred, Server
<1>3. QED
  BY <1>1, <1>2

\* The predecessor is the only server of which s is the successor.
LEMMA PredOfSucc ==
  /\ \A s \in Server : Pred(s) \in Server /\ Succ(Pred(s)) = s
  /\ \A s, t \in Server : s = Succ(t) <=> t = Pred(s)
  BY SuccIs, PredIs, SuccInServer, ConstantsAssumption DEF Server

\* A handler's shares are those of the rounds it has finished.
LEMMA GotNext == TypeOK /\ QueueInv /\ GotInv /\ [Next]_vars => GotInv'
<1> SUFFICES ASSUME TypeOK, QueueInv, GotInv, [Next]_vars
             PROVE  GotInv'
  OBVIOUS
<1>a. \A s \in Server, t \in Server, p \in Query :
         StoreShare(s)
           => pc'[t][p] = pc[t][p] \/ (pc[t][p] = "waiting" /\ pc'[t][p] = "woken")
  BY StoreWakes
<1>b. \A s \in Server, t \in Server, p \in Query :
         AnswerMult(s)
           => pc'[t][p] = pc[t][p] \/ (pc[t][p] = "calling" /\ pc'[t][p] = "called")
  BY AnswerReturns
<1> USE DEF TypeOK, GotInv
<1>1. ASSUME NEW q \in Query, ClientSends(q)
      PROVE  GotInv'
  BY <1>1 DEF ClientSends, handlerVars, queueVars, slotVars
<1>2. ASSUME NEW s \in Server, NEW q \in Query, SendAggQuery(s, q)
      PROVE  GotInv'
  BY <1>2 DEF SendAggQuery, queueVars, slotVars
<1>3. ASSUME NEW s \in Server, NEW q \in Query, SendMult(s, q)
      PROVE  GotInv'
  BY <1>3 DEF SendMult, queueVars, slotVars
<1>4. ASSUME NEW s \in Server, NEW q \in Query, SendMultFails(s, q)
      PROVE  GotInv'
  BY <1>4 DEF SendMultFails, queueVars, slotVars
<1>5. ASSUME NEW s \in Server, NEW q \in Query, LockMult(s, q)
      PROVE  GotInv'
  BY <1>5 DEF LockMult
<1>6. ASSUME NEW s \in Server, NEW q \in Query, WaitMult(s, q)
      PROVE  GotInv'
  BY <1>6 DEF WaitMult, queueVars
<1>7. ASSUME NEW s \in Server, NEW q \in Query, TakeShare(s, q)
      PROVE  GotInv'
  BY <1>7 DEF TakeShare, EmptySlot, OrderCVNotify
<1>8. ASSUME NEW s \in Server, NEW q \in Query, LeaveRound(s, q)
      PROVE  GotInv'
  BY <1>8 DEF LeaveRound, queueVars
<1>9. ASSUME NEW s \in Server, NEW q \in Query, SpuriousWakeMult(s, q)
      PROVE  GotInv'
  BY <1>9 DEF SpuriousWakeMult, queueVars, slotVars
<1>10. ASSUME NEW s \in Server, MatchMult(s)
       PROVE  GotInv'
  BY <1>10 DEF MatchMult, handlerVars, slotVars
<1>11. ASSUME NEW s \in Server, ProceedMult(s)
       PROVE  GotInv'
  BY <1>11 DEF ProceedMult, PostCallData, handlerVars, slotVars
<1>12. ASSUME NEW s \in Server, LockFinish(s)
       PROVE  GotInv'
  BY <1>12 DEF LockFinish, handlerVars
<1>13. ASSUME NEW s \in Server, WaitFinish(s)
       PROVE  GotInv'
  BY <1>13 DEF WaitFinish, handlerVars
<1>14. ASSUME NEW s \in Server, StoreShare(s)
       PROVE  GotInv'
  <2>1. UNCHANGED <<round, res0>>
    BY <1>14 DEF StoreShare
  <2>2. \A t \in Server, p \in Query : pc'[t][p] = "taken" <=> pc[t][p] = "taken"
    BY <1>a, <1>14
  <2>3. QED
    BY <2>1, <2>2
<1>15. ASSUME NEW s \in Server, AnswerMult(s)
       PROVE  GotInv'
  <2>1. UNCHANGED <<round, res0>>
    BY <1>15 DEF AnswerMult, slotVars
  <2>2. \A t \in Server, p \in Query : pc'[t][p] = "taken" <=> pc[t][p] = "taken"
    BY <1>b, <1>15
  <2>3. QED
    BY <2>1, <2>2
<1>16. ASSUME NEW s \in Server, SpuriousWakeFinish(s)
       PROVE  GotInv'
  BY <1>16 DEF SpuriousWakeFinish, handlerVars, slotVars
<1>17. CASE UNCHANGED vars
  BY <1>17 DEF vars, handlerVars, queueVars, slotVars
<1>18. QED
  BY <1>1, <1>2, <1>3, <1>4, <1>5, <1>6, <1>7, <1>8, <1>9, <1>10, <1>11,
     <1>12, <1>13, <1>14, <1>15, <1>16, <1>17
  DEF Next, Handler, Queue, Quiescent

\* Rounds go up to the number of base filters.
LEMMA RoundNext == TypeOK /\ QueueInv /\ RoundInv /\ [Next]_vars => RoundInv'
<1> SUFFICES ASSUME TypeOK, QueueInv, RoundInv, [Next]_vars
             PROVE  RoundInv'
  OBVIOUS
<1>a. \A s \in Server, t \in Server, p \in Query :
         StoreShare(s)
           => pc'[t][p] = pc[t][p] \/ (pc[t][p] = "waiting" /\ pc'[t][p] = "woken")
  BY StoreWakes
<1>b. \A s \in Server, t \in Server, p \in Query :
         AnswerMult(s)
           => pc'[t][p] = pc[t][p] \/ (pc[t][p] = "calling" /\ pc'[t][p] = "called")
  BY AnswerReturns
<1> USE ConstantsAssumption DEF TypeOK, RoundInv
<1>1. ASSUME NEW q \in Query, ClientSends(q)
      PROVE  RoundInv'
  BY <1>1 DEF ClientSends, handlerVars, queueVars, slotVars
<1>2. ASSUME NEW s \in Server, NEW q \in Query, SendAggQuery(s, q)
      PROVE  RoundInv'
  BY <1>2 DEF SendAggQuery, queueVars, slotVars
<1>3. ASSUME NEW s \in Server, NEW q \in Query, SendMult(s, q)
      PROVE  RoundInv'
  BY <1>3 DEF SendMult, queueVars, slotVars
<1>4. ASSUME NEW s \in Server, NEW q \in Query, SendMultFails(s, q)
      PROVE  RoundInv'
  BY <1>4 DEF SendMultFails, queueVars, slotVars
<1>5. ASSUME NEW s \in Server, NEW q \in Query, LockMult(s, q)
      PROVE  RoundInv'
  BY <1>5 DEF LockMult
<1>6. ASSUME NEW s \in Server, NEW q \in Query, WaitMult(s, q)
      PROVE  RoundInv'
  BY <1>6 DEF WaitMult, queueVars
<1>7. ASSUME NEW s \in Server, NEW q \in Query, TakeShare(s, q)
      PROVE  RoundInv'
  BY <1>7 DEF TakeShare, EmptySlot, OrderCVNotify
<1>8. ASSUME NEW s \in Server, NEW q \in Query, LeaveRound(s, q)
      PROVE  RoundInv'
  BY <1>8 DEF LeaveRound, queueVars
<1>9. ASSUME NEW s \in Server, NEW q \in Query, SpuriousWakeMult(s, q)
      PROVE  RoundInv'
  BY <1>9 DEF SpuriousWakeMult, queueVars, slotVars
<1>10. ASSUME NEW s \in Server, MatchMult(s)
       PROVE  RoundInv'
  BY <1>10 DEF MatchMult, handlerVars, slotVars
<1>11. ASSUME NEW s \in Server, ProceedMult(s)
       PROVE  RoundInv'
  BY <1>11 DEF ProceedMult, PostCallData, handlerVars, slotVars
<1>12. ASSUME NEW s \in Server, LockFinish(s)
       PROVE  RoundInv'
  BY <1>12 DEF LockFinish, handlerVars
<1>13. ASSUME NEW s \in Server, WaitFinish(s)
       PROVE  RoundInv'
  BY <1>13 DEF WaitFinish, handlerVars
<1>14. ASSUME NEW s \in Server, StoreShare(s)
       PROVE  RoundInv'
  <2>1. UNCHANGED <<issued, round>>
    BY <1>14 DEF StoreShare
  <2>2. \A t \in Server, p \in Query :
           (pc'[t][p] = "idle" <=> pc[t][p] = "idle") /\ (pc'[t][p] = "done" <=> pc[t][p] = "done")
    BY <1>a, <1>14
  <2>3. QED
    BY <2>1, <2>2
<1>15. ASSUME NEW s \in Server, AnswerMult(s)
       PROVE  RoundInv'
  <2>1. UNCHANGED <<issued, round>>
    BY <1>15 DEF AnswerMult, slotVars
  <2>2. \A t \in Server, p \in Query :
           (pc'[t][p] = "idle" <=> pc[t][p] = "idle") /\ (pc'[t][p] = "done" <=> pc[t][p] = "done")
    BY <1>b, <1>15
  <2>3. QED
    BY <2>1, <2>2
<1>16. ASSUME NEW s \in Server, SpuriousWakeFinish(s)
       PROVE  RoundInv'
  BY <1>16 DEF SpuriousWakeFinish, handlerVars, slotVars
<1>17. CASE UNCHANGED vars
  BY <1>17 DEF vars, handlerVars, queueVars, slotVars
<1>18. QED
  BY <1>1, <1>2, <1>3, <1>4, <1>5, <1>6, <1>7, <1>8, <1>9, <1>10, <1>11,
     <1>12, <1>13, <1>14, <1>15, <1>16, <1>17
  DEF Next, Handler, Queue, Quiescent

\* Nothing is stored while the handler that took a share has the lock.
LEMMA TakenNext == TypeOK /\ LockInv /\ QueueInv /\ TakenInv /\ [Next]_vars => TakenInv'
<1> SUFFICES ASSUME TypeOK, LockInv, QueueInv, TakenInv, [Next]_vars
             PROVE  TakenInv'
  OBVIOUS
<1>a. \A s \in Server, t \in Server, p \in Query :
         StoreShare(s)
           => pc'[t][p] = pc[t][p] \/ (pc[t][p] = "waiting" /\ pc'[t][p] = "woken")
  BY StoreWakes
<1>b. \A s \in Server, t \in Server, p \in Query :
         AnswerMult(s)
           => pc'[t][p] = pc[t][p] \/ (pc[t][p] = "calling" /\ pc'[t][p] = "called")
  BY AnswerReturns
<1> USE ConstantsAssumption DEF TypeOK, TakenInv, SlotFull
<1>1. ASSUME NEW q \in Query, ClientSends(q)
      PROVE  TakenInv'
  BY <1>1 DEF ClientSends, handlerVars, queueVars, slotVars
<1>2. ASSUME NEW s \in Server, NEW q \in Query, SendAggQuery(s, q)
      PROVE  TakenInv'
  BY <1>2 DEF SendAggQuery, queueVars, slotVars
<1>3. ASSUME NEW s \in Server, NEW q \in Query, SendMult(s, q)
      PROVE  TakenInv'
  BY <1>3 DEF SendMult, queueVars, slotVars
<1>4. ASSUME NEW s \in Server, NEW q \in Query, SendMultFails(s, q)
      PROVE  TakenInv'
  BY <1>4 DEF SendMultFails, queueVars, slotVars
<1>5. ASSUME NEW s \in Server, NEW q \in Query, LockMult(s, q)
      PROVE  TakenInv'
  BY <1>5 DEF LockMult
<1>6. ASSUME NEW s \in Server, NEW q \in Query, WaitMult(s, q)
      PROVE  TakenInv'
  BY <1>6 DEF WaitMult, queueVars
<1>7. ASSUME NEW s \in Server, NEW q \in Query, TakeShare(s, q)
      PROVE  TakenInv'
  BY <1>7 DEF TakeShare, EmptySlot, LockInv
<1>8. ASSUME NEW s \in Server, NEW q \in Query, LeaveRound(s, q)
      PROVE  TakenInv'
  BY <1>8 DEF LeaveRound, queueVars
<1>9. ASSUME NEW s \in Server, NEW q \in Query, SpuriousWakeMult(s, q)
      PROVE  TakenInv'
  BY <1>9 DEF SpuriousWakeMult, queueVars, slotVars
<1>10. ASSUME NEW s \in Server, MatchMult(s)
       PROVE  TakenInv'
  BY <1>10 DEF MatchMult, handlerVars, slotVars
<1>11. ASSUME NEW s \in Server, ProceedMult(s)
       PROVE  TakenInv'
  BY <1>11 DEF ProceedMult, PostCallData, handlerVars, slotVars
<1>12. ASSUME NEW s \in Server, LockFinish(s)
       PROVE  TakenInv'
  BY <1>12 DEF LockFinish, handlerVars
<1>13. ASSUME NEW s \in Server, WaitFinish(s)
       PROVE  TakenInv'
  BY <1>13 DEF WaitFinish, handlerVars
<1>14. ASSUME NEW s \in Server, StoreShare(s)
       PROVE  TakenInv'
  <2>1. \A t \in Server, p \in Query : pc'[t][p] = "taken" => pc[t][p] = "taken"
    BY <1>a, <1>14
  <2>2. \A p \in Query : pc[s][p] # "taken"
    BY <1>14 DEF StoreShare, LockInv
  <2>3. \A t \in Server : t # s => multReceivedShares'[t] = multReceivedShares[t]
    BY <1>14 DEF StoreShare
  <2>4. QED
    BY <2>1, <2>2, <2>3
<1>15. ASSUME NEW s \in Server, AnswerMult(s)
       PROVE  TakenInv'
  <2>1. UNCHANGED <<multReceivedShares>>
    BY <1>15 DEF AnswerMult, slotVars
  <2>2. \A t \in Server, p \in Query : pc'[t][p] = "taken" <=> pc[t][p] = "taken"
    BY <1>b, <1>15
  <2>3. QED
    BY <2>1, <2>2
<1>16. ASSUME NEW s \in Server, SpuriousWakeFinish(s)
       PROVE  TakenInv'
  BY <1>16 DEF SpuriousWakeFinish, handlerVars, slotVars
<1>17. CASE UNCHANGED vars
  BY <1>17 DEF vars, handlerVars, queueVars, slotVars
<1>18. QED
  BY <1>1, <1>2, <1>3, <1>4, <1>5, <1>6, <1>7, <1>8, <1>9, <1>10, <1>11,
     <1>12, <1>13, <1>14, <1>15, <1>16, <1>17
  DEF Next, Handler, Queue, Quiescent

\* A call goes on as long as its share waits to be stored.
LEMMA CallKept ==
  ASSUME TypeOK, QueueInv, CallInv,
         UNCHANGED <<net, matched>>,
         \A s \in Server :
            cqpc'[s] # "next" => cqpc[s] # "next" /\ cqReq'[s] = cqReq[s],
         \A t \in Server, q \in Query : pc[t][q] = "calling"
            => pc'[t][q] = "calling" /\ round'[t][q] = round[t][q]
  PROVE  CallInv'
<1>1. ASSUME NEW s \in Server, NEW m \in Share, InCall(s, m)
      PROVE  InCall(s, m)'
  BY <1>1 DEF InCall, Succ, Share
<1>2. \A s \in Server : net[s] \subseteq Share /\ matched[s] \subseteq Share
  BY DEF TypeOK
<1>3. \A s \in Server : cqpc'[s] # "next" =>
         InCall(s, cqReq'[s]) /\ cqReq'[s] \in Share /\ cqReq'[s] \notin net[s] /\ cqReq'[s] \notin matched[s]
  BY DEF CallInv, QueueInv
<1>4. \A s \in Server : cqpc'[s] # "next" => InCall(s, cqReq[s])'
  BY <1>1, <1>3 DEF InCall, Succ
<1>5. QED
  BY <1>1, <1>2, <1>3, <1>4 DEF CallInv

\* With reliable calls a sender stays in its call until the queue's thread answers.
LEMMA CallNext ==
  ASSUME Flaky = {}
  PROVE  TypeOK /\ QueueInv /\ CallInv /\ [Next]_vars => CallInv'
<1> SUFFICES ASSUME TypeOK, QueueInv, CallInv, [Next]_vars
             PROVE  CallInv'
  OBVIOUS
<1>1. ASSUME NEW q \in Query, ClientSends(q)
      PROVE  CallInv'
  BY <1>1, CallKept DEF ClientSends, handlerVars, queueVars, slotVars, TypeOK
<1>2. ASSUME NEW s \in Server, NEW q \in Query, SendAggQuery(s, q)
      PROVE  CallInv'
  BY <1>2, CallKept DEF SendAggQuery, queueVars, slotVars, TypeOK
<1>3. ASSUME NEW s \in Server, NEW q \in Query, SendMult(s, q)
      PROVE  CallInv'
  <2>1. PICK x \in Share : x = ShareOf(s, q, round[s][q])
    BY ShareOfIsShare DEF TypeOK
  <2>2. /\ pc[s][q] = "ready" /\ pc'[s][q] = "calling" /\ UNCHANGED <<round, matched, cqpc, cqReq>>
        /\ \A t \in Server, p \in Query : (t # s \/ p # q) => pc'[t][p] = pc[t][p]
        /\ net'[Succ(s)] = net[Succ(s)] \cup {x}
        /\ \A t \in Server : t # Succ(s) => net'[t] = net[t]
    BY <1>3, <2>1, SuccInServer DEF SendMult, queueVars, TypeOK
  <2>3. x.from = s /\ x.query = q /\ x.round = round[s][q]
    BY <2>1 DEF ShareOf
  <2>4. ASSUME NEW t \in Server, NEW m \in Share, InCall(t, m)
        PROVE  InCall(t, m)' /\ m # x
    BY <2>2, <2>3, <2>4 DEF InCall, Succ, Share
  <2>5. InCall(Succ(s), x)'
    BY <2>2, <2>3 DEF InCall, Succ
  <2>6. \A t \in Server :
           /\ \A m \in net[t] : m \in Share /\ InCall(t, m)
           /\ \A m \in matched[t] : m \in Share /\ InCall(t, m) /\ m \notin net[t]
           /\ cqpc[t] # "next" => /\ cqReq[t] \in Share /\ InCall(t, cqReq[t])
                                  /\ cqReq[t] \notin net[t] /\ cqReq[t] \notin matched[t]
    BY DEF CallInv, QueueInv, TypeOK
  <2>7. \A t \in Server : \A m \in net'[t] : InCall(t, m)'
    BY <2>2, <2>4, <2>5, <2>6 DEF Succ
  <2>8. \A t \in Server : \A m \in matched'[t] : InCall(t, m)' /\ m \notin net'[t]
    BY <2>2, <2>4, <2>6
  <2>9. ASSUME NEW t \in Server, cqpc'[t] # "next"
        PROVE  InCall(t, cqReq[t])' /\ cqReq'[t] \notin net'[t] /\ cqReq'[t] \notin matched'[t]
    <3>1. PICK y \in Share : y = cqReq[t] /\ InCall(t, y) /\ y \notin net[t] /\ y \notin matched[t]
      BY <2>2, <2>6, <2>9
    <3>2. InCall(t, y)' /\ y # x /\ y = cqReq'[t]
      BY <2>2, <2>4, <3>1
    <3>3. QED
      BY <2>2, <3>1, <3>2
  <2>10. QED
    BY <2>7, <2>8, <2>9 DEF CallInv
<1>4. ASSUME NEW s \in Server, NEW q \in Query, SendMultFails(s, q)
      PROVE  CallInv'
  BY <1>4 DEF SendMultFails
<1>5. ASSUME NEW s \in Server, NEW q \in Query, LockMult(s, q)
      PROVE  CallInv'
  BY <1>5, CallKept DEF LockMult, TypeOK
<1>6. ASSUME NEW s \in Server, NEW q \in Query, WaitMult(s, q)
      PROVE  CallInv'
  BY <1>6, CallKept DEF WaitMult, queueVars, TypeOK
<1>7. ASSUME NEW s \in Server, NEW q \in Query, TakeShare(s, q)
      PROVE  CallInv'
  BY <1>7, CallKept DEF TakeShare, EmptySlot, OrderCVNotify, TypeOK
<1>8. ASSUME NEW s \in Server, NEW q \in Query, LeaveRound(s, q)
      PROVE  CallInv'
  BY <1>8, CallKept DEF LeaveRound, queueVars, TypeOK
<1>9. ASSUME NEW s \in Server, NEW q \in Query, SpuriousWakeMult(s, q)
      PROVE  CallInv'
  BY <1>9, CallKept DEF SpuriousWakeMult, queueVars, slotVars, TypeOK
<1>10. ASSUME NEW s \in Server, MatchMult(s)
       PROVE  CallInv'
  <2>1. PICK x \in net[s] : /\ net' = [net EXCEPT ![s] = @ \ {x}]
                            /\ matched' = [matched EXCEPT ![s] = @ \cup {x}]
    BY <1>10 DEF MatchMult
  <2>2. /\ net'[s] = net[s] \ {x} /\ matched'[s] = matched[s] \cup {x}
        /\ \A t \in Server : t # s => net'[t] = net[t] /\ matched'[t] = matched[t]
        /\ UNCHANGED <<pc, round, cqpc, cqReq>>
    BY <1>10, <2>1 DEF MatchMult, handlerVars, TypeOK
  <2>3. \A t \in Server : \A m : InCall(t, m)' <=> InCall(t, m)
    BY <2>2 DEF InCall, Succ
  <2>4. \A t \in Server : InCall(t, cqReq[t])' <=> InCall(t, cqReq[t])
    BY <2>2 DEF InCall, Succ
  <2>5. QED
    BY <2>2, <2>3, <2>4 DEF CallInv
<1>11. ASSUME NEW s \in Server, ProceedMult(s)
       PROVE  CallInv'
  <2>1. PICK x \in matched[s] : /\ cqReq' = [cqReq EXCEPT ![s] = x]
                                /\ matched' = [matched EXCEPT ![s] = @ \ {x}]
    BY <1>11 DEF ProceedMult
  <2>2. /\ matched'[s] = matched[s] \ {x} /\ cqReq'[s] = x
        /\ \A t \in Server : t # s => /\ matched'[t] = matched[t]
                                     /\ cqReq'[t] = cqReq[t] /\ cqpc'[t] = cqpc[t]
        /\ UNCHANGED <<pc, round, net>>
    BY <1>11, <2>1 DEF ProceedMult, handlerVars, TypeOK
  <2>3. \A t \in Server : \A m : InCall(t, m)' <=> InCall(t, m)
    BY <2>2 DEF InCall, Succ
  <2>4. \A t \in Server : InCall(t, cqReq[t])' <=> InCall(t, cqReq'[t])
    BY <2>2 DEF InCall, Succ
  <2>5. x \notin net[s] /\ InCall(s, x)
    BY DEF CallInv
  <2>6. QED
    BY <2>2, <2>3, <2>4, <2>5 DEF CallInv
<1>12. ASSUME NEW s \in Server, LockFinish(s)
       PROVE  CallInv'
  BY <1>12, CallKept DEF LockFinish, handlerVars, TypeOK
<1>13. ASSUME NEW s \in Server, WaitFinish(s)
       PROVE  CallInv'
  BY <1>13, CallKept DEF WaitFinish, handlerVars, TypeOK
<1>14. ASSUME NEW s \in Server, StoreShare(s)
       PROVE  CallInv'
  <2>1. /\ UNCHANGED <<net, matched, cqReq, round>> /\ cqpc[s] = "locked"
        /\ \A t \in Server : t # s => cqpc'[t] = cqpc[t]
    BY <1>14 DEF StoreShare, TypeOK
  <2>2. QED
    BY <1>14, <2>1, StoreWakes, CallKept
<1>15. ASSUME NEW s \in Server, AnswerMult(s)
       PROVE  CallInv'
  <2>1. PICK x \in Share : x = cqReq[s] /\ InCall(s, x) /\ x \notin net[s] /\ x \notin matched[s]
    BY <1>15 DEF AnswerMult, QueueInv, CallInv
  <2>2. /\ cqpc'[s] = "next" /\ UNCHANGED <<round, net, matched>>
        /\ \A t \in Server : t # s => cqpc'[t] = cqpc[t] /\ cqReq'[t] = cqReq[t]
    BY <1>15 DEF AnswerMult, TypeOK
  <2>3. ASSUME NEW t \in Server, NEW m \in Share, InCall(t, m), t # s \/ m # x
        PROVE  InCall(t, m)'
    <3>1. /\ m.from \in Server /\ m.query \in Query /\ t = Succ(m.from)
          /\ pc[m.from][m.query] = "calling" /\ round[m.from][m.query] = m.round
      BY <2>3 DEF InCall, Share
    <3>2. m = ShareOf(m.from, m.query, round[m.from][m.query])
      BY <3>1 DEF Share, ShareOf
    <3>3. t # s => m # x
      BY <2>1, <3>1 DEF InCall
    <3>4. pc'[m.from][m.query] = "calling"
      BY <1>15, <2>1, <2>3, <3>1, <3>2, <3>3, AnswerReturns
    <3>5. QED
      BY <2>2, <3>1, <3>4 DEF InCall, Succ
  <2>4. \A t \in Server :
           /\ \A m \in net[t] : m \in Share /\ InCall(t, m)
           /\ \A m \in matched[t] : m \in Share /\ InCall(t, m) /\ m \notin net[t]
           /\ cqpc[t] # "next" => /\ cqReq[t] \in Share /\ InCall(t, cqReq[t])
                                  /\ cqReq[t] \notin net[t] /\ cqReq[t] \notin matched[t]
    BY DEF CallInv, QueueInv, TypeOK
  <2>5. ASSUME NEW t \in Server, cqpc'[t] # "next"
        PROVE  InCall(t, cqReq[t])' /\ cqReq'[t] \notin net'[t] /\ cqReq'[t] \notin matched'[t]
    <3>1. PICK y \in Share : y = cqReq[t] /\ InCall(t, y) /\ y \notin net[t] /\ y \notin matched[t]
      BY <2>2, <2>4, <2>5
    <3>2. InCall(t, y)' /\ y = cqReq'[t]
      BY <2>2, <2>3, <2>5, <3>1
    <3>3. QED
      BY <2>2, <3>1, <3>2
  <2>6. \A t \in Server :
           /\ \A m \in net'[t] : InCall(t, m)'
           /\ \A m \in matched'[t] : InCall(t, m)' /\ m \notin net'[t]
    BY <2>1, <2>2, <2>3, <2>4
  <2>7. QED
    BY <2>5, <2>6 DEF CallInv
<1>16. ASSUME NEW s \in Server, SpuriousWakeFinish(s)
       PROVE  CallInv'
  BY <1>16, CallKept DEF SpuriousWakeFinish, handlerVars, slotVars, TypeOK
<1>17. CASE UNCHANGED vars
  BY <1>17, CallKept DEF vars, handlerVars, queueVars, slotVars, TypeOK
<1>18. QED
  BY <1>1, <1>2, <1>3, <1>4, <1>5, <1>6, <1>7, <1>8, <1>9, <1>10, <1>11,
     <1>12, <1>13, <1>14, <1>15, <1>16, <1>17
  DEF Next, Handler, Queue, Quiescent

\* A serial client has one query under way at most.
LEMMA SerialNext ==
  ASSUME Serial
  PROVE  TypeOK /\ QueueInv /\ RoundInv /\ SerialInv /\ [Next]_vars => SerialInv'
<1> SUFFICES ASSUME TypeOK, QueueInv, RoundInv, SerialInv, [Next]_vars
             PROVE  SerialInv'
  OBVIOUS
<1>a. ASSUME issued' = issued,
             \A t \in Server, p \in Query : pc[t][p] = "done" => pc'[t][p] = "done"
      PROVE  SerialInv'
  <2>1. issued \subseteq Query /\ \A p \in Query : Answered(p) => Answered(p)'
    BY <1>a DEF Answered, TypeOK
  <2>2. QED
    BY <1>a, <2>1 DEF SerialInv
<1>1. ASSUME NEW q \in Query, ClientSends(q)
      PROVE  SerialInv'
  BY <1>1 DEF ClientSends, handlerVars, SerialInv, Answered, TypeOK
<1>2. ASSUME NEW s \in Server, NEW q \in Query, SendAggQuery(s, q)
      PROVE  SerialInv'
  BY <1>a, <1>2 DEF SendAggQuery, queueVars, slotVars, TypeOK
<1>3. ASSUME NEW s \in Server, NEW q \in Query, SendMult(s, q)
      PROVE  SerialInv'
  BY <1>a, <1>3 DEF SendMult, queueVars, slotVars, TypeOK
<1>4. ASSUME NEW s \in Server, NEW q \in Query, SendMultFails(s, q)
      PROVE  SerialInv'
  BY <1>a, <1>4 DEF SendMultFails, queueVars, slotVars, TypeOK
<1>5. ASSUME NEW s \in Server, NEW q \in Query, LockMult(s, q)
      PROVE  SerialInv'
  BY <1>a, <1>5 DEF LockMult, TypeOK
<1>6. ASSUME NEW s \in Server, NEW q \in Query, WaitMult(s, q)
      PROVE  SerialInv'
  BY <1>a, <1>6 DEF WaitMult, queueVars, TypeOK
<1>7. ASSUME NEW s \in Server, NEW q \in Query, TakeShare(s, q)
      PROVE  SerialInv'
  BY <1>a, <1>7 DEF TakeShare, EmptySlot, OrderCVNotify, TypeOK
<1>8. ASSUME NEW s \in Server, NEW q \in Query, LeaveRound(s, q)
      PROVE  SerialInv'
  BY <1>a, <1>8 DEF LeaveRound, queueVars, TypeOK
<1>9. ASSUME NEW s \in Server, NEW q \in Query, SpuriousWakeMult(s, q)
      PROVE  SerialInv'
  BY <1>a, <1>9 DEF SpuriousWakeMult, queueVars, slotVars, TypeOK
<1>10. ASSUME NEW s \in Server, MatchMult(s)
       PROVE  SerialInv'
  BY <1>a, <1>10 DEF MatchMult, handlerVars, slotVars, TypeOK
<1>11. ASSUME NEW s \in Server, ProceedMult(s)
       PROVE  SerialInv'
  BY <1>a, <1>11 DEF ProceedMult, PostCallData, handlerVars, slotVars, TypeOK
<1>12. ASSUME NEW s \in Server, LockFinish(s)
       PROVE  SerialInv'
  BY <1>a, <1>12 DEF LockFinish, handlerVars, TypeOK
<1>13. ASSUME NEW s \in Server, WaitFinish(s)
       PROVE  SerialInv'
  BY <1>a, <1>13 DEF WaitFinish, handlerVars, TypeOK
<1>14. ASSUME NEW s \in Server, StoreShare(s)
       PROVE  SerialInv'
  <2>1. issued' = issued
    BY <1>14 DEF StoreShare
  <2>2. QED
    BY <1>a, <1>14, <2>1, StoreWakes
<1>15. ASSUME NEW s \in Server, AnswerMult(s)
       PROVE  SerialInv'
  <2>1. issued' = issued
    BY <1>15 DEF AnswerMult
  <2>2. QED
    BY <1>a, <1>15, <2>1, AnswerReturns
<1>16. ASSUME NEW s \in Server, SpuriousWakeFinish(s)
       PROVE  SerialInv'
  BY <1>a, <1>16 DEF SpuriousWakeFinish, handlerVars, slotVars, TypeOK
<1>17. CASE UNCHANGED vars
  BY <1>a, <1>17 DEF vars, handlerVars, queueVars, slotVars, TypeOK
<1>18. QED
  BY <1>1, <1>2, <1>3, <1>4, <1>5, <1>6, <1>7, <1>8, <1>9, <1>10, <1>11,
     <1>12, <1>13, <1>14, <1>15, <1>16, <1>17
  DEF Next, Handler, Queue, Quiescent

\* A step that moves no share into or out of the slot and begins or ends no call.
LEMMA CountKept ==
  ASSUME TypeOK, QueueInv, CountInv, [Next]_vars,
         UNCHANGED <<res0, multReceivedShares>>,
         \A s \in Server, q \in Query : pc'[s][q] = "calling" <=> pc[s][q] = "calling",
         \A s \in Server : cqpc'[s] = "finish" <=> cqpc[s] = "finish",
         \A s \in Server : cqpc[s] = "finish" => cqReq'[s] = cqReq[s]
  PROVE  CountInv'
<1> SUFFICES ASSUME NEW s \in Server, NEW q \in Query
             PROVE  Given(s, q)' = Len(res0'[Succ(s)][q]) + InSlot(Succ(s), q)'
                                     + OnItsWay(s, q)'
  BY DEF CountInv, Succ
<1>1. Given(s, q)' = Given(s, q)
  <2>1. SendMult(s, q) => pc[s][q] = "ready" /\ pc'[s][q] = "calling"
    BY DEF SendMult, TypeOK
  <2>2. QED
    BY <2>1, GivenStep
<1>2. PICK t \in Server : t = Succ(s)
  BY SuccInServer
<1>4. OnItsWay(s, q)' = OnItsWay(s, q)
  <2>1. Pending(s, q)' <=> Pending(s, q)
    BY <1>2 DEF Pending, Succ
  <2>2. QED
    BY <2>1 DEF OnItsWay
<1>5. InSlot(Succ(s), q)' = InSlot(Succ(s), q)
  BY <1>2 DEF InSlot, Holds, SlotFull, Succ
<1>6. QED
  BY <1>1, <1>4, <1>5 DEF CountInv

\* The slot of s is only ever full with a share of the query whose handlers run: a
\* handler that has the lock finds its own query's share there.
LEMMA OwnShare ==
  ASSUME TypeOK, RoundInv, GotInv, SerialInv, CountInv, SlotInv,
         NEW s \in Server, NEW q \in Query, pc[s][q] = "locked", SlotFull(s)
  PROVE  multReceivedShares[s] = ShareOf(Pred(s), q, Len(res0[s][q]))
<1>1. PICK m \in Share : m = multReceivedShares[s]
  BY DEF TypeOK, SlotFull
<1>2. /\ m.from \in Server /\ m.query \in Query /\ m.round \in Nat
      /\ m = ShareOf(m.from, m.query, m.round)
  BY DEF Share, ShareOf
<1>3. s = Succ(m.from) /\ m.round = Len(res0[s][m.query])
  BY <1>1 DEF SlotInv
<1>4. m.from = Pred(s)
  BY <1>2, <1>3, PredOfSucc
<1>5. m.query = q
  <2> SUFFICES ASSUME m.query # q
               PROVE  FALSE
    OBVIOUS
  <2>1. Given(m.from, m.query) = Len(res0[s][m.query]) + 1
                                   + OnItsWay(m.from, m.query)
    BY <1>1, <1>2, <1>3 DEF CountInv, InSlot, Holds
  <2>2. Len(res0[s][m.query]) \in Nat /\ OnItsWay(m.from, m.query) \in Nat
    BY <1>2 DEF TypeOK, OnItsWay
  <2>3. pc[m.from][m.query] # "idle"
    <3>1. pc[m.from][m.query] = "idle" => Given(m.from, m.query) = 0
      BY <1>2 DEF Given, RoundInv
    <3>2. QED
      BY <2>1, <2>2, <3>1
  <2>4. m.query \in issued /\ q \in issued
    BY <1>2, <2>3 DEF RoundInv
  <2>5. Answered(m.query)
    BY <2>4 DEF SerialInv, Answered
  <2>6. pc[m.from][m.query] = "done" /\ pc[s][m.query] = "done"
    BY <1>2, <2>5 DEF Answered
  <2>7. Given(m.from, m.query) = NumFilters[m.query]
    BY <1>2, <2>6, ConstantsAssumption DEF Given, RoundInv
  <2>8. Len(res0[s][m.query]) = NumFilters[m.query]
    BY <1>2, <2>6, ConstantsAssumption DEF GotInv, RoundInv
  <2>9. QED
    BY <2>1, <2>2, <2>7, <2>8
<1>6. QED
  BY <1>1, <1>2, <1>3, <1>4, <1>5

\* What a handler takes is counted where it was in the slot.
LEMMA CountNext ==
  ASSUME Flaky = {}, TypeOK, QueueInv, GotInv, RoundInv, CallInv, SerialInv,
         CountInv, SlotInv, [Next]_vars
  PROVE  CountInv'
<1>c. \A t \in Server, p \in Query : Given(t, p) \in Nat /\ Len(res0[t][p]) \in Nat
  <2>1. \A t \in Server, p \in Query : Len(res0[t][p]) \in Nat
    BY DEF TypeOK
  <2>2. QED
    BY <2>1, GivenIsNat
<1>a. \A t, u \in Server, p \in Query :
         u = Succ(t)
           => /\ Given(t, p) = Len(res0[u][p]) + InSlot(u, p) + OnItsWay(t, p)
              /\ Len(res0[u][p]) \in Nat /\ Given(t, p) \in Nat
              /\ InSlot(u, p) \in Nat /\ OnItsWay(t, p) \in Nat
  BY <1>c DEF CountInv, InSlot, OnItsWay
<1>b. (\A t, u \in Server, p \in Query :
          u = Succ(t) => Given(t, p)' = Len(res0'[u][p]) + InSlot(u, p)' + OnItsWay(t, p)')
        => CountInv'
  BY SuccInServer DEF CountInv, Succ
<1>1. ASSUME NEW q \in Query, ClientSends(q)
      PROVE  CountInv'
  BY <1>1, CountKept
  DEF ClientSends, handlerVars, queueVars, slotVars, TypeOK
<1>2. ASSUME NEW s \in Server, NEW q \in Query, SendAggQuery(s, q)
      PROVE  CountInv'
  BY <1>2, CountKept
  DEF SendAggQuery, queueVars, slotVars, TypeOK
<1>3. ASSUME NEW s \in Server, NEW q \in Query, SendMult(s, q)
      PROVE  CountInv'
  <2>1. /\ pc[s][q] = "ready" /\ pc'[s][q] = "calling"
        /\ \A t \in Server, p \in Query : (t # s \/ p # q) => pc'[t][p] = pc[t][p]
        /\ UNCHANGED <<round, res0, multReceivedShares, cqpc, cqReq>>
    BY <1>3 DEF SendMult, queueVars, slotVars, TypeOK
  <2>2. Given(s, q)' = Given(s, q) + 1
    BY <2>1 DEF Given, TypeOK
  <2>3. ~Pending(s, q)
    BY <2>1 DEF OnItsWay, Pending
  <2>4. Pending(s, q)'
    <3>1. PICK t \in Server : t = Succ(s)
      BY SuccInServer
    <3>2. ASSUME cqpc[t] = "finish", cqReq[t].query = q
          PROVE  FALSE
      <4>1. cqReq[t] \in Share /\ InCall(t, cqReq[t])
        BY <3>2 DEF CallInv, QueueInv
      <4>2. cqReq[t].from = s
        BY <3>1, <4>1, PredOfSucc DEF InCall, Share
      <4>3. QED
        BY <2>1, <3>2, <4>1, <4>2 DEF InCall
    <3>3. QED
      BY <2>1, <3>1, <3>2 DEF OnItsWay, Pending, Succ
  <2>5. ASSUME NEW t \in Server, NEW u \in Server, NEW p \in Query, u = Succ(t)
        PROVE  Given(t, p)' = Len(res0'[u][p]) + InSlot(u, p)' + OnItsWay(t, p)'
    <3>1. /\ Given(t, p) = Len(res0[u][p]) + InSlot(u, p) + OnItsWay(t, p)
          /\ Len(res0[u][p]) \in Nat /\ Given(t, p) \in Nat
          /\ InSlot(u, p) \in Nat /\ OnItsWay(t, p) \in Nat
          /\ Len(res0'[u][p]) = Len(res0[u][p])
          /\ InSlot(u, p)' = InSlot(u, p)
      BY <1>a, <2>1, <2>5 DEF InSlot, Holds, SlotFull
    <3>2. CASE t = s /\ p = q
      <4>1. Given(t, p)' = Given(t, p) + 1 /\ OnItsWay(t, p) = 0 /\ OnItsWay(t, p)' = 1
        BY <2>2, <2>3, <2>4, <3>2 DEF OnItsWay
      <4>2. QED
        BY <3>1, <4>1
    <3>3. CASE t # s \/ p # q
      <4>1. Given(t, p)' = Given(t, p) /\ (OnItsWay(t, p)' = OnItsWay(t, p))
        BY <2>1, <3>3 DEF Given, OnItsWay, Pending, Succ
      <4>2. QED
        BY <3>1, <4>1
    <3>4. QED
      BY <3>2, <3>3
  <2>6. QED
    BY <1>b, <2>5
<1>4. ASSUME NEW s \in Server, NEW q \in Query, SendMultFails(s, q)
      PROVE  CountInv'
  BY <1>4 DEF SendMultFails
<1>5. ASSUME NEW s \in Server, NEW q \in Query, LockMult(s, q)
      PROVE  CountInv'
  BY <1>5, CountKept
  DEF LockMult, TypeOK
<1>6. ASSUME NEW s \in Server, NEW q \in Query, WaitMult(s, q)
      PROVE  CountInv'
  BY <1>6, CountKept
  DEF WaitMult, queueVars, TypeOK
<1>7. ASSUME NEW s \in Server, NEW q \in Query, TakeShare(s, q)
      PROVE  CountInv'
  <2>1. /\ pc[s][q] = "locked" /\ pc'[s][q] = "taken" /\ SlotFull(s)
        /\ \A t \in Server, p \in Query :
             (t # s \/ p # q) => pc'[t][p] = pc[t][p] /\ res0'[t][p] = res0[t][p]
        /\ res0'[s][q] = Append(res0[s][q], multReceivedShares[s])
        /\ multReceivedShares'[s] = NULL
        /\ \A t \in Server : t # s => multReceivedShares'[t] = multReceivedShares[t]
        /\ UNCHANGED <<round, cqReq>>
    BY <1>7 DEF TakeShare, EmptySlot, ShareArrived, TypeOK
  <2>2. multReceivedShares[s] = ShareOf(Pred(s), q, Len(res0[s][q]))
    BY <2>1, OwnShare
  <2>3. /\ Len(res0[s][q]) \in Nat
        /\ Len(res0'[s][q]) = Len(res0[s][q]) + 1
    BY <2>1 DEF TypeOK
  <2>4. \A t \in Server : cqpc'[t] = "finish" <=> cqpc[t] = "finish"
    BY <1>7 DEF TakeShare, OrderCVNotify, TypeOK
  <2>5. \A t \in Server, p \in Query :
           Given(t, p)' = Given(t, p) /\ (OnItsWay(t, p)' = OnItsWay(t, p))
    BY <2>1, <2>4, SuccInServer DEF Given, OnItsWay, Pending, Succ
  <2>6. \A p \in Query : Holds(s, p) <=> p = q
    BY <2>1, <2>2 DEF InSlot, Holds, ShareOf
  <2>7. ASSUME NEW t \in Server, NEW u \in Server, NEW p \in Query, u = Succ(t)
        PROVE  Given(t, p)' = Len(res0'[u][p]) + InSlot(u, p)' + OnItsWay(t, p)'
    <3>1. /\ Given(t, p) = Len(res0[u][p]) + InSlot(u, p) + OnItsWay(t, p)
          /\ Len(res0[u][p]) \in Nat /\ Given(t, p) \in Nat
          /\ InSlot(u, p) \in Nat /\ OnItsWay(t, p) \in Nat
      BY <1>a, <2>7
    <3>2. CASE u = s /\ p = q
      <4>1. /\ Len(res0'[u][p]) = Len(res0[u][p]) + 1
            /\ InSlot(u, p) = 1 /\ InSlot(u, p)' = 0
        BY <2>1, <2>3, <2>6, <3>2 DEF InSlot, Holds, SlotFull
      <4>2. QED
        BY <2>5, <3>1, <4>1
    <3>3. CASE u = s /\ p # q
      <4>1. Len(res0'[u][p]) = Len(res0[u][p]) /\ InSlot(u, p) = 0 /\ InSlot(u, p)' = 0
        BY <2>1, <2>6, <3>3 DEF InSlot, Holds, SlotFull
      <4>2. QED
        BY <2>5, <3>1, <4>1
    <3>4. CASE u # s
      <4>1. Len(res0'[u][p]) = Len(res0[u][p]) /\ (InSlot(u, p)' = InSlot(u, p))
        BY <2>1, <3>4 DEF InSlot, Holds, SlotFull
      <4>2. QED
        BY <2>5, <3>1, <4>1
    <3>5. QED
      BY <3>2, <3>3, <3>4
  <2>8. QED
    BY <1>b, <2>7
<1>8. ASSUME NEW s \in Server, NEW q \in Query, LeaveRound(s, q)
      PROVE  CountInv'
  BY <1>8, CountKept
  DEF LeaveRound, queueVars, TypeOK
<1>9. ASSUME NEW s \in Server, NEW q \in Query, SpuriousWakeMult(s, q)
      PROVE  CountInv'
  BY <1>9, CountKept
  DEF SpuriousWakeMult, queueVars, slotVars, TypeOK
<1>10. ASSUME NEW s \in Server, MatchMult(s)
       PROVE  CountInv'
  BY <1>10, CountKept
  DEF MatchMult, handlerVars, slotVars, TypeOK
<1>11. ASSUME NEW s \in Server, ProceedMult(s)
       PROVE  CountInv'
  BY <1>11, CountKept
  DEF ProceedMult, PostCallData, handlerVars, slotVars, TypeOK
<1>12. ASSUME NEW s \in Server, LockFinish(s)
       PROVE  CountInv'
  BY <1>12, CountKept
  DEF LockFinish, handlerVars, TypeOK
<1>13. ASSUME NEW s \in Server, WaitFinish(s)
       PROVE  CountInv'
  BY <1>13, CountKept
  DEF WaitFinish, handlerVars, TypeOK
<1>14. ASSUME NEW s \in Server, StoreShare(s)
       PROVE  CountInv'
  <2>1. PICK x \in Share : x = cqReq[s] /\ InCall(s, x)
    BY <1>14 DEF StoreShare, QueueInv, CallInv
  <2>2. /\ cqpc[s] = "locked" /\ cqpc'[s] = "finish" /\ ~SlotFull(s)
        /\ \A t \in Server : t # s => /\ cqpc'[t] = cqpc[t]
                                     /\ multReceivedShares'[t] = multReceivedShares[t]
        /\ multReceivedShares'[s] = x
        /\ UNCHANGED <<round, res0, cqReq>>
    BY <1>14, <2>1 DEF StoreShare, SlotOccupied, TypeOK
  <2>3. /\ x.from \in Server /\ x.query \in Query /\ x # NULL
        /\ s = Succ(x.from) /\ pc[x.from][x.query] = "calling"
    BY <2>1, ConstantsAssumption DEF InCall, Share
  <2>4. \A t \in Server, p \in Query :
           /\ pc'[t][p] = "calling" <=> pc[t][p] = "calling"
           /\ Given(t, p)' = Given(t, p)
    <3>1. ASSUME NEW t \in Server, NEW p \in Query
          PROVE  pc'[t][p] = pc[t][p] \/ (pc[t][p] = "waiting" /\ pc'[t][p] = "woken")
      BY <1>14, StoreWakes
    <3>2. QED
      BY <2>2, <3>1 DEF Given
  <2>5. ASSUME NEW t \in Server, NEW u \in Server, NEW p \in Query, u = Succ(t)
        PROVE  Given(t, p)' = Len(res0'[u][p]) + InSlot(u, p)' + OnItsWay(t, p)'
    <3>1. /\ Given(t, p) = Len(res0[u][p]) + InSlot(u, p) + OnItsWay(t, p)
          /\ Len(res0[u][p]) \in Nat /\ Given(t, p) \in Nat
          /\ InSlot(u, p) \in Nat /\ OnItsWay(t, p) \in Nat
      BY <1>a, <2>5
    <3>a. Given(t, p)' = Given(t, p) /\ Len(res0'[u][p]) = Len(res0[u][p])
      BY <2>2, <2>4
    <3>2. CASE t = x.from /\ p = x.query
      <4>1. OnItsWay(t, p) = 1 /\ OnItsWay(t, p)' = 0
        BY <2>1, <2>2, <2>3, <2>4, <3>2 DEF OnItsWay, Pending, Succ
      <4>2. InSlot(u, p) = 0 /\ InSlot(u, p)' = 1
        BY <2>2, <2>3, <2>5, <3>2 DEF InSlot, Holds, SlotFull
      <4>3. QED
        BY <3>1, <3>a, <4>1, <4>2
    <3>3. CASE t = x.from /\ p # x.query
      <4>1. OnItsWay(t, p)' = OnItsWay(t, p)
        BY <2>1, <2>2, <2>3, <2>4, <3>3 DEF OnItsWay, Pending, Succ
      <4>2. InSlot(u, p) = 0 /\ InSlot(u, p)' = 0
        BY <2>2, <2>3, <2>5, <3>3 DEF InSlot, Holds, SlotFull
      <4>3. QED
        BY <3>1, <3>a, <4>1, <4>2
    <3>4. CASE t # x.from
      <4>1. u # s
        BY <2>3, <2>5, <3>4, PredOfSucc
      <4>2. /\ OnItsWay(t, p)' = OnItsWay(t, p)
            /\ InSlot(u, p)' = InSlot(u, p)
        BY <2>2, <2>4, <2>5, <4>1 DEF OnItsWay, Pending, Succ, InSlot, Holds, SlotFull
      <4>3. QED
        BY <3>1, <3>a, <4>2
    <3>5. QED
      BY <3>2, <3>3, <3>4
  <2>6. QED
    BY <1>b, <2>5
<1>15. ASSUME NEW s \in Server, AnswerMult(s)
       PROVE  CountInv'
  <2>1. PICK x \in Share : x = cqReq[s] /\ InCall(s, x)
    BY <1>15 DEF AnswerMult, QueueInv, CallInv
  <2>2. /\ cqpc[s] = "finish" /\ cqpc'[s] = "next"
        /\ \A t \in Server : t # s => cqpc'[t] = cqpc[t] /\ cqReq'[t] = cqReq[t]
        /\ UNCHANGED <<round, res0, multReceivedShares>>
    BY <1>15, <2>1 DEF AnswerMult, slotVars, TypeOK
  <2>3. /\ x.from \in Server /\ x.query \in Query
        /\ s = Succ(x.from) /\ pc[x.from][x.query] = "calling"
        /\ x = ShareOf(x.from, x.query, round[x.from][x.query])
    BY <2>1 DEF InCall, Share, ShareOf
  <2>4. ASSUME NEW t \in Server, NEW p \in Query
        PROVE  IF t = x.from /\ p = x.query THEN pc'[t][p] = "called" ELSE pc'[t][p] = pc[t][p]
    <3>1. x = ShareOf(t, p, round[t][p]) => t = x.from /\ p = x.query
      BY DEF ShareOf
    <3>2. QED
      BY <1>15, <2>1, <2>3, <3>1, AnswerReturns
  <2>5. \A t \in Server, p \in Query : Given(t, p)' = Given(t, p)
    BY <2>2, <2>3, <2>4 DEF Given
  <2>6. ASSUME NEW t \in Server, NEW u \in Server, NEW p \in Query, u = Succ(t)
        PROVE  Given(t, p)' = Len(res0'[u][p]) + InSlot(u, p)' + OnItsWay(t, p)'
    <3>1. /\ Given(t, p) = Len(res0[u][p]) + InSlot(u, p) + OnItsWay(t, p)
          /\ Len(res0'[u][p]) = Len(res0[u][p])
          /\ InSlot(u, p)' = InSlot(u, p)
      BY <1>a, <2>2, <2>6 DEF InSlot, Holds, SlotFull
    <3>2. OnItsWay(t, p)' = OnItsWay(t, p)
      <4>1. CASE t = x.from /\ p = x.query
        BY <2>1, <2>2, <2>3, <2>4, <4>1 DEF OnItsWay, Pending
      <4>2. CASE t = x.from /\ p # x.query
        BY <2>1, <2>2, <2>3, <2>4, <4>2 DEF OnItsWay, Pending, Succ
      <4>3. CASE t # x.from
        <5>1. Succ(t) # s /\ Succ(t) \in Server
          BY <2>3, <4>3, PredOfSucc, SuccInServer
        <5>2. QED
          BY <2>2, <2>4, <4>3, <5>1 DEF OnItsWay, Pending, Succ
      <4>4. QED
        BY <4>1, <4>2, <4>3
    <3>3. QED
      BY <2>5, <3>1, <3>2
  <2>7. QED
    BY <1>b, <2>6
<1>16. ASSUME NEW s \in Server, SpuriousWakeFinish(s)
       PROVE  CountInv'
  BY <1>16, CountKept
  DEF SpuriousWakeFinish, handlerVars, slotVars, TypeOK
<1>17. CASE UNCHANGED vars
  BY <1>17, CountKept
  DEF vars, handlerVars, queueVars, slotVars, TypeOK
<1>18. QED
  BY <1>1, <1>2, <1>3, <1>4, <1>5, <1>6, <1>7, <1>8, <1>9, <1>10, <1>11,
     <1>12, <1>13, <1>14, <1>15, <1>16, <1>17
  DEF Next, Handler, Queue, Quiescent

\* Only TakeShare adds to what the handlers have got; only it and StoreShare change a
\* slot.
LEMMA SlotStep ==
  [Next]_vars
    => \/ UNCHANGED <<res0, multReceivedShares>>
       \/ \E s \in Server, q \in Query : TakeShare(s, q)
       \/ \E s \in Server : StoreShare(s)
<1> SUFFICES ASSUME [Next]_vars,
                    ~ \E s \in Server, q \in Query : TakeShare(s, q),
                    ~ \E s \in Server : StoreShare(s)
             PROVE  UNCHANGED <<res0, multReceivedShares>>
  OBVIOUS
<1>1. ASSUME NEW q \in Query, ClientSends(q)
      PROVE  UNCHANGED <<res0, multReceivedShares>>
  BY <1>1 DEF ClientSends, handlerVars, queueVars, slotVars
<1>2. ASSUME NEW s \in Server, NEW q \in Query, SendAggQuery(s, q)
      PROVE  UNCHANGED <<res0, multReceivedShares>>
  BY <1>2 DEF SendAggQuery, queueVars, slotVars
<1>3. ASSUME NEW s \in Server, NEW q \in Query, SendMult(s, q)
      PROVE  UNCHANGED <<res0, multReceivedShares>>
  BY <1>3 DEF SendMult, queueVars, slotVars
<1>4. ASSUME NEW s \in Server, NEW q \in Query, SendMultFails(s, q)
      PROVE  UNCHANGED <<res0, multReceivedShares>>
  BY <1>4 DEF SendMultFails, queueVars, slotVars
<1>5. ASSUME NEW s \in Server, NEW q \in Query, LockMult(s, q)
      PROVE  UNCHANGED <<res0, multReceivedShares>>
  BY <1>5 DEF LockMult
<1>6. ASSUME NEW s \in Server, NEW q \in Query, WaitMult(s, q)
      PROVE  UNCHANGED <<res0, multReceivedShares>>
  BY <1>6 DEF WaitMult, queueVars
<1>7. ASSUME NEW s \in Server, NEW q \in Query, TakeShare(s, q)
      PROVE  UNCHANGED <<res0, multReceivedShares>>
  BY <1>7
<1>8. ASSUME NEW s \in Server, NEW q \in Query, LeaveRound(s, q)
      PROVE  UNCHANGED <<res0, multReceivedShares>>
  BY <1>8 DEF LeaveRound, queueVars
<1>9. ASSUME NEW s \in Server, NEW q \in Query, SpuriousWakeMult(s, q)
      PROVE  UNCHANGED <<res0, multReceivedShares>>
  BY <1>9 DEF SpuriousWakeMult, queueVars, slotVars
<1>10. ASSUME NEW s \in Server, MatchMult(s)
       PROVE  UNCHANGED <<res0, multReceivedShares>>
  BY <1>10 DEF MatchMult, handlerVars, slotVars
<1>11. ASSUME NEW s \in Server, ProceedMult(s)
       PROVE  UNCHANGED <<res0, multReceivedShares>>
  BY <1>11 DEF ProceedMult, PostCallData, handlerVars, slotVars
<1>12. ASSUME NEW s \in Server, LockFinish(s)
       PROVE  UNCHANGED <<res0, multReceivedShares>>
  BY <1>12 DEF LockFinish, handlerVars
<1>13. ASSUME NEW s \in Server, WaitFinish(s)
       PROVE  UNCHANGED <<res0, multReceivedShares>>
  BY <1>13 DEF WaitFinish, handlerVars
<1>14. ASSUME NEW s \in Server, StoreShare(s)
       PROVE  UNCHANGED <<res0, multReceivedShares>>
  BY <1>14
<1>15. ASSUME NEW s \in Server, AnswerMult(s)
       PROVE  UNCHANGED <<res0, multReceivedShares>>
  BY <1>15 DEF AnswerMult, slotVars
<1>16. ASSUME NEW s \in Server, SpuriousWakeFinish(s)
       PROVE  UNCHANGED <<res0, multReceivedShares>>
  BY <1>16 DEF SpuriousWakeFinish, handlerVars, slotVars
<1>17. CASE UNCHANGED vars
  BY <1>17 DEF vars, handlerVars, queueVars, slotVars
<1>18. QED
  BY <1>1, <1>2, <1>3, <1>4, <1>5, <1>6, <1>7, <1>8, <1>9, <1>10, <1>11,
     <1>12, <1>13, <1>14, <1>15, <1>16, <1>17
  DEF Next, Handler, Queue, Quiescent

\* A share is stored when its receiver has got the shares before it.
LEMMA SlotNext ==
  ASSUME TypeOK, QueueInv, GotInv, CallInv, CountInv, SlotInv, [Next]_vars
  PROVE  SlotInv'
<1>a. ASSUME UNCHANGED <<res0, multReceivedShares>>
      PROVE  SlotInv'
  BY <1>a DEF SlotInv, SlotFull, Succ
<1>1. ASSUME NEW s \in Server, NEW q \in Query, TakeShare(s, q)
      PROVE  SlotInv'
  <2>1. /\ multReceivedShares'[s] = NULL
        /\ \A t \in Server : t # s => /\ multReceivedShares'[t] = multReceivedShares[t]
                                     /\ res0'[t] = res0[t]
    BY <1>1 DEF TakeShare, EmptySlot, TypeOK
  <2>2. QED
    BY <2>1 DEF SlotInv, SlotFull, Succ
<1>2. ASSUME NEW s \in Server, StoreShare(s)
      PROVE  SlotInv'
  <2>1. PICK x \in Share : x = cqReq[s] /\ InCall(s, x)
    BY <1>2 DEF StoreShare, QueueInv, CallInv
  <2>2. /\ cqpc[s] = "locked" /\ ~SlotFull(s) /\ res0' = res0
        /\ multReceivedShares'[s] = x
        /\ \A t \in Server : t # s => multReceivedShares'[t] = multReceivedShares[t]
    BY <1>2, <2>1 DEF StoreShare, SlotOccupied, TypeOK
  <2>3. /\ x.from \in Server /\ x.query \in Query /\ x.round \in Nat
        /\ s = Succ(x.from) /\ pc[x.from][x.query] = "calling"
        /\ round[x.from][x.query] = x.round
    BY <2>1 DEF InCall, Share
  <2>4. /\ Given(x.from, x.query) = x.round + 1
        /\ InSlot(s, x.query) = 0
        /\ OnItsWay(x.from, x.query) = 1
    BY <2>2, <2>3 DEF Given, InSlot, Holds, OnItsWay, Pending
  <2>5. /\ Given(x.from, x.query)
             = Len(res0[s][x.query]) + InSlot(s, x.query) + OnItsWay(x.from, x.query)
        /\ Len(res0[s][x.query]) \in Nat
    BY <2>3 DEF CountInv, TypeOK
  <2>6. x.round = Len(res0[s][x.query])
    BY <2>3, <2>4, <2>5
  <2>7. QED
    BY <2>2, <2>3, <2>6 DEF SlotInv, SlotFull, Succ
<1>3. QED
  BY <1>a, <1>1, <1>2, SlotStep
\* What is copied into res0 is the share that OwnShare finds in the slot.
LEMMA PairedNext ==
  ASSUME TypeOK, QueueInv, GotInv, RoundInv, SerialInv, CountInv, SlotInv,
         SharesPaired, [Next]_vars
  PROVE  SharesPaired'
<1>a. ASSUME UNCHANGED res0
      PROVE  SharesPaired'
  BY <1>a DEF SharesPaired, Pred
<1>1. ASSUME NEW s \in Server, NEW q \in Query, TakeShare(s, q)
      PROVE  SharesPaired'
  <2>1. /\ pc[s][q] = "locked" /\ SlotFull(s)
        /\ \A t \in Server, p \in Query : (t # s \/ p # q) => res0'[t][p] = res0[t][p]
        /\ res0'[s][q] = Append(res0[s][q], multReceivedShares[s])
    BY <1>1 DEF TakeShare, ShareArrived, TypeOK
  <2>2. multReceivedShares[s] = ShareOf(Pred(s), q, Len(res0[s][q]))
    BY <2>1, OwnShare
  <2>3. PICK x \in Share : x = multReceivedShares[s]
    BY <2>1 DEF TypeOK, SlotFull
  <2>4. PICK sq \in Seq(Share) : sq = res0[s][q]
    BY DEF TypeOK
  <2>5. ASSUME NEW longer, longer = Append(sq, x), NEW i \in DOMAIN longer
        PROVE  longer[i] = ShareOf(Pred(s), q, i - 1)
    <3>1. /\ i \in 1 .. Len(sq) + 1 /\ Len(sq) \in Nat
          /\ i \in 1 .. Len(sq) => i \in DOMAIN sq /\ longer[i] = sq[i]
          /\ i = Len(sq) + 1 => longer[i] = x
      BY <2>5
    <3>2. CASE i \in 1 .. Len(sq)
      BY <2>4, <3>1, <3>2 DEF SharesPaired
    <3>3. CASE i = Len(sq) + 1
      BY <2>2, <2>3, <2>4, <3>1, <3>3
    <3>4. QED
      BY <3>1, <3>2, <3>3
  <2>6. \A i \in DOMAIN res0'[s][q] : res0'[s][q][i] = ShareOf(Pred(s), q, i - 1)
    BY <2>1, <2>3, <2>4, <2>5
  <2>7. ASSUME NEW t \in Server, NEW p \in Query, NEW i \in DOMAIN res0'[t][p]
        PROVE  res0'[t][p][i] = ShareOf(Pred(t), p, i - 1)
    <3>1. CASE t = s /\ p = q
      BY <2>6, <3>1
    <3>2. CASE t # s \/ p # q
      BY <2>1, <3>2 DEF SharesPaired
    <3>3. QED
      BY <3>1, <3>2
  <2>8. QED
    BY <2>7 DEF SharesPaired, Pred
<1>2. QED
  <2>1. \A s \in Server : StoreShare(s) => res0' = res0
    BY DEF StoreShare
  <2>2. QED
    BY <1>a, <1>1, <2>1, SlotStep
-----------------------------------------------------------------------------

\* What holds between the servers when calls are reliable and the client is serial.
RingInv ==
  /\ GotInv /\ RoundInv /\ TakenInv /\ CallInv /\ SerialInv /\ CountInv /\ SlotInv
  /\ SharesPaired

\* The invariant of the ring is inductive on top of the types, the lock and the queue.
LEMMA RingInvariance ==
  ASSUME Serial, Flaky = {}
  PROVE  Spec => [](IInv /\ RingInv)
<1>1. Init => RingInv
  <2> SUFFICES ASSUME Init
               PROVE  RingInv
    OBVIOUS
  <2> USE ConstantsAssumption DEF Init
  <2>1. GotInv /\ RoundInv /\ TakenInv
    BY DEF GotInv, RoundInv, TakenInv
  <2>2. CallInv /\ SerialInv
    BY DEF CallInv, SerialInv
  <2>3. SlotInv /\ SharesPaired
    BY DEF SlotInv, SlotFull, SharesPaired
  <2>4. ASSUME NEW s \in Server, NEW q \in Query
        PROVE  Given(s, q) = Len(res0[Succ(s)][q]) + InSlot(Succ(s), q) + OnItsWay(s, q)
    <3>1. PICK u \in Server : u = Succ(s)
      BY SuccInServer
    <3>2. Given(s, q) = 0 /\ Len(res0[u][q]) = 0 /\ InSlot(u, q) = 0 /\ OnItsWay(s, q) = 0
      BY DEF Given, InSlot, Holds, SlotFull, OnItsWay, Pending
    <3>3. QED
      BY <3>1, <3>2
  <2>5. QED
    BY <2>1, <2>2, <2>3, <2>4 DEF RingInv, CountInv
<1>2. IInv /\ RingInv /\ [Next]_vars => RingInv'
  <2> SUFFICES ASSUME IInv, RingInv, [Next]_vars
               PROVE  RingInv'
    OBVIOUS
  <2>1. TypeOK /\ LockInv /\ QueueInv
    BY DEF IInv
  <2>2. GotInv /\ RoundInv /\ TakenInv /\ CallInv /\ SerialInv /\ CountInv /\ SlotInv
        /\ SharesPaired
    BY DEF RingInv
  <2>3. GotInv' /\ RoundInv' /\ TakenInv'
    BY <2>1, <2>2, GotNext, RoundNext, TakenNext
  <2>4. CallInv' /\ SerialInv'
    BY <2>1, <2>2, CallNext, SerialNext
  <2>5. CountInv' /\ SlotInv' /\ SharesPaired'
    BY <2>1, <2>2, CountNext, SlotNext, PairedNext
  <2>6. QED
    BY <2>3, <2>4, <2>5 DEF RingInv
<1>3. QED
  BY <1>1, <1>2, Invariance, PTL DEF Spec

\* If the client waits for the answers to one query before it sends the next and calls
\* do not fail, the k-th share a handler copies out of the slot is the one its
\* predecessor computed in step k of the same query.
THEOREM Paired == Serial /\ Flaky = {} => (Spec => []SharesPaired)
<1> SUFFICES ASSUME Serial, Flaky = {}
             PROVE  Spec => []SharesPaired
  OBVIOUS
<1>1. RingInv => SharesPaired
  BY DEF RingInv
<1>2. QED
  BY <1>1, RingInvariance, PTL

\* Under the same premises no server gets two rounds ahead of a neighbour.
THEOREM Skew == Serial /\ Flaky = {} => (Spec => []BoundedSkew)
<1> SUFFICES ASSUME Serial, Flaky = {}
             PROVE  Spec => []BoundedSkew
  OBVIOUS
<1>1. IInv /\ RingInv => BoundedSkew
  <2> SUFFICES ASSUME IInv, RingInv, NEW s \in Server, NEW q \in Query
               PROVE  /\ round[s][q] <= round[Succ(s)][q] + 1
                      /\ round[Succ(s)][q] <= round[s][q] + 1
    BY DEF BoundedSkew
  <2>1. TypeOK /\ GotInv /\ TakenInv /\ CountInv /\ SlotInv
    BY DEF IInv, RingInv
  <2>2. PICK u \in Server : u = Succ(s)
    BY SuccInServer
  <2>3. round[s][q] \in Nat /\ round[u][q] \in Nat
    BY <2>1 DEF TypeOK
  <2>4. Given(s, q) = round[s][q] \/ Given(s, q) = round[s][q] + 1
    BY <2>3 DEF Given
  <2>5. \/ pc[u][q] # "taken" /\ Len(res0[u][q]) = round[u][q]
        \/ pc[u][q] = "taken" /\ Len(res0[u][q]) = round[u][q] + 1
    BY <2>1, <2>3 DEF GotInv
  <2>6. Given(s, q) = Len(res0[u][q]) + InSlot(u, q) + OnItsWay(s, q)
    BY <2>1, <2>2 DEF CountInv
  <2>7. /\ InSlot(u, q) \in {0, 1} /\ OnItsWay(s, q) \in {0, 1}
        /\ pc[u][q] = "taken" => InSlot(u, q) = 0
    BY <2>1 DEF InSlot, Holds, OnItsWay, TakenInv
  <2>8. OnItsWay(s, q) = 1 => Given(s, q) = round[s][q] + 1
    BY <2>3 DEF OnItsWay, Pending, Given
  <2>9. PICK r \in Nat, k \in Nat, len \in Nat, i \in {0, 1}, w \in {0, 1} :
           /\ r = round[s][q] /\ k = round[u][q] /\ len = Len(res0[u][q])
           /\ i = InSlot(u, q) /\ w = OnItsWay(s, q)
    BY <2>3, <2>5, <2>7
  <2>10. len + i = k \/ len + i = k + 1
    BY <2>5, <2>7, <2>9
  <2>11. Given(s, q) = len + i + w /\ (w = 1 => Given(s, q) = r + 1)
    BY <2>6, <2>8, <2>9
  <2>12. len + i = r \/ len + i = r + 1
    <3>1. CASE w = 1
      BY <2>9, <2>11, <3>1
    <3>2. CASE w = 0
      BY <2>4, <2>9, <2>11, <3>2
    <3>3. QED
      BY <2>9, <3>1, <3>2
  <2>13. r <= k + 1 /\ k <= r + 1
    BY <2>9, <2>10, <2>12
  <2>14. QED
    BY <2>2, <2>9, <2>13
<1>2. QED
  BY <1>1, RingInvariance, PTL

-----------------------------------------------------------------------------
(* The exchange implements RoundExchange: the safety part.                 *)

\* The call of SendMult is the abstract Give.
LEMMA SendGives ==
  ASSUME TypeOK, QueueInv, GotInv, RoundInv, NEW s \in Server, NEW q \in Query,
         SendMult(s, q)
  PROVE  Abstract!Give(s, q)
<1>1. /\ pc[s][q] = "ready" /\ pc'[s][q] = "calling" /\ res0' = res0
      /\ \A t \in Server, p \in Query : (t # s \/ p # q) => pc'[t][p] = pc[t][p]
      /\ UNCHANGED round
  BY DEF SendMult, TypeOK
<1>2. Given(s, q) = round[s][q] /\ Given(s, q)' = Given(s, q) + 1 /\ round[s][q] \in Nat
  BY <1>1 DEF Given, TypeOK
<1>3. ASSUME NEW t \in Server, NEW p \in Query, t # s \/ p # q
      PROVE  Given(t, p)' = Given(t, p)
  BY <1>1, <1>3 DEF Given
<1>4. Given(s, q) = Len(res0[s][q]) /\ Given(s, q) < NumFilters[q]
  BY <1>1, <1>2 DEF GotInv, RoundInv
<1>5. [t \in Server |-> [p \in Query |-> Given(t, p)]]'
        = [[t \in Server |-> [p \in Query |-> Given(t, p)]] EXCEPT ![s][q] = @ + 1]
  BY <1>2, <1>3
<1>6. QED
  BY <1>1, <1>4, <1>5 DEF Abstract!Give

\* The two definitions of the predecessor agree.
LEMMA SamePred == \A s \in Server : Abstract!Pred(s) = Pred(s)
<1> SUFFICES ASSUME NEW s \in Server
             PROVE  Abstract!Pred(s) = Pred(s)
  OBVIOUS
<1>1. \A p \in Server : Succ(p) = s <=> p = Pred(s)
  BY PredOfSucc
<1>2. Pred(s) \in Server
  BY PredOfSucc
<1>3. QED
  BY <1>1, <1>2 DEF Abstract!Pred, Abstract!Server, Abstract!Succ, Server, Succ

\* The copy into res0 is the abstract Get.
LEMMA TakeGets ==
  ASSUME IInv, RingInv, NEW s \in Server, NEW q \in Query, TakeShare(s, q),
         \A t \in Server, p \in Query : Given(t, p)' = Given(t, p)
  PROVE  Abstract!Get(s, q)
<1>1. /\ TypeOK /\ RoundInv /\ GotInv /\ SerialInv /\ CountInv /\ SlotInv
  BY DEF IInv, RingInv
<1>2. /\ pc[s][q] = "locked" /\ SlotFull(s)
      /\ res0' = [res0 EXCEPT ![s][q] = Append(@, multReceivedShares[s])]
  BY DEF TakeShare, ShareArrived
<1>3. multReceivedShares[s] = ShareOf(Pred(s), q, Len(res0[s][q]))
  BY <1>1, <1>2, OwnShare
<1>4. Len(res0[s][q]) \in Nat /\ Len(res0[s][q]) < Given(s, q)
  <2>1. Len(res0[s][q]) \in Nat /\ round[s][q] \in Nat
    BY <1>1 DEF TypeOK
  <2>2. Given(s, q) = round[s][q] + 1 /\ Len(res0[s][q]) = round[s][q] + 0
    BY <1>1, <1>2 DEF GotInv, Given
  <2>3. QED
    BY <2>1, <2>2
<1>5. PICK t \in Server : t = Pred(s) /\ s = Succ(t)
  BY PredOfSucc
<1>6. Len(res0[s][q]) < Given(t, q)
  <2>1. Given(t, q) = Len(res0[s][q]) + InSlot(s, q) + OnItsWay(t, q)
    BY <1>1, <1>5 DEF CountInv
  <2>2. InSlot(s, q) = 1 /\ OnItsWay(t, q) \in {0, 1}
    BY <1>2, <1>3 DEF InSlot, Holds, OnItsWay, ShareOf
  <2>3. QED
    BY <1>4, <2>1, <2>2
<1>7. [u \in Server |-> [p \in Query |-> Given(u, p)]]'
        = [u \in Server |-> [p \in Query |-> Given(u, p)]]
  OBVIOUS
<1>8. Abstract!Pred(s) = t
  BY <1>5, SamePred
<1>9. res0' = [res0 EXCEPT ![s][q] = Append(@, ShareOf(t, q, Len(@)))]
  BY <1>1, <1>2, <1>3, <1>5 DEF TypeOK
<1>10. QED
  BY <1>4, <1>5, <1>6, <1>7, <1>8, <1>9 DEF Abstract!Get, Abstract!ShareOf, ShareOf

\* If the client is serial and calls do not fail, every behaviour of the exchange is
\* one of the abstract specification: in every round each server works with the share
\* its predecessor gave in that round.
THEOREM Refines == Serial /\ Flaky = {} => (Spec => StepsAreRounds)
<1> SUFFICES ASSUME Serial, Flaky = {}
             PROVE  Spec => StepsAreRounds
  OBVIOUS
<1>1. Init => Abstract!Init
  <2> SUFFICES ASSUME Init
               PROVE  Abstract!Init
    OBVIOUS
  <2>1. \A s \in Server, q \in Query : Given(s, q) = 0
    BY DEF Init, Given
  <2>2. QED
    BY <2>1 DEF Init, Abstract!Init, Abstract!Server, Server
<1>2. IInv /\ RingInv /\ [Next]_vars => [Abstract!Next]_(Abstract!vars)
  <2> SUFFICES ASSUME IInv, RingInv, [Next]_vars
               PROVE  [Abstract!Next]_(Abstract!vars)
    OBVIOUS
  <2>1. TypeOK /\ QueueInv /\ GotInv /\ RoundInv
    BY DEF IInv, RingInv
  <2>2. CASE \E s \in Server, q \in Query : SendMult(s, q)
    BY <2>1, <2>2, SendGives DEF Abstract!Next, Abstract!Server, Server
  <2>3. CASE ~ \E s \in Server, q \in Query : SendMult(s, q)
    <3>1. \A t \in Server, p \in Query : Given(t, p)' = Given(t, p)
      BY <2>1, <2>3, GivenStep
    <3>2. CASE \E s \in Server, q \in Query : TakeShare(s, q)
      BY <3>1, <3>2, TakeGets DEF Abstract!Next, Abstract!Server, Server
    <3>3. CASE res0' = res0
      BY <3>1, <3>3 DEF Abstract!vars
    <3>4. QED
      <4>1. \A s \in Server : StoreShare(s) => res0' = res0
        BY DEF StoreShare
      <4>2. QED
        BY <3>2, <3>3, <4>1, SlotStep
  <2>4. QED
    BY <2>2, <2>3
<1>3. QED
  BY <1>1, <1>2, RingInvariance, PTL DEF Spec, StepsAreRounds
=============================================================================
