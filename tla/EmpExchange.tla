----------------------------- MODULE EmpExchange -----------------------------
(***************************************************************************)
(* The exchange of shares over the EMP sockets, which util.cpp compiles    *)
(* with USE_EMP: in RSSReshare server 0 reads its predecessor's share and  *)
(* then writes its own, the others write and then read.  What is written   *)
(* stays in the stream of the NetIO until the stream passes it on to the   *)
(* socket, of its own accord: RSSReshare never flushes emp_io_upstream and *)
(* never reads from it.  So the exchange may wait for ever, and what is    *)
(* claimed of it is safety.  Stream and socket hold fewer words than a     *)
(* share has, and both calls block.  There is one exchange in a query:     *)
(* Multiply, which a query of several filters needs, is assert(false) in   *)
(* this build.                                                             *)
(***************************************************************************)
EXTENDS Integers, Sequences

CONSTANTS NUM_SERVERS, Query,
          Words,      \* numSets * len, the words of a share
          Buffer,     \* words that fit into the stream of a NetIO
          Capacity    \* words that fit into a socket

EmpAssumption ==
  /\ NUM_SERVERS \in Nat /\ NUM_SERVERS >= 2
  /\ Words \in Nat \ {0} /\ Buffer \in Nat \ {0} /\ Capacity \in Nat \ {0}

VARIABLES
  place,   \* place[i][q]: where the handler of q on server i is
  pipe,    \* pipe[i]: words on their way from i to its successor
  passed,  \* passed[i]: how many of them the stream of i has passed on to the socket
  sent,    \* sent[i][q]: words of its share that i has written
  rcvd     \* rcvd[i][q]: the words that i has read into multRcvdShares

vars == <<place, pipe, passed, sent, rcvd>>

Server == 0 .. NUM_SERVERS - 1

Pred(i) == (i + NUM_SERVERS - 1) % NUM_SERVERS

Word(i, q, k) == [from |-> i, query |-> q, word |-> k]

Init ==
  /\ place = [i \in Server |-> [q \in Query |-> "out"]]
  /\ pipe = [i \in Server |-> <<>>] /\ passed = [i \in Server |-> 0]
  /\ sent = [i \in Server |-> [q \in Query |-> 0]]
  /\ rcvd = [i \in Server |-> [q \in Query |-> <<>>]]

FirstCall(i) == IF i = 0 THEN "recv" ELSE "send"

\* A call returns when all its words are through; the other call follows the first.
AfterCall(i, call) ==
  IF call # FirstCall(i) THEN "in" ELSE IF call = "send" THEN "recv" ELSE "send"

\* sendShares is ready.
Enter(i, q) ==
  /\ place[i][q] = "out"
  /\ place' = [place EXCEPT ![i][q] = FirstCall(i)]
  /\ UNCHANGED <<pipe, passed, sent, rcvd>>

\* send_data, word by word, into the stream
SendWord(i, q) ==
  /\ place[i][q] = "send" /\ Len(pipe[i]) - passed[i] < Buffer
  /\ pipe' = [pipe EXCEPT ![i] = Append(@, Word(i, q, sent[i][q]))]
  /\ sent' = [sent EXCEPT ![i][q] = @ + 1]
  /\ place' = [place EXCEPT ![i][q] =
                 IF sent[i][q] + 1 = Words THEN AfterCall(i, "send") ELSE "send"]
  /\ UNCHANGED <<passed, rcvd>>

\* The stream passes on its next word, now or later: when it is full, or not at all.
Drain(i) ==
  /\ passed[i] < Len(pipe[i]) /\ passed[i] < Capacity
  /\ passed' = [passed EXCEPT ![i] = @ + 1]
  /\ UNCHANGED <<place, pipe, sent, rcvd>>

\* Mutant of Length: a server reads a word too few, as when the sender counts the
\* values and their MACs and the receiver the values alone.
LengthShort == Words - 1

\* The words recv_data waits for
Length == Words

\* recv_data, word by word, of those that are in the socket
RecvWord(i, q) ==
  /\ place[i][q] = "recv" /\ passed[Pred(i)] > 0
  /\ rcvd' = [rcvd EXCEPT ![i][q] = Append(@, Head(pipe[Pred(i)]))]
  /\ pipe' = [pipe EXCEPT ![Pred(i)] = Tail(@)]
  /\ passed' = [passed EXCEPT ![Pred(i)] = @ - 1]
  /\ place' = [place EXCEPT ![i][q] =
                 IF Len(rcvd[i][q]) + 1 = Length THEN AfterCall(i, "recv") ELSE "recv"]
  /\ UNCHANGED sent

Transfer(i, q) == SendWord(i, q) \/ RecvWord(i, q)

Next == \E i \in Server : Drain(i) \/ \E q \in Query : Enter(i, q) \/ Transfer(i, q)

\* No fairness: as nothing flushes, nothing makes a word arrive.
Spec == Init /\ [][Next]_vars

-----------------------------------------------------------------------------

TypeOK ==
  /\ place \in [Server -> [Query -> {"out", "send", "recv", "in"}]]
  /\ \A i \in Server :
        /\ passed[i] \in 0 .. Capacity /\ Len(pipe[i]) - passed[i] \in 0 .. Buffer
        /\ \A k \in DOMAIN pipe[i] : pipe[i][k].from = i
  /\ sent \in [Server -> [Query -> 0 .. Words]]
  /\ \A i \in Server, q \in Query : Len(rcvd[i][q]) <= Words

\* The share i has read for q; words out of place make another one.
Got(i, q) ==
  IF Len(rcvd[i][q]) < Length THEN <<>>
  ELSE IF rcvd[i][q] = [k \in 1 .. Words |-> Word(Pred(i), q, k - 1)]
       THEN <<[from |-> Pred(i), query |-> q, round |-> 0]>>
  ELSE <<rcvd[i][q]>>

Abstract == INSTANCE RoundExchange WITH
  NumFilters <- [q \in Query |-> 1],
  given <- [i \in Server |-> [q \in Query |-> IF place[i][q] = "out" THEN 0 ELSE 1]],
  got <- [i \in Server |-> [q \in Query |-> Got(i, q)]]

\* For a client that waits for its answers the sockets keep the safety of what an
\* exchange promises: a server gets the share its predecessor made for the query, whole
\* and once, and works with no other words, however the streams hold words back.  That
\* it gets the share at all RSSReshare does not see to.
EmpStepsAreRounds == Abstract!Init /\ [][Abstract!Next]_(Abstract!vars)
=============================================================================
