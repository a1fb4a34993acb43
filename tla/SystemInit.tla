------------------------------ MODULE SystemInit -----------------------------
(***************************************************************************)
(* The start of the three servers: each begins to serve RPCs, connects the *)
(* EMP sockets of the ring and hands its PRF key to its successor.  The    *)
(* processes are started by hand, in any order and with any delay.  The    *)
(* status of SendSystemInit is not looked at, so a call that fails is lost *)
(* for good; what keeps it from failing is the EMP connection made before. *)
(***************************************************************************)
EXTENDS Integers

CONSTANTS NUM_SERVERS, Unset

ASSUME ConstantsAssumption ==
  NUM_SERVERS \in Nat /\ NUM_SERVERS >= 2 /\ Unset \notin 0 .. NUM_SERVERS - 1

VARIABLES
  pc,        \* pc[i]: where server i is in runServer and StartSystemInit
  serving,   \* servers whose gRPC server and queue thread run
  listening, \* servers whose EMP port is open
  linked,    \* servers with a socket to their successor
  prfKey1,   \* prfKey1[i]: whose key i was given
  resp       \* resp[i]: what became of i's SendSystemInit

vars == <<pc, serving, listening, linked, prfKey1, resp>>

Server == 0 .. NUM_SERVERS - 1

Succ(i) == (i + 1) % NUM_SERVERS

Pred(i) == (i + NUM_SERVERS - 1) % NUM_SERVERS

Init ==
  /\ pc = [i \in Server |-> "down"]
  /\ serving = {} /\ listening = {} /\ linked = {}
  /\ prfKey1 = [i \in Server |-> Unset]
  /\ resp = [i \in Server |-> "none"]

\* Mutant of FirstEmp: all servers wait for their predecessor first.
FirstEmpSame(i) == "accept"

\* Server 0 connects before it accepts, the others accept before they connect.
FirstEmp(i) == IF i = 0 THEN "connect" ELSE "accept"

\* Mutant of AfterEmp: a server turns to the next call after its first socket.
AfterEmpOne(i, done) == "send"

\* The other socket, or SendSystemInit when both are there.
AfterEmp(i, done) ==
  IF done = FirstEmp(i) THEN (IF done = "connect" THEN "listen" ELSE "connect")
  ELSE "send"

\* The process is started: BuildAndStart, the queue's thread, CallData for INIT.
Boot(i) ==
  /\ pc[i] = "down"
  /\ serving' = serving \cup {i}
  /\ pc' = [pc EXCEPT ![i] = IF FirstEmp(i) = "connect" THEN "connect" ELSE "listen"]
  /\ UNCHANGED <<listening, linked, prfKey1, resp>>

\* NetIO without an address opens the port and then waits for the predecessor.
EmpListen(i) ==
  /\ pc[i] = "listen"
  /\ listening' = listening \cup {i}
  /\ pc' = [pc EXCEPT ![i] = "accept"]
  /\ UNCHANGED <<serving, linked, prfKey1, resp>>

EmpAccept(i) ==
  /\ pc[i] = "accept" /\ Pred(i) \in linked
  /\ pc' = [pc EXCEPT ![i] = AfterEmp(i, "accept")]
  /\ UNCHANGED <<serving, listening, linked, prfKey1, resp>>

\* NetIO with an address tries until the successor's port is open.
EmpConnect(i) ==
  /\ pc[i] = "connect" /\ Succ(i) \in listening
  /\ linked' = linked \cup {i}
  /\ pc' = [pc EXCEPT ![i] = AfterEmp(i, "connect")]
  /\ UNCHANGED <<serving, listening, prfKey1, resp>>

\* Without wait_for_ready a call to a server that does not serve yet fails.
SendSystemInit(i) ==
  /\ pc[i] = "send"
  /\ resp' = [resp EXCEPT ![i] = IF Succ(i) \in serving THEN "sent" ELSE "failed"]
  /\ pc' = [pc EXCEPT ![i] = IF Succ(i) \in serving THEN "wait" ELSE "up"]
  /\ UNCHANGED <<serving, listening, linked, prfKey1>>

\* Mutant of NewKey: the place where keys are counted from 1.
NewKeyNext(i) == Pred(i) + 1

\* Mutant of NewKey: the queue's thread of i answers with its own key.
NewKeyOwn(i) == i

\* The key in the request is prfKey0 of the sender.
NewKey(i) == Pred(i)

\* The queue's thread of i serves the call of its predecessor.
FinishSystemInit(i) ==
  /\ resp[Pred(i)] = "sent"
  /\ prfKey1' = [prfKey1 EXCEPT ![i] = NewKey(i)]
  /\ resp' = [resp EXCEPT ![Pred(i)] = "answered"]
  /\ UNCHANGED <<pc, serving, listening, linked>>

\* StartSystemInit returns, whatever the status.
Return(i) ==
  /\ pc[i] = "wait" /\ resp[i] = "answered"
  /\ pc' = [pc EXCEPT ![i] = "up"]
  /\ UNCHANGED <<serving, listening, linked, prfKey1, resp>>

\* runServer and StartSystemInit; FinishSystemInit runs on the queue's thread.
Main(i) ==
  \/ Boot(i) \/ EmpListen(i) \/ EmpAccept(i) \/ EmpConnect(i)
  \/ SendSystemInit(i) \/ Return(i)

\* join() on the queue's thread, which never ends.
AllUp == (\A i \in Server : pc[i] = "up") /\ UNCHANGED vars

Next == (\E i \in Server : Main(i) \/ FinishSystemInit(i)) \/ AllUp

\* Every process is started at some time, and its thread and the queue's thread go
\* on when they can: nothing in the code gives up.
Spec ==
  /\ Init /\ [][Next]_vars
  /\ \A i \in Server : WF_vars(Main(i)) /\ WF_vars(FinishSystemInit(i))

-----------------------------------------------------------------------------

TypeOK ==
  /\ pc \in [Server -> {"down", "listen", "accept", "connect", "send", "wait", "up"}]
  /\ serving \subseteq Server /\ listening \subseteq serving /\ linked \subseteq serving
  /\ prfKey1 \in [Server -> {Unset} \cup Server]
  /\ resp \in [Server -> {"none", "sent", "answered", "failed"}]

\* SendSystemInit never meets a server that is not serving yet, although its status
\* is ignored and nobody waits for the others' processes: the socket to the
\* successor is made first, by a successor that already serves.
InitNeverLost == \A i \in Server : resp[i] # "failed"

\* The keys form the ring in which the shares of zero cancel: every server that is
\* up has given its key to its successor and to nobody else.
KeyRing ==
  \A i \in Server :
     /\ pc[i] = "up" => prfKey1[Succ(i)] = i
     /\ prfKey1[i] \in {Unset, Pred(i)}

\* In the end all servers have both keys, in whatever order they were started: the
\* sockets never wait for each other in a circle.
SetupEnds == <>[](\A i \in Server : pc[i] = "up" /\ prfKey1[i] = Pred(i))
=============================================================================
