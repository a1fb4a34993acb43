-------------------------- MODULE QueryServersProofs -------------------------
(***************************************************************************)
(* First what the start-up promises, for a ring of any size.  A server     *)
(* comes to SendSystemInit with a socket to its successor; the successor   *)
(* opened the port of that socket after it began to serve RPCs; so the     *)
(* call is answered, and its answer is what lets the server go on.         *)
(*                                                                         *)
(* Then that the servers agree on every table, for any number of servers,  *)
(* clients, columns and calls: while a call is served, the tables of a     *)
(* server hold what the client has told it but for the columns of the      *)
(* updates still to come, and its window pointer is behind the client's    *)
(* count by those that are appends.                                        *)
(*                                                                         *)
(* Then that over the EMP sockets every server reads its predecessor's     *)
(* words, as long as a query begins only when all servers are through with *)
(* the one before: the safety part of what RoundExchange promises, for     *)
(* every number of servers, length of a share, stream and socket.  Between *)
(* two servers are then the words of the one query that is on, those that  *)
(* are written and not yet read, in order; how many of them have come to   *)
(* the socket matters to when they are read, and not to which.             *)
(*                                                                         *)
(* Then that the parts keep their promises in the whole: every step of the *)
(* composed servers is a step of the start-up, of the tables and of the    *)
(* sockets, or leaves their state alone, so that the invariants proved of  *)
(* each part hold of the composition.  With them: while a query is pending *)
(* its asker sends nothing, so whatever a server reads for it is what the  *)
(* asker put there, and the servers have nothing else on the sockets.      *)
(***************************************************************************)
EXTENDS QueryServers, SequenceTheorems, TLAPS

-----------------------------------------------------------------------------
(* The start-up.                                                           *)

\* What a server has done by the time it is at its next step.
Progress ==
  \A i \in Server :
     /\ pc[i] # "down" => i \in serving
     /\ FirstEmp(i) = "connect" /\ pc[i] \in {"listen", "accept"} => i \in linked
     /\ pc[i] \in {"send", "wait", "up"} => i \in linked

\* A socket leads to a server whose port is open.
SocketsLead == \A i \in linked : Succ(i) \in listening

\* What has become of SendSystemInit, by the sender's step.
Calls ==
  \A i \in Server :
     /\ pc[i] \notin {"wait", "up"} => resp[i] = "none"
     /\ pc[i] = "wait" => resp[i] \in {"sent", "answered"}
     /\ pc[i] = "up" => resp[i] = "answered"

\* An answered call has delivered its key.
Delivered ==
  \A i \in Server :
     /\ resp[i] = "answered" => prfKey1[Succ(i)] = i
     /\ prfKey1[i] \in {Unset, Pred(i)}

IInv == TypeOK /\ Progress /\ SocketsLead /\ Calls /\ Delivered

\* A stream and a socket hold no more than they can, and only what their server wrote.
SocketInv ==
  \A i \in Emp!Server :
     /\ passed[i] \in 0 .. Capacity /\ Len(pipe[i]) - passed[i] \in 0 .. Buffer
     /\ \A k \in DOMAIN pipe[i] : pipe[i][k].from = i

-----------------------------------------------------------------------------

\* Succ and Pred go round the ring in opposite directions.
LEMMA Ring ==
  \A i \in Server :
     /\ Succ(i) \in Server /\ Pred(i) \in Server
     /\ Succ(Pred(i)) = i /\ Pred(Succ(i)) = i
<1> SUFFICES ASSUME NEW i \in Server
             PROVE  /\ Succ(i) \in Server /\ Pred(i) \in Server
                    /\ Succ(Pred(i)) = i /\ Pred(Succ(i)) = i
  OBVIOUS
<1> DEFINE N == NUM_SERVERS
<1>0. N \in Nat /\ N >= 2
  BY ConstantsAssumption
<1>1. \A a \in 0 .. N - 1 : a % N = a /\ (a + N) % N = a
  BY <1>0, SMTT(30)
<1>. HIDE DEF N
<1>2. Succ(i) = IF i = N - 1 THEN 0 ELSE i + 1
  BY <1>0, <1>1 DEF Server, Succ, N
<1>3. Pred(i) = IF i = 0 THEN N - 1 ELSE i - 1
  BY <1>0, <1>1 DEF Server, Pred, N
<1> QED
  BY <1>0, <1>1, <1>2, <1>3 DEF Server, Succ, Pred, N

\* Nothing has been done before the first process is started.
LEMMA InitIInv == Init => IInv
<1> SUFFICES ASSUME Init PROVE IInv
  OBVIOUS
<1> QED
  BY ConstantsAssumption
  DEF Init, IInv, TypeOK, Progress, SocketsLead, Calls, Delivered

\* Every step of a main thread, of the queue's thread and the end keep it.
LEMMA NextIInv == IInv /\ [Next]_vars => IInv'
<1> SUFFICES ASSUME IInv, [Next]_vars PROVE IInv'
  OBVIOUS
<1> USE DEF IInv
<1>1. ASSUME NEW i \in Server, Boot(i) PROVE IInv'
  BY <1>1 DEF Boot, TypeOK, Progress, SocketsLead, Calls, Delivered, FirstEmp
<1>2. ASSUME NEW i \in Server, EmpListen(i) PROVE IInv'
  <2>1. TypeOK'
    BY <1>2 DEF EmpListen, TypeOK, Progress
  <2> QED
    BY <2>1, <1>2 DEF EmpListen, TypeOK, Progress, SocketsLead, Calls, Delivered
<1>3. ASSUME NEW i \in Server, EmpAccept(i) PROVE IInv'
  BY <1>3 DEF EmpAccept, AfterEmp, FirstEmp, TypeOK, Progress, SocketsLead, Calls, Delivered
<1>4. ASSUME NEW i \in Server, EmpConnect(i) PROVE IInv'
  BY <1>4 DEF EmpConnect, AfterEmp, FirstEmp, TypeOK, Progress, SocketsLead, Calls, Delivered
<1>5. ASSUME NEW i \in Server, SendSystemInit(i) PROVE IInv'
  <2>1. Succ(i) \in serving
    BY <1>5 DEF SendSystemInit, Progress, SocketsLead, TypeOK
  <2> QED
    BY <2>1, <1>5 DEF SendSystemInit, TypeOK, Progress, SocketsLead, Calls, Delivered
<1>6. ASSUME NEW i \in Server, FinishSystemInit(i) PROVE IInv'
  <2>1. Pred(i) \in Server /\ Succ(Pred(i)) = i
    BY Ring
  <2>2. \A j \in Server : Succ(j) = i => j = Pred(i)
    BY Ring
  <2>3. pc[Pred(i)] = "wait"
    BY <1>6, <2>1 DEF FinishSystemInit, TypeOK, Calls
  <2>4. TypeOK' /\ Progress' /\ SocketsLead' /\ Calls'
    BY <1>6, <2>1, <2>3
    DEF FinishSystemInit, NewKey, TypeOK, Progress, SocketsLead, Calls
  <2>5. Delivered'
    BY <1>6, <2>1, <2>2, Ring DEF FinishSystemInit, NewKey, TypeOK, Delivered
  <2> QED
    BY <2>4, <2>5
<1>7. ASSUME NEW i \in Server, Return(i) PROVE IInv'
  BY <1>7 DEF Return, TypeOK, Progress, SocketsLead, Calls, Delivered
<1>8. CASE AllUp \/ UNCHANGED vars
  BY <1>8 DEF AllUp, vars, TypeOK, Progress, SocketsLead, Calls, Delivered
<1> QED
  BY <1>1, <1>2, <1>3, <1>4, <1>5, <1>6, <1>7, <1>8 DEF Next, Main

\* The invariant of the start-up.
LEMMA Inductive == Spec => []IInv
  BY InitIInv, NextIInv, PTL DEF Spec

-----------------------------------------------------------------------------

\* The state of StartSystemInit and FinishSystemInit keeps its types, and only
\* servers that serve have an open port or a socket.
THEOREM Typed == Spec => []TypeOK
<1>1. IInv => TypeOK
  BY DEF IInv
<1> QED
  BY <1>1, Inductive, PTL

\* No SendSystemInit fails, although StartSystemInit ignores its status and the
\* processes are started at any time.
THEOREM NeverLost == Spec => []InitNeverLost
<1>1. IInv => InitNeverLost
  BY DEF IInv, Calls, InitNeverLost, TypeOK
<1> QED
  BY <1>1, Inductive, PTL

\* Whatever the size of the ring, a server whose StartSystemInit has returned has
\* given its PRF key to its successor, and nobody has any other key.
THEOREM KeysFormRing == Spec => []KeyRing
<1>1. IInv => KeyRing
  BY DEF IInv, Calls, Delivered, KeyRing
<1> QED
  BY <1>1, Inductive, PTL

-----------------------------------------------------------------------------
(* The tables.                                                             *)

Appends(c) == ~call[c].add /\ call[c].loc = APPEND_LOC

\* The columns call c writes in all
Written(c) ==
  IF call[c].add THEN Tab!Loc
  ELSE IF Appends(c) THEN used[call[c].table] - call[c].size .. used[call[c].table] - 1
  ELSE {call[c].loc}

\* The columns it has still to write at server i
Unwritten(i, c) ==
  IF Appends(c)
  THEN used[call[c].table] - call[c].size + done[i][c] .. used[call[c].table] - 1
  ELSE IF done[i][c] = 0 THEN Written(c) ELSE {}

\* Columns L of table t at server i are what its client has told.
Agree(i, t, L) ==
  /\ tables[i][t].first \in [Tab!Loc -> Nat \X Tab!Server]
  /\ tables[i][t].second \in [Tab!Loc -> Nat \X Tab!Server]
  /\ \A l \in L : tables[i][t].first[l] = Tab!First(i, told[t][l])
                    /\ tables[i][t].second[l] = Tab!Second(i, told[t][l])

\* A table that no call is for
Settled(i, t) ==
  /\ tables[i][t].ptr = used[t]
  /\ \/ /\ told[t] = Tab!NoRecords
        /\ tables[i][t].first = Tab!NoRecords /\ tables[i][t].second = Tab!NoRecords
     \/ told[t] \in [Tab!Loc -> Nat] /\ Agree(i, t, Tab!Loc)

\* What a call says is what its client counts on.
CallTold(c) ==
  /\ told[call[c].table] \in [Tab!Loc -> Nat]
  /\ \A l \in Written(c) :
        told[call[c].table][l] = IF call[c].add THEN 0 ELSE call[c].record
  /\ IF Appends(c) THEN call[c].size \in 1 .. used[call[c].table] ELSE call[c].size = 1
  /\ call[c].add => used[call[c].table] = 0
  /\ ~call[c].add /\ ~Appends(c) => call[c].loc \in Tab!Loc

\* A server in the middle of a call
Served(i, c) ==
  /\ done[i][c] \in 0 .. call[c].size
  /\ \/ call[c].add /\ done[i][c] = 0
     \/ /\ Agree(i, call[c].table, Tab!Loc \ Unwritten(i, c))
        /\ tables[i][call[c].table].ptr
             = IF Appends(c) THEN used[call[c].table] - call[c].size + done[i][c]
               ELSE used[call[c].table]

Busy(c, t) == call[c] # Idle /\ call[c].table = t

TablesInv ==
  /\ Tab!TableAssumption /\ Tab!TypeOK
  /\ \A i \in Tab!Server, c \in Client : \A t \in Tables[c] : ~Busy(c, t) => Settled(i, t)
  /\ \A c \in Client : call[c] # Idle => CallTold(c)
  /\ \A i \in Tab!Server, c \in Client : call[c] # Idle => Served(i, c)

-----------------------------------------------------------------------------

\* A share is a record and a server.
LEMMA SharesTyped ==
  ASSUME Tab!TableAssumption, NEW i \in Tab!Server, NEW r \in Nat
  PROVE  Tab!First(i, r) \in Nat \X Tab!Server /\ Tab!Second(i, r) \in Nat \X Tab!Server
<1> DEFINE N == NUM_SERVERS
<1>1. N \in Nat /\ N >= 1
  BY DEF Tab!TableAssumption
<1>2. \A a \in Nat : a % N \in 0 .. N - 1
  BY <1>1, SMTT(30)
<1>3. i + N - 1 \in Nat
  BY <1>1 DEF Tab!Server
<1>4. (i + N - 1) % N \in Tab!Server
  BY <1>2, <1>3 DEF Tab!Server
<1> QED
  BY <1>4 DEF Tab!First, Tab!Second

\* Nothing has been added, and nobody has called.
LEMMA InitTables == Tab!TableAssumption /\ Tab!Init => TablesInv
<1> SUFFICES ASSUME Tab!TableAssumption, Tab!Init PROVE TablesInv
  OBVIOUS
<1>0. 0 \in 0 .. WindowSize
  BY DEF Tab!TableAssumption
<1>1. Tab!NoTable \in [first : Tab!Columns, second : Tab!Columns, ptr : 0 .. WindowSize]
  BY <1>0 DEF Tab!NoTable, Tab!Columns
<1>2. Tab!TypeOK
  <2>1. tables \in [Tab!Server -> [Tab!Table ->
                     [first : Tab!Columns, second : Tab!Columns, ptr : 0 .. WindowSize]]]
    BY <1>1 DEF Tab!Init
  <2>2. \A c \in Client : calls[c] <= MaxCalls[c]
    BY DEF Tab!Init, Tab!TableAssumption
  <2> QED
    BY <2>1, <2>2, <1>0 DEF Tab!Init, Tab!TypeOK
<1>3. \A i \in Tab!Server, t \in Tab!Table : Settled(i, t)
  BY DEF Tab!Init, Settled, Tab!NoTable
<1>4. \A c \in Client : call[c] = Idle /\ Tables[c] \subseteq Tab!Table
  BY DEF Tab!Init, Tab!Table
<1> QED
  BY <1>2, <1>3, <1>4 DEF TablesInv

\* Clients have no table together.
LEMMA Apart ==
  ASSUME Tab!TableAssumption, NEW c \in Client, NEW d \in Client, c # d,
         NEW t \in Tables[c], NEW u \in Tables[d]
  PROVE  t # u
BY DEF Tab!TableAssumption

\* A client that calls calls for a table of its own.
LEMMA CallTyped ==
  ASSUME Tab!TypeOK, NEW c \in Client, call[c] # Idle
  PROVE  /\ call[c] \in Tab!Calls(c) /\ call[c].table \in Tables[c]
         /\ call[c].add \in BOOLEAN /\ call[c].size \in Nat /\ call[c].record \in Nat
         /\ call[c].loc \in Tab!Loc \cup {APPEND_LOC} /\ call[c].table \in Tab!Table
<1>1. call[c] \in Tab!Calls(c)
  BY DEF Tab!TypeOK
<1>2. Tables[c] \subseteq Tab!Table
  BY DEF Tab!Table
<1> QED
  BY <1>1, <1>2 DEF Tab!Calls

\* One update puts both shares of the record into one column, and leaves the others.
LEMMA UpdateColumn ==
  ASSUME Tab!TableAssumption, NEW i \in Tab!Server, NEW tab, NEW loc, NEW r \in Nat,
         tab.first \in [Tab!Loc -> Nat \X Tab!Server],
         tab.second \in [Tab!Loc -> Nat \X Tab!Server],
         Tab!Column(tab, loc) \in Tab!Loc, NEW new, new = Tab!Update(i, tab, loc, r)
  PROVE  /\ new.first \in [Tab!Loc -> Nat \X Tab!Server]
         /\ new.second \in [Tab!Loc -> Nat \X Tab!Server]
         /\ \A l \in Tab!Loc :
               /\ new.first[l]
                    = IF l = Tab!Column(tab, loc) THEN Tab!First(i, r) ELSE tab.first[l]
               /\ new.second[l]
                    = IF l = Tab!Column(tab, loc) THEN Tab!Second(i, r) ELSE tab.second[l]
         /\ new.ptr = Tab!PtrAfter(tab, loc)
<1>1. Tab!First(i, r) \in Nat \X Tab!Server /\ Tab!Second(i, r) \in Nat \X Tab!Server
  BY SharesTyped
<1> QED
  BY <1>1 DEF Tab!Update

\* A server in a call that has updates left writes the first of the pending columns,
\* and its pointer goes along.
LEMMA HandleServes ==
  ASSUME TablesInv, NEW i \in Tab!Server, NEW c \in Client, Tab!Handle(i, c)
  PROVE  Served(i, c)' /\ tables[i][call[c].table]'
                 \in [first : Tab!Columns, second : Tab!Columns, ptr : 0 .. WindowSize]
<1> DEFINE t == call[c].table
           tab == tables[i][t]
           new == IF call[c].add THEN Tab!AddTable(i, tab)
                  ELSE Tab!Update(i, tab, call[c].loc, call[c].record)
<1>0. /\ Tab!TableAssumption /\ Tab!TypeOK /\ call[c] # Idle /\ CallTold(c) /\ Served(i, c)
      /\ done[i][c] < call[c].size
  BY DEF TablesInv, Tab!Handle
<1>1. /\ t \in Tables[c] /\ t \in Tab!Table /\ call[c].add \in BOOLEAN /\ call[c].size \in Nat
      /\ call[c].record \in Nat /\ call[c].loc \in Tab!Loc \cup {APPEND_LOC}
  BY <1>0, CallTyped
<1>2. /\ tables[i][t]' = new /\ done[i][c]' = done[i][c] + 1
      /\ call' = call /\ told' = told /\ used' = used
  BY <1>0, <1>1 DEF Tab!Handle, Tab!TypeOK
<1>3. done[i][c] \in Nat /\ used[t] \in 0 .. WindowSize /\ WindowSize \in Nat \ {0}
      /\ APPEND_LOC \notin Nat
  BY <1>0, <1>1 DEF Tab!TypeOK, Tab!TableAssumption
<1>4. CASE call[c].add
  <2>1. call[c].size = 1 /\ done[i][c] = 0 /\ used[t] = 0 /\ told[t] \in [Tab!Loc -> Nat]
        /\ ~Appends(c) /\ \A l \in Tab!Loc : told[t][l] = 0
    BY <1>0, <1>3, <1>4 DEF CallTold, Appends, Written
  <2>2. /\ new.first \in [Tab!Loc -> Nat \X Tab!Server]
        /\ new.second \in [Tab!Loc -> Nat \X Tab!Server]
        /\ \A l \in Tab!Loc : new.first[l] = Tab!First(i, 0) /\ new.second[l] = Tab!Second(i, 0)
        /\ new.ptr = 0 /\ new = [first |-> new.first, second |-> new.second, ptr |-> new.ptr]
    BY <1>0, <1>4, SharesTyped DEF Tab!AddTable, Tab!Fresh
  <2>3. Agree(i, t, Tab!Loc)'
    BY <1>2, <2>1, <2>2 DEF Agree
  <2>4. Served(i, c)'
    <3>1. done[i][c]' \in 0 .. call[c].size
      BY <1>2, <2>1
    <3>2. Agree(i, t, Tab!Loc \ Unwritten(i, c))'
      BY <1>2, <2>3 DEF Agree
    <3>3. tables[i][t]'.ptr = used[t]
      <4>1. tables[i][t]'.ptr = new.ptr
        BY <1>2
      <4> QED
        BY <2>1, <2>2, <4>1
    <3> QED
      BY <1>2, <2>1, <3>1, <3>2, <3>3 DEF Served, Appends
  <2>5. new \in [first : Tab!Columns, second : Tab!Columns, ptr : 0 .. WindowSize]
    <3>1. 0 \in 0 .. WindowSize
      BY <1>3
    <3>. HIDE DEF new
    <3> QED
      BY <2>2, <3>1 DEF Tab!Columns
  <2> QED
    BY <1>2, <2>4, <2>5
<1>5. CASE ~call[c].add
  <2> DEFINE col == Tab!Column(tab, call[c].loc)
  <2>1. /\ Agree(i, t, Tab!Loc \ Unwritten(i, c)) /\ told[t] \in [Tab!Loc -> Nat]
        /\ tab.ptr = IF Appends(c) THEN used[t] - call[c].size + done[i][c] ELSE used[t]
    BY <1>0, <1>5 DEF Served, CallTold
  <2>2. /\ col \in Unwritten(i, c) /\ col \in Written(c) /\ col \in Tab!Loc
        /\ Unwritten(i, c) \ {col} = Unwritten(i, c)'
        /\ Tab!PtrAfter(tab, call[c].loc)
             = IF Appends(c) THEN used[t] - call[c].size + done[i][c] + 1 ELSE used[t]
        /\ Tab!PtrAfter(tab, call[c].loc) \in 0 .. WindowSize
    <3>1. CASE Appends(c)
      <4>1. col = used[t] - call[c].size + done[i][c]
        BY <2>1, <3>1 DEF Tab!Column, Appends
      <4>2. call[c].size \in 1 .. used[t] /\ done[i][c] < call[c].size
        BY <1>0, <3>1 DEF CallTold
      <4>3. Unwritten(i, c) = used[t] - call[c].size + done[i][c] .. used[t] - 1
        BY <3>1 DEF Unwritten
      <4>4. Unwritten(i, c)' = used[t] - call[c].size + done[i][c] + 1 .. used[t] - 1
        BY <1>2, <1>3, <3>1, <4>2 DEF Unwritten, Appends
      <4>5. Written(c) = used[t] - call[c].size .. used[t] - 1
        BY <1>5, <3>1 DEF Written
      <4>6. Tab!PtrAfter(tab, call[c].loc) = used[t] - call[c].size + done[i][c] + 1
        BY <2>1, <3>1 DEF Tab!PtrAfter, Appends
      <4> QED
        BY <1>3, <3>1, <4>1, <4>2, <4>3, <4>4, <4>5, <4>6 DEF Tab!Loc
    <3>2. CASE ~Appends(c)
      <4>1. call[c].loc # APPEND_LOC /\ call[c].size = 1 /\ call[c].loc \in Tab!Loc
        BY <1>0, <1>1, <1>5, <3>2 DEF Appends, CallTold
      <4>2. done[i][c] = 0
        BY <1>0, <1>3, <4>1
      <4>3. col = call[c].loc /\ Tab!PtrAfter(tab, call[c].loc) = used[t]
        BY <2>1, <3>2, <4>1 DEF Tab!Column, Tab!PtrAfter
      <4>4. Written(c) = {col} /\ Unwritten(i, c) = {col} /\ Unwritten(i, c)' = {}
        BY <1>2, <1>5, <3>2, <4>2, <4>3 DEF Written, Unwritten, Appends
      <4> QED
        BY <1>3, <3>2, <4>1, <4>3, <4>4
    <3> QED
      BY <3>1, <3>2
  <2>3. told[t][col] = call[c].record
    BY <1>0, <1>5, <2>2 DEF CallTold
  <2>4. /\ new.first \in [Tab!Loc -> Nat \X Tab!Server]
        /\ new.second \in [Tab!Loc -> Nat \X Tab!Server]
        /\ \A l \in Tab!Loc :
              /\ new.first[l] = IF l = col THEN Tab!First(i, call[c].record) ELSE tab.first[l]
              /\ new.second[l] = IF l = col THEN Tab!Second(i, call[c].record) ELSE tab.second[l]
        /\ new.ptr = Tab!PtrAfter(tab, call[c].loc)
    <3>1. new = Tab!Update(i, tab, call[c].loc, call[c].record)
      BY <1>5
    <3>2. /\ tab.first \in [Tab!Loc -> Nat \X Tab!Server]
          /\ tab.second \in [Tab!Loc -> Nat \X Tab!Server]
      BY <2>1 DEF Agree
    <3>. HIDE DEF new, tab
    <3> QED
      BY <1>0, <1>1, <2>2, <3>1, <3>2, UpdateColumn
  <2>5. new = [first |-> new.first, second |-> new.second, ptr |-> new.ptr]
    BY <1>5 DEF Tab!Update
  <2>6. Agree(i, t, Tab!Loc \ Unwritten(i, c))'
    <3>1. \A l \in Tab!Loc \ Unwritten(i, c)' :
             new.first[l] = Tab!First(i, told[t][l]) /\ new.second[l] = Tab!Second(i, told[t][l])
      BY <2>1, <2>2, <2>3, <2>4 DEF Agree
    <3>. HIDE DEF new
    <3> QED
      BY <1>2, <2>4, <3>1 DEF Agree
  <2>7. Served(i, c)'
    <3>1. done[i][c]' \in 0 .. call[c].size
      BY <1>0, <1>1, <1>2, <1>3
    <3>2. tables[i][t]'.ptr
            = (IF Appends(c) THEN used[t] - call[c].size + done[i][c] ELSE used[t])'
      <4>1. new.ptr = IF Appends(c) THEN used[t] - call[c].size + done[i][c] + 1 ELSE used[t]
        BY <2>2, <2>4
      <4>2. tables[i][t]'.ptr = new.ptr
        BY <1>2
      <4>. HIDE DEF new
      <4> QED
        BY <1>1, <1>2, <1>3, <4>1, <4>2 DEF Appends
    <3> QED
      BY <1>2, <2>6, <3>1, <3>2 DEF Served, Appends
  <2>8. new \in [first : Tab!Columns, second : Tab!Columns, ptr : 0 .. WindowSize]
    <3>. HIDE DEF new
    <3> QED
      BY <2>2, <2>4, <2>5 DEF Tab!Columns
  <2> QED
    BY <1>2, <2>7, <2>8
<1> QED
  BY <1>1, <1>4, <1>5

\* A handler's step leaves the other servers, and the other clients' tables, alone.
LEMMA HandleIInv ==
  ASSUME TablesInv, NEW i \in Tab!Server, NEW c \in Client, Tab!Handle(i, c)
  PROVE  TablesInv'
<1>0. Tab!TableAssumption /\ Tab!TypeOK /\ call[c] # Idle
  BY DEF TablesInv, Tab!Handle
<1>1. call[c].table \in Tables[c] /\ call[c].table \in Tab!Table
  BY <1>0, CallTyped
<1>2. Served(i, c)' /\ tables[i][call[c].table]'
                         \in [first : Tab!Columns, second : Tab!Columns, ptr : 0 .. WindowSize]
  BY HandleServes
<1>3. /\ call' = call /\ calls' = calls /\ told' = told /\ used' = used
      /\ \A j \in Tab!Server, u \in Tab!Table :
            j # i \/ u # call[c].table => tables'[j][u] = tables[j][u]
      /\ \A j \in Tab!Server, d \in Client : j # i \/ d # c => done'[j][d] = done[j][d]
  BY <1>0 DEF Tab!Handle, Tab!TypeOK
<1>4. \A d \in Client : Tables[d] \subseteq Tab!Table
  BY DEF Tab!Table
<1>5. Tab!TypeOK'
  <2>1. tables' \in [Tab!Server -> [Tab!Table ->
                      [first : Tab!Columns, second : Tab!Columns, ptr : 0 .. WindowSize]]]
    <3> DEFINE Entry == [first : Tab!Columns, second : Tab!Columns, ptr : 0 .. WindowSize]
               new == IF call[c].add THEN Tab!AddTable(i, tables[i][call[c].table])
                      ELSE Tab!Update(i, tables[i][call[c].table], call[c].loc, call[c].record)
    <3>1. tables' = [tables EXCEPT ![i][call[c].table] = new]
      BY DEF Tab!Handle
    <3>2. tables \in [Tab!Server -> [Tab!Table -> Entry]]
      BY <1>0 DEF Tab!TypeOK
    <3>3. tables'[i][call[c].table] \in Entry
      BY <1>2, <1>3
    <3>4. new \in Entry
      <4>. HIDE DEF new, Entry
      <4> QED
        BY <1>1, <3>1, <3>2, <3>3
    <3>. HIDE DEF new, Entry
    <3>5. tables' \in [Tab!Server -> [Tab!Table -> Entry]]
      BY <1>1, <3>1, <3>2, <3>4
    <3> QED
      BY <3>5 DEF Entry
  <2>2. done' \in [Tab!Server -> [Client -> Nat]]
    BY <1>0 DEF Tab!TypeOK, Tab!Handle
  <2> QED
    BY <1>0, <1>3, <2>1, <2>2 DEF Tab!TypeOK
<1>6. ASSUME NEW j \in Tab!Server, NEW d \in Client, NEW u \in Tables[d], ~Busy(d, u)'
      PROVE  Settled(j, u)'
  <2>1. u # call[c].table
    BY <1>0, <1>1, <1>3, <1>6, Apart DEF Busy
  <2>2. Settled(j, u)
    BY <1>3, <1>6 DEF TablesInv, Busy
  <2> QED
    BY <1>3, <1>4, <2>1, <2>2 DEF Settled, Agree
<1>7. ASSUME NEW d \in Client, (call[d] # Idle)' PROVE CallTold(d)'
  <2>1. CallTold(d)
    BY <1>3, <1>7 DEF TablesInv
  <2> QED
    BY <1>3, <2>1 DEF CallTold, Written, Appends
<1>8. ASSUME NEW j \in Tab!Server, NEW d \in Client, (call[d] # Idle)' PROVE Served(j, d)'
  <2>1. CASE j = i /\ d = c
    BY <1>2, <2>1
  <2>2. CASE ~(j = i /\ d = c)
    <3>1. Served(j, d) /\ call[d] # Idle
      BY <1>3, <1>8 DEF TablesInv
    <3>2. call[d].table \in Tables[d] /\ call[d].table \in Tab!Table
      BY <1>0, <3>1, CallTyped
    <3>3. j # i \/ call[d].table # call[c].table
      BY <1>0, <1>1, <2>2, <3>2, Apart
    <3>4. tables'[j][call[d].table] = tables[j][call[d].table] /\ done'[j][d] = done[j][d]
      BY <1>3, <2>2, <3>2, <3>3
    <3>5. Unwritten(j, d)' = Unwritten(j, d) /\ Appends(d)' = Appends(d)
      BY <1>3, <3>4 DEF Unwritten, Written, Appends
    <3>6. Agree(j, call[d].table, Tab!Loc \ Unwritten(j, d))
            => Agree(j, call[d].table, Tab!Loc \ Unwritten(j, d))'
      BY <1>3, <3>4, <3>5 DEF Agree
    <3> QED
      BY <1>3, <3>1, <3>4, <3>5, <3>6 DEF Served
  <2> QED
    BY <2>1, <2>2
<1>9. Tab!TableAssumption'
  BY <1>0 DEF Tab!TableAssumption
<1> QED
  BY <1>5, <1>6, <1>7, <1>8, <1>9 DEF TablesInv

\* A call sent to all servers leaves the other clients alone.
LEMMA SendIInv ==
  ASSUME TablesInv, NEW c \in Client, NEW t \in Tables[c], call[c] = Idle,
         NEW new \in Tab!Calls(c), new.table = t, call' = [call EXCEPT ![c] = new],
         done' = [i \in Tab!Server |-> [done[i] EXCEPT ![c] = 0]], tables' = tables,
         calls[c] < MaxCalls[c], calls' = [calls EXCEPT ![c] = @ + 1],
         NEW r \in [Tab!Loc -> Nat], told' = [told EXCEPT ![t] = r],
         NEW n \in 0 .. WindowSize, used' = [used EXCEPT ![t] = n],
         CallTold(c)', \A i \in Tab!Server : Served(i, c)'
  PROVE  TablesInv'
<1>0. /\ Tab!TableAssumption /\ Tab!TypeOK /\ t \in Tab!Table /\ new # Idle
      /\ \A d \in Client : Tables[d] \subseteq Tab!Table
  BY DEF TablesInv, Tab!Table, Tab!TableAssumption
<1>1. call'[c] = new /\ \A d \in Client : d # c => call'[d] = call[d]
  BY <1>0 DEF Tab!TypeOK
<1>2. /\ \A u \in Tab!Table : u # t => told'[u] = told[u] /\ used'[u] = used[u]
      /\ \A j \in Tab!Server, d \in Client : d # c => done'[j][d] = done[j][d]
  BY <1>0 DEF Tab!TypeOK
<1>3. Tab!TypeOK'
  <2>1. \A d \in Client : call'[d] \in Tab!Calls(d) \cup {Idle}
    BY <1>0, <1>1 DEF Tab!TypeOK
  <2>2. calls' \in [Client -> Nat] /\ \A d \in Client : calls'[d] <= MaxCalls[d]
    BY <1>0 DEF Tab!TypeOK, Tab!TableAssumption
  <2>3. done' \in [Tab!Server -> [Client -> Nat]]
    BY <1>0 DEF Tab!TypeOK
  <2>4. /\ told' \in [Tab!Table -> [Tab!Loc -> Nat] \cup {Tab!NoRecords}]
        /\ used' \in [Tab!Table -> 0 .. WindowSize]
    BY <1>0 DEF Tab!TypeOK
  <2>5. \A d \in Client : call[d]' \in Tab!Calls(d)' \cup {Idle}
    BY <2>1 DEF Tab!Calls
  <2> QED
    BY <1>0, <2>2, <2>3, <2>4, <2>5 DEF Tab!TypeOK
<1>4. ASSUME NEW j \in Tab!Server, NEW d \in Client, NEW u \in Tables[d], ~Busy(d, u)'
      PROVE  Settled(j, u)'
  <2>1. u # t
    BY <1>0, <1>1, <1>4, Apart DEF Busy
  <2>2. Settled(j, u)
    BY <1>1, <1>4 DEF TablesInv, Busy
  <2> QED
    BY <1>0, <1>2, <2>1, <2>2 DEF Settled, Agree
<1>5. ASSUME NEW d \in Client, (call[d] # Idle)' PROVE CallTold(d)'
  <2>1. CASE d = c
    BY <2>1
  <2>2. CASE d # c
    <3>1. call[d] # Idle /\ CallTold(d) /\ call'[d] = call[d]
      BY <1>1, <1>5, <2>2 DEF TablesInv
    <3>2. call[d].table \in Tab!Table /\ call[d].table # t
      BY <1>0, <2>2, <3>1, CallTyped, Apart
    <3> QED
      BY <1>2, <3>1, <3>2 DEF CallTold, Written, Appends
  <2> QED
    BY <2>1, <2>2
<1>6. ASSUME NEW j \in Tab!Server, NEW d \in Client, (call[d] # Idle)' PROVE Served(j, d)'
  <2>1. CASE d = c
    BY <2>1
  <2>2. CASE d # c
    <3>1. call[d] # Idle /\ Served(j, d) /\ call'[d] = call[d]
      BY <1>1, <1>6, <2>2 DEF TablesInv
    <3>2. call[d].table \in Tab!Table /\ call[d].table # t
      BY <1>0, <2>2, <3>1, CallTyped, Apart
    <3>3. /\ told'[call[d].table] = told[call[d].table]
          /\ used'[call[d].table] = used[call[d].table] /\ done'[j][d] = done[j][d]
      BY <1>2, <2>2, <3>2
    <3>4. Unwritten(j, d)' = Unwritten(j, d) /\ Appends(d)' = Appends(d)
      BY <3>1, <3>3 DEF Unwritten, Written, Appends
    <3>5. Agree(j, call[d].table, Tab!Loc \ Unwritten(j, d))
            => Agree(j, call[d].table, Tab!Loc \ Unwritten(j, d))'
      BY <3>1, <3>3, <3>4 DEF Agree
    <3> QED
      BY <3>1, <3>3, <3>4, <3>5 DEF Served
  <2> QED
    BY <2>1, <2>2
<1>7. Tab!TableAssumption'
  BY <1>0 DEF Tab!TableAssumption
<1> QED
  BY <1>3, <1>4, <1>5, <1>6, <1>7 DEF TablesInv

\* The call in a Send is one of the client's calls.
LEMMA SendTyped ==
  ASSUME Tab!TypeOK, NEW c \in Client, NEW t \in Tables[c], NEW add \in BOOLEAN,
         NEW loc \in Tab!Loc \cup {APPEND_LOC}, NEW n \in Nat
  PROVE  [table |-> t, add |-> add, loc |-> loc, size |-> n, record |-> calls[c] + 1]
           \in Tab!Calls(c)
BY DEF Tab!TypeOK, Tab!Calls

\* A client adds a table.
LEMMA InitSends ==
  ASSUME TablesInv, NEW c \in Client, NEW t \in Tables[c], Tab!SendInit(c, t)
  PROVE  TablesInv'
<1> DEFINE new == [table |-> t, add |-> TRUE, loc |-> APPEND_LOC, size |-> 1,
                   record |-> calls[c] + 1]
           r == [l \in Tab!Loc |-> 0]
<1>0. /\ Tab!TypeOK /\ Tab!TableAssumption /\ t \in Tab!Table /\ call[c] = Idle
      /\ calls[c] < MaxCalls[c]
  BY DEF TablesInv, Tab!SendInit, Tab!Send, Tab!Table
<1>1. new \in Tab!Calls(c)
  BY <1>0, SendTyped
<1>2. /\ call' = [call EXCEPT ![c] = new] /\ tables' = tables
      /\ done' = [i \in Tab!Server |-> [done[i] EXCEPT ![c] = 0]]
      /\ calls' = [calls EXCEPT ![c] = @ + 1]
      /\ told' = [told EXCEPT ![t] = r] /\ used' = [used EXCEPT ![t] = 0]
  BY DEF Tab!SendInit, Tab!Send
<1>3. call'[c] = new /\ told'[t] = r /\ used'[t] = 0 /\ \A i \in Tab!Server : done'[i][c] = 0
  BY <1>0, <1>2 DEF Tab!TypeOK
<1>4. CallTold(c)'
  BY <1>3 DEF CallTold, Written, Appends
<1>5. \A i \in Tab!Server : Served(i, c)'
  BY <1>3 DEF Served
<1>6. 0 \in 0 .. WindowSize /\ r \in [Tab!Loc -> Nat] /\ new.table = t
  BY <1>0 DEF Tab!TableAssumption
<1>. HIDE DEF new, r
<1> QED
  BY <1>0, <1>1, <1>2, <1>4, <1>5, <1>6, SendIInv

\* A client updates a column in place.
LEMMA UpdateSends ==
  ASSUME TablesInv, NEW c \in Client, NEW t \in Tables[c], NEW loc \in Places,
         Tab!SendUpdate(c, t, loc)
  PROVE  TablesInv'
<1> DEFINE new == [table |-> t, add |-> FALSE, loc |-> loc, size |-> 1,
                   record |-> calls[c] + 1]
           r == [l \in Tab!Loc |-> IF l = loc THEN calls[c] + 1 ELSE told[t][l]]
<1>0. /\ Tab!TypeOK /\ Tab!TableAssumption /\ t \in Tab!Table /\ call[c] = Idle
      /\ calls[c] < MaxCalls[c]
      /\ told[t] # Tab!NoRecords /\ loc \in Tab!Loc /\ loc # APPEND_LOC
  BY DEF TablesInv, Tab!SendUpdate, Tab!Send, Tab!Table, Tab!TableAssumption, Tab!Loc
<1>1. new \in Tab!Calls(c) /\ new.table = t
  BY <1>0, SendTyped
<1>2. /\ call' = [call EXCEPT ![c] = new] /\ tables' = tables
      /\ done' = [i \in Tab!Server |-> [done[i] EXCEPT ![c] = 0]]
      /\ calls' = [calls EXCEPT ![c] = @ + 1]
      /\ told' = [told EXCEPT ![t] = r] /\ used' = used
  BY DEF Tab!SendUpdate, Tab!Send
<1>3. used' = [used EXCEPT ![t] = used[t]] /\ used[t] \in 0 .. WindowSize
  BY <1>0, <1>2 DEF Tab!TypeOK
<1>4. /\ call'[c] = new /\ told'[t] = r /\ used'[t] = used[t]
      /\ \A i \in Tab!Server : done'[i][c] = 0
  BY <1>0, <1>2 DEF Tab!TypeOK
<1>5. r \in [Tab!Loc -> Nat]
  BY <1>0 DEF Tab!TypeOK
<1>6. CallTold(c)'
  BY <1>0, <1>4, <1>5 DEF CallTold, Written, Appends
<1>7. ASSUME NEW i \in Tab!Server PROVE Served(i, c)'
  <2>1. Settled(i, t) /\ told[t] \in [Tab!Loc -> Nat] /\ Agree(i, t, Tab!Loc)
    BY <1>0 DEF TablesInv, Busy, Settled
  <2>2. Unwritten(i, c)' = {loc} /\ ~Appends(c)'
    BY <1>0, <1>4 DEF Unwritten, Written, Appends
  <2>3. Agree(i, t, Tab!Loc \ {loc})'
    BY <1>2, <1>4, <2>1 DEF Agree
  <2>4. call'[c].table = t /\ call'[c].size = 1
    BY <1>4
  <2>. HIDE DEF new, r
  <2> QED
    BY <1>2, <1>4, <2>1, <2>2, <2>3, <2>4 DEF Served, Settled
<1>. HIDE DEF new, r
<1> QED
  BY <1>0, <1>1, <1>2, <1>3, <1>5, <1>6, <1>7, SendIInv

\* A client appends a batch.
LEMMA BatchSends ==
  ASSUME TablesInv, NEW c \in Client, NEW t \in Tables[c], NEW n \in 1 .. WindowSize,
         Tab!SendBatchedUpdate(c, t, n)
  PROVE  TablesInv'
<1> DEFINE new == [table |-> t, add |-> FALSE, loc |-> APPEND_LOC, size |-> n,
                   record |-> calls[c] + 1]
           r == [l \in Tab!Loc |-> IF l \in used[t] .. used[t] + n - 1 THEN calls[c] + 1
                               ELSE told[t][l]]
<1>0. /\ Tab!TypeOK /\ Tab!TableAssumption /\ t \in Tab!Table /\ call[c] = Idle
      /\ calls[c] < MaxCalls[c]
      /\ told[t] # Tab!NoRecords /\ used[t] + n <= WindowSize /\ n \in Nat /\ n >= 1
      /\ used[t] \in Nat /\ WindowSize \in Nat
  <2>1. /\ Tab!TypeOK /\ Tab!TableAssumption /\ call[c] = Idle /\ calls[c] < MaxCalls[c]
        /\ told[t] # Tab!NoRecords /\ used[t] + n <= WindowSize
    BY DEF TablesInv, Tab!SendBatchedUpdate, Tab!Send
  <2>2. t \in Tab!Table
    BY DEF Tab!Table
  <2>3. WindowSize \in Nat /\ used[t] \in 0 .. WindowSize
    BY <2>1, <2>2 DEF Tab!TypeOK, Tab!TableAssumption
  <2> QED
    BY <2>1, <2>2, <2>3
<1>1. new \in Tab!Calls(c) /\ new.table = t
  BY <1>0, SendTyped
<1>2. /\ call' = [call EXCEPT ![c] = new] /\ tables' = tables
      /\ done' = [i \in Tab!Server |-> [done[i] EXCEPT ![c] = 0]]
      /\ calls' = [calls EXCEPT ![c] = @ + 1]
      /\ told' = [told EXCEPT ![t] = r] /\ used' = [used EXCEPT ![t] = used[t] + n]
  BY DEF Tab!SendBatchedUpdate, Tab!Send
<1>3. used[t] + n \in 0 .. WindowSize
  BY <1>0
<1>4. /\ call'[c] = new /\ told'[t] = r /\ used'[t] = used[t] + n
      /\ \A i \in Tab!Server : done'[i][c] = 0
  BY <1>0, <1>2 DEF Tab!TypeOK
<1>5. r \in [Tab!Loc -> Nat]
  BY <1>0 DEF Tab!TypeOK
<1>6. Appends(c)' /\ call'[c].table = t /\ call'[c].size = n /\ call'[c].add = FALSE
      /\ call'[c].record = calls[c] + 1
  BY <1>4 DEF Appends
<1>7. Written(c)' = used[t] .. used[t] + n - 1
  BY <1>0, <1>4, <1>6 DEF Written
<1>8. CallTold(c)'
  <2>1. \A l \in used[t] .. used[t] + n - 1 : l \in Tab!Loc /\ r[l] = calls[c] + 1
    BY <1>0 DEF Tab!Loc
  <2>2. n \in 1 .. used[t] + n
    BY <1>0
  <2>. HIDE DEF new, r
  <2> QED
    BY <1>4, <1>5, <1>6, <1>7, <2>1, <2>2 DEF CallTold
<1>9. ASSUME NEW i \in Tab!Server PROVE Served(i, c)'
  <2>1. Settled(i, t) /\ told[t] \in [Tab!Loc -> Nat] /\ Agree(i, t, Tab!Loc)
    BY <1>0 DEF TablesInv, Busy, Settled
  <2>2. Unwritten(i, c)' = used[t] .. used[t] + n - 1
    BY <1>0, <1>4, <1>6 DEF Unwritten
  <2>3. \A l \in Tab!Loc \ (used[t] .. used[t] + n - 1) : r[l] = told[t][l]
    OBVIOUS
  <2>4. tables'[i][t].ptr = used'[t] - n + done'[i][c]
    <3>1. tables'[i][t].ptr = used[t]
      BY <1>2, <2>1 DEF Settled
    <3> QED
      BY <1>0, <1>4, <3>1
  <2>. HIDE DEF new, r
  <2>5. Agree(i, call[c].table, Tab!Loc \ Unwritten(i, c))'
    BY <1>2, <1>4, <1>6, <2>1, <2>2, <2>3 DEF Agree
  <2>6. done'[i][c] \in 0 .. call'[c].size
    BY <1>0, <1>4, <1>6
  <2> QED
    BY <1>6, <2>4, <2>5, <2>6 DEF Served
<1>. HIDE DEF new, r
<1> QED
  BY <1>0, <1>1, <1>2, <1>3, <1>5, <1>8, <1>9, SendIInv

\* When all servers have answered nothing is pending.
LEMMA ReturnIInv ==
  ASSUME TablesInv, NEW c \in Client, Tab!Return(c)
  PROVE  TablesInv'
<1>0. /\ Tab!TypeOK /\ Tab!TableAssumption /\ call[c] # Idle /\ CallTold(c)
      /\ \A i \in Tab!Server : Served(i, c) /\ done[i][c] = call[c].size
  BY DEF TablesInv, Tab!Return
<1>1. /\ call'[c] = Idle /\ \A d \in Client : d # c => call'[d] = call[d]
      /\ DOMAIN call' = Client
      /\ tables' = tables /\ done' = done /\ calls' = calls /\ told' = told /\ used' = used
  BY <1>0 DEF Tab!TypeOK, Tab!Return
<1>2. Tab!TypeOK' /\ Tab!TableAssumption'
  <2>1. \A d \in Client : call[d]' \in Tab!Calls(d)' \cup {Idle}
    BY <1>0, <1>1 DEF Tab!TypeOK, Tab!Calls
  <2> QED
    BY <1>0, <1>1, <2>1 DEF Tab!TypeOK, Tab!TableAssumption
<1>3. ASSUME NEW i \in Tab!Server PROVE Settled(i, call[c].table)
  <2>1. used[call[c].table] \in Nat /\ call[c].size \in Nat
    BY <1>0, CallTyped DEF Tab!TypeOK
  <2>2. CASE Appends(c)
    <3>1. Unwritten(i, c) = {} /\ call[c].size # 0 /\ ~call[c].add
      BY <1>0, <2>1, <2>2 DEF Unwritten, CallTold, Appends
    <3>2. Agree(i, call[c].table, Tab!Loc \ Unwritten(i, c))
          /\ tables[i][call[c].table].ptr
               = used[call[c].table] - call[c].size + done[i][c]
      BY <1>0, <2>2, <3>1 DEF Served
    <3>3. Agree(i, call[c].table, Tab!Loc)
      BY <3>1, <3>2 DEF Agree
    <3>4. tables[i][call[c].table].ptr = used[call[c].table]
      BY <1>0, <2>1, <3>2
    <3> QED
      BY <1>0, <3>3, <3>4 DEF Settled, CallTold
  <2>3. CASE ~Appends(c)
    <3>1. call[c].size = 1 /\ Unwritten(i, c) = {}
      BY <1>0, <2>3 DEF CallTold, Unwritten
    <3>2. Agree(i, call[c].table, Tab!Loc \ Unwritten(i, c))
          /\ tables[i][call[c].table].ptr = used[call[c].table]
      BY <1>0, <2>3, <3>1 DEF Served
    <3>3. Agree(i, call[c].table, Tab!Loc)
      BY <3>1, <3>2 DEF Agree
    <3> QED
      BY <1>0, <3>2, <3>3 DEF Settled, CallTold
  <2> QED
    BY <2>2, <2>3
<1>4. ASSUME NEW i \in Tab!Server, NEW d \in Client, NEW u \in Tables[d], ~Busy(d, u)'
      PROVE  Settled(i, u)'
  <2>1. Settled(i, u)
    BY <1>1, <1>3, <1>4 DEF TablesInv, Busy
  <2> QED
    BY <1>1, <2>1 DEF Settled, Agree
<1>5. ASSUME NEW d \in Client, (call[d] # Idle)' PROVE CallTold(d)'
  <2>1. call[d] # Idle /\ CallTold(d) /\ call'[d] = call[d]
    BY <1>1, <1>5 DEF TablesInv
  <2> QED
    BY <1>1, <2>1 DEF CallTold, Written, Appends
<1>6. ASSUME NEW i \in Tab!Server, NEW d \in Client, (call[d] # Idle)' PROVE Served(i, d)'
  <2>1. call[d] # Idle /\ Served(i, d) /\ call'[d] = call[d]
    BY <1>1, <1>6 DEF TablesInv
  <2>2. Unwritten(i, d)' = Unwritten(i, d) /\ Appends(d)' = Appends(d)
    BY <1>1, <2>1 DEF Unwritten, Written, Appends
  <2>3. Agree(i, call[d].table, Tab!Loc \ Unwritten(i, d))
          => Agree(i, call[d].table, Tab!Loc \ Unwritten(i, d))'
    BY <1>1, <2>1, <2>2 DEF Agree
  <2> QED
    BY <1>1, <2>1, <2>2, <2>3 DEF Served
<1> QED
  BY <1>2, <1>4, <1>5, <1>6 DEF TablesInv

-----------------------------------------------------------------------------

\* TablesInv is kept by every step.
LEMMA NextTables == TablesInv /\ [Tab!Next]_(Tab!vars) => TablesInv'
<1> SUFFICES ASSUME TablesInv, [Tab!Next]_(Tab!vars) PROVE TablesInv'
  OBVIOUS
<1>1. ASSUME NEW i \in Tab!Server, NEW c \in Client, Tab!Handle(i, c) PROVE TablesInv'
  BY <1>1, HandleIInv
<1>2. ASSUME NEW c \in Client, Tab!Return(c) PROVE TablesInv'
  BY <1>2, ReturnIInv
<1>3. ASSUME NEW c \in Client, NEW t \in Tables[c], Tab!SendInit(c, t) PROVE TablesInv'
  BY <1>3, InitSends
<1>4. ASSUME NEW c \in Client, NEW t \in Tables[c], NEW l \in Places, Tab!SendUpdate(c, t, l)
      PROVE  TablesInv'
  BY <1>4, UpdateSends
<1>5. ASSUME NEW c \in Client, NEW t \in Tables[c], NEW n \in 1 .. WindowSize,
             Tab!SendBatchedUpdate(c, t, n)
      PROVE  TablesInv'
  BY <1>5, BatchSends
<1>6. CASE UNCHANGED Tab!vars
  BY <1>6 DEF Tab!vars, TablesInv, Tab!TypeOK, Tab!TableAssumption, Settled, CallTold, Served,
    Busy, Agree, Unwritten, Written, Appends, Tab!Calls
<1> QED
  BY <1>1, <1>2, <1>3, <1>4, <1>5, <1>6 DEF Tab!Next

\* No append goes past the window of any table at any server, and what is kept has
\* its type, however many columns, clients and servers there are.
THEOREM TablesTyped == Tab!TableAssumption /\ Tab!Spec => []Tab!TypeOK
<1>1. TablesInv => Tab!TypeOK
  BY DEF TablesInv
<1> QED
  BY <1>1, InitTables, NextTables, PTL DEF Tab!Spec

\* A client that has its answer finds its tables settled everywhere.
LEMMA Agrees == TablesInv => Tab!ServersAgree
<1> SUFFICES ASSUME TablesInv, NEW c \in Client, call[c] = Idle,
                    NEW t \in Tables[c], NEW i \in Tab!Server
             PROVE  /\ tables[i][t].first = Tab!Shares(i, told[t]).first
                    /\ tables[i][t].second = Tab!Shares(i, told[t]).second
  BY DEF Tab!ServersAgree
<1>1. Settled(i, t)
  BY DEF TablesInv, Busy
<1>2. CASE /\ told[t] = Tab!NoRecords
           /\ tables[i][t].first = Tab!NoRecords /\ tables[i][t].second = Tab!NoRecords
  <2>1. DOMAIN told[t] = {}
    BY <1>2 DEF Tab!NoRecords
  <2> QED
    BY <1>2, <2>1 DEF Tab!Shares, Tab!NoRecords
<1>3. CASE told[t] \in [Tab!Loc -> Nat] /\ Agree(i, t, Tab!Loc)
  BY <1>3 DEF Agree, Tab!Shares
<1> QED
  BY <1>1, <1>2, <1>3 DEF Settled

\* Every server has what a client without a call on its way has told it, in both
\* shares and in the same column as the other servers (DCFUpdate, DPFUpdate and
\* ValListUpdate on all three servers).
THEOREM Agreement == Tab!TableAssumption /\ Tab!Spec => []Tab!ServersAgree
BY InitTables, NextTables, Agrees, PTL DEF Tab!Spec

-----------------------------------------------------------------------------
(* The sockets, with one query at a time.                                   *)

\* No server is in the middle of query q.
AtRest(q) ==
  \/ \A i \in Emp!Server : place[i][q] = "out"
  \/ \A i \in Emp!Server : place[i][q] = "in"

\* A server begins a query when all the others are at rest.
SerialEnter(i, q) == Emp!Enter(i, q) /\ \A p \in Query : p # q => AtRest(p)

SerialNext ==
  \E i \in Emp!Server :
     Emp!Drain(i) \/ \E q \in Query : SerialEnter(i, q) \/ Emp!Transfer(i, q)

SerialSpec == Emp!Init /\ [][SerialNext]_(Emp!vars)

-----------------------------------------------------------------------------

WordTypes ==
  /\ place \in [Emp!Server -> [Query -> {"out", "send", "recv", "in"}]]
  /\ pipe \in [Emp!Server -> Seq([from : Emp!Server, query : Query, word : Nat])]
  /\ passed \in [Emp!Server -> Int]
  /\ sent \in [Emp!Server -> [Query -> 0 .. Words]]
  /\ rcvd \in [Emp!Server -> [Query -> Seq([from : Emp!Server, query : Query, word : Nat])]]

Read(i, q) == Len(rcvd[i][q])

\* What the place of a handler says of the words it has written and read
PlaceSays(i, q) ==
  /\ place[i][q] = "out" => sent[i][q] = 0 /\ Read(i, q) = 0
  /\ place[i][q] = "send" =>
       sent[i][q] < Words /\ Read(i, q) = (IF i = 0 THEN Words ELSE 0)
  /\ place[i][q] = "recv" =>
       Read(i, q) < Words /\ sent[i][q] = (IF i = 0 THEN 0 ELSE Words)
  /\ place[i][q] = "in" => sent[i][q] = Words /\ Read(i, q) = Words

\* Words b .. b + n - 1 of the share of i
Part(i, q, b, n) == [k \in 1 .. n |-> Emp!Word(i, q, b + k - 1)]

\* i has read words of its predecessor only, in order.
ReadInOrder(i, q) == rcvd[i][q] = Part(Emp!Pred(i), q, 0, Read(i, q))

\* The socket to i holds what is written and not read of query q.
Holds(i, q) ==
  /\ Read(i, q) <= sent[Emp!Pred(i)][q]
  /\ Read(i, q) # sent[Emp!Pred(i)][q]
       => pipe[Emp!Pred(i)]
            = Part(Emp!Pred(i), q, Read(i, q), sent[Emp!Pred(i)][q] - Read(i, q))

\* A socket that holds words holds words of some query.
HoldsSome(i) == pipe[Emp!Pred(i)] # <<>> => \E q \in Query : Read(i, q) # sent[Emp!Pred(i)][q]

WordsInv ==
  /\ Emp!EmpAssumption /\ WordTypes
  /\ \A i \in Emp!Server, q \in Query : PlaceSays(i, q) /\ ReadInOrder(i, q) /\ Holds(i, q)
  /\ \A i \in Emp!Server : HoldsSome(i)
  /\ \A p, q \in Query : p # q => AtRest(p) \/ AtRest(q)

-----------------------------------------------------------------------------

\* Succ and Pred go round the ring in opposite directions.
LEMMA PredRing ==
  ASSUME Emp!EmpAssumption, NEW i \in Emp!Server
  PROVE  /\ Succ(i) \in Emp!Server /\ Emp!Pred(i) \in Emp!Server
         /\ Succ(Emp!Pred(i)) = i /\ Emp!Pred(Succ(i)) = i /\ Emp!Pred(i) # i
<1> DEFINE N == NUM_SERVERS
<1>0. N \in Nat /\ N >= 2
  BY DEF Emp!EmpAssumption
<1>1. \A a \in 0 .. N - 1 : a % N = a /\ (a + N) % N = a
  BY <1>0, SMTT(30)
<1>. HIDE DEF N
<1>2. Succ(i) = IF i = N - 1 THEN 0 ELSE i + 1
  BY <1>0, <1>1 DEF Emp!Server, Succ, N
<1>3. Emp!Pred(i) = IF i = 0 THEN N - 1 ELSE i - 1
  BY <1>0, <1>1 DEF Emp!Server, Emp!Pred, N
<1> QED
  BY <1>0, <1>1, <1>2, <1>3 DEF Emp!Server, Succ, Emp!Pred, N

\* A part of a share is a sequence of words.
LEMMA PartTyped ==
  ASSUME NEW i \in Emp!Server, NEW q \in Query, NEW b \in Nat, NEW n \in Nat
  PROVE  /\ Part(i, q, b, n) \in Seq([from : Emp!Server, query : Query, word : Nat])
         /\ Len(Part(i, q, b, n)) = n
         /\ n = 0 => Part(i, q, b, n) = <<>>
<1>1. \A k \in 1 .. n :
       Emp!Word(i, q, b + k - 1) \in [from : Emp!Server, query : Query, word : Nat]
  BY DEF Emp!Word
<1> QED
  BY <1>1 DEF Part

\* A part grows at its end by the next word.
LEMMA PartAppend ==
  ASSUME NEW i \in Emp!Server, NEW q \in Query, NEW b \in Nat, NEW n \in Nat
  PROVE  Append(Part(i, q, b, n), Emp!Word(i, q, b + n)) = Part(i, q, b, n + 1)
<1> DEFINE S == [from : Emp!Server, query : Query, word : Nat]
           p == Part(i, q, b, n)
           w == Emp!Word(i, q, b + n)
<1>0. b + n \in Nat /\ n + 1 \in Nat
  OBVIOUS
<1>1. p \in Seq(S) /\ Len(p) = n /\ w \in S
  BY <1>0, PartTyped DEF Emp!Word
<1>2. Append(p, w) \in Seq(S) /\ Len(Append(p, w)) = n + 1
  BY <1>1
<1>3. Part(i, q, b, n + 1) \in Seq(S) /\ Len(Part(i, q, b, n + 1)) = n + 1
  BY <1>0, PartTyped
<1>4. \A k \in 1 .. n + 1 : Append(p, w)[k] = Part(i, q, b, n + 1)[k]
  <2> SUFFICES ASSUME NEW k \in 1 .. n + 1
               PROVE  Append(p, w)[k] = Emp!Word(i, q, b + k - 1)
    BY DEF Part
  <2>1. CASE k = n + 1
    <3>1. b + k - 1 = b + n
      BY <2>1
    <3> QED
      BY <1>1, <2>1, <3>1
  <2>2. CASE k # n + 1
    <3>1. k \in 1 .. n
      BY <2>2
    <3>2. Append(p, w)[k] = p[k]
      BY <1>1, <3>1
    <3> QED
      BY <3>1, <3>2 DEF Part
  <2> QED
    BY <2>1, <2>2
<1> HIDE DEF S, p, w
<1> QED
  BY <1>2, <1>3, <1>4, SeqEqual DEF p, w

\* A part loses its first word.
LEMMA PartTail ==
  ASSUME NEW i \in Emp!Server, NEW q \in Query, NEW b \in Nat, NEW n \in Nat, n # 0
  PROVE  /\ Part(i, q, b, n) # <<>>
         /\ Head(Part(i, q, b, n)) = Emp!Word(i, q, b)
         /\ Tail(Part(i, q, b, n)) = Part(i, q, b + 1, n - 1)
<1> DEFINE S == [from : Emp!Server, query : Query, word : Nat]
           p == Part(i, q, b, n)
<1>1. p \in Seq(S) /\ Len(p) = n
  BY PartTyped
<1>2. Part(i, q, b + 1, n - 1) \in Seq(S) /\ Len(Part(i, q, b + 1, n - 1)) = n - 1
  <2>1. b + 1 \in Nat /\ n - 1 \in Nat
    OBVIOUS
  <2> QED
    BY <2>1, PartTyped
<1>3. p # <<>> /\ Head(p) = p[1]
  BY <1>1
<1>4. p[1] = Emp!Word(i, q, b)
  <2>1. 1 \in 1 .. n /\ b + 1 - 1 = b
    OBVIOUS
  <2> QED
    BY <2>1 DEF Part
<1>5. Tail(p) \in Seq(S) /\ Len(Tail(p)) = n - 1 /\ \A k \in 1 .. n - 1 : Tail(p)[k] = p[k + 1]
  BY <1>1, <1>3
<1>6. \A k \in 1 .. n - 1 : p[k + 1] = Part(i, q, b + 1, n - 1)[k]
  <2> SUFFICES ASSUME NEW k \in 1 .. n - 1 PROVE p[k + 1] = Part(i, q, b + 1, n - 1)[k]
    OBVIOUS
  <2>1. k + 1 \in 1 .. n /\ b + (k + 1) - 1 = b + 1 + k - 1
    OBVIOUS
  <2> QED
    BY <2>1 DEF Part
<1>7. Tail(p) = Part(i, q, b + 1, n - 1)
  <2> HIDE DEF S, p
  <2> QED
    BY <1>2, <1>5, <1>6, SeqEqual
<1> QED
  BY <1>3, <1>4, <1>7

-----------------------------------------------------------------------------

\* Nothing is written before a query begins.
LEMMA InitWords == Emp!EmpAssumption /\ Emp!Init => WordsInv
<1> SUFFICES ASSUME Emp!EmpAssumption, Emp!Init PROVE WordsInv
  OBVIOUS
<1>1. /\ \A i \in Emp!Server, q \in Query :
           place[i][q] = "out" /\ sent[i][q] = 0 /\ rcvd[i][q] = <<>> /\ Read(i, q) = 0
      /\ \A i \in Emp!Server : pipe[i] = <<>> /\ Emp!Pred(i) \in Emp!Server
  BY PredRing DEF Emp!Init, Read
<1>2. WordTypes
  BY DEF Emp!Init, WordTypes, Emp!EmpAssumption
<1>3. \A i \in Emp!Server, q \in Query : PlaceSays(i, q) /\ Holds(i, q)
  BY <1>1 DEF PlaceSays, Holds
<1>4. \A i \in Emp!Server, q \in Query : ReadInOrder(i, q)
  <2> SUFFICES ASSUME NEW i \in Emp!Server, NEW q \in Query PROVE ReadInOrder(i, q)
    OBVIOUS
  <2>1. Part(Emp!Pred(i), q, 0, 0) = <<>>
    BY <1>1, PartTyped
  <2> QED
    BY <1>1, <2>1 DEF ReadInOrder
<1>5. \A i \in Emp!Server : HoldsSome(i)
  BY <1>1 DEF HoldsSome
<1>6. \A q \in Query : AtRest(q)
  BY <1>1 DEF AtRest
<1> QED
  BY <1>2, <1>3, <1>4, <1>5, <1>6 DEF WordsInv

\* A server begins a query: all others are at rest, and it has written nothing.
LEMMA EnterWords ==
  ASSUME WordsInv, NEW i \in Emp!Server, NEW q \in Query, SerialEnter(i, q)
  PROVE  WordsInv'
<1>1. /\ place[i][q] = "out" /\ place' = [place EXCEPT ![i][q] = Emp!FirstCall(i)]
      /\ pipe' = pipe /\ passed' = passed /\ sent' = sent /\ rcvd' = rcvd
      /\ \A p \in Query : p # q => AtRest(p)
  BY DEF SerialEnter, Emp!Enter
<1>2. WordTypes'
  BY <1>1 DEF WordsInv, WordTypes, Emp!FirstCall
<1>3. /\ place'[i][q] = Emp!FirstCall(i)
      /\ \A j \in Emp!Server, p \in Query : j # i \/ p # q => place'[j][p] = place[j][p]
  BY <1>1 DEF WordsInv, WordTypes
<1>4. \A j \in Emp!Server, p \in Query : PlaceSays(j, p)'
  <2> SUFFICES ASSUME NEW j \in Emp!Server, NEW p \in Query PROVE PlaceSays(j, p)'
    OBVIOUS
  <2>1. CASE j = i /\ p = q
    <3>1. sent[i][q] = 0 /\ Read(i, q) = 0 /\ Words > 0
      BY <1>1 DEF WordsInv, PlaceSays, Emp!EmpAssumption
    <3> QED
      BY <1>1, <1>3, <2>1, <3>1 DEF PlaceSays, Emp!FirstCall, Read
  <2>2. CASE j # i \/ p # q
    BY <1>1, <1>3, <2>2 DEF WordsInv, PlaceSays, Read
  <2> QED
    BY <2>1, <2>2
<1>5. /\ \A j \in Emp!Server, p \in Query : ReadInOrder(j, p)' /\ Holds(j, p)'
      /\ \A j \in Emp!Server : HoldsSome(j)'
  BY <1>1 DEF WordsInv, ReadInOrder, Holds, HoldsSome, Read
<1>6. \A p \in Query : p # q => AtRest(p)'
  BY <1>1, <1>3 DEF AtRest
<1> QED
  BY <1>2, <1>4, <1>5, <1>6 DEF WordsInv, Emp!EmpAssumption

\* While a server reads or writes words of q the sockets hold those of q alone.
LEMMA OthersRest ==
  ASSUME WordsInv, NEW i \in Emp!Server, NEW q \in Query, place[i][q] \in {"send", "recv"}
  PROVE  \A p \in Query : p # q
           => AtRest(p) /\ \A j \in Emp!Server : Read(j, p) = sent[Emp!Pred(j)][p]
<1>1. ~AtRest(q)
  BY DEF AtRest
<1>2. \A p \in Query : p # q => AtRest(p)
  BY <1>1 DEF WordsInv
<1>3. \A p \in Query, j \in Emp!Server : AtRest(p) => Read(j, p) = sent[Emp!Pred(j)][p]
  <2> SUFFICES ASSUME NEW p \in Query, NEW j \in Emp!Server, AtRest(p)
               PROVE  Read(j, p) = sent[Emp!Pred(j)][p]
    OBVIOUS
  <2>1. Emp!Pred(j) \in Emp!Server
    BY PredRing DEF WordsInv
  <2> QED
    BY <2>1 DEF WordsInv, PlaceSays, AtRest
<1> QED
  BY <1>2, <1>3

\* A word goes to the end of what the socket holds of the query.
LEMMA SendWords ==
  ASSUME WordsInv, NEW i \in Emp!Server, NEW q \in Query, Emp!SendWord(i, q)
  PROVE  WordsInv'
<1> DEFINE s == Succ(i)
           w == Emp!Word(i, q, sent[i][q])
<1>1. /\ place[i][q] = "send" /\ passed' = passed /\ rcvd' = rcvd
      /\ pipe' = [pipe EXCEPT ![i] = Append(@, w)]
      /\ sent' = [sent EXCEPT ![i][q] = @ + 1]
      /\ place' = [place EXCEPT ![i][q] =
                     IF sent[i][q] + 1 = Words THEN Emp!AfterCall(i, "send") ELSE "send"]
  BY DEF Emp!SendWord
<1>2. /\ Emp!EmpAssumption /\ WordTypes /\ s \in Emp!Server /\ Emp!Pred(s) = i
      /\ \A j \in Emp!Server : Emp!Pred(j) \in Emp!Server /\ (Emp!Pred(j) = i => j = s)
  BY PredRing DEF WordsInv
<1>3. /\ sent[i][q] \in Nat /\ sent[i][q] < Words /\ Words \in Nat
      /\ Read(i, q) = (IF i = 0 THEN Words ELSE 0)
      /\ Read(s, q) \in Nat /\ Read(s, q) <= sent[i][q]
  BY <1>1, <1>2 DEF WordsInv, WordTypes, PlaceSays, Holds, Read, Emp!EmpAssumption
<1>4. w \in [from : Emp!Server, query : Query, word : Nat]
  BY <1>3 DEF Emp!Word
<1>5. /\ sent'[i][q] = sent[i][q] + 1 /\ pipe'[i] = Append(pipe[i], w)
      /\ place'[i][q] = IF sent[i][q] + 1 = Words THEN Emp!AfterCall(i, "send") ELSE "send"
      /\ \A j \in Emp!Server, p \in Query : j # i \/ p # q
            => place'[j][p] = place[j][p] /\ sent'[j][p] = sent[j][p]
      /\ \A j \in Emp!Server : j # i => pipe'[j] = pipe[j]
  BY <1>1, <1>2 DEF WordTypes
<1>6. WordTypes'
  <2>1. place' \in [Emp!Server -> [Query -> {"out", "send", "recv", "in"}]]
    BY <1>1, <1>2 DEF WordTypes, Emp!AfterCall
  <2>2. pipe' \in [Emp!Server -> Seq([from : Emp!Server, query : Query, word : Nat])]
    <3> DEFINE S == [from : Emp!Server, query : Query, word : Nat]
    <3>1. w \in S /\ pipe \in [Emp!Server -> Seq(S)]
      BY <1>2, <1>4 DEF WordTypes
    <3> HIDE DEF S, w
    <3>2. Append(pipe[i], w) \in Seq(S)
      BY <3>1
    <3>3. pipe' \in [Emp!Server -> Seq(S)]
      BY <1>1, <3>1, <3>2
    <3> QED
      BY <3>3 DEF S
  <2>3. sent' \in [Emp!Server -> [Query -> 0 .. Words]]
    <3>1. sent[i][q] + 1 \in 0 .. Words
      BY <1>3
    <3> QED
      BY <1>1, <1>2, <3>1 DEF WordTypes
  <2> QED
    BY <1>1, <1>2, <2>1, <2>2, <2>3 DEF WordTypes
<1>7. \A j \in Emp!Server, p \in Query : PlaceSays(j, p)'
  <2> SUFFICES ASSUME NEW j \in Emp!Server, NEW p \in Query PROVE PlaceSays(j, p)'
    OBVIOUS
  <2>1. CASE j = i /\ p = q
    BY <1>1, <1>3, <1>5, <2>1 DEF PlaceSays, Emp!AfterCall, Emp!FirstCall, Read
  <2>2. CASE j # i \/ p # q
    BY <1>1, <1>5, <2>2 DEF WordsInv, PlaceSays, Read
  <2> QED
    BY <2>1, <2>2
<1>8. \A p \in Query : p # q
        => AtRest(p) /\ \A j \in Emp!Server : Read(j, p) = sent[Emp!Pred(j)][p]
  BY <1>1, OthersRest
<1>9. \A j \in Emp!Server, p \in Query : ReadInOrder(j, p)'
  BY <1>1 DEF WordsInv, ReadInOrder, Read
<1>10. pipe'[i] = Part(i, q, Read(s, q), sent[i][q] + 1 - Read(s, q))
  <2> DEFINE b == Read(s, q)
             n == sent[i][q] - Read(s, q)
  <2>1. b \in Nat /\ n \in Nat /\ b + n = sent[i][q] /\ n + 1 = sent[i][q] + 1 - Read(s, q)
    BY <1>3
  <2>2. pipe[i] = Part(i, q, b, n)
    <3>1. CASE n # 0
      BY <1>2, <1>3, <3>1 DEF WordsInv, Holds
    <3>2. CASE n = 0
      <4>1. \A p \in Query : Read(s, p) = sent[i][p]
        BY <1>2, <1>3, <1>8, <3>2
      <4>2. pipe[i] = <<>>
        BY <1>2, <4>1 DEF WordsInv, HoldsSome
      <4>3. Part(i, q, b, 0) = <<>>
        BY <2>1, PartTyped
      <4> QED
        BY <3>2, <4>2, <4>3
    <3> QED
      BY <3>1, <3>2
  <2>3. Append(Part(i, q, b, n), Emp!Word(i, q, b + n)) = Part(i, q, b, n + 1)
    BY <2>1, PartAppend
  <2> QED
    BY <1>5, <2>1, <2>2, <2>3
<1>11. \A j \in Emp!Server, p \in Query : Holds(j, p)'
  <2> SUFFICES ASSUME NEW j \in Emp!Server, NEW p \in Query PROVE Holds(j, p)'
    OBVIOUS
  <2>1. Emp!Pred(j) \in Emp!Server /\ Emp!Pred(s) = i /\ (Emp!Pred(j) = i => j = s)
    BY <1>2
  <2>2. CASE p # q
    <3>1. Read(j, p) = sent'[Emp!Pred(j)][p] /\ Read(j, p)' = Read(j, p)
      BY <1>1, <1>5, <1>8, <2>1, <2>2 DEF Read
    <3>2. sent'[Emp!Pred(j)][p] \in Nat
      BY <1>6, <2>1 DEF WordTypes
    <3> QED
      BY <3>1, <3>2 DEF Holds
  <2>3. CASE p = q /\ j # s
    BY <1>1, <1>5, <2>1, <2>3 DEF WordsInv, Holds, Read
  <2>4. CASE p = q /\ j = s
    BY <1>1, <1>3, <1>5, <1>10, <2>1, <2>4 DEF Holds, Read
  <2> QED
    BY <2>2, <2>3, <2>4
<1>12. \A j \in Emp!Server : HoldsSome(j)'
  <2> SUFFICES ASSUME NEW j \in Emp!Server PROVE HoldsSome(j)'
    OBVIOUS
  <2>1. CASE j = s
    <3>1. Read(s, q)' = Read(s, q) /\ sent'[Emp!Pred(s)][q] = sent[i][q] + 1
      BY <1>1, <1>2, <1>5 DEF Read
    <3>2. Read(s, q)' # sent'[Emp!Pred(s)][q]
      BY <1>3, <3>1
    <3> QED
      BY <2>1, <3>2 DEF HoldsSome
  <2>2. CASE j # s
    <3>1. Emp!Pred(j) \in Emp!Server /\ Emp!Pred(j) # i
      BY <1>2, <2>2
    <3> QED
      BY <1>1, <1>5, <3>1 DEF WordsInv, HoldsSome, Read
  <2> QED
    BY <2>1, <2>2
<1>13. \A p \in Query : p # q => AtRest(p)'
  BY <1>5, <1>8 DEF AtRest
<1> QED
  BY <1>2, <1>6, <1>7, <1>9, <1>11, <1>12, <1>13 DEF WordsInv, Emp!EmpAssumption

\* What has come to the socket has been written.
LEMMA PassedThere ==
  ASSUME WordsInv, SocketInv, NEW o \in Emp!Server
  PROVE  passed[o] \in Nat /\ Len(pipe[o]) \in Nat /\ Len(pipe[o]) - passed[o] >= 0
<1> DEFINE S == [from : Emp!Server, query : Query, word : Nat]
<1>1. pipe[o] \in Seq(S) /\ Capacity \in Nat /\ Buffer \in Nat
  BY DEF WordsInv, WordTypes, Emp!EmpAssumption
<1>2. Len(pipe[o]) \in Nat
  BY <1>1, LenProperties
<1>3. passed[o] \in 0 .. Capacity /\ Len(pipe[o]) - passed[o] \in 0 .. Buffer
  BY DEF SocketInv
<1> QED
  BY <1>1, <1>2, <1>3

\* The word a server reads is the next one of its predecessor.
LEMMA RecvWords ==
  ASSUME WordsInv, SocketInv, NEW i \in Emp!Server, NEW q \in Query, Emp!RecvWord(i, q)
  PROVE  /\ WordsInv'
         /\ Read(i, q)' = Read(i, q) + 1 /\ place[Emp!Pred(i)][q] # "out"
         /\ place'[i][q] = IF Read(i, q) + 1 = Words THEN Emp!AfterCall(i, "recv") ELSE "recv"
         /\ \A j \in Emp!Server, p \in Query :
               j # i \/ p # q => place'[j][p] = place[j][p] /\ rcvd'[j][p] = rcvd[j][p]
<1> DEFINE o == Emp!Pred(i)
           b == Read(i, q)
           n == sent[o][q] - b
           S == [from : Emp!Server, query : Query, word : Nat]
<1>1. /\ place[i][q] = "recv" /\ passed[o] > 0 /\ sent' = sent
      /\ passed' = [passed EXCEPT ![o] = @ - 1]
      /\ rcvd' = [rcvd EXCEPT ![i][q] = Append(@, Head(pipe[o]))]
      /\ pipe' = [pipe EXCEPT ![o] = Tail(@)]
      /\ place' = [place EXCEPT ![i][q] =
                     IF b + 1 = Words THEN Emp!AfterCall(i, "recv") ELSE "recv"]
  BY DEF Emp!RecvWord, Emp!Length, Read
<1>2. /\ Emp!EmpAssumption /\ WordTypes /\ o \in Emp!Server
      /\ \A j \in Emp!Server : Emp!Pred(j) \in Emp!Server /\ (Emp!Pred(j) = o => j = i)
  BY PredRing DEF WordsInv
<1>a. pipe[o] # <<>>
  <2>1. o \in Emp!Server /\ passed[o] \in Nat /\ Len(pipe[o]) - passed[o] >= 0 /\ Len(pipe[o]) \in Nat
    BY <1>1, <1>2, PassedThere
  <2> HIDE DEF o
  <2>2. Len(pipe[o]) > 0
    BY <1>1, <2>1
  <2> QED
    BY <2>2
<1>3. /\ b \in Nat /\ b < Words /\ Words \in Nat /\ b <= sent[o][q] /\ sent[o][q] \in Nat
      /\ sent[i][q] = (IF i = 0 THEN 0 ELSE Words)
  <2>1. rcvd[i][q] \in Seq(S) /\ sent[o][q] \in Nat /\ Words \in Nat
    <3> HIDE DEF o
    <3>1. Words \in Nat
      BY <1>2 DEF Emp!EmpAssumption
    <3>2. sent[o][q] \in 0 .. Words
      BY <1>2 DEF WordTypes
    <3>3. rcvd[i][q] \in Seq(S)
      BY <1>2 DEF WordTypes
    <3> QED
      BY <3>1, <3>2, <3>3
  <2>2. b \in Nat
    BY <2>1 DEF Read
  <2>3. PlaceSays(i, q) /\ Holds(i, q)
    BY DEF WordsInv
  <2> QED
    BY <1>1, <2>1, <2>2, <2>3 DEF PlaceSays, Holds
<1>4. \A p \in Query : p # q
        => AtRest(p) /\ \A j \in Emp!Server : Read(j, p) = sent[Emp!Pred(j)][p]
  BY <1>1, OthersRest
<1>5. n # 0
  <2>1. PICK p \in Query : Read(i, p) # sent[o][p]
    BY <1>a DEF WordsInv, HoldsSome
  <2>2. p = q
    BY <1>4, <2>1
  <2> QED
    BY <1>3, <2>1, <2>2
<1>6. n \in Nat /\ pipe[o] = Part(o, q, b, n)
  BY <1>3, <1>5 DEF WordsInv, Holds
<1>7. Head(pipe[o]) = Emp!Word(o, q, b) /\ Tail(pipe[o]) = Part(o, q, b + 1, n - 1)
  <2>1. o \in Emp!Server /\ b \in Nat /\ n \in Nat /\ n # 0 /\ pipe[o] = Part(o, q, b, n)
    BY <1>2, <1>3, <1>5, <1>6
  <2> HIDE DEF o, b, n
  <2> QED
    BY <2>1, PartTail
<1>8. /\ rcvd[i][q] = Part(o, q, 0, b)
      /\ Append(rcvd[i][q], Head(pipe[o])) = Part(o, q, 0, b + 1)
  <2>1. rcvd[i][q] = Part(o, q, 0, b)
    BY DEF WordsInv, ReadInOrder
  <2>2. Append(Part(o, q, 0, b), Emp!Word(o, q, 0 + b)) = Part(o, q, 0, b + 1)
    BY <1>2, <1>3, PartAppend
  <2>3. 0 + b = b
    BY <1>3
  <2> QED
    BY <1>7, <2>1, <2>2, <2>3
<1>9. /\ Part(o, q, 0, b + 1) \in Seq(S) /\ Len(Part(o, q, 0, b + 1)) = b + 1
      /\ Part(o, q, b + 1, n - 1) \in Seq(S)
      /\ n - 1 = 0 => Part(o, q, b + 1, n - 1) = <<>>
  <2>1. b + 1 \in Nat /\ n - 1 \in Nat /\ 0 \in Nat /\ o \in Emp!Server
    BY <1>2, <1>3, <1>5, <1>6
  <2> HIDE DEF o, b, n
  <2> QED
    BY <2>1, PartTyped
<1>10. WordTypes'
  <2>1. place' \in [Emp!Server -> [Query -> {"out", "send", "recv", "in"}]]
    BY <1>1, <1>2 DEF WordTypes, Emp!AfterCall
  <2>2. pipe' \in [Emp!Server -> Seq(S)]
    BY <1>1, <1>2, <1>7, <1>9 DEF WordTypes
  <2>3. rcvd' \in [Emp!Server -> [Query -> Seq(S)]]
    BY <1>1, <1>2, <1>8, <1>9 DEF WordTypes
  <2>4. passed' \in [Emp!Server -> Int]
    BY <1>1, <1>2 DEF WordTypes
  <2> QED
    BY <1>1, <1>2, <2>1, <2>2, <2>3, <2>4 DEF WordTypes
<1>11. /\ rcvd'[i][q] = Part(o, q, 0, b + 1) /\ pipe'[o] = Part(o, q, b + 1, n - 1)
       /\ place'[i][q] = IF b + 1 = Words THEN Emp!AfterCall(i, "recv") ELSE "recv"
       /\ \A j \in Emp!Server, p \in Query : j # i \/ p # q
             => place'[j][p] = place[j][p] /\ rcvd'[j][p] = rcvd[j][p]
       /\ \A j \in Emp!Server : j # o => pipe'[j] = pipe[j]
  BY <1>1, <1>2, <1>7, <1>8 DEF WordTypes
<1>12. /\ Read(i, q)' = b + 1
       /\ \A j \in Emp!Server, p \in Query : j # i \/ p # q => Read(j, p)' = Read(j, p)
  BY <1>9, <1>11 DEF Read
<1>13. \A j \in Emp!Server, p \in Query : PlaceSays(j, p)'
  <2> SUFFICES ASSUME NEW j \in Emp!Server, NEW p \in Query PROVE PlaceSays(j, p)'
    OBVIOUS
  <2>1. CASE j = i /\ p = q
    BY <1>1, <1>3, <1>11, <1>12, <2>1 DEF PlaceSays, Emp!AfterCall, Emp!FirstCall
  <2>2. CASE j # i \/ p # q
    BY <1>1, <1>11, <1>12, <2>2 DEF WordsInv, PlaceSays
  <2> QED
    BY <2>1, <2>2
<1>14. \A j \in Emp!Server, p \in Query : ReadInOrder(j, p)'
  <2> SUFFICES ASSUME NEW j \in Emp!Server, NEW p \in Query PROVE ReadInOrder(j, p)'
    OBVIOUS
  <2>1. CASE j = i /\ p = q
    BY <1>11, <1>12, <2>1 DEF ReadInOrder
  <2>2. CASE j # i \/ p # q
    BY <1>11, <1>12, <2>2 DEF WordsInv, ReadInOrder
  <2> QED
    BY <2>1, <2>2
<1>15. \A j \in Emp!Server, p \in Query : Holds(j, p)'
  <2> SUFFICES ASSUME NEW j \in Emp!Server, NEW p \in Query PROVE Holds(j, p)'
    OBVIOUS
  <2>1. CASE p # q
    <3>1. Read(j, p)' = sent'[Emp!Pred(j)][p]
      BY <1>1, <1>4, <1>12, <2>1
    <3>2. sent'[Emp!Pred(j)][p] \in Nat
      BY <1>2, <1>10 DEF WordTypes
    <3> QED
      BY <3>1, <3>2 DEF Holds
  <2>2. CASE p = q /\ j # i
    <3>1. Emp!Pred(j) \in Emp!Server /\ Emp!Pred(j) # o
      BY <1>2, <2>2
    <3> QED
      BY <1>1, <1>11, <1>12, <2>2, <3>1 DEF WordsInv, Holds
  <2>3. CASE p = q /\ j = i
    <3>1. b + 1 <= sent[o][q] /\ sent[o][q] - (b + 1) = n - 1
      BY <1>3, <1>5
    <3> QED
      BY <1>1, <1>11, <1>12, <2>3, <3>1 DEF Holds
  <2> QED
    BY <2>1, <2>2, <2>3
<1>16. \A j \in Emp!Server : HoldsSome(j)'
  <2> SUFFICES ASSUME NEW j \in Emp!Server PROVE HoldsSome(j)'
    OBVIOUS
  <2>1. CASE j = i
    <3>1. CASE n - 1 = 0
      BY <1>9, <1>11, <2>1, <3>1 DEF HoldsSome
    <3>2. CASE n - 1 # 0
      <4>1. Read(i, q)' # sent'[o][q]
        BY <1>1, <1>3, <1>12, <3>2
      <4> QED
        BY <2>1, <4>1 DEF HoldsSome
    <3> QED
      BY <3>1, <3>2
  <2>2. CASE j # i
    <3>1. Emp!Pred(j) \in Emp!Server /\ Emp!Pred(j) # o
      BY <1>2, <2>2
    <3> QED
      BY <1>1, <1>11, <1>12, <2>2, <3>1 DEF WordsInv, HoldsSome
  <2> QED
    BY <2>1, <2>2
<1>17. \A p \in Query : p # q => AtRest(p)'
  BY <1>4, <1>11 DEF AtRest
<1>18. place[o][q] # "out"
  BY <1>2, <1>3, <1>5 DEF WordsInv, PlaceSays
<1> QED
  BY <1>2, <1>10, <1>11, <1>12, <1>13, <1>14, <1>15, <1>16, <1>17, <1>18
  DEF WordsInv, Emp!EmpAssumption

\* No step of a serial exchange puts words out of their place.
LEMMA NextWords == WordsInv /\ SocketInv /\ [SerialNext]_(Emp!vars) => WordsInv'
<1> SUFFICES ASSUME WordsInv, SocketInv, [SerialNext]_(Emp!vars) PROVE WordsInv'
  OBVIOUS
<1>1. ASSUME NEW i \in Emp!Server, NEW q \in Query, SerialEnter(i, q) PROVE WordsInv'
  BY <1>1, EnterWords
<1>2. ASSUME NEW i \in Emp!Server, NEW q \in Query, Emp!SendWord(i, q) PROVE WordsInv'
  BY <1>2, SendWords
<1>3. ASSUME NEW i \in Emp!Server, NEW q \in Query, Emp!RecvWord(i, q) PROVE WordsInv'
  BY <1>3, RecvWords
<1>4. ASSUME UNCHANGED Emp!vars \/ \E i \in Emp!Server : Emp!Drain(i) PROVE WordsInv'
  <2>1. /\ place' = place /\ pipe' = pipe /\ sent' = sent /\ rcvd' = rcvd
        /\ passed' = passed \/ \E i \in Emp!Server : passed' = [passed EXCEPT ![i] = @ + 1]
    BY <1>4 DEF Emp!vars, Emp!Drain
  <2>a. passed' \in [Emp!Server -> Int]
    <3>1. passed \in [Emp!Server -> Int]
      BY DEF WordsInv, WordTypes
    <3>2. ASSUME NEW i \in Emp!Server, passed' = [passed EXCEPT ![i] = @ + 1]
          PROVE  passed' \in [Emp!Server -> Int]
      BY <3>1, <3>2
    <3> QED
      BY <2>1, <3>1, <3>2
  <2>2. WordTypes' /\ Emp!EmpAssumption'
    BY <2>1, <2>a DEF WordsInv, WordTypes, Emp!EmpAssumption
  <2>3. \A i \in Emp!Server, q \in Query : PlaceSays(i, q)' /\ ReadInOrder(i, q)' /\ Holds(i, q)'
    BY <2>1 DEF WordsInv, PlaceSays, ReadInOrder, Holds, Read
  <2>4. \A i \in Emp!Server : HoldsSome(i)'
    BY <2>1 DEF WordsInv, HoldsSome, Read
  <2>5. \A q \in Query : AtRest(q)' <=> AtRest(q)
    BY <2>1 DEF AtRest
  <2> QED
    BY <2>2, <2>3, <2>4, <2>5 DEF WordsInv
<1> QED
  BY <1>1, <1>2, <1>3, <1>4 DEF SerialNext, Emp!Transfer

-----------------------------------------------------------------------------

\* RoundExchange's state, as EmpStepsAreRounds has it
given == [i \in Emp!Server |-> [q \in Query |-> IF place[i][q] = "out" THEN 0 ELSE 1]]

got == [i \in Emp!Server |-> [q \in Query |-> Emp!Got(i, q)]]

\* The share a server has read is its predecessor's.
LEMMA GotShare ==
  ASSUME WordsInv, NEW i \in Emp!Server, NEW q \in Query
  PROVE  Emp!Got(i, q) = IF Read(i, q) < Words THEN <<>>
                     ELSE <<[from |-> Emp!Pred(i), query |-> q, round |-> 0]>>
<1>1. rcvd[i][q] = Part(Emp!Pred(i), q, 0, Read(i, q)) /\ Words \in Nat
  BY DEF WordsInv, ReadInOrder, Emp!EmpAssumption
<1>2. Read(i, q) <= Words /\ Read(i, q) \in Nat
  <2>1. rcvd[i][q] \in Seq([from : Emp!Server, query : Query, word : Nat])
    BY DEF WordsInv, WordTypes
  <2>2. Read(i, q) \in Nat
    BY <2>1 DEF Read
  <2>3. place[i][q] \in {"out", "send", "recv", "in"}
    BY DEF WordsInv, WordTypes
  <2> QED
    BY <1>1, <2>2, <2>3 DEF WordsInv, PlaceSays
<1>3. Part(Emp!Pred(i), q, 0, Words) = [k \in 1 .. Words |-> Emp!Word(Emp!Pred(i), q, k - 1)]
  <2>1. \A k \in 1 .. Words : 0 + k - 1 = k - 1
    BY <1>1
  <2> QED
    BY <2>1 DEF Part
<1> QED
  BY <1>1, <1>2, <1>3 DEF Emp!Got, Emp!Length, Read

\* Every server has got its predecessor's share or none yet.
GotShares ==
  \A i \in Emp!Server, q \in Query :
     got[i][q] = IF Read(i, q) < Words THEN <<>>
                 ELSE <<[from |-> Emp!Pred(i), query |-> q, round |-> 0]>>

\* So have all of them.
LEMMA AllGotShares == WordsInv => GotShares
  BY GotShare DEF GotShares, got

\* The predecessor is the one whose successor a server is.
LEMMA AbstractPred ==
  ASSUME Emp!EmpAssumption, NEW i \in Emp!Server
  PROVE  Emp!Abstract!Pred(i) = Emp!Pred(i)
<1>1. /\ Emp!Pred(i) \in Emp!Server /\ Succ(Emp!Pred(i)) = i
      /\ \A j \in Emp!Server : Succ(j) = i => j = Emp!Pred(i)
  BY PredRing
<1>2. Emp!Abstract!Server = Emp!Server /\ \A j : Emp!Abstract!Succ(j) = Succ(j)
  BY DEF Emp!Abstract!Server, Emp!Server, Emp!Abstract!Succ, Succ
<1> QED
  BY <1>1, <1>2 DEF Emp!Abstract!Pred

\* Beginning gives a share, reading its last word gets it, all else is unseen.
LEMMA StepMaps ==
  WordsInv /\ SocketInv /\ [SerialNext]_(Emp!vars) => [Emp!Abstract!Next]_(Emp!Abstract!vars)
<1> SUFFICES ASSUME WordsInv, SocketInv, [SerialNext]_(Emp!vars)
             PROVE  [Emp!Abstract!Next]_<<given, got>>
  BY DEF Emp!Abstract!vars, given, got
<1>1. WordsInv'
  BY NextWords
<1>2. GotShares /\ GotShares'
  BY <1>1, AllGotShares, PTL
<1>3. ASSUME NEW i \in Emp!Server, NEW q \in Query, SerialEnter(i, q) PROVE Emp!Abstract!Next
  <2>1. /\ place[i][q] = "out" /\ place' = [place EXCEPT ![i][q] = Emp!FirstCall(i)] /\ rcvd' = rcvd
    BY <1>3 DEF SerialEnter, Emp!Enter
  <2>2. Read(i, q) = 0 /\ 0 < Words
    BY <2>1 DEF WordsInv, PlaceSays, Emp!EmpAssumption
  <2>3. got[i][q] = <<>> /\ got' = got
    BY <1>2, <2>1, <2>2 DEF got, Emp!Got, GotShares
  <2>4. given[i][q] = 0 /\ given' = [given EXCEPT ![i][q] = 1]
    BY <2>1 DEF given, WordsInv, WordTypes, Emp!FirstCall
  <2>5. /\ given[i][q] = Len(got[i][q]) /\ given[i][q] < 1
        /\ given' = [given EXCEPT ![i][q] = @ + 1]
    BY <2>3, <2>4
  <2>6. Emp!Abstract!Give(i, q)
    BY <2>3, <2>5 DEF Emp!Abstract!Give, given, got
  <2> QED
    BY <2>6 DEF Emp!Abstract!Next, Emp!Abstract!Server, Emp!Server
<1>4. ASSUME NEW i \in Emp!Server, NEW q \in Query, Emp!SendWord(i, q) PROVE UNCHANGED <<given, got>>
  <2>1. /\ place[i][q] = "send" /\ rcvd' = rcvd
        /\ \E to : to # "out" /\ place' = [place EXCEPT ![i][q] = to]
    BY <1>4 DEF Emp!SendWord, Emp!AfterCall
  <2>2. got' = got
    BY <2>1 DEF got, Emp!Got
  <2>3. \A j \in Emp!Server, p \in Query : place'[j][p] = "out" <=> place[j][p] = "out"
    BY <2>1 DEF WordsInv, WordTypes
  <2> QED
    BY <2>2, <2>3 DEF given
<1>5. ASSUME NEW i \in Emp!Server, NEW q \in Query, Emp!RecvWord(i, q)
      PROVE  Emp!Abstract!Next \/ UNCHANGED <<given, got>>
  <2>1. /\ Read(i, q)' = Read(i, q) + 1 /\ place[Emp!Pred(i)][q] # "out"
        /\ place'[i][q] = IF Read(i, q) + 1 = Words THEN Emp!AfterCall(i, "recv") ELSE "recv"
        /\ \A j \in Emp!Server, p \in Query :
              j # i \/ p # q => place'[j][p] = place[j][p] /\ rcvd'[j][p] = rcvd[j][p]
    BY <1>5, RecvWords
  <2>2. place[i][q] = "recv" /\ Read(i, q) < Words /\ Words \in Nat /\ Read(i, q) \in Nat
    <3>1. place[i][q] = "recv"
      BY <1>5 DEF Emp!RecvWord
    <3>2. rcvd[i][q] \in Seq([from : Emp!Server, query : Query, word : Nat])
      BY DEF WordsInv, WordTypes
    <3> QED
      BY <3>1, <3>2 DEF WordsInv, PlaceSays, Emp!EmpAssumption, Read
  <2>3. given' = given /\ given[i][q] = 1 /\ given[Emp!Pred(i)][q] = 1
    <3>1. \A j \in Emp!Server, p \in Query : place'[j][p] = "out" <=> place[j][p] = "out"
      BY <2>1, <2>2 DEF Emp!AfterCall
    <3>2. Emp!Pred(i) \in Emp!Server
      BY PredRing DEF WordsInv
    <3> QED
      BY <2>1, <2>2, <3>1, <3>2 DEF given
  <2>4. \A j \in Emp!Server, p \in Query : j # i \/ p # q => got'[j][p] = got[j][p]
    BY <2>1 DEF got, Emp!Got
  <2>5. CASE Read(i, q) + 1 < Words
    <3>1. got'[i][q] = got[i][q]
      BY <1>2, <2>1, <2>2, <2>5 DEF GotShares
    <3>2. got' = got
      BY <2>4, <3>1 DEF got
    <3> QED
      BY <2>3, <3>2
  <2>6. CASE Read(i, q) + 1 = Words
    <3> DEFINE x == <<[from |-> Emp!Pred(i), query |-> q, round |-> 0]>>
    <3>1. got[i][q] = <<>> /\ got'[i][q] = x
      <4>1. Read(i, q) < Words /\ ~(Read(i, q)' < Words)
        BY <2>1, <2>2, <2>6
      <4> QED
        BY <1>2, <4>1 DEF GotShares
    <3> HIDE DEF x
    <3>2. got' = [got EXCEPT ![i][q] = x]
      <4>1. /\ got' = [j \in Emp!Server |-> [p \in Query |-> got'[j][p]]]
            /\ DOMAIN got = Emp!Server /\ \A j \in Emp!Server : DOMAIN got[j] = Query
        BY DEF got
      <4>2. [got EXCEPT ![i][q] = x]
              = [j \in Emp!Server |-> [p \in Query |-> IF j = i /\ p = q THEN x ELSE got[j][p]]]
        <5>1. \A j \in Emp!Server : got[j] = [p \in Query |-> got[j][p]]
          BY DEF got
        <5> QED
          BY <4>1, <5>1
      <4>3. \A j \in Emp!Server, p \in Query :
              got'[j][p] = IF j = i /\ p = q THEN x ELSE got[j][p]
        BY <2>4, <3>1
      <4> QED
        BY <4>1, <4>2, <4>3
    <3>3. Emp!Abstract!Pred(i) = Emp!Pred(i)
      BY AbstractPred DEF WordsInv
    <3>4. Len(got[i][q]) = 0 /\ Append(got[i][q], Emp!Abstract!ShareOf(Emp!Pred(i), q, 0)) = x
      BY <3>1 DEF x, Emp!Abstract!ShareOf
    <3>5. /\ Len(got[i][q]) < given[i][q] /\ Len(got[i][q]) < given[Emp!Abstract!Pred(i)][q]
          /\ got' = [got EXCEPT ![i][q] =
                        Append(@, Emp!Abstract!ShareOf(Emp!Abstract!Pred(i), q, Len(@)))]
      <4>1. Append(got[i][q], Emp!Abstract!ShareOf(Emp!Abstract!Pred(i), q, Len(got[i][q]))) = x
        BY <3>3, <3>4, Zenon
      <4>2. got' = [got EXCEPT ![i][q] =
                      Append(@, Emp!Abstract!ShareOf(Emp!Abstract!Pred(i), q, Len(@)))]
        BY <3>2, <4>1, Zenon
      <4>3. Len(got[i][q]) < given[i][q] /\ Len(got[i][q]) < given[Emp!Pred(i)][q]
        BY <2>3, <3>4
      <4> QED
        BY <3>3, <4>2, <4>3, Zenon
    <3>6. Emp!Abstract!Get(i, q)
      BY <2>3, <3>5 DEF Emp!Abstract!Get, given, got
    <3> QED
      BY <3>6 DEF Emp!Abstract!Next, Emp!Abstract!Server, Emp!Server
  <2> QED
    BY <2>2, <2>5, <2>6
<1>6. ASSUME UNCHANGED Emp!vars \/ \E i \in Emp!Server : Emp!Drain(i)
      PROVE  UNCHANGED <<given, got>>
  BY <1>6 DEF Emp!vars, Emp!Drain, given, got, Emp!Got
<1> QED
  BY <1>3, <1>4, <1>5, <1>6 DEF SerialNext, Emp!Transfer

\* At first nothing is in the sockets.
LEMMA InitSocketInv == Emp!EmpAssumption /\ Emp!Init => SocketInv
<1> SUFFICES ASSUME Emp!EmpAssumption, Emp!Init, NEW i \in Emp!Server
             PROVE  /\ passed[i] \in 0 .. Capacity /\ Len(pipe[i]) - passed[i] \in 0 .. Buffer
                    /\ \A k \in DOMAIN pipe[i] : pipe[i][k].from = i
  BY DEF SocketInv
<1>1. pipe[i] = <<>> /\ passed[i] = 0
  BY DEF Emp!Init
<1> QED
  BY <1>1 DEF Emp!EmpAssumption

\* A word passed on or read changes by one what the stream and the socket hold.
LEMMA RoomSteps ==
  ASSUME NEW len \in Nat, NEW n \in Nat, NEW C \in Nat, NEW B \in Nat,
         n \in 0 .. C, len - n \in 0 .. B
  PROVE  /\ n < len /\ n < C => n + 1 \in 0 .. C /\ len - (n + 1) \in 0 .. B
         /\ n > 0 => n - 1 \in 0 .. C /\ (len - 1) - (n - 1) \in 0 .. B
  OBVIOUS

\* Every step keeps what SocketInv says of the sockets.
LEMMA NextSocketInv ==
  ASSUME WordsInv, SocketInv, [SerialNext]_(Emp!vars)
  PROVE  SocketInv'
<1> DEFINE S == [from : Emp!Server, query : Query, word : Nat]
           Good(i, p, n) == /\ n \in 0 .. Capacity /\ Len(p) - n \in 0 .. Buffer
                            /\ \A k \in DOMAIN p : p[k].from = i
<1>0. /\ Emp!EmpAssumption /\ DOMAIN pipe = Emp!Server /\ \A i \in Emp!Server : pipe[i] \in Seq(S)
      /\ DOMAIN passed = Emp!Server
      /\ \A i \in Emp!Server, q \in Query : sent[i][q] \in Nat
  <2>1. Emp!EmpAssumption /\ WordTypes
    BY DEF WordsInv
  <2>2. DOMAIN pipe = Emp!Server /\ DOMAIN passed = Emp!Server /\ \A i \in Emp!Server : pipe[i] \in Seq(S)
    BY <2>1 DEF WordTypes
  <2>3. \A i \in Emp!Server, q \in Query : sent[i][q] \in 0 .. Words
    BY <2>1 DEF WordTypes
  <2>4. 0 .. Words \subseteq Nat
    BY <2>1 DEF Emp!EmpAssumption
  <2> HIDE DEF S
  <2> QED
    BY <2>1, <2>2, <2>3, <2>4
<1>1. ASSUME NEW i \in Emp!Server, NEW q \in Query, Emp!SendWord(i, q) PROVE SocketInv'
  <2> DEFINE w == Emp!Word(i, q, sent[i][q])
  <2>1. /\ pipe' = [pipe EXCEPT ![i] = Append(pipe[i], w)] /\ passed' = passed
        /\ Len(pipe[i]) - passed[i] < Buffer
    BY <1>1 DEF Emp!SendWord
  <2>2. w \in S /\ w.from = i
    BY <1>0 DEF Emp!Word
  <2>3. /\ Good(i, pipe[i], passed[i]) /\ Len(pipe[i]) \in Nat
        /\ Capacity \in Nat /\ Buffer \in Nat
    BY <1>0 DEF SocketInv, Emp!EmpAssumption
  <2>4. /\ Len(Append(pipe[i], w)) = Len(pipe[i]) + 1
        /\ DOMAIN Append(pipe[i], w) = 1 .. Len(pipe[i]) + 1
        /\ DOMAIN pipe[i] = 1 .. Len(pipe[i])
        /\ \A k \in 1 .. Len(pipe[i]) : Append(pipe[i], w)[k] = pipe[i][k]
        /\ Append(pipe[i], w)[Len(pipe[i]) + 1] = w
    BY <1>0, <2>2, AppendProperties, LenProperties
  <2> HIDE DEF w
  <2>5. Good(i, Append(pipe[i], w), passed[i])
    BY <2>1, <2>2, <2>3, <2>4
  <2>6. \A j \in Emp!Server : pipe'[j] = IF j = i THEN Append(pipe[i], w) ELSE pipe[j]
    BY <1>0, <2>1
  <2> QED
    BY <2>1, <2>5, <2>6 DEF SocketInv
<1>2. ASSUME NEW i \in Emp!Server, NEW q \in Query, Emp!RecvWord(i, q) PROVE SocketInv'
  <2> DEFINE p == pipe[Emp!Pred(i)]
             n == passed[Emp!Pred(i)]
  <2>1. /\ Emp!Pred(i) \in Emp!Server /\ n > 0
        /\ pipe' = [pipe EXCEPT ![Emp!Pred(i)] = Tail(p)]
        /\ passed' = [passed EXCEPT ![Emp!Pred(i)] = n - 1]
    BY <1>0, <1>2, PredRing DEF Emp!RecvWord
  <2>2. Good(Emp!Pred(i), p, n) /\ n \in Nat /\ Len(p) \in Nat /\ Len(p) - n >= 0
    BY <2>1, PassedThere DEF SocketInv
  <2>a. p # <<>>
    <3> HIDE DEF p, n
    <3>1. Len(p) > 0
      BY <2>1, <2>2
    <3> QED
      BY <3>1
  <2>3. /\ p \in Seq(S) /\ Tail(p) \in Seq(S) /\ Len(Tail(p)) = Len(p) - 1 /\ Len(p) \in Nat
        /\ \A k \in 1 .. Len(Tail(p)) : Tail(p)[k] = p[k + 1]
    BY <1>0, <2>1, <2>a, HeadTailProperties, LenProperties
  <2>4. DOMAIN p = 1 .. Len(p) /\ DOMAIN Tail(p) = 1 .. Len(p) - 1
    BY <2>3, LenProperties
  <2> HIDE DEF p, n
  <2>b. n - 1 \in 0 .. Capacity /\ Len(Tail(p)) - (n - 1) \in 0 .. Buffer
    <3>1. Capacity \in Nat /\ Buffer \in Nat
      BY <1>0 DEF Emp!EmpAssumption
    <3>2. n \in 0 .. Capacity /\ Len(p) - n \in 0 .. Buffer
      BY <2>2
    <3> QED
      BY <2>1, <2>2, <2>3, <3>1, <3>2, RoomSteps
  <2>c. \A k \in DOMAIN Tail(p) : Tail(p)[k].from = Emp!Pred(i)
    <3> SUFFICES ASSUME NEW k \in 1 .. Len(p) - 1 PROVE Tail(p)[k].from = Emp!Pred(i)
      BY <2>4
    <3>1. k \in 1 .. Len(Tail(p)) /\ k + 1 \in 1 .. Len(p)
      BY <2>2, <2>3
    <3>2. Tail(p)[k] = p[k + 1] /\ p[k + 1].from = Emp!Pred(i)
      BY <2>2, <2>3, <2>4, <3>1
    <3> QED
      BY <3>2
  <2>5. Good(Emp!Pred(i), Tail(p), n - 1)
    BY <2>b, <2>c
  <2>6. \A j \in Emp!Server :
          /\ pipe'[j] = IF j = Emp!Pred(i) THEN Tail(p) ELSE pipe[j]
          /\ passed'[j] = IF j = Emp!Pred(i) THEN n - 1 ELSE passed[j]
    BY <1>0, <2>1
  <2> QED
    BY <2>5, <2>6 DEF SocketInv
<1>3. ASSUME NEW i \in Emp!Server, NEW q \in Query, SerialEnter(i, q) PROVE SocketInv'
  BY <1>3 DEF SerialEnter, Emp!Enter, SocketInv
<1>4. ASSUME NEW i \in Emp!Server, Emp!Drain(i) PROVE SocketInv'
  <2>1. /\ passed[i] < Len(pipe[i]) /\ passed[i] < Capacity /\ pipe' = pipe
        /\ passed' = [passed EXCEPT ![i] = @ + 1]
    BY <1>4 DEF Emp!Drain
  <2>2. /\ Good(i, pipe[i], passed[i]) /\ passed[i] \in Nat /\ Len(pipe[i]) \in Nat
        /\ Capacity \in Nat /\ Buffer \in Nat
    BY <1>0, PassedThere DEF SocketInv, Emp!EmpAssumption
  <2>3. Good(i, pipe[i], passed[i] + 1)
    BY <2>1, <2>2, RoomSteps
  <2>4. \A j \in Emp!Server : passed'[j] = IF j = i THEN passed[i] + 1 ELSE passed[j]
    BY <1>0, <2>1
  <2> QED
    BY <2>1, <2>3, <2>4 DEF SocketInv
<1>5. CASE UNCHANGED Emp!vars
  BY <1>5 DEF Emp!vars, SocketInv
<1> QED
  BY <1>1, <1>2, <1>3, <1>4, <1>5 DEF SerialNext, Emp!Transfer

\* The types of the exchange over sockets.
LEMMA TypesHold == WordsInv /\ SocketInv => Emp!TypeOK
<1> SUFFICES ASSUME WordsInv, SocketInv PROVE Emp!TypeOK
  OBVIOUS
<1>1. ASSUME NEW i \in Emp!Server, NEW q \in Query PROVE Len(rcvd[i][q]) <= Words
  <2>1. place[i][q] \in {"out", "send", "recv", "in"} /\ Words \in Nat /\ Read(i, q) \in Nat
    BY DEF WordsInv, WordTypes, Emp!EmpAssumption, Read
  <2>2. Read(i, q) <= Words
    BY <2>1 DEF WordsInv, PlaceSays
  <2> QED
    BY <2>2 DEF Read
<1> QED
  BY <1>1 DEF Emp!TypeOK, WordsInv, WordTypes, SocketInv

\* Over the EMP sockets every server reads the share that its predecessor made for
\* the query, and no other words, when queries come one after the other and whatever
\* the streams hold back (RSSReshare with USE_EMP).
THEOREM SerialExchange == Emp!EmpAssumption /\ SerialSpec => Emp!EmpStepsAreRounds
<1>1. Emp!EmpAssumption /\ Emp!Init => Emp!Abstract!Init
  <2> SUFFICES ASSUME Emp!EmpAssumption, Emp!Init PROVE Emp!Abstract!Init
    OBVIOUS
  <2>1. \A i \in Emp!Server, q \in Query :
          place[i][q] = "out" /\ rcvd[i][q] = <<>> /\ Len(rcvd[i][q]) < Emp!Length
    BY DEF Emp!Init, Emp!Length, Emp!EmpAssumption
  <2>2. \A i \in Emp!Server, q \in Query : Emp!Got(i, q) = <<>>
    BY <2>1 DEF Emp!Got
  <2> QED
    BY <2>1, <2>2 DEF Emp!Abstract!Init, Emp!Abstract!Server, Emp!Server
<1> QED
  BY <1>1, InitWords, InitSocketInv, NextWords, NextSocketInv, StepMaps, PTL
  DEF SerialSpec, Emp!EmpStepsAreRounds

-----------------------------------------------------------------------------
(* The parts in the whole.                                                 *)

\* A step of the whole is one of the start-up.
LEMMA StartStep == [QueryNext]_allVars => [Next]_vars
<1> SUFFICES ASSUME QueryNext PROVE [Next]_vars
  BY DEF allVars
<1>0. ASSUME NEW i \in Server, Drain(i) PROVE UNCHANGED vars
  BY <1>0 DEF Drain
<1>1. ASSUME NEW i \in Server, StartMain(i) \/ StartFinish(i) PROVE Next
  BY <1>1 DEF StartMain, StartFinish, Next
<1>2. ASSUME NEW c \in Client, NEW t \in Tab!Table, NEW l, NEW n,
             AddTables(c, t) \/ UpdateTables(c, t, l) \/ AppendTables(c, t, n)
      PROVE  UNCHANGED vars
  BY <1>2 DEF AddTables, UpdateTables, AppendTables, OnTables
<1>3. ASSUME NEW i \in Server, NEW c \in Client, HandleUpdate(i, c) PROVE UNCHANGED vars
  BY <1>3 DEF HandleUpdate
<1>4. ASSUME NEW c \in Client, ReturnUpdate(c) PROVE UNCHANGED vars
  BY <1>4 DEF ReturnUpdate
<1>5. ASSUME NEW i \in Server, NEW q \in Query,
             BeginQuery(i, q) \/ Transfer(i, q) \/ EndQuery(i, q)
      PROVE  UNCHANGED vars
  BY <1>5 DEF BeginQuery, Transfer, EndQuery
<1>6. ASSUME NEW q \in Query, Ask(q) PROVE UNCHANGED vars
  BY <1>6 DEF Ask
<1>7. ASSUME Quiet PROVE UNCHANGED vars
  BY <1>7 DEF Quiet, allVars
<1> QED
  BY <1>0, <1>1, <1>2, <1>3, <1>4, <1>5, <1>6, <1>7 DEF QueryNext

\* A step of the whole is one of the tables.
LEMMA TableStep == [QueryNext]_allVars => [Tab!Next]_(Tab!vars)
<1> SUFFICES ASSUME QueryNext PROVE [Tab!Next]_(Tab!vars)
  BY DEF allVars, tableVars, Tab!vars
<1>1. ASSUME NEW i \in Server, StartMain(i) \/ StartFinish(i) \/ Drain(i)
      PROVE  UNCHANGED Tab!vars
  BY <1>1 DEF StartMain, StartFinish, Drain, tableVars, Tab!vars
<1>2. ASSUME NEW c \in Client, NEW t \in Tables[c], AddTables(c, t) PROVE Tab!Next
  BY <1>2 DEF AddTables, Tab!Next
<1>3. ASSUME NEW c \in Client, NEW t \in Tables[c], NEW l \in Places, UpdateTables(c, t, l)
      PROVE  Tab!Next
  BY <1>3 DEF UpdateTables, Tab!Next
<1>4. ASSUME NEW c \in Client, NEW t \in Tables[c], NEW n \in 1 .. WindowSize,
             AppendTables(c, t, n)
      PROVE  Tab!Next
  BY <1>4 DEF AppendTables, Tab!Next
<1>5. ASSUME NEW i \in Server, NEW c \in Client, HandleUpdate(i, c) PROVE Tab!Next
  BY <1>5 DEF HandleUpdate, Tab!Next, Server, Tab!Server
<1>6. ASSUME NEW c \in Client, ReturnUpdate(c) PROVE Tab!Next
  BY <1>6 DEF ReturnUpdate, Tab!Next
<1>7. ASSUME NEW q \in Query, Ask(q) PROVE UNCHANGED Tab!vars
  BY <1>7 DEF Ask, tableVars, Tab!vars
<1>8. ASSUME NEW i \in Server, NEW q \in Query,
             BeginQuery(i, q) \/ Transfer(i, q) \/ EndQuery(i, q)
      PROVE  UNCHANGED Tab!vars
  BY <1>8 DEF BeginQuery, Transfer, EndQuery, tableVars, Tab!vars
<1>9. ASSUME Quiet PROVE UNCHANGED Tab!vars
  BY <1>9 DEF Quiet, allVars, tableVars, Tab!vars
<1> QED
  BY <1>1, <1>2, <1>3, <1>4, <1>5, <1>6, <1>7, <1>8, <1>9 DEF QueryNext

-----------------------------------------------------------------------------

\* In the whole, too, a server that is up has given its key to its successor, and
\* nobody has another one.
THEOREM KeysStay == QuerySpec => []KeyRing
<1>1. QueryInit => IInv
  BY InitIInv DEF QueryInit
<1>2. IInv /\ [QueryNext]_allVars => IInv'
  BY NextIInv, StartStep
<1>3. IInv => KeyRing
  BY DEF IInv, Calls, Delivered, KeyRing
<1> QED
  BY <1>1, <1>2, <1>3, PTL DEF QuerySpec

\* While queries are answered, too, all servers have what a client told them when it
\* has its answer.
THEOREM TablesAgree == QuerySpec => []ServersAgree
<1>1. QueryInit => TablesInv
  BY InitTables, QueryAssumption DEF QueryInit
<1>2. TablesInv /\ [QueryNext]_allVars => TablesInv'
  BY NextTables, TableStep
<1>3. TablesInv => ServersAgree
  BY Agrees DEF ServersAgree
<1> QED
  BY <1>1, <1>2, <1>3, PTL DEF QuerySpec

-----------------------------------------------------------------------------
(* Queries.                                                                *)

Pending(q) == asked[q] # Idle /\ \E i \in Server : answer[i][q] = Idle

\* What the functions of a query are defined for
Domains ==
  /\ DOMAIN asked = Query /\ DOMAIN place = Server /\ DOMAIN filter = Server
  /\ DOMAIN answer = Server
  /\ \A i \in Server :
        DOMAIN place[i] = Query /\ DOMAIN filter[i] = Query /\ DOMAIN answer[i] = Query

\* The asker waits, and has changed nothing since it asked.
Waits ==
  \A q \in Query : Pending(q)
    => /\ call[Asker] = Idle
       /\ told[FilterTable] = asked[q].filter /\ told[ValList] = asked[q].values

\* Queries come one after the other.
OnePending == \A p, q \in Query : Pending(p) /\ Pending(q) => p = q

\* A server that has begun a query has found the asker's filter table.
Begun ==
  \A i \in Server, q \in Query :
     /\ place[i][q] # "out"
          => asked[q] # Idle /\ filter[i][q] = Tab!Shares(i, asked[q].filter)
     /\ answer[i][q] # Idle => place[i][q] = "in"

QInv == TablesInv /\ Domains /\ Waits /\ OnePending /\ Begun /\ AnswersConsistent

\* While the asker waits a server that reads its tables finds what it has told.
LEMMA ReadsTold ==
  ASSUME QInv, NEW q \in Query, Pending(q), NEW i \in Server
  PROVE  /\ Sides(tables[i][FilterTable]) = Tab!Shares(i, asked[q].filter)
         /\ Sides(tables[i][ValList]) = Tab!Shares(i, asked[q].values)
<1>1. /\ call[Asker] = Idle /\ Asker \in Client /\ i \in Tab!Server
      /\ FilterTable \in Tables[Asker] /\ ValList \in Tables[Asker]
  BY QueryAssumption DEF QInv, Waits, Server, Tab!Server
<1>2. Tab!ServersAgree
  BY Agrees DEF QInv
<1>3. \A t \in Tables[Asker] : Sides(tables[i][t]) = Tab!Shares(i, told[t])
  <2> SUFFICES ASSUME NEW t \in Tables[Asker]
               PROVE  Sides(tables[i][t]) = Tab!Shares(i, told[t])
    OBVIOUS
  <2>1. /\ tables[i][t].first = Tab!Shares(i, told[t]).first
        /\ tables[i][t].second = Tab!Shares(i, told[t]).second
    BY <1>1, <1>2 DEF Tab!ServersAgree
  <2> QED
    BY <2>1 DEF Sides, Tab!Shares
<1> QED
  BY <1>1, <1>3 DEF QInv, Waits

\* The calls of a client leave what another one waits for.
LEMMA OthersCalls ==
  ASSUME QInv, NEW c \in Client, NEW t \in Tables[c], NEW l, NEW n,
         c # Asker,
         Tab!SendUpdate(c, t, l) \/ Tab!SendBatchedUpdate(c, t, n)
  PROVE  /\ call'[Asker] = call[Asker]
         /\ told'[FilterTable] = told[FilterTable] /\ told'[ValList] = told[ValList]
<1>1. Tab!TypeOK /\ Tab!TableAssumption
  BY DEF QInv, TablesInv
<1>2. DOMAIN call = Client /\ DOMAIN told = Tab!Table
  BY <1>1 DEF Tab!TypeOK
<1>3. /\ Asker \in Client /\ FilterTable \in Tables[Asker] /\ ValList \in Tables[Asker]
      /\ Tables[c] \cap Tables[Asker] = {}
  BY <1>1, QueryAssumption DEF Tab!TableAssumption
<1>4. /\ FilterTable # t /\ ValList # t
      /\ FilterTable \in DOMAIN told /\ ValList \in DOMAIN told
  BY <1>2, <1>3 DEF Tab!Table
<1>5. call'[Asker] = call[Asker]
  BY <1>2, <1>3 DEF Tab!SendUpdate, Tab!SendBatchedUpdate, Tab!Send
<1>6. told'[FilterTable] = told[FilterTable] /\ told'[ValList] = told[ValList]
  BY <1>4 DEF Tab!SendUpdate, Tab!SendBatchedUpdate
<1> QED
  BY <1>5, <1>6

\* Steps that are not the asker's and read nothing leave a query as it is.
LEMMA QuietSteps ==
  ASSUME QInv, TablesInv', UNCHANGED <<asked, filter, answer, place>>,
         \/ UNCHANGED <<call, told>>
         \/ \A q \in Query : ~Pending(q)
         \/ /\ call'[Asker] = call[Asker]
            /\ told'[FilterTable] = told[FilterTable] /\ told'[ValList] = told[ValList]
  PROVE  QInv'
<1>1. \A q \in Query : Pending(q)' <=> Pending(q)
  BY DEF Pending
<1>2. Waits' /\ OnePending'
  BY <1>1 DEF QInv, Waits, OnePending
<1>3. Domains' /\ Begun' /\ AnswersConsistent'
  BY DEF QInv, Domains, Begun, AnswersConsistent, Tab!Shares, Tab!First, Tab!Second
<1> QED
  BY <1>2, <1>3 DEF QInv

\* The three answers are made from the tables as they were when the client asked.
LEMMA NextQInv == QInv /\ [QueryNext]_allVars => QInv'
<1> SUFFICES ASSUME QInv, [QueryNext]_allVars PROVE QInv'
  OBVIOUS
<1>0. TablesInv'
  BY NextTables, TableStep DEF QInv
<1>a. AskerFree => \A q \in Query : ~Pending(q)
  BY DEF AskerFree, Pending
<1>1. ASSUME NEW i \in Server, StartMain(i) \/ StartFinish(i) PROVE QInv'
  BY <1>0, <1>1, QuietSteps DEF StartMain, StartFinish, tableVars, empVars, queryVars
<1>2. ASSUME NEW c \in Client, NEW t \in Tables[c], AddTables(c, t) PROVE QInv'
  BY <1>0, <1>a, <1>2, QuietSteps DEF AddTables, OnTables, empVars, queryVars
<1>3. ASSUME NEW c \in Client, NEW t \in Tables[c], NEW l, NEW n,
             UpdateTables(c, t, l) \/ AppendTables(c, t, n)
      PROVE  QInv'
  <2>1. CASE c = Asker
    BY <1>0, <1>a, <1>3, <2>1, QuietSteps
    DEF UpdateTables, AppendTables, OnTables, empVars, queryVars
  <2>2. CASE c # Asker
    BY <1>0, <1>3, <2>2, OthersCalls, QuietSteps
    DEF UpdateTables, AppendTables, OnTables, empVars, queryVars
  <2> QED
    BY <2>1, <2>2
<1>4. ASSUME NEW i \in Server, NEW c \in Client, HandleUpdate(i, c) PROVE QInv'
  BY <1>0, <1>4, QuietSteps DEF HandleUpdate, Tab!Handle, empVars, queryVars
<1>5. ASSUME NEW c \in Client, ReturnUpdate(c) PROVE QInv'
  <2>1. UNCHANGED <<asked, filter, answer, place, told>>
    BY <1>5 DEF ReturnUpdate, Tab!Return, empVars, queryVars
  <2>2. IF c = Asker THEN call[Asker] # Idle ELSE call'[Asker] = call[Asker]
    <3>1. DOMAIN call = Client /\ Asker \in Client
      BY QueryAssumption DEF QInv, TablesInv, Tab!TypeOK
    <3> QED
      BY <1>5, <3>1 DEF ReturnUpdate, Tab!Return
  <2>3. call[Asker] # Idle => \A q \in Query : ~Pending(q)
    BY DEF QInv, Waits
  <2> QED
    BY <1>0, <2>1, <2>2, <2>3, QuietSteps
<1>6. ASSUME NEW q \in Query, Ask(q) PROVE QInv'
  <2>1. /\ asked[q] = Idle /\ call[Asker] = Idle /\ \A p \in Query : ~Pending(p)
        /\ asked' = [asked EXCEPT ![q] = [filter |-> told[FilterTable], values |-> told[ValList]]]
        /\ UNCHANGED <<filter, answer, place, call, told, tables>>
    BY <1>6, <1>a DEF Ask, AskerFree, tableVars, empVars
  <2>2. Domains'
    BY <2>1 DEF QInv, Domains
  <2>3. \A p \in Query : p # q => asked'[p] = asked[p]
    BY <2>1 DEF QInv, Domains
  <2>4. Waits'
    BY <2>1, <2>3 DEF QInv, Domains, Waits, Pending
  <2>7. OnePending'
    BY <2>1, <2>3 DEF OnePending, Pending
  <2>5. \A i \in Server : place[i][q] = "out" /\ answer[i][q] = Idle
    BY <2>1 DEF QInv, Begun
  <2>6. Begun' /\ AnswersConsistent'
    BY <2>1, <2>3, <2>5
    DEF QInv, Begun, AnswersConsistent, Tab!Shares, Tab!First, Tab!Second
  <2> QED
    BY <1>0, <2>2, <2>4, <2>6, <2>7 DEF QInv
<1>7. ASSUME NEW i \in Server, NEW q \in Query, BeginQuery(i, q) PROVE QInv'
  <2>1. /\ asked[q] # Idle /\ place[i][q] = "out"
        /\ place' = [place EXCEPT ![i][q] = Emp!FirstCall(i)]
        /\ filter' = [filter EXCEPT ![i][q] = Sides(tables[i][FilterTable])]
        /\ UNCHANGED <<asked, answer, call, told>>
    BY <1>7 DEF BeginQuery, Emp!Enter, tableVars
  <2>2. answer[i][q] = Idle /\ Pending(q)
    BY <2>1 DEF QInv, Begun, Pending
  <2>3. filter'[i][q] = Tab!Shares(i, asked[q].filter)
    BY <2>1, <2>2, ReadsTold DEF QInv, Domains
  <2>4. /\ Emp!FirstCall(i) # "out" /\ place'[i][q] = Emp!FirstCall(i)
        /\ \A j \in Server, p \in Query : j # i \/ p # q
              => place'[j][p] = place[j][p] /\ filter'[j][p] = filter[j][p]
    BY <2>1 DEF QInv, Domains, Emp!FirstCall
  <2>5. Domains'
    BY <2>1 DEF QInv, Domains
  <2>6. Waits' /\ OnePending' /\ AnswersConsistent'
    BY <2>1
    DEF QInv, Waits, OnePending, Pending, AnswersConsistent, Tab!Shares, Tab!First, Tab!Second
  <2>7. Begun'
    <3> SUFFICES ASSUME NEW j \in Server, NEW p \in Query
                 PROVE  /\ place'[j][p] # "out"
                             => asked[p] # Idle
                                  /\ filter'[j][p] = Tab!Shares(j, asked[p].filter)
                        /\ answer[j][p] # Idle => place'[j][p] = "in"
      BY <2>1 DEF Begun, Tab!Shares, Tab!First, Tab!Second
    <3>1. CASE j = i /\ p = q
      BY <2>1, <2>2, <2>3, <2>4, <3>1
    <3>2. CASE j # i \/ p # q
      BY <2>4, <3>2 DEF QInv, Begun
    <3> QED
      BY <3>1, <3>2
  <2> QED
    BY <1>0, <2>5, <2>6, <2>7 DEF QInv
<1>8. ASSUME NEW i \in Server, NEW q \in Query, Transfer(i, q) PROVE QInv'
  <2>1. /\ place[i][q] \notin {"out", "in"} /\ UNCHANGED <<asked, filter, answer, call, told>>
        /\ \E to : to # "out" /\ place' = [place EXCEPT ![i][q] = to]
    BY <1>8 DEF Transfer, Emp!Transfer, Emp!SendWord, Emp!RecvWord, Emp!AfterCall,
                tableVars, queryVars
  <2>2. Domains' /\ \A j \in Server, p \in Query :
                      /\ place'[j][p] = "out" <=> place[j][p] = "out"
                      /\ place[j][p] = "in" => place'[j][p] = "in"
    BY <2>1 DEF QInv, Domains
  <2>3. Waits' /\ OnePending' /\ AnswersConsistent' /\ Begun'
    BY <2>1, <2>2
    DEF QInv, Waits, OnePending, Pending, Begun, AnswersConsistent,
        Tab!Shares, Tab!First, Tab!Second
  <2> QED
    BY <1>0, <2>2, <2>3 DEF QInv
<1>b. ASSUME NEW i \in Server, Drain(i) PROVE QInv'
  BY <1>0, <1>b, QuietSteps DEF Drain, Emp!Drain, tableVars, queryVars
<1>9. ASSUME NEW i \in Server, NEW q \in Query, EndQuery(i, q) PROVE QInv'
  <2>1. /\ place[i][q] = "in" /\ answer[i][q] = Idle
        /\ answer' = [answer EXCEPT ![i][q] =
                         [filter |-> filter[i][q], values |-> Sides(tables[i][ValList])]]
        /\ UNCHANGED <<asked, filter, place, call, told>>
    BY <1>9 DEF EndQuery, tableVars, empVars
  <2>2. Pending(q) /\ filter[i][q] = Tab!Shares(i, asked[q].filter)
    BY <2>1 DEF QInv, Begun, Pending
  <2>3. answer'[i][q] = [filter |-> Tab!Shares(i, asked[q].filter),
                         values |-> Tab!Shares(i, asked[q].values)]
    BY <2>1, <2>2, ReadsTold DEF QInv, Domains
  <2>4. \A j \in Server, p \in Query : j # i \/ p # q => answer'[j][p] = answer[j][p]
    BY <2>1 DEF QInv, Domains
  <2>5. Domains'
    BY <2>1 DEF QInv, Domains
  <2>6. \A p \in Query : Pending(p)' => Pending(p)
    BY <2>1, <2>2, <2>4 DEF Pending
  <2>7. Waits' /\ OnePending'
    BY <2>1, <2>6 DEF QInv, Waits, OnePending
  <2>8. Begun' /\ AnswersConsistent'
    <3> SUFFICES ASSUME NEW j \in Server, NEW p \in Query
                 PROVE  /\ answer'[j][p] # Idle => place[j][p] = "in"
                        /\ answer'[j][p] # Idle
                             => answer'[j][p] = [filter |-> Tab!Shares(j, asked[p].filter),
                                                 values |-> Tab!Shares(j, asked[p].values)]
      BY <2>1 DEF QInv, Begun, AnswersConsistent, Tab!Shares, Tab!First, Tab!Second
    <3>1. CASE j = i /\ p = q
      BY <2>1, <2>3, <3>1
    <3>2. CASE j # i \/ p # q
      BY <2>4, <3>2 DEF QInv, Begun, AnswersConsistent
    <3> QED
      BY <3>1, <3>2
  <2> QED
    BY <1>0, <2>5, <2>7, <2>8 DEF QInv
<1>10. CASE Quiet \/ UNCHANGED allVars
  BY <1>0, <1>10, QuietSteps DEF Quiet, allVars, tableVars, empVars, queryVars
<1> QED
  BY <1>1, <1>2, <1>3, <1>4, <1>5, <1>6, <1>7, <1>8, <1>b, <1>9, <1>10 DEF QueryNext

\* No query has been asked yet.
LEMMA InitQInv == QueryInit => QInv
<1> SUFFICES ASSUME QueryInit PROVE QInv
  OBVIOUS
<1>1. TablesInv
  BY InitTables, QueryAssumption DEF QueryInit
<1>2. Domains /\ \A i \in Server, q \in Query :
        asked[q] = Idle /\ answer[i][q] = Idle /\ place[i][q] = "out"
  BY DEF QueryInit, Emp!Init, Domains, Server, Emp!Server
<1> QED
  BY <1>1, <1>2 DEF QInv, Waits, OnePending, Pending, Begun, AnswersConsistent

\* Every answer is made from the filter's table and the list as they were when the
\* client asked, at all servers, though a server reads the one before the exchange
\* and the other after it while other clients change theirs (AggFilterQuery).
THEOREM Consistent == QuerySpec => []AnswersConsistent
<1>1. QInv => AnswersConsistent
  BY DEF QInv
<1> QED
  BY <1>1, InitQInv, NextQInv, PTL DEF QuerySpec

\* A server that begins a query finds the others at rest: not begun anywhere, or
\* answered everywhere.
LEMMA BeginsAlone ==
  ASSUME QInv, NEW i \in Server, NEW q \in Query, BeginQuery(i, q)
  PROVE  \A p \in Query : p # q => AtRest(p)
<1>1. asked[q] # Idle /\ place[i][q] = "out"
  BY DEF BeginQuery, Emp!Enter
<1>2. Pending(q)
  BY <1>1 DEF QInv, Begun, Pending
<1>3. \A p \in Query : p # q => asked[p] = Idle \/ \A j \in Server : answer[j][p] # Idle
  BY <1>2 DEF QInv, OnePending, Pending
<1>4. Emp!Server = Server
  BY DEF Emp!Server, Server
<1> QED
  BY <1>3, <1>4 DEF QInv, Begun, AtRest

\* A step of the whole is one of the sockets on which queries come one at a time.
LEMMA SocketStep == QInv /\ [QueryNext]_allVars => [SerialNext]_(Emp!vars)
<1> SUFFICES ASSUME QInv, QueryNext PROVE [SerialNext]_(Emp!vars)
  BY DEF allVars, empVars, Emp!vars
<1>1. Emp!Server = Server
  BY DEF Emp!Server, Server
<1>2. ASSUME NEW i \in Server, NEW q \in Query, BeginQuery(i, q) PROVE SerialNext
  <2>1. Emp!Enter(i, q)
    BY <1>2 DEF BeginQuery, Emp!Enter, Emp!FirstCall
  <2> QED
    BY <1>1, <1>2, <2>1, BeginsAlone DEF SerialNext, SerialEnter
<1>3. ASSUME NEW i \in Server, NEW q \in Query, Transfer(i, q) PROVE SerialNext
  <2>1. Emp!Transfer(i, q)
    BY <1>3
    DEF Transfer, Emp!Transfer, Emp!SendWord,
        Emp!RecvWord, Emp!AfterCall,
        Emp!FirstCall, Emp!Word, Emp!Pred, Emp!Length
  <2> QED
    BY <1>1, <2>1 DEF SerialNext
<1>a. ASSUME NEW i \in Server, Drain(i) PROVE SerialNext
  <2>1. Emp!Drain(i)
    BY <1>a DEF Drain, Emp!Drain
  <2> QED
    BY <1>1, <2>1 DEF SerialNext
<1>4. ASSUME NEW i \in Server, StartMain(i) \/ StartFinish(i)
      PROVE  UNCHANGED Emp!vars
  BY <1>4 DEF StartMain, StartFinish, empVars, Emp!vars
<1>5. ASSUME NEW c \in Client, NEW t \in Tables[c], NEW l, NEW n,
             AddTables(c, t) \/ UpdateTables(c, t, l) \/ AppendTables(c, t, n)
      PROVE  UNCHANGED Emp!vars
  BY <1>5 DEF AddTables, UpdateTables, AppendTables, OnTables, empVars, Emp!vars
<1>6. ASSUME NEW i \in Server, NEW c \in Client, HandleUpdate(i, c)
      PROVE  UNCHANGED Emp!vars
  BY <1>6 DEF HandleUpdate, empVars, Emp!vars
<1>7. ASSUME NEW c \in Client, ReturnUpdate(c) PROVE UNCHANGED Emp!vars
  BY <1>7 DEF ReturnUpdate, empVars, Emp!vars
<1>8. ASSUME NEW q \in Query, Ask(q) PROVE UNCHANGED Emp!vars
  BY <1>8 DEF Ask, empVars, Emp!vars
<1>9. ASSUME NEW i \in Server, NEW q \in Query, EndQuery(i, q)
      PROVE  UNCHANGED Emp!vars
  BY <1>9 DEF EndQuery, empVars, Emp!vars
<1>10. CASE Quiet
  BY <1>10 DEF Quiet, allVars, empVars, Emp!vars
<1> QED
  BY <1>2, <1>3, <1>a, <1>4, <1>5, <1>6, <1>7, <1>8, <1>9, <1>10 DEF QueryNext

\* The sockets run as SerialSpec has them, one query at a time.
LEMMA SocketsSerial == QuerySpec => SerialSpec
<1>1. QueryInit => Emp!Init
  BY DEF QueryInit, Emp!Init, Emp!Server
<1> QED
  BY <1>1, SocketStep, InitQInv, NextQInv, PTL DEF QuerySpec, SerialSpec

\* So in the whole every server works with the share its predecessor made for the query,
\* and with no words of another one, however many servers there are, however long a
\* share is and whatever streams and sockets hold (RSSReshare with USE_EMP).
THEOREM SharesExchanged == QuerySpec => EmpStepsAreRounds
<1>1. Emp!EmpAssumption
  BY QueryAssumption
<1> QED
  BY <1>1, SocketsSerial, SerialExchange, PTL DEF EmpStepsAreRounds

-----------------------------------------------------------------------------
(* The types of the whole.                                                 *)

\* A server has evaluated a filter once it has begun a query, and not before.
FilterRead ==
  \A i \in Server, q \in Query : (filter[i][q] = Idle) <=> (place[i][q] = "out")

TInv == QInv /\ WordsInv /\ SocketInv /\ FilterRead

\* The types of the whole, at first.
LEMMA InitTInv == QueryInit => TInv
<1> SUFFICES ASSUME QueryInit PROVE TInv
  OBVIOUS
<1>1. QInv
  BY InitQInv
<1>2. Emp!EmpAssumption /\ Emp!Init
  BY QueryAssumption
  DEF QueryInit, Emp!Init, Emp!Server,
      Emp!EmpAssumption
<1>3. WordsInv /\ SocketInv
  BY <1>2, InitWords, InitSocketInv
<1>4. FilterRead
  BY DEF QueryInit, FilterRead, Emp!Init, Emp!Server, Server
<1> QED
  BY <1>1, <1>3, <1>4 DEF TInv

\* The two shares of a table are no placeholder.
LEMMA SidesThere ==
  ASSUME QInv, NEW i \in Server
  PROVE  Sides(tables[i][FilterTable]) # Idle
<1>1. FilterTable \in Tab!Table /\ i \in Tab!Server
  BY QueryAssumption DEF Tab!Table, Tab!Server, Server
<1>2. tables \in [Tab!Server -> [Tab!Table ->
                   [first : Tab!Columns, second : Tab!Columns, ptr : 0 .. WindowSize]]]
  BY DEF QInv, TablesInv, Tab!TypeOK, Tab!Columns, Tab!Server, Tab!Table, Tab!Loc,
         Tab!NoRecords
<1>3. tables[i][FilterTable] \in
        [first : Tab!Columns, second : Tab!Columns, ptr : 0 .. WindowSize]
  BY <1>1, <1>2
<1>4. Sides(tables[i][FilterTable]) \in [first : Tab!Columns, second : Tab!Columns]
  BY <1>3 DEF Sides
<1> QED
  BY <1>4, QueryAssumption

\* A handler has read the filters exactly when it has begun.
LEMMA NextFilterRead ==
  ASSUME QInv, FilterRead, [QueryNext]_allVars
  PROVE  FilterRead'
<1>1. ASSUME UNCHANGED <<filter, place>> PROVE FilterRead'
  BY <1>1 DEF FilterRead
<1>2. ASSUME NEW i \in Server, StartMain(i) \/ StartFinish(i) PROVE FilterRead'
  BY <1>1, <1>2 DEF StartMain, StartFinish, empVars, queryVars
<1>3. ASSUME NEW c \in Client, NEW t \in Tables[c], NEW l, NEW n,
             AddTables(c, t) \/ UpdateTables(c, t, l) \/ AppendTables(c, t, n)
      PROVE  FilterRead'
  BY <1>1, <1>3 DEF AddTables, UpdateTables, AppendTables, OnTables, empVars, queryVars
<1>4. ASSUME NEW i \in Server, NEW c \in Client, HandleUpdate(i, c) PROVE FilterRead'
  BY <1>1, <1>4 DEF HandleUpdate, empVars, queryVars
<1>5. ASSUME NEW c \in Client, ReturnUpdate(c) PROVE FilterRead'
  BY <1>1, <1>5 DEF ReturnUpdate, empVars, queryVars
<1>6. ASSUME NEW q \in Query, Ask(q) PROVE FilterRead'
  BY <1>1, <1>6 DEF Ask, empVars
<1>7. ASSUME NEW i \in Server, NEW q \in Query, BeginQuery(i, q) PROVE FilterRead'
  <2>1. /\ place' = [place EXCEPT ![i][q] = Emp!FirstCall(i)]
        /\ filter' = [filter EXCEPT ![i][q] = Sides(tables[i][FilterTable])]
    BY <1>7 DEF BeginQuery, Emp!Enter
  <2>2. Emp!FirstCall(i) # "out" /\ Sides(tables[i][FilterTable]) # Idle
    BY SidesThere DEF Emp!FirstCall
  <2>3. /\ filter'[i][q] = Sides(tables[i][FilterTable]) /\ place'[i][q] = Emp!FirstCall(i)
        /\ \A j \in Server, p \in Query : j # i \/ p # q
             => filter'[j][p] = filter[j][p] /\ place'[j][p] = place[j][p]
    BY <2>1 DEF QInv, Domains
  <2> QED
    BY <2>2, <2>3 DEF FilterRead
<1>8. ASSUME NEW i \in Server, NEW q \in Query, Transfer(i, q) PROVE FilterRead'
  <2>1. /\ place[i][q] # "out" /\ filter' = filter
        /\ \E to : to # "out" /\ place' = [place EXCEPT ![i][q] = to]
    BY <1>8 DEF Transfer, Emp!Transfer, Emp!SendWord, Emp!RecvWord, Emp!AfterCall, queryVars
  <2>2. \A j \in Server, p \in Query : place'[j][p] = "out" <=> place[j][p] = "out"
    BY <2>1 DEF QInv, Domains
  <2> QED
    BY <2>1, <2>2 DEF FilterRead
<1>a. ASSUME NEW i \in Server, Drain(i) PROVE FilterRead'
  BY <1>1, <1>a DEF Drain, Emp!Drain, queryVars
<1>9. ASSUME NEW i \in Server, NEW q \in Query, EndQuery(i, q) PROVE FilterRead'
  BY <1>1, <1>9 DEF EndQuery, empVars
<1>10. CASE Quiet \/ UNCHANGED allVars
  BY <1>1, <1>10 DEF Quiet, allVars, empVars, queryVars
<1> QED
  BY <1>2, <1>3, <1>4, <1>5, <1>6, <1>7, <1>8, <1>a, <1>9, <1>10 DEF QueryNext

\* Every step of the whole keeps the types.
LEMMA NextTInv == TInv /\ [QueryNext]_allVars => TInv'
<1> SUFFICES ASSUME TInv, [QueryNext]_allVars PROVE TInv'
  OBVIOUS
<1>1. QInv' /\ [SerialNext]_(Emp!vars)
  BY NextQInv, SocketStep DEF TInv
<1>2. WordsInv' /\ SocketInv'
  BY <1>1, NextWords, NextSocketInv DEF TInv
<1>3. FilterRead'
  BY NextFilterRead DEF TInv
<1> QED
  BY <1>1, <1>2, <1>3 DEF TInv

\* The start-up keeps its types in the whole too, no append goes past the end of a
\* table, no socket holds more than it can or words of another server, and what a
\* server has read and answered belongs to a query that was asked.
THEOREM QueryTyped == QuerySpec => []QueryTypeOK
<1>1. IInv /\ TInv => QueryTypeOK
  <2> SUFFICES ASSUME IInv, TInv PROVE QueryTypeOK
    OBVIOUS
  <2>1. Tab!TypeOK
    BY DEF TInv, QInv, TablesInv
  <2>2. Emp!TypeOK
    <3>1. Emp!TypeOK
      BY TypesHold DEF TInv
    <3> QED
      BY <3>1 DEF Emp!TypeOK, Emp!Server
  <2>3. ASSUME NEW i \in Server, NEW q \in Query
        PROVE  /\ asked[q] = Idle => place[i][q] = "out"
               /\ (filter[i][q] = Idle) <=> (place[i][q] = "out")
               /\ answer[i][q] # Idle => place[i][q] = "in"
    BY DEF TInv, QInv, Begun, FilterRead
  <2> QED
    BY <2>1, <2>2, <2>3 DEF IInv, QueryTypeOK
<1>2. QueryInit => IInv
  BY InitIInv DEF QueryInit
<1>3. IInv /\ [QueryNext]_allVars => IInv'
  BY NextIInv, StartStep
<1> QED
  BY <1>1, <1>2, <1>3, InitTInv, NextTInv, PTL DEF QuerySpec
=============================================================================
