---------------------------- MODULE TableUpdates -----------------------------
(***************************************************************************)
(* The tables and value lists on the servers: they are added, updated in   *)
(* place, appended to, and updated in batches by RPCs that a client sends  *)
(* to all servers and waits for.  Each server holds two of the shares of   *)
(* every record.  Clients act together, each on tables of its own: the     *)
(* handlers use the tables without a lock.  A table is added while no      *)
(* other call is served, since the maps have no lock either.               *)
(*                                                                         *)
(* A column of a table, or an entry of a list, is the number of a record   *)
(* and of its share; record 0 is what memset leaves in a new table.        *)
(***************************************************************************)
EXTENDS Integers

CONSTANTS NUM_SERVERS,
          Client, Tables,  \* the clients, and the tables each one uses
          WindowSize,      \* columns of a table, entries of a list
          Places,          \* columns that are updated in place
          MaxCalls,        \* bound on the calls of a client
          APPEND_LOC, Idle

Server == 0 .. NUM_SERVERS - 1

Table == UNION {Tables[c] : c \in Client}

Loc == 0 .. WindowSize - 1

\* A call is for one table, of its client, and adds it or has updates for it.
Calls(c) ==
  [table : Tables[c], add : BOOLEAN, loc : Loc \cup {APPEND_LOC}, size : Nat, record : Nat]

TableAssumption ==
  /\ NUM_SERVERS \in Nat \ {0} /\ WindowSize \in Nat \ {0}
  /\ MaxCalls \in [Client -> Nat]
  /\ Places \subseteq Loc /\ APPEND_LOC \notin Nat
  /\ \A c \in Client : Idle \notin Calls(c)
  /\ \A c, d \in Client : c # d => Tables[c] \cap Tables[d] = {}

VARIABLES
  tables,  \* tables[i][t]: the table or list t of server i
  call,    \* call[c]: the call client c waits for
  done,    \* done[i][c]: how many updates of it server i has made
  calls,   \* calls[c]: how many calls c has made
  told,    \* told[t]: the records the client of t has put where, if it has added t
  used     \* used[t]: how many appends it has sent since

vars == <<tables, call, done, calls, told, used>>

\* Server i has the share of its predecessor first and its own second.
First(i, record) == <<record, (i + NUM_SERVERS - 1) % NUM_SERVERS>>

Second(i, record) == <<record, i>>

\* A new table or list at server i: memset, and the window pointer at 0.
Fresh(i) ==
  [first |-> [l \in Loc |-> First(i, 0)], second |-> [l \in Loc |-> Second(i, 0)],
   ptr |-> 0]

NoRecords == [l \in {} |-> 0]

NoTable == [first |-> NoRecords, second |-> NoRecords, ptr |-> 0]

Init ==
  /\ tables = [i \in Server |-> [t \in Table |-> NoTable]]
  /\ call = [c \in Client |-> Idle]
  /\ done = [i \in Server |-> [c \in Client |-> 0]]
  /\ calls = [c \in Client |-> 0]
  /\ told = [t \in Table |-> NoRecords]
  /\ used = [t \in Table |-> 0]

-----------------------------------------------------------------------------
(* A handler.                                                              *)

\* Mutant of PtrAfter: the window pointer stays where it is.
PtrStays(tab, loc) == tab.ptr

\* Mutant of PtrAfter: an update in place moves the window pointer as well.
PtrAlways(tab, loc) == tab.ptr + 1

\* WindowPtrs[id]++, for an append
PtrAfter(tab, loc) == IF loc = APPEND_LOC THEN tab.ptr + 1 ELSE tab.ptr

Column(tab, loc) == IF loc = APPEND_LOC THEN tab.ptr ELSE loc

\* DCFUpdate, DPFUpdate and ValListUpdate: both shares go to the same column.
Update(i, tab, loc, record) ==
  [first |-> [tab.first EXCEPT ![Column(tab, loc)] = First(i, record)],
   second |-> [tab.second EXCEPT ![Column(tab, loc)] = Second(i, record)],
   ptr |-> PtrAfter(tab, loc)]

\* DCFAddTable, DPFAddTable and AddValList
AddTable(i, tab) == Fresh(i)

\* Server i serves a call of client c, update by update: a batch is a loop.
Handle(i, c) ==
  /\ call[c] # Idle /\ done[i][c] < call[c].size
  /\ tables' = [tables EXCEPT ![i][call[c].table] =
        IF call[c].add THEN AddTable(i, @) ELSE Update(i, @, call[c].loc, call[c].record)]
  /\ done' = [done EXCEPT ![i][c] = @ + 1]
  /\ UNCHANGED <<call, calls, told, used>>

-----------------------------------------------------------------------------
(* The clients.                                                            *)

\* A new table is inserted into a map that every other handler searches.
Alone(add) == \A c \in Client : call[c] # Idle => ~(add \/ call[c].add)

\* A client sends its call to all servers; its records are numbered by its calls.
Send(c, t, add, loc, n) ==
  /\ Alone(add) /\ call[c] = Idle /\ calls[c] < MaxCalls[c]
  /\ call' = [call EXCEPT ![c] =
                [table |-> t, add |-> add, loc |-> loc, size |-> n, record |-> calls[c] + 1]]
  /\ done' = [i \in Server |-> [done[i] EXCEPT ![c] = 0]]
  /\ calls' = [calls EXCEPT ![c] = @ + 1]
  /\ UNCHANGED tables

SendInit(c, t) ==
  /\ Send(c, t, TRUE, APPEND_LOC, 1)
  /\ told' = [told EXCEPT ![t] = [l \in Loc |-> 0]]
  /\ used' = [used EXCEPT ![t] = 0]

SendUpdate(c, t, loc) ==
  /\ told[t] # NoRecords
  /\ Send(c, t, FALSE, loc, 1)
  /\ told' = [told EXCEPT ![t] = [l \in Loc |-> IF l = loc THEN calls[c] + 1 ELSE @[l]]]
  /\ UNCHANGED used

\* A batch of n records for the next columns, as long as there are any.
SendBatchedUpdate(c, t, n) ==
  /\ told[t] # NoRecords /\ used[t] + n <= WindowSize
  /\ Send(c, t, FALSE, APPEND_LOC, n)
  /\ told' = [told EXCEPT ![t] = [l \in Loc |->
                IF l \in used[t] .. used[t] + n - 1 THEN calls[c] + 1 ELSE @[l]]]
  /\ used' = [used EXCEPT ![t] = @ + n]

\* All servers have answered.
Return(c) ==
  /\ call[c] # Idle /\ \A i \in Server : done[i][c] = call[c].size
  /\ call' = [call EXCEPT ![c] = Idle]
  /\ UNCHANGED <<tables, done, calls, told, used>>

Next ==
  \/ \E i \in Server, c \in Client : Handle(i, c)
  \/ \E c \in Client :
        \/ Return(c)
        \/ \E t \in Tables[c] :
              \/ SendInit(c, t)
              \/ \E l \in Places : SendUpdate(c, t, l)
              \/ \E n \in 1 .. WindowSize : SendBatchedUpdate(c, t, n)

Spec == Init /\ [][Next]_vars

-----------------------------------------------------------------------------

\* The shares server i has of these records
Shares(i, records) ==
  [first |-> [l \in DOMAIN records |-> First(i, records[l])],
   second |-> [l \in DOMAIN records |-> Second(i, records[l])]]

\* The columns of a table, before and after it is added
Columns == [Loc -> Nat \X Server] \cup {NoRecords}

\* With it, that no append goes past the window at any server when the client sends
\* no more of them than the window has columns since it added the table; the
\* servers do not look.
TypeOK ==
  /\ DOMAIN call = Client /\ \A c \in Client : call[c] \in Calls(c) \cup {Idle}
  /\ done \in [Server -> [Client -> Nat]]
  /\ calls \in [Client -> Nat] /\ \A c \in Client : calls[c] <= MaxCalls[c]
  /\ told \in [Table -> [Loc -> Nat] \cup {NoRecords}]
  /\ used \in [Table -> 0 .. WindowSize]
  /\ tables \in [Server -> [Table ->
                   [first : Columns, second : Columns, ptr : 0 .. WindowSize]]]

\* When a client has its answer all servers have what it has told them, in both
\* shares and at the same columns, whatever other clients do in between: appends
\* and updates in place mix, and the columns of different tables stay aligned.
ServersAgree ==
  \A c \in Client : call[c] = Idle
    => \A t \in Tables[c], i \in Server :
          LET has == Shares(i, told[t])
          IN  tables[i][t].first = has.first /\ tables[i][t].second = has.second
=============================================================================
