---------------------------- MODULE QueryServers -----------------------------
(***************************************************************************)
(* The servers as a whole, over the EMP sockets: they start, exchange      *)
(* their keys, take updates of tables and lists, and answer aggregate      *)
(* queries, in which they read the tables of the filters, exchange one     *)
(* share and then read the list.  SystemInit, TableUpdates and EmpExchange *)
(* are composed: a step is a step of one of them, or of a query that links *)
(* the last two.                                                           *)
(***************************************************************************)
EXTENDS SystemInit, Sequences

CONSTANTS Client, Tables, WindowSize, Places, MaxCalls, APPEND_LOC, Idle,
          Query, Words, Buffer, Capacity,
          Asker, FilterTable, ValList  \* who asks the queries, and over which tables

VARIABLES tables, call, done, calls, told, used,  \* of TableUpdates
          place, pipe, passed, sent, rcvd,          \* of EmpExchange
          asked,   \* asked[q]: what the asker had put into its tables when it sent q
          filter,  \* filter[i][q]: the filter's tables as EvalFilter of i found them
          answer   \* answer[i][q]: what server i answers from

tableVars == <<tables, call, done, calls, told, used>>
empVars == <<place, pipe, passed, sent, rcvd>>
queryVars == <<asked, filter, answer>>
allVars == <<vars, tableVars, empVars, queryVars>>

Tab == INSTANCE TableUpdates

Emp == INSTANCE EmpExchange

\* With the assumptions of the parts, that the asker owns the tables it asks about; what
\* stands for no filter is not one.
ASSUME QueryAssumption ==
  /\ Tab!TableAssumption /\ Emp!EmpAssumption
  /\ Idle \notin [first : Tab!Columns, second : Tab!Columns]
  /\ Asker \in Client /\ {FilterTable, ValList} \subseteq Tables[Asker]

-----------------------------------------------------------------------------

QueryInit ==
  /\ Init /\ Tab!Init /\ Emp!Init
  /\ asked = [q \in Query |-> Idle]
  /\ filter = [i \in Server |-> [q \in Query |-> Idle]]
  /\ answer = [i \in Server |-> [q \in Query |-> Idle]]

\* The clients begin when the servers are up.
Ready == \A i \in Server : pc[i] = "up"

\* The asker waits for all answers to its query before it sends anything else.
AskerFree ==
  call[Asker] = Idle
    /\ \A q \in Query : asked[q] = Idle \/ \A i \in Server : answer[i][q] # Idle

-----------------------------------------------------------------------------
(* The start-up goes on; a server that answers has no use for it any more.  *)

StartMain(i) == Main(i) /\ UNCHANGED <<tableVars, empVars, queryVars>>

StartFinish(i) == FinishSystemInit(i) /\ UNCHANGED <<tableVars, empVars, queryVars>>

-----------------------------------------------------------------------------
(* Clients change their tables.                                            *)

OnTables(c) == Ready /\ (c = Asker => AskerFree) /\ UNCHANGED <<vars, empVars, queryVars>>

\* While a table is added nobody reads the maps.
AddTables(c, t) == OnTables(c) /\ AskerFree /\ Tab!SendInit(c, t)

UpdateTables(c, t, l) == OnTables(c) /\ Tab!SendUpdate(c, t, l)

AppendTables(c, t, n) == OnTables(c) /\ Tab!SendBatchedUpdate(c, t, n)

HandleUpdate(i, c) == Tab!Handle(i, c) /\ UNCHANGED <<vars, empVars, queryVars>>

ReturnUpdate(c) == Tab!Return(c) /\ UNCHANGED <<vars, empVars, queryVars>>

-----------------------------------------------------------------------------
(* A query.                                                                *)

\* The asker sends SendAggQuery to all servers, over tables it has added.
Ask(q) ==
  /\ Ready /\ AskerFree /\ Tab!Alone(FALSE)
  /\ asked[q] = Idle /\ told[FilterTable] # Tab!NoRecords /\ told[ValList] # Tab!NoRecords
  /\ asked' = [asked EXCEPT ![q] = [filter |-> told[FilterTable], values |-> told[ValList]]]
  /\ UNCHANGED <<vars, tableVars, empVars, filter, answer>>

\* Mutant of Sides: the halves of the pair swapped.
SidesSwapped(tab) == [first |-> tab.second, second |-> tab.first]

\* The two shares server i has of a table or list
Sides(tab) == [first |-> tab.first, second |-> tab.second]

\* The call reaches server i: EvalFilter evaluates the table and RSSReshare begins
\* the exchange.
BeginQuery(i, q) ==
  /\ asked[q] # Idle
  /\ Emp!Enter(i, q)
  /\ filter' = [filter EXCEPT ![i][q] = Sides(tables[i][FilterTable])]
  /\ UNCHANGED <<vars, tableVars, asked, answer>>

Transfer(i, q) == Emp!Transfer(i, q) /\ UNCHANGED <<vars, tableVars, queryVars>>

Drain(i) == Emp!Drain(i) /\ UNCHANGED <<vars, tableVars, queryVars>>

\* AggFilterQuery goes on after the exchange, reads the list and answers.
EndQuery(i, q) ==
  /\ place[i][q] = "in" /\ answer[i][q] = Idle
  /\ answer' = [answer EXCEPT ![i][q] =
                  [filter |-> filter[i][q], values |-> Sides(tables[i][ValList])]]
  /\ UNCHANGED <<vars, tableVars, empVars, asked, filter>>

\* Nobody waits for anything; the clients may send more or not.
Quiet ==
  /\ Ready /\ AskerFree /\ \A c \in Client : call[c] = Idle
  /\ UNCHANGED allVars

QueryNext ==
  \/ \E i \in Server : StartMain(i) \/ StartFinish(i) \/ Drain(i)
  \/ \E c \in Client, t \in Tab!Table :
        /\ t \in Tables[c]
        /\ \/ AddTables(c, t)
           \/ \E l \in Places : UpdateTables(c, t, l)
           \/ \E n \in 1 .. WindowSize : AppendTables(c, t, n)
  \/ \E i \in Server, c \in Client : HandleUpdate(i, c)
  \/ \E c \in Client : ReturnUpdate(c)
  \/ \E q \in Query : Ask(q)
  \/ \E i \in Server, q \in Query : BeginQuery(i, q) \/ Transfer(i, q) \/ EndQuery(i, q)
  \/ Quiet

\* What the threads of server i do for the start-up
Start(i) == StartMain(i) \/ StartFinish(i)

\* A server one of whose threads can go on with the start-up does not stand still.
\* Clients may stop sending at any time, and a query may stop in the sockets.
QuerySpec ==
  /\ QueryInit /\ [][QueryNext]_allVars
  /\ \A i \in Server : WF_allVars(Start(i))

-----------------------------------------------------------------------------

\* The types of the start-up, the tables and the sockets together: no append goes past
\* the end of a table at any server, and what the sockets and the queries keep belongs
\* to a query that was asked.
QueryTypeOK ==
  /\ TypeOK /\ Tab!TypeOK /\ Emp!TypeOK
  /\ \A i \in Server, q \in Query :
        /\ asked[q] = Idle => place[i][q] = "out"
        /\ (filter[i][q] = Idle) <=> (place[i][q] = "out")
        /\ answer[i][q] # Idle => place[i][q] = "in"

\* When a client has its answer all servers have what it has told them, in both
\* shares and at the same columns, whatever other clients do in between: appends,
\* updates in place and new tables mix (DCFUpdate, DPFUpdate, ValListUpdate).
ServersAgree == Tab!ServersAgree

\* Over the sockets a server gets the share its predecessor made for the query, whole
\* and once, and no other words, whatever the streams hold back (RSSReshare with
\* USE_EMP, which does not flush them: whether the share comes is not claimed).
EmpStepsAreRounds == Emp!EmpStepsAreRounds

\* Every server answers a query from the filter's table and the list as they were
\* when the client asked, although it reads the table before the exchange and the
\* list after it: the three answers are shares of one number (AggFilterQuery).
AnswersConsistent ==
  \A i \in Server, q \in Query : answer[i][q] # Idle
    => answer[i][q] = [filter |-> Tab!Shares(i, asked[q].filter),
                       values |-> Tab!Shares(i, asked[q].values)]
=============================================================================
