# A TLA+ model of the eGrass query servers

eGrass is a three-server system that answers aggregate queries over secret-shared
time series and encrypted graphs.  A client splits its data and its queries into
shares; the three servers, `QueryServer` processes in a ring, evaluate function
secret sharing (FSS) keys over their tables, turn the results into replicated
secret shares (RSS), multiply the filters together, and return a share of the
aggregate.  The modules here are translated from `src/util.cpp` (the server) and
from the index structures under `src/secure-indices/core` and `src/PredEval`.

## Inventory

| Component | State | Operations | Talks to |
|---|---|---|---|
| Share exchange, `util.cpp` 259-340, 436-508, 540-552, 704-732, 889-899 | `multReceivedShares` (a one-place slot), `multLock`, `multCV`, `orderCV`, the posted `CallData` of the completion queue | `RSSReshare`, `Multiply`, `FinishMultiply`, `CallData::Proceed` | each server calls `SendMult` on its successor, synchronously; one thread serves the completion queue |
| Filter evaluation, 245-257, 342-357, 424-434, 510-538, 554-702 | `prfKey0`, `prfKey1`, `prfCounter`; the shares of the filters | `EvalFilter`, `AndFilters`, `OrFilters`, `AggFilterQuery`, `FillZeroSharesPlusRandCoeff`, batch MAC accumulation | tables below, exchange above |
| Start-up, 82-124, 902-923 | `nextServerStub`, `multStub`, EMP sockets, `prfKey1` | `StartSystemInit`, `FinishSystemInit` | the successor (stub, EMP client), the predecessor (EMP server, `SendSystemInit`) |
| EMP transport, 309-328 (compiled with `USE_EMP`) | two blocking sockets, the unflushed words in the stream of the one written to | in `RSSReshare` server 0 receives then sends, the others send then receive; `Multiply` is an `assert(false)` | ring neighbours |
| Tables and lists on the server, 126-178, 740-826 | `DCFTables`, `DPFTables`, `ValLists`, window pointers | add, update at a place, append, batched update | client |
| FSS tables, `secure-indices/core/DCFTable.cpp`, `DPFTable.cpp`, `keys.cpp` | table columns, the vector `key` of deserialised keys | `deserialize_key`, `eval_*_table`, `parallel_*_eval_*_table` | `PredEval/DPF-source`, `PredEval/DCF-source` |
| DPF and DCF, `PredEval/DPF-source`, `PredEval/DCF-source` | keys (seeds, correction words) | `keyGen*`, `evalOne*`, `evalAll*`, contiguous and domain evaluation | none |
| Aggregate tree, `secure-indices/core/Tree.cpp` | nodes with `leftIdx`, `midIdx`, `rightIdx`, `aggVal` | build, `append`, `rollup`, `getAppendParent`, `appendFromParent` | `AggTree.h`, which is not in the repository |
| Secure shuffle, `SecureShuffle.cpp` | `ShuffleStore`, permutations, Waksman switch configuration | `generate`, `apply`, `del`, `inverse_permutation`, `configure`, `iter_waksman` | the secret sharing below it and `Tools/Waksman.h`, both outside the repository |
| Encrypted graph, `encGraph.cpp`, `vecMul.cu`, `main.cu`, `fileIO.cpp` | none between calls | matrix products, file input | the shuffle |
| Client | the queries in flight | `AggQuery`, table and list updates | all three servers; its code is not in the repository, `bench.cpp` and `correctness_tests.cpp` show how it is used |

What makes each part correct, in a sentence: the exchange gives every step the
share of the same step of the predecessor and never stops; a filter evaluation
keeps a replicated sharing whose sum is the answer, and its MAC; the start-up ends
with the ring of keys, whatever the order of the processes; a request is evaluated
with its own keys; the tree's aggregates are those of the values between its
indices; updates and queries agree on the three servers; the point and comparison
functions give shares of the right bit; a shuffle is the permutation it says.

## Behaviours that are hard to test

* The slot `multReceivedShares` holds one share and no query or round number.
  Handlers and the queue's thread hand it over with two condition variables.
* Each server runs at its own speed: the successor may not have received the
  query yet when the share of the first round arrives, or may be a round behind.
* `SendMult` is synchronous and is answered only when the successor's slot took
  the share, so the three handlers and the three queues wait on one another.
* The status of `SendMult` and `SendSystemInit` is never looked at.
* The shares of zero cancel only if `prfCounter` is the same on the three servers
  at the same step of the same query.
* Keys are appended to the tables' vectors by one function and cleared by another.
* The place of the next append to the tree is derived from index fields that
  `append` and `rollup` maintain by different rules.
* Each server takes updates and queries as they come, and a query reads the filter's
  table before the exchange and the list after it: the three must read the same.
* Over the EMP sockets all calls block, a socket holds less than a share, and what is
  written may stay in the stream of the writer's `NetIO`, which nothing flushes.
* The two directions of a shuffle run the players' networks in opposite order, from
  the same bits; the handles by which threads find them are positions in a deque.

`PROJECT.json` lists them all under `hazards`, with the line where each bites and
the property that covers it, or why none does yet.

## Modules

| Module | Models | State in the code |
|---|---|---|
| `RoundExchange` | what an exchange promises: each server gives one share per round and gets the one its predecessor gave in that round | none: it is the abstract specification |
| `MultExchange` | the exchange as the threads run it, lines 259-340, 436-552, 704-732, 889-899 | `pc`, `round`, `res0`: the handlers' stacks; `net`, `posted`, `matched`, `cqpc`, `cqReq`: gRPC and the queue's thread; `multLock`, `multReceivedShares`: the members of that name |
| `FilterEval` | the arithmetic of an aggregate query, lines 245-257, 342-357, 424-538, 554-702; it takes its exchange from `RoundExchange` by `INSTANCE` | `prfKey0`, `prfCounter`; `res`, `filter`, `linComb`: the local vectors of `EvalFilter`, one row of them; `answer`: the response |
| `EmpExchange` | the exchange over the EMP sockets, lines 259-286 and 309-328 with `USE_EMP`, word by word | `place`: the handlers; `pipe`, `passed`: the words under way and how many of them have left the stream for the socket; `rcvd`: `multRcvdShares` |
| `SystemInit` | the start of the processes, lines 82-124 and 902-923 | `pc`, `serving`, `listening`, `linked`: processes and sockets; `prfKey1` |
| `TableUpdates` | adding, updating and appending on all servers, lines 126-178 and 740-822 | `tables`: `DCFTables`, `DPFTables`, `ValLists` and their window pointers; `call`, `done`: RPCs on their way; `told`, `used`: what the client knows |
| `QueryServers` | the composition of `SystemInit`, `TableUpdates` and `EmpExchange` with the reads of an aggregate query, lines 568-640 and 682-702 | `asked`: the query; `filter`, `answer`: what a handler has read of the tables |
| `TableKeys` | which keys an evaluation uses, lines 192-231, 568-621 and the two table classes | `key`: the member of that name of each table object; `res` |
| `Fss` | key generation and evaluation of the point and comparison functions, `PredEval/DPF-source`, `PredEval/DCF-source` | none: operators on keys, blocks (a seed and the bit t) and numbers |
| `Chunks` | the rows of each worker thread | none |
| `FssTable` | a lookup from the client's keys to the answer, `keys.cpp`, `DCFTable.cpp`, `DPFTable.cpp` | `wire`: the serialised keys; `key`, `table`, `cores`: the members of that name; `fss`, `thRes`, `res`: the arrays `dcf_res`, `th_res`, `res`; `stage`, `running`: the callers and their workers |
| `AggTree` | `secure-indices/core/Tree.cpp` | `tree`: the nodes, named by their path from the root |
| `Waksman` | the switching network: its configuration, and how `iter_waksman` runs it round by round, `SecureShuffle.cpp` 282-446 | none |
| `SecureShuffle` | the rest of `SecureShuffle.cpp`, by parties with several threads | `store`: the `ShuffleStore` of each party; `handle`, `vector`: the threads' variables |
| `MultExchangeProofs`, `FilterEvalProofs`, `TableKeysProofs`, `QueryServersProofs` (with `SystemInit`, `TableUpdates` and `EmpExchange`), `SecureShuffleProofs`, `FssProofs`, `FssTableProofs`, `AggTreeProofs` | inductive invariants, lemmas and theorems | |
| `MC...` | definitions for TLC | |

An action is a handler, or the part of it between two points where another thread
or server can act.  In `MultExchange` these points are the acquisition and the
release of `multLock`, the waits, the call and its answer; what happens under the
lock is one step.  `FilterEval` cuts where a share is sent and where one is
received: all else is local.  `TableKeys` and `AggTree` are sequential, one action
per loop turn or per call.  Shares in `MultExchange` are named by who computed them
and for which step, which the messages do not say: that is what makes a share in
the wrong place visible.  In `FilterEval` they are numbers modulo 16 where the
answers of the code mean their residue modulo 2^125; nothing in the arithmetic depends
on the modulus.  One row of the
window is followed, because rows do not mix before the last sum.

In `TableUpdates` a column holds the number of a record instead of its share, and the
server whose share it is; a batch is served update by update, because other calls come
between.  What the client knows (`told`, `used`) is what a right answer is measured by,
no server reads it.  `QueryServers` is the `USE_EMP` build: `EvalFilter` reads the table
of the filters and enters the exchange, and only after it `AggFilterQuery` reads the
list.  Each of its actions is one of its parts' with the rest unchanged, so what is
proved of a part is proved of the whole.

In `SecureShuffle` a shared value stands for what its shares open to.  Where the parties
exchange something their threads step together; in the store, which is local, each goes
on by itself.  `Waksman` has the network twice, recursively as `waksman` has it (what a
configuration means) and in rounds over a flat vector with `i_bit` as `iter_waksman`
runs it.  How `Tools/Waksman.h` finds a configuration is not in the repository:
`Configure` chooses one that realises the permutation and has its unset switches.

`FssTable` has two servers, those that hold the same table share (each share is at
two of the three).  A worker's chunk is one step: it writes the rows of its own chunk
and reads what nobody writes.  A key's cells of 16 bytes are its unit of serialisation.
`Fss` takes the expansion of a seed by AES as an arbitrary function, and keeps apart
what the code keeps apart: 128-bit arithmetic that wraps (`Word`) and the residue that
counts (`Modulus`).  The comparison with a single bit as output is the same scheme with
both equal to 2, an instance of `Fss`.

The three keys that `QueryServer`'s constructors draw come from `rand()`, which
nothing seeds before (`util.cpp:75`); three processes with one C library draw the
same.  `FilterEval` takes the keys from `KeyRings`, and its run has both equal keys
and keys of the servers' own.  `AggregateCorrect` does not depend on it.
`MacCheckHolds` does: in `GetNextSecretShareOfRandCoeff` the share that belongs to
the predecessor comes second, in the filters it comes first, and the accumulated
sums fit only because with equal keys the two halves are equal.  The property says
so in its premise, and TLC finds it violated when the premise is dropped.

## Runs

| Run | Instance | What it shows |
|---|---|---|
| `exchange_serial` | 3 servers, 2 queries of 2 rounds, one after the other | shares reach the right step, none is overwritten; a `CallData` is always posted; a server is at most a round ahead; every step is one that `RoundExchange` allows (`StepsAreRounds`); no deadlock |
| `exchange_live` | 3 servers, 1 query of 2 rounds, fairness | every query is answered; `MultExchange` implements `RoundExchange` |
| `exchange_concurrent` | 2 servers, 2 queries of 2 rounds together | with queries in flight together shares of different queries meet (not a claim of the code), but none is lost or used twice, no wake-up is lost and nothing blocks |
| `exchange_lossy` | 3 servers, calls of server 0 may fail | what arrives is stored once and used once; the system may stop, so deadlock is not checked |
| `filter_eval` | queries of 1 and of 3 filters, AND and OR, with and without MACs, equal and different keys | the sharing stays replicated; the answers are right, and so are their MACs and the batch check |
| `query_servers` | 3 processes started in any order; a client that adds and updates a table and a list and asks a query over them, and one that updates a table of its own | no key is lost, the keys form a ring, the start ends; the servers agree on every table whose client has its answer; all three answer the query from the same records; every step of `EmpExchange` is one that `RoundExchange` allows (`EmpStepsAreRounds`) |
| `table_keys` | 4 requests over a point and two range tables | an aggregate query uses its own keys, as does the first `DCFQuery`; nothing is left behind or read out of bounds otherwise |
| `table_keys_range` | as above | violation: the second `DCFQuery` on a table gets the first one's answer |
| `fss_table` | 8 rows, points and ranges, with and without MACs, 1 to 9 cores, two sets of root blocks | the outcomes of the two servers add up to the selection on every row, with their MACs; the answer is the selected sum whatever the order of the workers; evaluation in chunks agrees with evaluation row by row, and both ways to combine the ends of a range agree (`EvaluationsAgree`) |
| `secure_shuffle` | 2 parties with 2 threads, 1 to 4 units, trusted or not | threads find their own shuffles; forwards a shuffle is the permutations of its players, backwards it undoes them, without padding among the units; `inverse_permutation` inverts |
| `fss_balanced` | as above | violation: a number of cores that is not a power of two fails the assertion of the contiguous evaluation |
| `agg_tree` | 5 levels, up to 34 values, sum, maximum and minimum (`avg` is an `assert(false)` in `computeAggregate`) | aggregates and index fields stay exact through five rollups, the newest half of the capacity is kept, and a place is always found |

The bounds.  Two rounds are enough for a share of one round to meet the slot of
another, and two queries for a share to meet another query; three servers are what
the code has, and the run with two servers keeps the same conflict, a predecessor
ahead of a handler.  A query of three filters multiplies a product once more, and
follows one whose counters have moved; with 256 inputs of the PRF the sum of the counter
and an index wraps in it.  A tree of five levels is the first in which
`rollup` has nodes to fill below the place of the next leaf and whose next rollup
comes before the right half is full again; the values differ at every third index,
so that a missing or doubled leaf shows.  Four requests reach every order of
`DCFQuery`, aggregate query and new table that `key` can tell apart on one table.

`query_servers`: a client with three calls can add the table and the list and then
change one of them, before or after its query, and the other client's two calls run in
between; a window of two columns is filled by an append after an update in place; a
share has three words, and a stream and a socket hold one each, the least in which a
writer blocks in the middle of a share until its successor reads.  One query is enough for a query against updates; the next one would
find the sockets empty, as `AskerFree` has the asker wait for all answers.
Clients act as `bench.cpp` and `correctness_tests.cpp` have them do: one client
writes to a table and waits for all servers; tables are added while nothing else is
served, since the maps have no lock; no more is appended than the window has columns
(no server checks it); queries have one filter.  Nothing in the servers
enforces any of this; the hazards say what each is needed for.

`secure_shuffle`: four units are the first with two levels of switches, and three the
first that need padding.  Two threads share each store, and two players make the order
of the networks matter.  One thread draws every permutation of up to three
units and the six of four that move the first unit to the end, the other thread
rotations by none or one.

`fss_table` has three levels, so that a level has one above and one below; seeds of two
bits with tables for AES in which children of different seeds meet and differ; numbers
of three bits that mean their residue modulo 4, so that wrapping and reducing are two
different things.  Its settings are one core, cores that divide the table (2), that do
not (3, and 6 with a last chunk of three rows), and more cores than rows (9); the points
and ends include the first and the last row and an empty range.  Threads evaluate from
2^14 rows on in the code; here both ways are tried on the same table.  A process may
end at the assertion or past the table in this run, so deadlock is not checked.

Fairness.  In `MultExchange` every thread that can run does (weak fairness of the
handlers, the queue's thread and of gRPC's matching), and a mutex that is free again
and again is eventually acquired (strong fairness of `LockMult` and `LockFinish`):
spurious wake-ups can otherwise hand it to others for ever.  The client's queries,
failing calls and spurious wake-ups have no fairness.  In `SystemInit` every process
is started at some time, by hand; EMP's `connect` is retried until it succeeds.  In
`QueryServers` a server one of whose threads can go on in the start-up does not stand
still for ever (weak fairness of `Start` for each server, less than of each thread);
clients have none, they may stop at any time, and neither have queries.

Over the EMP sockets nothing is promised to come.  `RSSReshare` sends on
`emp_io_upstream`, receives on `emp_io_downstream` and flushes neither (`util.cpp`
313-321); a `NetIO` writes into a buffered stream, which is flushed by a receive on the
same `NetIO` or by a call of `flush`, and there is neither.  So a share that is smaller
than the buffer, or the end of a longer one, may stay where it is while all three
servers are in `recv_data`.  `Drain` of `EmpExchange` passes a word from the stream to
the socket at any time or never, and `Spec` has no fairness: the wait is among the
behaviours, and what is claimed of the exchange is safety.  It is no violation of the
run, as no text of the repository says that a query over EMP ends and the buffer is a
matter of EMP's library, which is not in the repository; the hazard at line 314 keeps it.

## Proofs

`MultExchangeProofs`, for every number of servers, set of queries and number of
filters, with failing calls and concurrent clients: the types (`TypeCorrect`), that a
stored share is never overwritten before a handler took it (`Handoff`), that nobody
sleeps on a condition that holds (`Wakeup`), and that a `CallData` is always posted
or about to be (`Reachable`).  The inductive invariant adds to the types that
`multLock` is held by exactly the thread whose place says so, and that the queue's
thread has a request while it is in `FinishMultiply`; without the first, two threads
could test the slot at once.

Where the shares are takes more.  `NeverDuplicated`, with failing calls and concurrent
clients, rests on `PlaceInv`: a share is in no two of the places between the call and
the handlers' results, and only shares that were given are anywhere.  Without failing
calls (`Flaky = {}`) none is lost either (`NoneLost`), so a share that was given is in
exactly one place (`InOnePlace`).  If besides the client sends a query only when the
last one is answered (`Serial`), each share is taken in the step it was made for
(`Paired`), no server gets more than a round ahead (`Skew`), and every step of the
exchange is a step of `RoundExchange` or none (`Refines`).  Nothing in a message says
where it belongs, so this has to come from counting.  `RingInv` says that a sender is
blocked until its share is stored (`CallInv`), that the shares a server has given are
those its successor has got, the one in the successor's slot and the one on its way
(`CountInv`), that the share in a slot is the one its server needs next (`SlotInv`),
and what the place of a handler says of its counts (`GotInv`, `RoundInv`, `TakenInv`).
`SharesPaired` is not inductive without the counts, and they are not without the
serial client (`SerialInv`): in `exchange_concurrent` shares of two queries do meet.

`FilterEvalProofs`, for any modulus, keys, number of queries and number of filters: the
combined filters stay replicated (`StayReplicated`).  The property compares two servers
only when they have come equally far, which says nothing of the steps between; the
invariant compares them always.  A server can be a round ahead of its predecessor or
two rounds behind it, and then one's half is what the other's becomes after as many
more rounds (`Replica`, by `Step`).  The rest says which rounds a place stands for
(`RoundInv`) and that `res` still is what was exchanged first (`ResInv`), since
`OrFilters` adds it again in every later round.  It does not matter what the numbers are.

What they are is a second invariant, `Values`: the client's draws determine the sums of
each filter (`Sums`), what is combined in each round (`Combined`), the linear combination
of the batch check after it (`RoundChain`) and the answers (`Answered`), and at its place
each server has its share of these and no other.  `StateInv` says so of the handlers,
`SentInv` of the shares on their way, and `RowsInv` of the filters whose sum is still to
be sent; the place of `prfCounter` in the query (`CounterAt`) makes the shares of zero of
the three servers meet (`ZeroRow`).  What was determined then adds up: an induction over
the filters, with products congruent modulo `Modulus` (`Congruent`), gives that the
answers add up to the combined filters' product with the value (`AggregateAlways`) and
that the accumulated MACs fit (`MacCheckAlways`, under the premise of `MacCheckHolds`);
the types with the bounds of the counter are `TypesAlways`.

`TableKeysProofs`, for any tables and requests: the types, with them that a range table
holds left and right keys in turn (`TypeCorrect`).  For requests whose filters are over
one table each (`OneTableEach`): no keys are left behind (`Consumed`), answers come from
the request's own keys (`AnsweredFresh`) and no evaluation reads past them (`InBounds`),
all of a table that `DCFQuery` has left no keys at; with aggregate queries alone there is
no exception (`AnsweredWithoutRange`).  The invariant says which keys a table has
while they are read (`OwnKeys`).  `OneTableEach` is what the tests ask and cannot be
dropped: filters over different tables leave keys behind.

`SecureShuffleProofs`, for any number of parties, threads and units: the types
(`TypeCorrect`), and that a thread's handle leads to its own networks, the same at all
parties (`OwnNetworks`).  The invariant says that no two threads have the same handle at
a party and that none is past the end of the store (`HandleInv`), which holds because
`del` empties an entry and never removes one; and that a store has as many entries as
threads have handles (`CountInv`), which bounds it.

What the networks do is shown first without a state.  `ConfigExists`: every permutation
of a network's wires has a configuration.  At each level of the network the wires are
paired twice, as they go in and as they come out, and the members of a pair go to
different halves; two pairings of a finite set can always be coloured so
(`Colouring`), and what is left for the halves is again a permutation within blocks
(`HalvingExists`).  `NetworkCorrect`: the rounds of `iter_waksman` over a flat vector do
what the recursion of `waksman` says, in reverse (`ReverseRun`), and forwards undo
it.  The two meet level by level: a round inwards takes apart what the recursion calls a
block, a round outwards brings its halves together (`TakesIn`, `BringsOut`).
`RandomPermutations`: the swaps of `generate_random_permutation` can make every
permutation of the units, and leave the padding where it is; so the padding stays behind
the units in every network (`NetworkOfUnits`), and `post` never throws.

Of the shuffles as they run the invariant says what a thread's vector is at each of its
places (`Stage`): as it was at first, or where the permutations drawn for it so far bring
it (`Course`).  With `OwnShuffle`, which leads from the handle to those networks, this
gives that a shuffle forwards sends each unit where it should and backwards brings it
home (`ShufflesApplied`).  `InversesMade` says the same of `inverse_permutation`: what
Bob inverts is a permutation again (`InverseOfPerm`), so that he has a configuration.

`QueryServersProofs` begins with the start-up, for a ring of any size of at least two:
the types, that no `SendSystemInit` is lost (`NeverLost`) and that the keys form the
ring (`KeysFormRing`).  The inductive invariant says what a server has done when it comes
to a step (`Progress`), that a socket leads to an open port (`SocketsLead`), and what
became of its call (`Calls`, `Delivered`): a server comes to `SendSystemInit` with a
socket to a successor that began to serve before it opened the port.

Of the tables `QueryServersProofs` shows, for every number of servers, clients, tables,
columns and calls, the types, with them that no append goes past the window
(`TablesTyped`), and that the servers agree (`Agreement`).  Agreement alone is not
inductive, because it says nothing of tables with a call on its way.  The invariant
(`TablesInv`) adds that at each server such a table holds what the client has told but
for the columns still to come (`Unwritten`), and that its window pointer is behind the
client's count by as many appends; an append can then only go to the next pending column.

Of the EMP sockets, for every number of servers, length of a share, stream and socket:
with one query at a time every step is one that `RoundExchange` allows
(`SerialExchange`).  The invariant (`WordsInv`) says that under way are the words of
the one query that is on, those that are written and not yet read, in order (`Holds`,
`HoldsSome`), and what the place of a handler says of its two counts (`PlaceSays`); a
server with a query of its own going on then finds nothing else to read.  What has
left the stream has been written (`SocketInv`, `PassedThere`), so a stream that holds
words back changes when they are read, and not which.

Of the servers as a whole: every step is a step of the start-up
or leaves it alone (`StartStep`), and the same for the tables (`TableStep`), so the ring
of keys (`KeysStay`) and the agreement of the tables (`TablesAgree`) follow from the
parts' invariants.  `Consistent` needs both halves: while a query is pending its asker
has no call and has told nothing new (`Waits`), so whenever a server reads one of the
two tables, before or after the exchange, it is settled (`ReadsTold`); other clients
have other tables (`OthersCalls`).  The pending query is the only one, so the sockets
run one query at a time (`SocketsSerial`), as `SerialExchange` asks, and the whole has
`EmpStepsAreRounds` (`SharesExchanged`).  With that the
types of all parts hold in the whole: no stream or socket holds more than it can or another
server's words, and a handler has read the filters exactly when it has begun
(`QueryTyped`).

`FssProofs`, for every depth, point, payload, draw, modulus and function in the place of
AES, and every number of threads, is about the two schemes.  The
roots have opposite bits t (`RootsApart`); a step along the path keeps them opposite
(`OnPathApart`) and a step off the path makes the two blocks equal (`OffPathEqual`);
after that the two parties do the same.  Equal blocks at a leaf give shares of zero
(`OffPathZero`), and blocks that differ in t give shares of the payload
(`OnPathPayload`), with the wrapping and the reduction as in the code.  Over the levels
of a walk this is `WalksOnOrOff`, and with the running sum of the comparison function
`SharesOnOrOff`: on the path the two shares add up to the sum of the path, and at the
level where a row leaves it to the payload or to zero.  So `PointFunctionCorrect` and
`ComparisonCorrect` hold on every row; `BitComparisonCorrect` is the second for the
comparison with a bit as output, the same scheme modulo 2.  Where
the code goes down the levels the model has a recursive function; `Recursion` gives that
it exists and `IntervalInduction` what holds at every level of it, and both come
from the pigeonhole principle, as the induction theorems of the library are out of
reach (`NatSet`).

For every number of rows and of
threads the chunks cover each row (`ChunksCover`) once (`ChunksDisjoint`), and lie in
the table when there are no more threads than rows (`ChunksInTable`), which nothing in
the code checks.  The contiguous evaluation of an aligned block gives what the walks to
its rows give (`ContigPointwiseDPF`, `ContigPointwiseDCF`): an induction from the leaves
upwards.

`FssTableProofs`, for every table, query, draw and number of cores and a modulus above
1, is about the way through the servers.  A serialised key is cut where it was joined
(`WireCut`).  `InvAlways` is the inductive invariant: before a query nothing is there
(`Idle`, `Resting`); after it there is one draw such that the wire has its keys, a
server's keys are those, its array holds the outcome on the rows of the workers that
have finished and what was there before on the others, and its partial results are the
products of those that multiplied (`Busy`, `Server`).  The draw has to be in the
invariant, since no variable keeps it.  From it follow the types (`TypesAlways`), that
chunks and single rows and both ways to combine a range agree
(`EvaluationsAgreeAlways`), that the outcomes add up to the selection on every row
(`SharesAddUpAlways`, `RowsAlways`), and that the answers are the selected sum and its
MAC (`AnswerAlways`): the workers' sums over their chunks are a sum over the table, in
whatever order (`Total` folds in an order that `CHOOSE` picks).  TLC checked `Inv` on a
part of `fss_table`'s instance before it was proved.

`AggTreeProofs`, for every depth of at least four, every aggregate, every sequence of
values and any number of rollups.  The inductive invariant (`Invariant`) is the shape
of the tree, as the number of values and one number `s` determine it, by how much the
rollups have moved the indices (`Shape`).  The node at path p covers the indices from
`First(p) + s` on, as many as there are leaves below p, and `NodeAt` says what its
four fields are when only some of these have come; the fields of the root and its two
children follow from the last rollup (`Root`, `RootLeft`, `RootRight`); and the nodes of the oldest quarter are filled and
split their values, whatever they were when they came to lie there (`OldPart`).
`append` keeps the shape: on the way to the new leaf `appendFromParent` writes to each
node what `NodeAt` says of one value more, which hangs on the flag that tells whether
a left child is full (`GrandchildDone`), and it writes nowhere else (`AppendWrites`).
`rollup`, which comes when the tree is full, moves `s` by a quarter of the leaves
(`RollupNodes`).  From the shape follow the types (`Types`), that every node has the
aggregate of its values (`Exact`), that no value is forgotten or counted twice
(`Covered`), that there is a place for the next value (`Free`), that appending builds
the tree of the constructor (`Built`), and that the newest half is there as leaves
(`Recent`).  The aggregates of a node's two halves make its own because the three
functions are associative (`AggRules`).  TLC checked the shape on a tree of four levels
with 24 values before it was proved.

The assumptions are those of the modules' `ConstantsAssumption`, which TLC evaluates
in every run, and `FssAssumption`, `TableAssumption`, `EmpAssumption`,
`QueryAssumption` and `DrawsAssumption` (permutations are drawn from the
permutations).  `FilterEval` and `FssTable` ask for a modulus in which 0, 1 and, in the
first, 2 differ: in the code it is 2^125.  `AggTree` asks for four levels, since a
rollup of fewer never ends, and for values that are natural numbers.  Besides them some
theorems have a premise of their own, which the runs meet: `Flaky = {}` and `Serial`
(`exchange_serial`; the concurrent run shows what is lost without the second), and
`OneTableEach` (`table_keys`).

Only model-checked, and why:

* Liveness: `QueriesAnswered`, `SetupEnds`, and the fairness of the refinement
  `ImplementsRoundExchange`, whose safety is `Refines`.  The prover has no rules for
  fairness and `ENABLED` here.

## Disagreements found

* `DCFQuery` evaluates the keys at place 0 and leaves them there, so a table answers
  every later range with the first one's (`table_keys_range`); the test asks each
  table once.
* The contiguous evaluation asserts that the number of rows is a power of two, and the
  tables divide their rows by any number of cores (`fss_balanced`).  The shipped
  configurations have two cores; the experiment script divides the number it is given.

Besides, `EvalFilter` assumes in a comment (`util.cpp:572`) that all filters are of the
same type.  They must be over the same table: only the last one's is evaluated, and
`FiltersAnswered` of `TableKeys` fails as soon as one query has filters over two range
tables.  The run `table_keys` asks for filters over one table, as the tests do.

## Not modelled

The aggregate tree's index on the servers needs `AggTree.h`, which is not in the
repository, and so do `client.h`, `query.h` and the messages' definitions: the client
is an external actor here.  No claim is made about ranges whose right end is not below
the left one: `correctness_tests.cpp` asks for the others only, and the upper key of a
range is made for the row after its right end, which wraps to row 0 for the last row.
`encGraph.cpp`, `vecMul.cu` and `main.cu` do not compile as they stand (undeclared
names, parameters without types), so that there is no behaviour to model; `main.cu` is
an earlier copy of `util.cpp`.  `fileIO.cpp` reads files, and the benchmark, the tests
and the scripts drive the system.  The vendored libOTe, libPSI and cryptoTools and the
output of CMake, which are all but a few thousand of the repository's lines, are
third-party or generated.  In `SecureShuffle` the secret sharing is taken to be right,
as is the check that opened bits are bits.  AES and the random generators are
constants.  Memory is not modelled except where a read or a write depends on the
protocol (`Nothing`, `EvalBeyond` of `TableKeys`).

## Plan

Open, in the order of their worth:

1. Concurrent queries in `FilterEval`: how the advances of `prfCounter` interleave, and
   under which schedules of the client the shares of zero still cancel.
2. The chunks of `FillZeroSharesPlusRandCoeff`, which divides by four threads whatever
   the window.
3. The reads of an aggregate tree's query, once `core/AggTree.h` is there.
