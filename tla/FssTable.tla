------------------------------ MODULE FssTable ------------------------------
(***************************************************************************)
(* A private lookup in a table: the client makes the keys of a point or of *)
(* a range, serialises them for the two servers that hold a copy of the    *)
(* same table share, each server deserialises its keys, evaluates them on  *)
(* all rows, multiplies the outcome with the table in worker threads and   *)
(* adds up.  The two results, added by the client, are the selected sum.   *)
(***************************************************************************)
EXTENDS Fss, Chunks, Functions

CONSTANTS WindowSize,   \* columns of the table
          Settings,     \* the pairs of cores and threaded to try, see VARIABLES
          Tables,       \* the tables to try
          Queries,      \* the queries to try
          Draws         \* the root blocks the client may draw, two for each key

PointQuery == [kind : {"point"}, x : 0 .. NumLeaves - 1, alpha : Number]
RangeQuery == [kind : {"range"}, left : 0 .. NumLeaves - 1,
               right : 0 .. NumLeaves - 1, alpha : Number]

\* alpha is the MAC key of a malicious setting, 0 when there is none; a query
\* needs the roots of up to four key pairs.  Threading starts at 2^14 rows, more
\* than there are cores.  In the code Modulus is 2^125: 0 and 1 differ.
ASSUME TableAssumption ==
  /\ Modulus > 1
  /\ WindowSize \in Nat \ {0}
  /\ Settings \subseteq (Nat \ {0}) \X BOOLEAN
  /\ \A s \in Settings : s[2] => s[1] <= NumLeaves
  /\ Tables \subseteq [0 .. NumLeaves - 1 -> [1 .. WindowSize -> Number]]
  /\ Queries \subseteq PointQuery \cup RangeQuery
  /\ \A d \in Draws : \A i \in 1 .. 4 : d[i] \in Block \X Block

VARIABLES
  table,    \* the table share, the same at both parties
  cores,    \* worker threads
  threaded, \* depth >= threading_minimum: the evaluation is divided too
  query,    \* what the client asks
  wire,     \* wire[p]: the serialised keys sent to party p
  stage,    \* stage[p]: where eval_dpf_table or ic_eval_dcf_table of p is
  key,      \* key[p]: the vector key, one key of a point, two of a range
  fss,      \* fss[p][i]: dpf_res or dcf_res of key i, MACs from NumLeaves on
  running,  \* running[p]: the workers of the current phase that are not done
  thRes,    \* thRes[p][th]: the sums of worker th, MACs from WindowSize on
  res       \* res[p]: the result

vars == <<table, cores, threaded, query, wire, stage, key, fss, running, thRes, res>>

-----------------------------------------------------------------------------
\* The client.

Malicious == query.alpha # 0

\* clkey::dpf_generate: the key, and its MAC key, from draws d and d + 1.
DpfGenerate(q, draw) ==
  [key |-> KeyGenDPF(q.x, 1, draw[1]),
   mac |-> KeyGenDPF(q.x, q.alpha % Word, draw[2])]

\* clkey::dcf_generate: the upper key of a range takes the payload away again
\* from the row after x on.
DcfGenerate(x, greaterThan, alpha, draw1, draw2) ==
  LET at      == IF greaterThan THEN x + 1 ELSE x
      payload == IF greaterThan THEN Word - 1 ELSE 1
  IN  [key |-> KeyGenDCF(at, payload, 0, draw1),
       mac |-> KeyGenDCF(at, (payload * alpha) % Word, 0, draw2)]

\* Cells of 16 bytes: blocks and numbers.  NumValues: those of one key.
NumValues == IF query.kind = "point" THEN 1 ELSE Depth + 1

KeySize == (IF Malicious THEN 2 ELSE 1) * (Depth + 1 + NumValues)

\* clkey::dpf_serialize and dcf_serialize, for one party.
Serialize(pair, p, malicious) ==
  pair.key[p].k \o pair.key[p].v
    \o (IF malicious THEN pair.mac[p].k \o pair.mac[p].v ELSE <<>>)

\* serialize_keys: the right key of a range behind the left one.
SerializeKeys(pairs, malicious) ==
  [p \in Party |-> Serialize(pairs[1], p, malicious)
     \o (IF Len(pairs) = 2 THEN Serialize(pairs[2], p, malicious) ELSE <<>>)]

Generate(q, d) ==
  /\ \A p \in Party : stage[p] = "nokey" /\ wire[p] = <<>>
  /\ wire' = SerializeKeys(
       IF q.kind = "point" THEN <<DpfGenerate(q, d)>>
       ELSE <<DcfGenerate(q.left, FALSE, q.alpha, d[1], d[2]),
              DcfGenerate(q.right, TRUE, q.alpha, d[3], d[4])>>, q.alpha # 0)
  /\ query' = q
  /\ UNCHANGED <<table, cores, threaded, stage, key, fss, running, thRes, res>>

-----------------------------------------------------------------------------
\* A server.

\* Mutant of Deserialize: the MAC key is read from the place of the key.
DeserializeTwice(bytes, o) ==
  LET cut(from, n) == SubSeq(bytes, o + from + 1, o + from + n)
      k            == [k |-> cut(0, Depth + 1), v |-> cut(Depth + 1, NumValues)]
  IN  [key |-> k, mac |-> k]

\* svkey::dpf_deserialize and dcf_deserialize, from offset o.
Deserialize(bytes, o) ==
  LET cut(from, n) == SubSeq(bytes, o + from + 1, o + from + n)
      half         == Depth + 1 + NumValues
  IN  [key |-> [k |-> cut(0, Depth + 1), v |-> cut(Depth + 1, NumValues)],
       mac |-> IF Malicious THEN [k |-> cut(half, Depth + 1),
                                  v |-> cut(half + Depth + 1, NumValues)] ELSE <<>>]

NumKeys == IF query.kind = "point" THEN 1 ELSE 2

Factor == IF Malicious THEN 2 ELSE 1

\* Mutant of EvalCores: the number of workers is fixed.
EvalCoresFixed == IF threaded THEN 2 ELSE 1

\* The workers of an evaluation: without threading the caller does it alone.
EvalCores == IF threaded THEN cores ELSE 1

DeserializeKey(p) ==
  /\ stage[p] = "nokey" /\ wire[p] # <<>>
  /\ key' = [key EXCEPT ![p] =
               [i \in 1 .. NumKeys |-> Deserialize(wire[p], (i - 1) * KeySize)]]
  /\ fss' = [fss EXCEPT ![p] =
               [i \in 1 .. NumKeys |-> [r \in 0 .. Factor * NumLeaves - 1 |-> 0]]]
  /\ stage' = [stage EXCEPT ![p] = "eval1"]
  /\ running' = [running EXCEPT ![p] = Thread(EvalCores)]
  /\ UNCHANGED <<table, cores, threaded, query, wire, thRes, res>>

\* The key a phase evaluates: of a range the left one first, then the right one.
Current(p) == IF stage[p] = "eval2" THEN 2 ELSE 1

ContigEval(k, p, start, range) ==
  IF query.kind = "point" THEN ContigEvalDPF(k, p, start, range)
                          ELSE ContigEvalDCF(k, p, start, range)

ChunkRange(th) ==
  LastRow(NumLeaves, EvalCores, th) - FirstRow(NumLeaves, EvalCores, th) + 1

Balanced(range) == \E i \in 0 .. Depth : range = 2 ^ i

\* Mutant of At: the outcomes are written from place 0 on.
AtFirst(start, outcome) == outcome

\* The outcomes of a chunk, put at their rows: from place start on.
At(start, outcome) == [r \in {start + i : i \in DOMAIN outcome} |-> outcome[r - start]]

\* A worker evaluates its chunk: the key and, in a malicious setting, the MAC key.
EvalRoutine(p, th) ==
  /\ stage[p] \in {"eval1", "eval2"} /\ th \in running[p]
  /\ Balanced(ChunkRange(th))
  /\ LET start == FirstRow(NumLeaves, EvalCores, th)
         k     == key[p][Current(p)]
         rows  == At(start, ContigEval(k.key, p, start, ChunkRange(th)))
         macs  == IF Malicious
                    THEN At(NumLeaves + start, ContigEval(k.mac, p, start, ChunkRange(th)))
                    ELSE <<>>
     IN  fss' = [fss EXCEPT ![p][Current(p)] = Over(macs, Over(rows, @))]
  /\ running' = [running EXCEPT ![p] = @ \ {th}]
  /\ UNCHANGED <<table, cores, threaded, query, wire, stage, key, thRes, res>>

\* The assertion of the evaluation fails: the process is gone.
EvalAbort(p, th) ==
  /\ stage[p] \in {"eval1", "eval2"} /\ th \in running[p]
  /\ ~Balanced(ChunkRange(th))
  /\ stage' = [stage EXCEPT ![p] = "aborted"]
  /\ UNCHANGED <<table, cores, threaded, query, wire, key, fss, running, thRes, res>>

\* Mutant of Combine: the right outcome is left out.
CombineLeft(f) == f[1]

\* The two outcomes of a range are added up in the array of the left one.
Combine(f) == [r \in DOMAIN f[1] |-> (f[1][r] + f[2][r]) % Word]

\* The workers are joined.
EvalJoin(p) ==
  /\ stage[p] \in {"eval1", "eval2"} /\ running[p] = {}
  /\ IF Current(p) < NumKeys
       THEN /\ stage' = [stage EXCEPT ![p] = "eval2"]
            /\ running' = [running EXCEPT ![p] = Thread(EvalCores)]
            /\ UNCHANGED <<fss, thRes>>
       ELSE /\ stage' = [stage EXCEPT ![p] = "multiply"]
            /\ running' = [running EXCEPT ![p] = Thread(cores)]
            /\ thRes' = [thRes EXCEPT ![p] =
                 [th \in Thread(cores) |-> [j \in 1 .. Factor * WindowSize |-> 0]]]
            /\ fss' = IF NumKeys = 2 THEN [fss EXCEPT ![p][1] = Combine(fss[p])] ELSE fss
  /\ UNCHANGED <<table, cores, threaded, query, wire, key, res>>

Total(f, S) == FoldFunctionOnSet(LAMBDA a, b : a + b, 0, f, S)

\* The products of the rows of a set with the table, per column and MAC column.
Products(f, rows) ==
  [j \in 1 .. Factor * WindowSize |->
     LET column == ((j - 1) % WindowSize) + 1
         offset == IF j > WindowSize THEN NumLeaves ELSE 0
     IN  Total([r \in rows |-> f[offset + r] * table[r][column]], rows) % Word]

\* A worker multiplies its chunk with the table.
MultiplyRoutine(p, th) ==
  /\ stage[p] = "multiply" /\ th \in running[p]
  /\ LastRow(NumLeaves, cores, th) >= 0
  /\ thRes' = [thRes EXCEPT ![p][th] = Products(fss[p][1], Rows(NumLeaves, cores, th))]
  /\ running' = [running EXCEPT ![p] = @ \ {th}]
  /\ UNCHANGED <<table, cores, threaded, query, wire, stage, key, fss, res>>

\* An empty chunk 0 .. 2^64 - 1: the worker runs past the table and dies.
MultiplyPastTable(p, th) ==
  /\ stage[p] = "multiply" /\ th \in running[p]
  /\ LastRow(NumLeaves, cores, th) < 0
  /\ stage' = [stage EXCEPT ![p] = "aborted"]
  /\ UNCHANGED <<table, cores, threaded, query, wire, key, fss, running, thRes, res>>

\* The workers are joined and their sums added up.
MultiplyJoin(p) ==
  /\ stage[p] = "multiply" /\ running[p] = {}
  /\ res' = [res EXCEPT ![p] =
       [j \in 1 .. Factor * WindowSize |->
          Total([th \in Thread(cores) |-> thRes[p][th][j]], Thread(cores)) % Word]]
  /\ stage' = [stage EXCEPT ![p] = "done"]
  /\ UNCHANGED <<table, cores, threaded, query, wire, key, fss, running, thRes>>

NoQuery == [kind |-> "none"]

\* The client has both results, the servers have cleared their keys; TableKeys has
\* what becomes of keys that stay.
Answer ==
  /\ \A p \in Party : stage[p] = "done"
  /\ query' = NoQuery
  /\ wire' = [p \in Party |-> <<>>] /\ key' = [p \in Party |-> <<>>]
  /\ stage' = [p \in Party |-> "nokey"]
  /\ fss' = [p \in Party |-> <<>>] /\ thRes' = [p \in Party |-> <<>>]
  /\ res' = [p \in Party |-> <<>>]
  /\ UNCHANGED <<table, cores, threaded, running>>

Init ==
  /\ table \in Tables
  /\ \E s \in Settings : cores = s[1] /\ threaded = s[2]
  /\ query = NoQuery
  /\ wire = [p \in Party |-> <<>>] /\ key = [p \in Party |-> <<>>]
  /\ stage = [p \in Party |-> "nokey"] /\ running = [p \in Party |-> {}]
  /\ fss = [p \in Party |-> <<>>] /\ thRes = [p \in Party |-> <<>>]
  /\ res = [p \in Party |-> <<>>]

Next ==
  \/ \E q \in Queries, d \in Draws : Generate(q, d)
  \/ \E p \in Party : DeserializeKey(p)
  \/ \E p \in Party : \E th \in running[p] : EvalRoutine(p, th)
  \/ \E p \in Party : \E th \in running[p] : EvalAbort(p, th)
  \/ \E p \in Party : EvalJoin(p)
  \/ \E p \in Party : \E th \in running[p] : MultiplyRoutine(p, th)
  \/ \E p \in Party : \E th \in running[p] : MultiplyPastTable(p, th)
  \/ \E p \in Party : MultiplyJoin(p)
  \/ Answer

Spec == Init /\ [][Next]_vars

-----------------------------------------------------------------------------
\* The variants that stand beside these in the code.

\* ic_eval_dcf_table_unopt: the outcomes of each key are multiplied with the table
\* by themselves, and the results added up.
UnoptResult(p) ==
  LET outcome(k) ==
        Over(IF Malicious THEN At(NumLeaves, ContigEval(k.mac, p, 0, NumLeaves)) ELSE <<>>,
             ContigEval(k.key, p, 0, NumLeaves))
      part(i) == Products(outcome(key[p][i]), 0 .. NumLeaves - 1)
  IN  [j \in 1 .. Factor * WindowSize |->
         (part(1)[j] + (IF NumKeys = 2 THEN part(2)[j] ELSE 0)) % Word]

\* svkey::dcf_evalfull and evalOneDPF: the rows of key i one after the other.
PointwiseOutcome(k, p) ==
  IF query.kind = "point" THEN [r \in 0 .. NumLeaves - 1 |-> EvalOneDPF(r, k, p)]
                          ELSE FullDomainDCF(k, p)

\* The comparison with a single bit as output: xor is addition and subtraction
\* modulo 2, and every sign is +.
Bit == INSTANCE Fss WITH
  Word <- 2, Modulus <- 2,
  ConvertV <- [i \in Seed |-> [side \in Side |-> ConvertV[i][side] % 2]],
  Convert <- [i \in Seed |-> Convert[i] % 2]

\* Mutant of BitKeyGen: the payload is added on the same side for both directions.
BitKeyGenOneSided(x, gt, draw) == Bit!KeyGenDCF(x, 1, 0, draw)

BitKeyGen(x, gt, draw) == Bit!KeyGenDCF(x, 1, gt, draw)

BitEval(x, k) == Bit!EvalOneDCF(x, k, 0)

-----------------------------------------------------------------------------
\* Properties.

\* Every array has its place and its numbers wrap; the workers of a phase are
\* among the cores.
TypeOK ==
  /\ table \in Tables /\ <<cores, threaded>> \in Settings
  /\ query \in Queries \cup {NoQuery}
  /\ stage \in [Party -> {"nokey", "eval1", "eval2", "multiply", "done", "aborted"}]
  /\ \A p \in Party :
       /\ running[p] \subseteq Thread(cores)
       /\ stage[p] = "nokey" => fss[p] = <<>> /\ res[p] = <<>>
       /\ \A i \in DOMAIN fss[p] : fss[p][i] \in [0 .. Factor * NumLeaves - 1 -> Number]
       /\ \A th \in DOMAIN thRes[p] : thRes[p][th] \in [1 .. Factor * WindowSize -> Number]
       /\ stage[p] = "done" => res[p] \in [1 .. Factor * WindowSize -> Number]

\* A range is (right, left), both ends left out: correctness_tests.cpp and the
\* table tests ask for right < left only.
Answerable == query.kind = "point" \/ query.right < query.left

Selected(r) ==
  IF query.kind = "point" THEN IF r = query.x THEN 1 ELSE 0
  ELSE IF query.right < r /\ r < query.left THEN 1 ELSE 0

Evaluated == \A p \in Party : stage[p] \in {"multiply", "done"}

ValuesAddUp ==
  Evaluated /\ Answerable =>
    \A r \in 0 .. NumLeaves - 1 :
      (fss[0][1][r] + fss[1][1][r]) % Modulus = Selected(r)

MacsAddUp ==
  Evaluated /\ Malicious /\ Answerable =>
    \A r \in 0 .. NumLeaves - 1 :
      (fss[0][1][NumLeaves + r] + fss[1][1][NumLeaves + r]) % Modulus
        = (query.alpha * Selected(r)) % Modulus

BitsAddUp ==
  (\A p \in Party : stage[p] = "nokey" /\ wire[p] # <<>>) /\ query.kind = "range" =>
    \A gt \in {0, 1}, d \in Draws, r \in 0 .. NumLeaves - 1 :
      LET k == BitKeyGen(query.left, gt, d[1])
      IN  (BitEval(r, k[0]) + BitEval(r, k[1])) % 2
            = IF (IF gt = 1 THEN r > query.left ELSE r < query.left) THEN 1 ELSE 0

\* The outcomes of the two parties add up to 1 on the selected rows and to 0 on
\* the others, and their MACs to alpha and 0, whatever the roots, the chunks and the
\* order of the workers; comparisons that give a single bit (keyGenDCF, evalOneDCF)
\* do so as well, below the left end and above it.
RowsAddUp == ValuesAddUp /\ MacsAddUp /\ BitsAddUp

\* The results add up to the sum of the selected rows, and their MACs to alpha
\* times that, for every number of cores.
AnswerIsSelection ==
  (\A p \in Party : stage[p] = "done") /\ Answerable =>
    \A j \in 1 .. WindowSize :
      LET sum == Total([r \in 0 .. NumLeaves - 1 |-> Selected(r) * table[r][j]],
                       0 .. NumLeaves - 1)
      IN  /\ (res[0][j] + res[1][j]) % Modulus = sum % Modulus
          /\ Malicious => (res[0][WindowSize + j] + res[1][WindowSize + j]) % Modulus
                            = (query.alpha * sum) % Modulus

ContigIsPointwise ==
  \A p \in Party :
    stage[p] \in {"eval1", "eval2"} /\ running[p] = {} =>
      \A r \in 0 .. NumLeaves - 1 :
        fss[p][Current(p)][r] = PointwiseOutcome(key[p][Current(p)].key, p)[r]

UnoptAgrees ==
  \A p \in Party : stage[p] = "done" => res[p] = UnoptResult(p)

\* The ways to evaluate agree: the chunks of the threads give on every row what the
\* walk from the root to that row gives (dcf_evalfull), and adding the outcomes of
\* the two keys of a range before the multiplication gives the result of multiplying
\* each of them with the table (ic_eval_dcf_table_unopt).
EvaluationsAgree == ContigIsPointwise /\ UnoptAgrees

\* "Implementation assumes balanced tree": no worker fails the assertion of the
\* evaluation.
ChunksBalanced == \A p \in Party : \A th \in running[p] :
  stage[p] \in {"eval1", "eval2"} => Balanced(ChunkRange(th))

=============================================================================
