--------------------------- MODULE TableKeysProofs ---------------------------
(***************************************************************************)
(* Theorems about TableKeys, for all tables and any number of requests:    *)
(* the keys a table holds are of its own kind; and if every combined       *)
(* filter stays on one table, as in the tests, the keys an aggregate query *)
(* brings are the ones it is answered with, and it leaves none behind.     *)
(***************************************************************************)
EXTENDS TableKeys, SequenceTheorems, TLAPS

\* The base filters of a request are all over one table.
OneTableEach ==
  \A r \in Requests : \A f, g \in DOMAIN r.filters : r.filters[f] = r.filters[g]

-----------------------------------------------------------------------------
(* The inductive invariant.                                                *)

\* A point table holds any number of keys, a range table left and right ones in turn.
OfKind(t, ks) ==
  /\ t \in DPFTables => \A k \in 1 .. Len(ks) : ks[k].part = "point"
  /\ t \notin DPFTables =>
        /\ Len(ks) % 2 = 0
        /\ \A k \in 1 .. Len(ks) : ks[k].part = IF k % 2 = 1 THEN "left" ELSE "right"

\* A handler that is at work has a request; a table is asked for a single range at
\* most once a request.
StateInv ==
  /\ sent \in 0 .. MaxRequests
  /\ request \in Requests \cup {NoRequest}
  /\ pc \in {"idle", "deserialize", "answered", "undefined"}
  /\ pc # "idle" => request \in Requests /\ sent \in 1 .. MaxRequests
  /\ pc = "deserialize" => DOMAIN res = DOMAIN request.filters
  /\ next \in 1 .. NumFilters + 1
  /\ key \in [Table -> Seq(KeyType)]
  /\ direct \in [Table -> Nat]
  /\ \A t \in Table : direct[t] <= (IF pc = "deserialize" THEN sent - 1 ELSE sent)

KindInv == \A t \in Table : OfKind(t, key[t])

\* ks are the keys of the base filters before n that request r brought, all over t.
Brought(ks, t, r, n) ==
  /\ t \in DPFTables =>
        /\ Len(ks) = n - 1
        /\ \A f \in 1 .. n - 1 : ks[f] = [req |-> r, filter |-> f, part |-> "point"]
  /\ t \notin DPFTables =>
        /\ Len(ks) = 2 * (n - 1)
        /\ \A f \in 1 .. n - 1 :
              /\ ks[2 * f - 1] = [req |-> r, filter |-> f, part |-> "left"]
              /\ ks[2 * f] = [req |-> r, filter |-> f, part |-> "right"]

\* The table of the request, while its keys are being read.
Filling(t) == pc = "deserialize" /\ t = Last

\* A table on which DCFQuery left no keys is empty, or holds the keys that were read so
\* far for the request at hand.
OwnKeys ==
  \A t \in Table : Fresh(t) =>
     /\ Filling(t) => Brought(key[t], t, sent, next)
     /\ ~Filling(t) /\ pc # "undefined" => key[t] = <<>>

-----------------------------------------------------------------------------
(* Keys as sequences.                                                      *)

\* The parts of a point filter and of a range filter.
LEMMA PartsAre ==
  \A t \in Table :
     IF t \in DPFTables
     THEN Parts(t) = <<"point">> /\ Len(Parts(t)) = 1 /\ DOMAIN Parts(t) = 1 .. 1
     ELSE Parts(t) = <<"left", "right">> /\ Len(Parts(t)) = 2 /\ DOMAIN Parts(t) = 1 .. 2
  BY DEF Parts

\* A base filter has a table, and a request has one.
LEMMA FiltersAre ==
  ASSUME StateInv, pc # "idle"
  PROVE  /\ request.filters \in Seq(Table) /\ NumFilters \in Nat \ {0}
         /\ \A f \in 1 .. NumFilters : request.filters[f] \in Table
         /\ DOMAIN request.filters = 1 .. NumFilters /\ Last \in Table
<1>1. request \in Request /\ request.filters # <<>>
  BY ConstantsAssumption DEF StateInv
<1>2. request.filters \in Seq(Table)
  BY <1>1 DEF Request
<1>3. QED
  BY <1>1, <1>2 DEF NumFilters, Last

\* The keys of one base filter.
LEMMA KeysAre ==
  ASSUME StateInv, pc # "idle", NEW f \in 1 .. NumFilters
  PROVE  /\ KeysOf(f) \in Seq(KeyType)
         /\ IF request.filters[f] \in DPFTables
            THEN /\ Len(KeysOf(f)) = 1
                 /\ KeysOf(f)[1] = [req |-> sent, filter |-> f, part |-> "point"]
            ELSE /\ Len(KeysOf(f)) = 2
                 /\ KeysOf(f)[1] = [req |-> sent, filter |-> f, part |-> "left"]
                 /\ KeysOf(f)[2] = [req |-> sent, filter |-> f, part |-> "right"]
<1>1. PICK t \in Table : t = request.filters[f]
  BY FiltersAre
<1>2. sent \in 1 .. MaxRequests /\ f \in Nat
  BY FiltersAre DEF StateInv
<1>3. PICK n \in {1, 2} : /\ DOMAIN Parts(t) = 1 .. n
                          /\ t \in DPFTables => n = 1 /\ Parts(t)[1] = "point"
                          /\ t \notin DPFTables
                               => n = 2 /\ Parts(t)[1] = "left" /\ Parts(t)[2] = "right"
  BY PartsAre
<1>4. \A k \in 1 .. n : /\ KeysOf(f)[k] = [req |-> sent, filter |-> f, part |-> Parts(t)[k]]
                         /\ KeysOf(f)[k] \in KeyType
  BY <1>1, <1>2, <1>3 DEF KeysOf, KeyType
<1>5. KeysOf(f) \in [1 .. n -> KeyType]
  BY <1>1, <1>3, <1>4 DEF KeysOf
<1>6. KeysOf(f) \in Seq(KeyType) /\ Len(KeysOf(f)) = n
  BY <1>3, <1>5, SeqDef
<1>7. QED
  BY <1>1, <1>3, <1>4, <1>6

\* What deserialize_key does to the keys of the table of the next base filter.
LEMMA Deserialized ==
  ASSUME StateInv, DeserializeKey, NEW t \in Table, t = request.filters[next]
  PROVE  /\ key' \in [Table -> Seq(KeyType)]
         /\ \A u \in Table : u # t => key'[u] = key[u]
         /\ Len(key[t]) \in Nat
         /\ \A k \in 1 .. Len(key[t]) : key'[t][k] = key[t][k]
         /\ IF t \in DPFTables
            THEN /\ Len(key'[t]) = Len(key[t]) + 1
                 /\ key'[t][Len(key[t]) + 1]
                      = [req |-> sent, filter |-> next, part |-> "point"]
            ELSE /\ Len(key'[t]) = Len(key[t]) + 2
                 /\ key'[t][Len(key[t]) + 1]
                      = [req |-> sent, filter |-> next, part |-> "left"]
                 /\ key'[t][Len(key[t]) + 2]
                      = [req |-> sent, filter |-> next, part |-> "right"]
<1>1. pc = "deserialize" /\ next \in 1 .. NumFilters
  BY FiltersAre DEF DeserializeKey, StateInv
<1>2. PICK old \in Seq(KeyType) : old = key[t]
  BY DEF StateInv
<1>3. PICK ks \in Seq(KeyType) :
        /\ ks = KeysOf(next)
        /\ t \in DPFTables =>
              /\ Len(ks) = 1
              /\ ks[1] = [req |-> sent, filter |-> next, part |-> "point"]
        /\ t \notin DPFTables =>
              /\ Len(ks) = 2
              /\ ks[1] = [req |-> sent, filter |-> next, part |-> "left"]
              /\ ks[2] = [req |-> sent, filter |-> next, part |-> "right"]
  BY <1>1, KeysAre
<1>4. key \in [Table -> Seq(KeyType)] /\ key' = [key EXCEPT ![t] = old \o ks]
  BY <1>2, <1>3 DEF DeserializeKey, AppendKeys, StateInv
<1>5. /\ old \o ks \in Seq(KeyType)
      /\ Len(old \o ks) = Len(old) + Len(ks)
      /\ \A k \in 1 .. Len(old) + Len(ks) :
            (old \o ks)[k] = IF k <= Len(old) THEN old[k] ELSE ks[k - Len(old)]
  BY ConcatProperties
<1>6. PICK new \in Seq(KeyType) : new = old \o ks
  BY <1>5
<1>7. key'[t] = new /\ key' \in [Table -> Seq(KeyType)]
      /\ \A u \in Table : u # t => key'[u] = key[u]
  BY <1>4, <1>6
<1>8. Len(old) \in Nat /\ Len(ks) \in Nat
  OBVIOUS
<1>9. \A k \in 1 .. Len(old) : new[k] = old[k]
  BY <1>5, <1>6, <1>8
<1>10. \A k \in 1 .. Len(ks) : new[Len(old) + k] = ks[k]
  BY <1>5, <1>6, <1>8
<1>11. Len(new) = Len(old) + Len(ks)
  BY <1>5, <1>6
<1>12. IF t \in DPFTables
       THEN /\ Len(new) = Len(old) + 1
            /\ new[Len(old) + 1] = [req |-> sent, filter |-> next, part |-> "point"]
       ELSE /\ Len(new) = Len(old) + 2
            /\ new[Len(old) + 1] = [req |-> sent, filter |-> next, part |-> "left"]
            /\ new[Len(old) + 2] = [req |-> sent, filter |-> next, part |-> "right"]
  <2>1. CASE t \in DPFTables
    <3>1. Len(ks) = 1 /\ 1 \in 1 .. Len(ks)
      BY <1>3, <2>1
    <3>2. new[Len(old) + 1] = ks[1]
      BY <1>10, <3>1
    <3>3. QED
      BY <1>3, <1>11, <2>1, <3>1, <3>2
  <2>2. CASE t \notin DPFTables
    <3>1. Len(ks) = 2 /\ 1 \in 1 .. Len(ks) /\ 2 \in 1 .. Len(ks)
      BY <1>3, <2>2
    <3>2. new[Len(old) + 1] = ks[1] /\ new[Len(old) + 2] = ks[2]
      BY <1>10, <3>1
    <3>3. QED
      BY <1>3, <1>11, <2>2, <3>1, <3>2
  <2>3. QED
    BY <2>1, <2>2
<1>13. QED
  BY <1>2, <1>7, <1>8, <1>9, <1>12

\* While t holds exactly the keys of the request, an evaluation finds those of its filter.
LEMMA KeysPicked ==
  ASSUME StateInv, pc # "idle", NEW t \in Table, NEW n \in 1 .. NumFilters + 1,
         Brought(key[t], t, sent, n), NEW i \in 1 .. n - 1, request.filters[i] = t
  PROVE  KeysAt(t, i) = KeysOf(i)
<1>1. i \in 1 .. NumFilters /\ i \in Nat /\ n \in Nat /\ NumFilters \in Nat
  BY FiltersAre
<1>2. PICK ks \in Seq(KeyType) :
        /\ ks = KeysOf(i)
        /\ t \in DPFTables =>
              /\ Len(ks) = 1
              /\ ks[1] = [req |-> sent, filter |-> i, part |-> "point"]
        /\ t \notin DPFTables =>
              /\ Len(ks) = 2
              /\ ks[1] = [req |-> sent, filter |-> i, part |-> "left"]
              /\ ks[2] = [req |-> sent, filter |-> i, part |-> "right"]
  BY <1>1, KeysAre
<1>3. PICK held \in Seq(KeyType) : held = key[t]
  BY DEF StateInv
<1>4. CASE t \in DPFTables
  <2>1. KeysAt(t, i) = SubSeq(held, i, i)
    <3>1. Len(Parts(t)) = 1
      BY <1>4, PartsAre
    <3>2. (i - 1) * 1 + 1 = i /\ i * 1 = i
      BY <1>1
    <3>3. QED
      BY <1>3, <3>1, <3>2 DEF KeysAt
  <2>2. held[i] = ks[1] /\ i \in 1 .. Len(held)
    BY <1>1, <1>2, <1>3, <1>4 DEF Brought
  <2>3. \A k \in i .. i : held[k] \in KeyType
    BY <1>1, <2>2
  <2>4. /\ SubSeq(held, i, i) \in Seq(KeyType)
        /\ Len(SubSeq(held, i, i)) = 1
        /\ \A k \in 1 .. 1 : SubSeq(held, i, i)[k] = held[i + k - 1]
    BY <1>1, <2>3, SubSeqProperties
  <2>5. \A k \in 1 .. 1 : SubSeq(held, i, i)[k] = ks[k]
    BY <1>1, <2>2, <2>4
  <2>6. SubSeq(held, i, i) = ks
    BY <1>2, <1>4, <2>4, <2>5, SeqEqual
  <2>7. QED
    BY <1>2, <2>1, <2>6
<1>5. CASE t \notin DPFTables
  <2>1. KeysAt(t, i) = SubSeq(held, 2 * i - 1, 2 * i)
    <3>1. Len(Parts(t)) = 2
      BY <1>5, PartsAre
    <3>2. (i - 1) * 2 + 1 = 2 * i - 1 /\ i * 2 = 2 * i
      BY <1>1
    <3>3. QED
      BY <1>3, <3>1, <3>2 DEF KeysAt
  <2>2. /\ held[2 * i - 1] = ks[1] /\ 2 * i - 1 \in 1 .. Len(held)
        /\ held[2 * i] = ks[2] /\ 2 * i \in 1 .. Len(held)
    BY <1>1, <1>2, <1>3, <1>5 DEF Brought
  <2>3. \A k \in 2 * i - 1 .. 2 * i : held[k] \in KeyType
    BY <1>1, <2>2
  <2>4. /\ SubSeq(held, 2 * i - 1, 2 * i) \in Seq(KeyType)
        /\ Len(SubSeq(held, 2 * i - 1, 2 * i)) = 2
        /\ \A k \in 1 .. 2 : SubSeq(held, 2 * i - 1, 2 * i)[k] = held[2 * i - 1 + k - 1]
    BY <1>1, <2>3, SubSeqProperties
  <2>5. \A k \in 1 .. 2 : SubSeq(held, 2 * i - 1, 2 * i)[k] = ks[k]
    BY <1>1, <2>2, <2>4
  <2>6. SubSeq(held, 2 * i - 1, 2 * i) = ks
    BY <1>2, <1>5, <2>4, <2>5, SeqEqual
  <2>7. QED
    BY <1>2, <2>1, <2>6
<1>6. QED
  BY <1>4, <1>5

-----------------------------------------------------------------------------
(* Types.                                                                  *)

\* An emptied table.
LEMMA Cleared ==
  ASSUME StateInv, NEW t \in Table, key' = ClearKeys(t)
  PROVE  /\ key' \in [Table -> Seq(KeyType)]
         /\ key'[t] = <<>>
         /\ \A u \in Table : u # t => key'[u] = key[u]
<1>1. <<>> \in Seq(KeyType)
  OBVIOUS
<1>2. QED
  BY <1>1 DEF ClearKeys, StateInv

\* A step keeps the types.
LEMMA StateNext == StateInv /\ [Next]_vars => StateInv'
<1> SUFFICES ASSUME StateInv, [Next]_vars
             PROVE  StateInv'
  OBVIOUS
<1>1. CASE Receive
  <2>1. PICK r \in Requests : /\ request' = r /\ r.filters \in Seq(Table)
                             /\ DOMAIN res' = DOMAIN r.filters
    BY <1>1, ConstantsAssumption DEF Receive, Request
  <2>2. /\ sent \in Nat /\ sent < MaxRequests /\ sent' = sent + 1
        /\ next' = 1 /\ pc' = "deserialize" /\ pc = "idle" /\ UNCHANGED <<key, direct>>
    BY <1>1 DEF Receive, StateInv
  <2>3. next' \in 1 .. NumFilters' + 1
    <3>1. Len(request'.filters) \in Nat
      BY <2>1
    <3>2. QED
      BY <2>2, <3>1 DEF NumFilters
  <2>4. sent' \in 0 .. MaxRequests /\ sent' \in 1 .. MaxRequests /\ sent' - 1 = sent
    BY <2>2, ConstantsAssumption
  <2>5. \A t \in Table : direct'[t] <= sent
    BY <2>2 DEF StateInv
  <2>6. key' \in [Table -> Seq(KeyType)] /\ direct' \in [Table -> Nat]
    BY <2>2 DEF StateInv
  <2>7. QED
    BY <2>1, <2>2, <2>3, <2>4, <2>5, <2>6 DEF StateInv
<1>2. CASE DeserializeKey
  <2>1. next \in 1 .. NumFilters /\ NumFilters \in Nat /\ request.filters[next] \in Table
    BY <1>2, FiltersAre DEF DeserializeKey, StateInv
  <2>2. key' \in [Table -> Seq(KeyType)]
    BY <1>2, <2>1, Deserialized
  <2>3. NumFilters' = NumFilters
    BY <1>2 DEF DeserializeKey, NumFilters
  <2>4. QED
    BY <1>2, <2>1, <2>2, <2>3 DEF DeserializeKey, StateInv
<1>3. CASE EvalFirst
  <2>1. Last \in Table
    BY <1>3, FiltersAre DEF EvalFirst
  <2>2. PICK d \in [Table -> Nat] : d = direct
    BY DEF StateInv
  <2>3. /\ pc = "deserialize" /\ pc' = "answered" /\ UNCHANGED <<sent, request, next, key>>
        /\ direct' = [d EXCEPT ![Last] = d[Last] + 1]
    BY <1>3, <2>2 DEF EvalFirst
  <2>4. NumFilters' = NumFilters
    BY <2>3 DEF NumFilters
  <2>5. direct' \in [Table -> Nat] /\ \A t \in Table : direct'[t] <= d[t] + 1
    BY <2>1, <2>2, <2>3
  <2>6. sent \in Nat /\ \A t \in Table : d[t] <= sent - 1
    BY <2>2, <2>3, ConstantsAssumption DEF StateInv
  <2>7. \A t \in Table : direct'[t] <= sent
    BY <2>2, <2>5, <2>6
  <2>8. QED
    BY <2>3, <2>4, <2>5, <2>7 DEF StateInv
<1>4. CASE EvalTable
  <2>1. Last \in Table
    BY <1>4, FiltersAre DEF EvalTable
  <2>2. key' \in [Table -> Seq(KeyType)]
    BY <1>4, <2>1, Cleared DEF EvalTable
  <2>3. /\ pc = "deserialize" /\ pc' = "answered" /\ UNCHANGED <<sent, request, next, direct>>
        /\ NumFilters' = NumFilters
    BY <1>4 DEF EvalTable, NumFilters
  <2>4. sent \in Nat /\ \A t \in Table : direct[t] \in Nat /\ direct[t] <= sent
    BY <2>3, ConstantsAssumption DEF StateInv
  <2>5. QED
    BY <2>2, <2>3, <2>4 DEF StateInv
<1>5. CASE EvalBeyond
  <2>1. /\ pc = "deserialize" /\ pc' = "undefined"
        /\ UNCHANGED <<sent, request, next, key, direct>> /\ NumFilters' = NumFilters
    BY <1>5 DEF EvalBeyond, NumFilters
  <2>2. sent \in Nat /\ \A t \in Table : direct[t] \in Nat /\ direct[t] <= sent
    BY <2>1, ConstantsAssumption DEF StateInv
  <2>3. QED
    BY <2>1, <2>2 DEF StateInv
<1>6. CASE Answer
  BY <1>6 DEF Answer, StateInv, NumFilters
<1>7. ASSUME NEW t \in Table, AddTable(t)
      PROVE  StateInv'
  BY <1>7 DEF AddTable, ClearKeys, StateInv, NumFilters
<1>8. CASE UNCHANGED vars
  BY <1>8 DEF vars, StateInv, NumFilters
<1>9. QED
  BY <1>1, <1>2, <1>3, <1>4, <1>5, <1>6, <1>7, <1>8 DEF Next

\* A key goes where the keys of its part are.
LEMMA KindNext == StateInv /\ KindInv /\ [Next]_vars => KindInv'
<1> SUFFICES ASSUME StateInv, KindInv, [Next]_vars
             PROVE  KindInv'
  OBVIOUS
<1>1. ASSUME NEW t \in Table, key' = ClearKeys(t)
      PROVE  KindInv'
  <2>1. OfKind(t, <<>>)
    BY DEF OfKind
  <2>2. QED
    BY <1>1, <2>1, Cleared DEF KindInv
<1>2. CASE key' = key
  BY <1>2 DEF KindInv
<1>3. CASE DeserializeKey
  <2>1. PICK t \in Table : t = request.filters[next]
    BY <1>3, FiltersAre DEF DeserializeKey, StateInv
  <2>2. \A u \in Table : u # t => OfKind(u, key'[u])
    BY <1>3, <2>1, Deserialized DEF KindInv
  <2>3. OfKind(t, key'[t])
    <3>1. PICK len \in Nat : len = Len(key[t])
      BY <1>3, <2>1, Deserialized
    <3>2. \A k \in 1 .. len : key'[t][k] = key[t][k]
      BY <1>3, <2>1, <3>1, Deserialized
    <3>3. CASE t \in DPFTables
      <4>1. Len(key'[t]) = len + 1 /\ key'[t][len + 1].part = "point"
        BY <1>3, <2>1, <3>1, <3>3, Deserialized
      <4>2. QED
        <5>1. \A k \in 1 .. len + 1 : k \in 1 .. len \/ k = len + 1
          OBVIOUS
        <5>2. \A k \in 1 .. len : key[t][k].part = "point"
          BY <3>1, <3>3 DEF KindInv, OfKind
        <5>3. \A k \in 1 .. len + 1 : key'[t][k].part = "point"
          BY <3>2, <4>1, <5>1, <5>2
        <5>4. QED
          BY <3>3, <4>1, <5>3 DEF OfKind
    <3>4. CASE t \notin DPFTables
      <4>1. Len(key'[t]) = len + 2 /\ key'[t][len + 1].part = "left"
              /\ key'[t][len + 2].part = "right"
        BY <1>3, <2>1, <3>1, <3>4, Deserialized
      <4>2. len % 2 = 0 /\ \A k \in 1 .. len :
              key[t][k].part = IF k % 2 = 1 THEN "left" ELSE "right"
        BY <3>1, <3>4 DEF KindInv, OfKind
      <4>3. (len + 1) % 2 = 1 /\ (len + 2) % 2 = 0
        BY <4>2
      <4>4. \A k \in 1 .. len + 2 : k \in 1 .. len \/ k = len + 1 \/ k = len + 2
        OBVIOUS
      <4>5. \A k \in 1 .. len + 2 :
              key'[t][k].part = IF k % 2 = 1 THEN "left" ELSE "right"
        BY <3>2, <4>1, <4>2, <4>3, <4>4
      <4>6. QED
        BY <3>4, <4>1, <4>3, <4>5 DEF OfKind
    <3>5. QED
      BY <3>3, <3>4
  <2>4. QED
    BY <2>2, <2>3 DEF KindInv
<1>4. StateInv /\ EvalTable => Last \in Table
  BY FiltersAre DEF EvalTable
<1>5. QED
  BY <1>1, <1>2, <1>3, <1>4
  DEF Next, Receive, EvalFirst, EvalTable, EvalBeyond, Answer, AddTable, vars

\* The variables keep their types, and no table ever gets a key of the other kind.
THEOREM TypeCorrect == Spec => []TypeOK
<1>1. Init => StateInv /\ KindInv
  BY ConstantsAssumption DEF Init, StateInv, KindInv, OfKind, NoRequest, NumFilters
<1>2. StateInv /\ KindInv /\ [Next]_vars => StateInv' /\ KindInv'
  BY StateNext, KindNext
<1>3. StateInv /\ KindInv => TypeOK
  <2> SUFFICES ASSUME StateInv, KindInv
               PROVE  TypeOK
    OBVIOUS
  <2>1. ASSUME NEW t \in Table, NEW k \in DOMAIN key[t]
        PROVE  /\ key[t][k] \in KeyType
               /\ key[t][k].part = Parts(t)[((k - 1) % Len(Parts(t))) + 1]
    <3>1. k \in 1 .. Len(key[t]) /\ k \in Nat /\ key[t][k] \in KeyType
      BY DEF StateInv
    <3>2. CASE t \in DPFTables
      <4>1. (k - 1) % 1 = 0 /\ Parts(t)[1] = "point" /\ Len(Parts(t)) = 1
        BY <3>1, <3>2, PartsAre
      <4>2. key[t][k].part = "point"
        BY <3>1, <3>2 DEF KindInv, OfKind
      <4>3. QED
        BY <3>1, <4>1, <4>2
    <3>3. CASE t \notin DPFTables
      <4>1. Parts(t)[1] = "left" /\ Parts(t)[2] = "right" /\ Len(Parts(t)) = 2
        BY <3>3, PartsAre
      <4>2. key[t][k].part = IF k % 2 = 1 THEN "left" ELSE "right"
        BY <3>1, <3>3 DEF KindInv, OfKind
      <4>3. ((k - 1) % 2) + 1 = IF k % 2 = 1 THEN 1 ELSE 2
        BY <3>1
      <4>4. QED
        BY <3>1, <4>1, <4>2, <4>3
    <3>4. QED
      BY <3>2, <3>3
  <2>2. direct \in [Table -> 0 .. MaxRequests]
    BY ConstantsAssumption DEF StateInv
  <2>3. QED
    BY <2>1, <2>2 DEF TypeOK, StateInv
<1>4. QED
  BY <1>1, <1>2, <1>3, PTL DEF Spec

-----------------------------------------------------------------------------
(* The keys of the request at hand.                                        *)

\* The table of the base filter whose key is read is the table that is evaluated.
LEMMA SameTable ==
  ASSUME OneTableEach, StateInv, pc # "idle", NEW f \in 1 .. NumFilters
  PROVE  request.filters[f] = Last
  BY FiltersAre DEF OneTableEach, StateInv, Last

\* A step keeps it so: what it reads goes behind the keys of the same request.
LEMMA OwnKeysNext ==
  ASSUME OneTableEach, StateInv, OwnKeys, [Next]_vars
  PROVE  OwnKeys'
<1>a. direct \in [Table -> Nat] /\ key \in [Table -> Seq(KeyType)] /\ next \in Nat
  BY FiltersAre DEF StateInv, NumFilters, NoRequest
<1>1. CASE Receive
  <2>1. /\ pc = "idle" /\ pc' = "deserialize" /\ next' = 1 /\ UNCHANGED <<key, direct>>
    BY <1>1 DEF Receive
  <2>2. \A t \in Table : Brought(<<>>, t, sent', 1)
    BY DEF Brought
  <2>3. \A t \in Table : Fresh(t)' => key'[t] = <<>>
    BY <2>1 DEF OwnKeys, Filling, Fresh
  <2>4. QED
    BY <2>1, <2>2, <2>3 DEF OwnKeys
<1>2. CASE DeserializeKey
  <2>1. PICK t \in Table : t = request.filters[next] /\ t = Last
    BY <1>2, FiltersAre, SameTable DEF DeserializeKey, StateInv
  <2>2. /\ pc = "deserialize" /\ UNCHANGED <<sent, request, pc, direct>> /\ next' = next + 1
    BY <1>2 DEF DeserializeKey
  <2>3. Last' = Last
    BY <2>2 DEF Last, NumFilters
  <2>4. ASSUME Fresh(t)
        PROVE  Brought(key'[t], t, sent, next + 1)
    <3>1. Brought(key[t], t, sent, next)
      BY <2>1, <2>2, <2>4 DEF OwnKeys, Filling
    <3>2. PICK old \in Seq(KeyType), new \in Seq(KeyType) : old = key[t] /\ new = key'[t]
      BY <1>2, <1>a, <2>1, Deserialized
    <3>3. \A k \in 1 .. Len(old) : new[k] = old[k]
      BY <1>2, <2>1, <3>2, Deserialized
    <3>4. \A f \in 1 .. next + 1 - 1 : f \in 1 .. next - 1 \/ f = next
      BY <1>a
    <3>5. CASE t \in DPFTables
      <4>1. Len(old) = next - 1 /\ \A f \in 1 .. next - 1 :
              old[f] = [req |-> sent, filter |-> f, part |-> "point"]
        BY <3>1, <3>2, <3>5 DEF Brought
      <4>2. Len(new) = next /\ new[next] = [req |-> sent, filter |-> next, part |-> "point"]
        BY <1>2, <1>a, <2>1, <3>2, <3>5, <4>1, Deserialized
      <4>3. \A f \in 1 .. next + 1 - 1 : new[f] = [req |-> sent, filter |-> f, part |-> "point"]
        BY <1>a, <3>3, <3>4, <4>1, <4>2
      <4>4. QED
        BY <1>a, <3>2, <3>5, <4>2, <4>3 DEF Brought
    <3>6. CASE t \notin DPFTables
      <4>1. Len(old) = 2 * (next - 1) /\ \A f \in 1 .. next - 1 :
              /\ old[2 * f - 1] = [req |-> sent, filter |-> f, part |-> "left"]
              /\ old[2 * f] = [req |-> sent, filter |-> f, part |-> "right"]
        BY <3>1, <3>2, <3>6 DEF Brought
      <4>2. /\ Len(new) = Len(old) + 2
            /\ new[Len(old) + 1] = [req |-> sent, filter |-> next, part |-> "left"]
            /\ new[Len(old) + 2] = [req |-> sent, filter |-> next, part |-> "right"]
        BY <1>2, <2>1, <3>2, <3>6, Deserialized
      <4>3. /\ Len(new) = 2 * next /\ Len(old) + 1 = 2 * next - 1 /\ Len(old) + 2 = 2 * next
        BY <1>a, <4>1, <4>2
      <4>4. \A f \in 1 .. next - 1 : 2 * f - 1 \in 1 .. Len(old) /\ 2 * f \in 1 .. Len(old)
        BY <1>a, <4>1
      <4>5. \A f \in 1 .. next + 1 - 1 :
              /\ new[2 * f - 1] = [req |-> sent, filter |-> f, part |-> "left"]
              /\ new[2 * f] = [req |-> sent, filter |-> f, part |-> "right"]
        BY <3>3, <3>4, <4>1, <4>2, <4>3, <4>4
      <4>6. QED
        BY <1>a, <3>2, <3>6, <4>3, <4>5 DEF Brought
    <3>7. QED
      BY <3>5, <3>6
  <2>5. ASSUME NEW u \in Table, u # t, Fresh(u)
        PROVE  key'[u] = <<>>
    BY <1>2, <2>1, <2>2, <2>5, Deserialized DEF OwnKeys, Filling
  <2>6. QED
    BY <2>1, <2>2, <2>3, <2>4, <2>5 DEF OwnKeys, Filling, Fresh
<1>3. CASE EvalFirst
  <2>1. Last \in Table /\ pc = "deserialize" /\ pc' = "answered" /\ key' = key
    BY <1>3, FiltersAre DEF EvalFirst
  <2>2. ~Fresh(Last)'
    <3>1. direct'[Last] = direct[Last] + 1 /\ direct[Last] \in Nat
      BY <1>a, <1>3, <2>1 DEF EvalFirst
    <3>2. Last' = Last
      BY <1>3 DEF EvalFirst, Last, NumFilters
    <3>3. QED
      BY <3>1, <3>2 DEF Fresh
  <2>3. \A u \in Table : u # Last => direct'[u] = direct[u]
    BY <1>a, <1>3 DEF EvalFirst
  <2>4. Last' = Last
    BY <1>3 DEF EvalFirst, Last, NumFilters
  <2>5. QED
    BY <2>1, <2>2, <2>3, <2>4 DEF OwnKeys, Filling, Fresh
<1>4. CASE EvalTable
  <2>1. Last \in Table /\ pc = "deserialize" /\ pc' = "answered" /\ direct' = direct
    BY <1>4, FiltersAre DEF EvalTable
  <2>2. key'[Last] = <<>> /\ \A u \in Table : u # Last => key'[u] = key[u]
    BY <1>4, <2>1, Cleared DEF EvalTable
  <2>3. QED
    BY <2>1, <2>2 DEF OwnKeys, Filling, Fresh
<1>5. CASE EvalBeyond
  BY <1>5 DEF EvalBeyond, OwnKeys, Filling
<1>6. CASE Answer
  BY <1>6 DEF Answer, OwnKeys, Filling, Fresh
<1>7. ASSUME NEW t \in Table, AddTable(t)
      PROVE  OwnKeys'
  <2>1. pc = "idle" /\ pc' = "idle"
    BY <1>7 DEF AddTable
  <2>2. key'[t] = <<>> /\ \A u \in Table : u # t => key'[u] = key[u] /\ direct'[u] = direct[u]
    BY <1>a, <1>7 DEF AddTable, ClearKeys
  <2>3. QED
    BY <2>1, <2>2 DEF OwnKeys, Filling, Fresh
<1>8. CASE UNCHANGED vars
  BY <1>8 DEF vars, OwnKeys, Filling, Fresh, Last, NumFilters
<1>9. QED
  BY <1>1, <1>2, <1>3, <1>4, <1>5, <1>6, <1>7, <1>8 DEF Next

\* A table that holds the keys of the request is evaluated once for each base filter.
LEMMA AsManyEvals ==
  ASSUME StateInv, pc # "idle", Brought(key[Last], Last, sent, NumFilters + 1)
  PROVE  NumEvals(Last) = NumFilters
<1>1. NumFilters \in Nat /\ Last \in Table
  BY FiltersAre
<1>2. CASE Last \in DPFTables
  <2>1. Len(key[Last]) = NumFilters /\ Len(Parts(Last)) = 1
    BY <1>1, <1>2, PartsAre DEF Brought
  <2>2. QED
    BY <1>1, <2>1 DEF NumEvals
<1>3. CASE Last \notin DPFTables
  <2>1. Len(key[Last]) = 2 * NumFilters /\ Len(Parts(Last)) = 2
    BY <1>1, <1>3, PartsAre DEF Brought
  <2>2. QED
    BY <1>1, <2>1 DEF NumEvals
<1>4. QED
  BY <1>2, <1>3

\* When all its keys are read, a table without left-over keys holds those of the request.
LEMMA AllBrought ==
  ASSUME StateInv, OwnKeys, pc = "deserialize", next > NumFilters, Fresh(Last)
  PROVE  Brought(key[Last], Last, sent, NumFilters + 1)
<1>1. NumFilters \in Nat /\ Last \in Table
  BY FiltersAre
<1>2. next = NumFilters + 1
  BY <1>1 DEF StateInv
<1>3. QED
  BY <1>1, <1>2 DEF OwnKeys, Filling

\* The answer that is given is computed from the keys of the request.
LEMMA AnsweredNext ==
  ASSUME OneTableEach, StateInv, OwnKeys, FreshAnswered, [Next]_vars
  PROVE  FreshAnswered'
<1>a. ASSUME UNCHANGED <<sent, request>>
      PROVE  Last' = Last /\ \A f : KeysOf(f)' = KeysOf(f)
  BY <1>a DEF Last, NumFilters, KeysOf
<1>1. CASE EvalFirst
  <2> SUFFICES ASSUME direct'[Last] = 1, NEW f \in DOMAIN request.filters
               PROVE  res'[f] = KeysOf(f)
    BY <1>a, <1>1 DEF EvalFirst, FreshAnswered, Answered
  <2>1. /\ pc = "deserialize" /\ next > NumFilters /\ request.rpc = "DCFQuery"
        /\ res' = [g \in {1} |-> KeysAt(Last, 1)]
        /\ direct' = [direct EXCEPT ![Last] = @ + 1]
    BY <1>1 DEF EvalFirst
  <2>2. f = 1 /\ NumFilters \in Nat /\ 1 \in 1 .. NumFilters /\ Last \in Table
    <3>1. request.filters \in [{1} -> DCFTables]
      BY <2>1, ConstantsAssumption DEF StateInv
    <3>2. QED
      BY <2>1, <3>1, FiltersAre
  <2>3. Fresh(Last)
    <3>1. direct[Last] \in Nat /\ direct'[Last] = direct[Last] + 1
      BY <2>1, <2>2 DEF StateInv
    <3>2. QED
      BY <3>1 DEF Fresh
  <2>4. Brought(key[Last], Last, sent, NumFilters + 1)
    BY <2>1, <2>3, AllBrought
  <2>5. request.filters[1] = Last
    BY <2>1, <2>2, SameTable
  <2>6. KeysAt(Last, 1) = KeysOf(1)
    <3>1. NumFilters + 1 \in 1 .. NumFilters + 1 /\ 1 \in 1 .. (NumFilters + 1) - 1
      BY <2>2
    <3>2. QED
      BY <2>1, <2>2, <2>4, <2>5, <3>1, KeysPicked
  <2>7. QED
    BY <2>1, <2>2, <2>6
<1>2. CASE EvalTable
  <2> SUFFICES ASSUME direct[Last] = 0, NEW f \in DOMAIN request.filters
               PROVE  res'[f] = KeysOf(f)
    <3>1. UNCHANGED <<sent, request, direct>>
      BY <1>2 DEF EvalTable
    <3>2. request.rpc # "DCFQuery"
      BY <1>2 DEF EvalTable
    <3>3. QED
      BY <1>a, <3>1, <3>2 DEF FreshAnswered, Answered
  <2>1. /\ pc = "deserialize" /\ next > NumFilters
        /\ res' = [g \in DOMAIN res |-> IF g <= NumEvals(Last) THEN KeysAt(Last, g) ELSE Nothing]
    BY <1>2 DEF EvalTable
  <2>2. f \in 1 .. NumFilters /\ NumFilters \in Nat /\ Last \in Table /\ f \in DOMAIN res
    BY <2>1, FiltersAre DEF StateInv
  <2>3. Brought(key[Last], Last, sent, NumFilters + 1)
    BY <2>1, AllBrought DEF Fresh
  <2>4. NumEvals(Last) = NumFilters
    BY <2>1, <2>3, AsManyEvals
  <2>5. request.filters[f] = Last
    BY <2>1, <2>2, SameTable
  <2>6. KeysAt(Last, f) = KeysOf(f)
    <3>1. NumFilters + 1 \in 1 .. NumFilters + 1 /\ f \in 1 .. (NumFilters + 1) - 1
      BY <2>2
    <3>2. QED
      BY <2>1, <2>2, <2>3, <2>5, <3>1, KeysPicked
  <2>7. QED
    BY <2>1, <2>2, <2>4, <2>6
<1>3. CASE pc' # "answered"
  BY <1>3 DEF FreshAnswered
<1>4. CASE UNCHANGED vars
  BY <1>a, <1>4 DEF vars, FreshAnswered, Answered
<1>5. ASSUME NEW t \in Table, AddTable(t)
      PROVE  pc' # "answered"
  BY <1>5 DEF AddTable
<1>6. Receive \/ DeserializeKey \/ EvalBeyond \/ Answer => pc' # "answered"
  BY DEF Receive, DeserializeKey, EvalBeyond, Answer
<1>7. QED
  BY <1>1, <1>2, <1>3, <1>4, <1>5, <1>6 DEF Next

\* EvalFilter finds more evaluations than base filters only after a DCFQuery.
LEMMA BoundsNext ==
  ASSUME StateInv, OwnKeys, EvalInBounds, [Next]_vars
  PROVE  EvalInBounds'
<1>1. CASE EvalBeyond
  <2>1. pc = "deserialize" /\ next > NumFilters /\ NumEvals(Last) > NumFilters
    BY <1>1 DEF EvalBeyond
  <2>2. NumFilters \in Nat
    BY <2>1, FiltersAre
  <2>3. ~Fresh(Last)
    BY <2>1, <2>2, AllBrought, AsManyEvals
  <2>4. QED
    BY <1>1, <2>3 DEF EvalBeyond, EvalInBounds, Fresh, Last, NumFilters
<1>2. CASE pc' # "undefined"
  BY <1>2 DEF EvalInBounds
<1>3. CASE UNCHANGED vars
  BY <1>3 DEF vars, EvalInBounds, Fresh, Last, NumFilters
<1>4. ASSUME NEW t \in Table, AddTable(t)
      PROVE  pc' # "undefined"
  BY <1>4 DEF AddTable
<1>5. Receive \/ DeserializeKey \/ EvalFirst \/ EvalTable \/ Answer => pc' # "undefined"
  BY DEF Receive, DeserializeKey, EvalFirst, EvalTable, Answer
<1>6. QED
  BY <1>1, <1>2, <1>3, <1>4, <1>5 DEF Next

-----------------------------------------------------------------------------
(* The theorems.                                                           *)

\* What holds in every reachable state when requests keep to one table.
IInv == StateInv /\ OwnKeys /\ FreshAnswered /\ EvalInBounds

\* It is inductive.
LEMMA Invariance ==
  ASSUME OneTableEach
  PROVE  Spec => []IInv
<1>1. Init => IInv
  <2> SUFFICES ASSUME Init
               PROVE  IInv
    OBVIOUS
  <2>1. StateInv
    BY ConstantsAssumption DEF Init, StateInv, NoRequest, NumFilters
  <2>2. OwnKeys /\ FreshAnswered /\ EvalInBounds
    BY DEF Init, OwnKeys, Filling, FreshAnswered, EvalInBounds
  <2>3. QED
    BY <2>1, <2>2 DEF IInv
<1>2. IInv /\ [Next]_vars => IInv'
  BY StateNext, OwnKeysNext, AnsweredNext, BoundsNext DEF IInv
<1>3. QED
  BY <1>1, <1>2, PTL DEF Spec

\* If the base filters of a request are over one table, as in the tests, an aggregate
\* query leaves no key behind in a table that no DCFQuery was sent to.
THEOREM Consumed == OneTableEach => (Spec => []KeysConsumed)
<1> SUFFICES ASSUME OneTableEach
             PROVE  Spec => []KeysConsumed
  OBVIOUS
<1>1. IInv => KeysConsumed
  BY DEF IInv, OwnKeys, Filling, KeysConsumed
<1>2. QED
  BY <1>1, Invariance, PTL

\* Under the same premise aggregate queries on such a table, and the first DCFQuery on a
\* table, are answered from the keys they brought.
THEOREM AnsweredFresh == OneTableEach => (Spec => []FreshAnswered)
<1> SUFFICES ASSUME OneTableEach
             PROVE  Spec => []FreshAnswered
  OBVIOUS
<1>1. IInv => FreshAnswered
  BY DEF IInv
<1>2. QED
  BY <1>1, Invariance, PTL

\* Under the same premise the threads of EvalFilter write beyond the results only in a
\* table that a DCFQuery left keys in.
THEOREM InBounds == OneTableEach => (Spec => []EvalInBounds)
<1> SUFFICES ASSUME OneTableEach
             PROVE  Spec => []EvalInBounds
  OBVIOUS
<1>1. IInv => EvalInBounds
  BY DEF IInv
<1>2. QED
  BY <1>1, Invariance, PTL

\* A client that sends no DCFQuery, and keeps every request to one table, gets from each
\* base filter the result of its own keys: FiltersAnswered fails because of DCFQuery only.
THEOREM AnsweredWithoutRange ==
  OneTableEach /\ (\A r \in Requests : r.rpc = "AggQuery") => (Spec => []FiltersAnswered)
<1> SUFFICES ASSUME OneTableEach, \A r \in Requests : r.rpc = "AggQuery"
             PROVE  Spec => []FiltersAnswered
  OBVIOUS
<1> DEFINE AllFresh == \A t \in Table : Fresh(t)
<1>1. Init => AllFresh
  BY DEF Init, Fresh
<1>2. IInv /\ AllFresh /\ [Next]_vars => AllFresh'
  <2> SUFFICES ASSUME IInv, AllFresh, [Next]_vars
               PROVE  AllFresh'
    OBVIOUS
  <2>1. direct \in [Table -> Nat]
    BY DEF IInv, StateInv
  <2>2. ~EvalFirst
    BY DEF IInv, StateInv, EvalFirst
  <2>3. ASSUME NEW t \in Table, AddTable(t)
        PROVE  AllFresh'
    BY <2>1, <2>3 DEF AddTable, Fresh
  <2>4. CASE direct' = direct
    BY <2>4 DEF Fresh
  <2>5. QED
    BY <2>2, <2>3, <2>4
    DEF Next, vars, Receive, DeserializeKey, EvalTable, EvalBeyond, Answer
<1>3. IInv /\ AllFresh => FiltersAnswered
  <2> SUFFICES ASSUME IInv, AllFresh, pc = "answered"
               PROVE  \A f \in DOMAIN request.filters : Answered(f)
    BY DEF FiltersAnswered
  <2>1. Last \in Table /\ request.rpc = "AggQuery"
    BY FiltersAre DEF IInv, StateInv
  <2>2. direct[Last] = 0
    BY <2>1 DEF Fresh
  <2>3. QED
    BY <2>1, <2>2 DEF IInv, FreshAnswered
<1>4. QED
  BY <1>1, <1>2, <1>3, Invariance, PTL DEF Spec
=============================================================================
