----------------------------- MODULE MCFssTable -----------------------------
\* A small instance of FssTable: eight rows, four seeds, numbers of three bits
\* that mean their residue modulo 4.
EXTENDS FssTable

MCSeedBits == {1, 2}

Num(s) == Total([b \in s |-> b], s)
Bits(n) == {b \in MCSeedBits : (n \div b) % 2 = 1}

\* Arbitrary functions of a seed, in the place of AES.
MCExpand == [i \in SUBSET MCSeedBits |-> [side \in {0, 1} |->
  LET at(tables) == tables[side + 1][Num(i) + 1]
  IN  [s |-> Bits(at(<< <<2, 3, 3, 0>>, <<1, 0, 2, 2>> >>)),
       t |-> at(<< <<0, 1, 1, 0>>, <<1, 1, 0, 1>> >>)]]]

MCConvertV == [i \in SUBSET MCSeedBits |-> [side \in {0, 1} |->
  << <<3, 6, 1, 0>>, <<7, 2, 2, 5>> >>[side + 1][Num(i) + 1]]]

MCConvert == [s \in SUBSET MCSeedBits |-> <<5, 2, 7, 4>>[Num(s) + 1]]

Rows8 == 0 .. 7

MCTables == {[r \in Rows8 |-> <<(3 * r * r + r + 1) % 8>>]}

\* One worker or three without threading, two that share the evaluation, six whose
\* last chunk is not balanced, nine that are more than there are rows.
MCSettings == {<<1, FALSE>>, <<1, TRUE>>, <<3, FALSE>>, <<2, TRUE>>, <<6, TRUE>>, <<9, FALSE>>}

\* The ends of the table and of ranges, an empty range, and one range that is not
\* answerable because its right end is the last row.
MCQueries ==
  [kind : {"point"}, x : {0, 5}, alpha : {0, 3}]
  \cup {q \in [kind : {"range"}, left : {1, 4, 7}, right : {0, 2, 6, 7}, alpha : {0, 3}] :
          q.right < q.left \/ (q.left = 1 /\ q.right = 7)}

\* The eight draws of four root pairs go through all pairs of blocks.
MCBlock(n) == [s |-> Bits(n), t |-> (n \div 4) % 2]
MCDraw(i) == [k \in 1 .. 4 |->
  LET m == (7 * (4 * i + k)) % 32 IN <<MCBlock(m), MCBlock(m \div 4)>>]
MCDraws == {MCDraw(i) : i \in {0, 5}}

=============================================================================
