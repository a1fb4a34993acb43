-------------------------------- MODULE Fss ---------------------------------
(***************************************************************************)
(* The function secret sharing schemes of PredEval: key generation by the  *)
(* client and evaluation by the two parties of the point function (DPF)    *)
(* and of the comparison function (DCF).  A block is a seed and the bit t  *)
(* in its lowest place; AES under the fixed keys 0..3, xored with its      *)
(* input, is any function from seeds.                                      *)
(***************************************************************************)
EXTENDS Integers, Sequences, FiniteSets

CONSTANTS Depth,     \* levels of the tree below the root
          Word,      \* 2^128 in the code: uint128_t wraps
          Modulus,   \* 2^125 in the code: group_mod
          SeedBits,  \* the places of a seed, bits 2..127 in the code
          Expand,    \* Expand[s][side]: child block of seed s, AES keys 0 and 1
          ConvertV,  \* ConvertV[s][side]: value of a child, AES keys 2 and 3
          Convert    \* Convert[s]: a seed read as a number

Side == {0, 1}
Party == {0, 1}
Seed == SUBSET SeedBits
Block == [s : Seed, t : {0, 1}]
Number == 0 .. Word - 1
NumLeaves == 2 ^ Depth

\* Word is a multiple of Modulus: wrapping first does not disturb the residue.
ASSUME FssAssumption ==
  /\ Depth \in Nat \ {0}
  /\ Modulus \in Nat \ {0} /\ Word \in Nat \ {0} /\ Word % Modulus = 0
  /\ Expand \in [Seed -> [Side -> Block]]
  /\ ConvertV \in [Seed -> [Side -> Number]]
  /\ Convert \in [Seed -> Number]

Reduced(n) == (n % Word) % Modulus

Xor(a, b) == (a \ b) \cup (b \ a)

\* keep: the bit of index x that chooses the child at the given level, 1..Depth.
KeepBit(x, level) == (x \div 2 ^ (Depth - level)) % 2

\* The bit t of the second party decides the sign of the correction values.
SignOf(t) == IF t = 1 THEN -1 ELSE 1

PartySign(p) == IF p = 1 THEN -1 ELSE 1

-----------------------------------------------------------------------------
\* The tree that both schemes walk.

\* Mutant of CorrectionWord: the seeds on the path are corrected.
CorrectKept(b, keep) ==
  LET child(p, side) == Expand[b[p].s][side]
  IN  [s |-> Xor(child(0, keep).s, child(1, keep).s),
       t |-> [side \in Side |->
                (child(0, side).t + child(1, side).t + keep + (1 - side)) % 2]]

\* The correction word of a level: it makes the blocks off the path equal, and
\* the bits t differ on the path only.
CorrectionWord(b, keep) ==
  LET child(p, side) == Expand[b[p].s][side]
  IN  [s |-> Xor(child(0, 1 - keep).s, child(1, 1 - keep).s),
       t |-> [side \in Side |->
                (child(0, side).t + child(1, side).t + keep + (1 - side)) % 2]]

\* One step down: the child block, corrected when t is set.
TraverseOne(b, cw, keep) ==
  LET tau == Expand[b.s][keep]
  IN  IF b.t = 0 THEN tau
      ELSE [s |-> Xor(tau.s, cw.s), t |-> (tau.t + cw.t[keep]) % 2]

\* The two root blocks: the bit t of the first is made the opposite of the other.
Roots(draw) == [p \in Party |-> IF p = 0 THEN [draw[1] EXCEPT !.t = 1 - draw[2].t]
                                ELSE draw[2]]

\* A level of the path: both blocks go down under its correction word.
Descend(up, cw, keep) ==
  [b  |-> [p \in Party |-> TraverseOne(up.b[p], cw, keep)], cw |-> Append(up.cw, cw)]

\* The blocks on the path to x after each level, and its correction words.
Path(x, draw) ==
  LET level[i \in 0 .. Depth] ==
        IF i = 0 THEN [b |-> Roots(draw), cw |-> <<>>]
        ELSE Descend(level[i - 1], CorrectionWord(level[i - 1].b, KeepBit(x, i)), KeepBit(x, i))
  IN  level

\* What a party is given: its root and the correction words, and the values.
KeyPair(path, v) ==
  [p \in Party |-> [k |-> <<path[0].b[p]>> \o path[Depth].cw, v |-> v]]

-----------------------------------------------------------------------------
\* The point function: payload at x, zero elsewhere.

\* The correction value, from the blocks at the leaf of x.
LeafCorrection(leaf, payload) ==
  Reduced(SignOf(leaf[1].t) * (payload - Convert[leaf[0].s] + Convert[leaf[1].s]))

KeysDPF(path, payload) == KeyPair(path, <<LeafCorrection(path[Depth].b, payload)>>)

KeyGenDPF(x, payload, draw) == KeysDPF(Path(x, draw), payload)

\* The share at a leaf.
LeafDPF(b, v, p) == Reduced(PartySign(p) * (Convert[b.s] + b.t * v[1]))

\* Evaluation at one index, from the root to the leaf.
EvalOneDPF(x, key, p) ==
  LET block[i \in 0 .. Depth] ==
        IF i = 0 THEN key.k[1]
        ELSE TraverseOne(block[i - 1], key.k[i + 1], KeepBit(x, i))
  IN  LeafDPF(block[Depth], key.v, p)

\* An array after f is written over g.
Over(f, g) == [i \in (DOMAIN f) \cup (DOMAIN g) |-> IF i \in DOMAIN f THEN f[i] ELSE g[i]]

\* Evaluation of the rows start .. start + range - 1, written from place 0 on.
\* start > end never holds for the ranges of the code; the right child is written
\* after the left one.
ContigEvalDPF(key, p, start, range) ==
  LET node[n \in [b : Block, level : 1 .. Depth + 1, start : Nat, range : Nat, at : Nat]] ==
        IF n.level > Depth THEN <<>>
        ELSE LET b    == TraverseOne(n.b, key.k[n.level + 1], KeepBit(n.start, n.level))
                 half == n.range \div 2
                 down == [n EXCEPT !.b = b, !.level = @ + 1, !.range = half]
                 here == IF n.level = Depth THEN [i \in {n.at} |-> LeafDPF(b, key.v, p)]
                                            ELSE <<>>
                 left == Over(node[down], here)
             IN  IF n.range > 1
                   THEN Over(node[[down EXCEPT !.start = @ + half, !.at = @ + half]], left)
                   ELSE left
      top == [b |-> key.k[1], level |-> 1, start |-> start, range |-> range \div 2, at |-> 0]
  IN  Over(node[[top EXCEPT !.start = @ + range \div 2, !.at = range \div 2]], node[top])

-----------------------------------------------------------------------------
\* The comparison function: payload below x (above x when gt = 1), zero elsewhere.

\* The correction value of a level, from the blocks b above it and the sum alpha
\* of the values on the path so far.
ValueCorrection(b, keep, payload, gt, alpha) ==
  LET sign == SignOf(b[1].t)
      lose == 1 - keep
      v    == Reduced(sign * (ConvertV[b[1].s][lose] - ConvertV[b[0].s][lose] - alpha))
  IN  Reduced(v + sign * (IF keep = 1 THEN 1 - gt ELSE gt) * payload)

\* A level of the values: the sum on the path after it, and the value itself.
AddValue(up, b, keep, v) ==
  [alpha |-> Reduced(up.alpha - ConvertV[b[1].s][keep] + ConvertV[b[0].s][keep]
                       + SignOf(b[1].t) * v),
   v     |-> Append(up.v, v)]

ValuesDCF(path, x, payload, gt) ==
  LET level[i \in 0 .. Depth] ==
        IF i = 0 THEN [alpha |-> 0, v |-> <<>>]
        ELSE AddValue(level[i - 1], path[i - 1].b, KeepBit(x, i),
                      ValueCorrection(path[i - 1].b, KeepBit(x, i), payload, gt,
                                      level[i - 1].alpha))
  IN  level[Depth]

\* The correction value at the leaf of x, from the blocks there.
LastValue(leaf, alpha) ==
  Reduced(SignOf(leaf[1].t) * (Convert[leaf[1].s] - Convert[leaf[0].s] - alpha))

KeysDCF(path, values) ==
  KeyPair(path, Append(values.v, LastValue(path[Depth].b, values.alpha)))

KeyGenDCF(x, payload, gt, draw) ==
  LET path == Path(x, draw) IN KeysDCF(path, ValuesDCF(path, x, payload, gt))

\* What a level adds to the share of a party: from the block b above it.
AddLevel(acc, b, v, keep, level, p) ==
  Reduced(acc + PartySign(p) * (ConvertV[b.s][keep] + b.t * v[level]))

AddLeaf(acc, b, v, p) ==
  Reduced(acc + PartySign(p) * (Convert[b.s] + b.t * v[Depth + 1]))

EvalOneDCF(x, key, p) ==
  LET walk[i \in 0 .. Depth] ==
        IF i = 0 THEN [b |-> key.k[1], acc |-> 0]
        ELSE LET up == walk[i - 1]
             IN  [b   |-> TraverseOne(up.b, key.k[i + 1], KeepBit(x, i)),
                  acc |-> AddLevel(up.acc, up.b, key.v, KeepBit(x, i), i, p)]
  IN  AddLeaf(walk[Depth].acc, walk[Depth].b, key.v, p)

\* As ContigEvalDPF; the share accumulates on the way down.
ContigEvalDCF(key, p, start, range) ==
  LET node[n \in [b : Block, acc : Number, level : 1 .. Depth + 1,
                  start : Nat, range : Nat, at : Nat]] ==
        IF n.level > Depth THEN <<>>
        ELSE LET keep == KeepBit(n.start, n.level)
                 b    == TraverseOne(n.b, key.k[n.level + 1], keep)
                 acc  == AddLevel(n.acc, n.b, key.v, keep, n.level, p)
                 half == n.range \div 2
                 down == [n EXCEPT !.b = b, !.acc = acc, !.level = @ + 1, !.range = half]
                 here == IF n.level = Depth THEN [i \in {n.at} |-> AddLeaf(acc, b, key.v, p)]
                                            ELSE <<>>
                 left == Over(node[down], here)
             IN  IF n.range > 1
                   THEN Over(node[[down EXCEPT !.start = @ + half, !.at = @ + half]], left)
                   ELSE left
      top == [b |-> key.k[1], acc |-> 0, level |-> 1,
              start |-> start, range |-> range \div 2, at |-> 0]
  IN  Over(node[[top EXCEPT !.start = @ + range \div 2, !.at = range \div 2]], node[top])

\* Evaluation of the whole domain, one index after the other.
FullDomainDCF(key, p) == [x \in 0 .. NumLeaves - 1 |-> EvalOneDCF(x, key, p)]

=============================================================================
