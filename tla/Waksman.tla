------------------------------- MODULE Waksman -------------------------------
(***************************************************************************)
(* The switching network of SecureShuffle.cpp, with as many rows of bits   *)
(* as the network is deep.  A row has a bit for each wire: in a block of m *)
(* wires the first m/2 are the switches at its output, the others those at *)
(* its input; the blocks of two wires have one switch, whose bit is there  *)
(* twice.  Vectors and rows are functions on 0 .. n - 1, n a power of two. *)
(***************************************************************************)
EXTENDS Integers

\* 1 << int(ceil(log2(n)))
Pow2(n) == CHOOSE m \in n .. 2 * n - 1 : \E k \in 0 .. n : m = 2 ^ k

Depth(n) == CHOOSE k \in 0 .. n : 2 ^ k = n

\* Tools/Waksman.h: the first output switch of a block is never set, the last row
\* repeats each bit, and bits that do not matter are zero.
Matters(n, depth, j) == depth = Depth(n) - 1 \/ j % (n \div 2 ^ depth) # 0

IsDouble(n, depth, j) == depth = Depth(n) - 1 /\ j % 2 = 1

Configs(n) ==
  {c \in [0 .. Depth(n) - 1 -> [0 .. n - 1 -> {0, 1}]] :
     \A d \in 0 .. Depth(n) - 1, j \in 0 .. n - 1 :
        /\ ~Matters(n, d, j) => c[d][j] = 0
        /\ IsDouble(n, d, j) => c[d][j] = c[d][j - 1]}

-----------------------------------------------------------------------------
(* The recursive network.                                                  *)

Xor(x, y) == (x + y) % 2

\* waksman at the last depth: where the wire that comes out at v went in.  A block of
\* two wires is one switch.
PairSource(n, row) ==
  [v \in 0 .. n - 1 |-> LET start == v - (v % 2) IN start + Xor(v - start, row[start])]

\* waksman: where the wire that comes out at v went into its block of m wires, which
\* begins at start, from the sources in the halves of the block.  The output pair i is
\* fed by output i of the two halves, and the input pair i feeds their inputs i.
BlockSource(n, m, row, inner) ==
  [v \in 0 .. n - 1 |->
     LET start == v - (v % m)
         w == v - start
         half == Xor(w, row[start + w \div 2])
         other == start + half * (m \div 2)
         i == inner[other + w \div 2] - other
     IN  start + 2 * i + Xor(half, row[start + m \div 2 + i])]

\* The wire that comes out at w went in at Source(n, config)[w].
Source(n, config) ==
  LET last == Depth(n) - 1
      from[d \in 0 .. last] ==
        IF d = last THEN PairSource(n, config[d])
        ELSE BlockSource(n, n \div 2 ^ d, config[d], from[d + 1])
  IN  IF n = 1 THEN [w \in 0 .. 0 |-> 0] ELSE from[0]

\* Tools/Waksman.h configures a permutation by the bits that make the network take
\* output w from input perm[w]: that is what inverse_permutation needs.
Configure(n, perm) == CHOOSE c \in Configs(n) : Source(n, c) = perm

-----------------------------------------------------------------------------
(* The network as it is run, round by round.                               *)

\* i_bit
BitOf(size, base, j, inwards, reverse) == base + j + IF inwards = reverse THEN size ELSE 0

\* The wires of switch k of a round, and its bit.
Switch(n, depth, inwards, reverse, k) ==
  LET size == n \div 2 ^ (depth + 1)
      j == k % size
      base == 2 * (k \div size) * size
  IN  [near |-> base + j, far |-> base + j + size,
       left |-> base + 2 * j, right |-> base + 2 * j + 1,
       bit |-> BitOf(size, base, j, inwards, reverse)]

\* One round: an inwards round takes neighbours apart into the two halves of the
\* block, an outwards round brings them together.
WaksmanRound(n, config, depth, inwards, reverse, x) ==
  LET switches == {Switch(n, depth, inwards, reverse, k) : k \in 0 .. n \div 2 - 1}
      Out(s, first) ==
        LET swap == Matters(n, depth, s.bit) /\ config[depth][s.bit] = 1
        IN  IF inwards THEN x[IF first # swap THEN s.left ELSE s.right]
            ELSE x[IF first # swap THEN s.near ELSE s.far]
      First(s) == IF inwards THEN s.near ELSE s.left
      Second(s) == IF inwards THEN s.far ELSE s.right
  IN  [w \in 0 .. n - 1 |->
         LET s == CHOOSE u \in switches : w \in {First(u), Second(u)}
         IN  Out(s, w = First(s))]

\* iter_waksman: inwards through all rows, outwards through all but the last.
IterWaksman(n, config, reverse, x) ==
  LET last == Depth(n) - 1
      in[d \in 0 .. last] ==
        WaksmanRound(n, config, d, TRUE, reverse, IF d = 0 THEN x ELSE in[d - 1])
      out[d \in 0 .. last - 1] ==
        WaksmanRound(n, config, d, FALSE, reverse,
                     IF d = last - 1 THEN in[last] ELSE out[d + 1])
  IN  IF n = 1 THEN x ELSE IF last = 0 THEN in[0] ELSE out[0]
=============================================================================
