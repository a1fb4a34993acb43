----------------------------- MODULE FssProofs ------------------------------
(***************************************************************************)
(* Why the two schemes are right on every row, for every PRG, depth, point *)
(* and payload.                                                            *)
(*                                                                         *)
(* As long as the walk follows the path to x the bits t of the two parties *)
(* differ, the step that leaves the path makes their blocks equal, and     *)
(* equal blocks stay equal below.  The recursive functions in Path,        *)
(* KeyGenDPF, EvalOneDPF and their DCF counterparts are unrolled into      *)
(* levels, and what a step does is carried from the root to the leaves:    *)
(* PointFunctionCorrect and ComparisonCorrect.                             *)
(*                                                                         *)
(* Then the division of the rows among threads, and the evaluation of      *)
(* blocks of rows (ContigPointwiseDPF, ContigPointwiseDCF).                *)
(***************************************************************************)
EXTENDS Fss, Chunks, FiniteSetTheorems, SequenceTheorems, TLAPS

-----------------------------------------------------------------------------
(* Induction along the levels of the tree, from the pigeonhole principle:  *)
(* if a set with 0 that is closed under adding 1 missed a number n, adding *)
(* 1 would map the numbers up to n that are in the set into one fewer.     *)

\* A set with 0 that is closed under adding 1 has all natural numbers.
LEMMA NatSet ==
  ASSUME NEW S, 0 \in S, \A n \in Nat : n \in S => n + 1 \in S
  PROVE  Nat \subseteq S
<1>. SUFFICES ASSUME NEW n \in Nat, n \notin S PROVE FALSE
  OBVIOUS
<1> DEFINE U == S \cap (0 .. n)
           V == U \ {0}
           f == [x \in U |-> x + 1]
<1>1. IsFiniteSet(0 .. n) BY FS_Interval
<1>2. IsFiniteSet(U) BY <1>1, FS_Subset
<1>3. 0 \in U OBVIOUS
<1>4. /\ IsFiniteSet(V) /\ Cardinality(V) = Cardinality(U) - 1
      /\ Cardinality(U) \in Nat
  BY <1>2, <1>3, FS_RemoveElement, FS_CardinalityType
<1>5. f \in [U -> V]
  <2>. SUFFICES ASSUME NEW x \in U PROVE x + 1 \in V
    OBVIOUS
  <2>1. x \in Nat /\ x # n /\ x <= n OBVIOUS
  <2>. QED BY <2>1
<1>6. \A x, y \in U : f[x] = f[y] => x = y OBVIOUS
<1>. HIDE DEF U, V, f
<1>7. Cardinality(V) < Cardinality(U) BY <1>4
<1>8. \E x, y \in U : x # y /\ f[x] = f[y]
  BY <1>2, <1>4, <1>5, <1>7, FS_PigeonHole
<1>. QED BY <1>6, <1>8

\* The same up to a bound: what holds at the root and goes down a level holds at all levels.
LEMMA IntervalInduction ==
  ASSUME NEW d \in Nat, NEW S, 0 \in S, \A i \in 1 .. d : i - 1 \in S => i \in S
  PROVE  \A i \in 0 .. d : i \in S
<1> DEFINE H == {n \in Nat : n \in 0 .. d => n \in S}
<1>1. 0 \in H OBVIOUS
<1>2. \A n \in Nat : n \in H => n + 1 \in H
  <2>. SUFFICES ASSUME NEW n \in Nat, n \in H, n + 1 \in 0 .. d PROVE n + 1 \in S
    OBVIOUS
  <2>1. n \in S /\ n + 1 \in 1 .. d /\ (n + 1) - 1 = n OBVIOUS
  <2>. QED BY <2>1
<1>3. Nat \subseteq H
  <2>. HIDE DEF H
  <2>. QED BY <1>1, <1>2, NatSet
<1>. QED BY <1>3

\* For each of d steps the function by which it makes one member of T of another.
Steps(d, T) == [1 .. d -> [T -> T]]

\* The functions that start with a and take these steps.
Runs(d, T, a, step) ==
  {g \in [0 .. d -> T] : g[0] = a /\ \A i \in 1 .. d : g[i] = step[i][g[i - 1]]}

\* A function may be defined by recursion over its index.
LEMMA Recursion ==
  ASSUME NEW d \in Nat, NEW T, NEW a \in T, NEW step \in Steps(d, T)
  PROVE  \E g : g \in Runs(d, T, a, step)
<1> DEFINE Fits(n, g) == g \in [0 .. n -> T] /\ g[0] = a
                           /\ \A i \in 1 .. n : g[i] = step[i][g[i - 1]]
           S == {n \in Nat : \E g : Fits(n, g)}
<1>0. step \in [1 .. d -> [T -> T]] BY DEF Steps
<1>1. 0 \in S
  <2>. DEFINE g == [i \in 0 .. 0 |-> a]
  <2>1. Fits(0, g) OBVIOUS
  <2>. QED BY <2>1
<1>2. \A n \in 1 .. d : n - 1 \in S => n \in S
  <2>. SUFFICES ASSUME NEW n \in 1 .. d, n - 1 \in S PROVE n \in S
    OBVIOUS
  <2>1. PICK g : Fits(n - 1, g) OBVIOUS
  <2>. DEFINE h == [i \in 0 .. n |-> IF i = n THEN step[n][g[n - 1]] ELSE g[i]]
  <2>2. g[n - 1] \in T BY <2>1
  <2>3. step[n][g[n - 1]] \in T BY <1>0, <2>2
  <2>4. h \in [0 .. n -> T] BY <2>1, <2>3
  <2>5. h[0] = a BY <2>1
  <2>6. \A i \in 1 .. n : h[i] = step[i][h[i - 1]]
    <3>. TAKE i \in 1 .. n
    <3>1. h[i - 1] = g[i - 1] OBVIOUS
    <3>2. CASE i = n
      <4>1. h[n] = step[n][g[n - 1]] OBVIOUS
      <4>2. h[n - 1] = g[n - 1] OBVIOUS
      <4>. HIDE DEF h
      <4>. QED BY <3>2, <4>1, <4>2, Zenon
    <3>3. CASE i # n
      <4>1. i \in 1 .. n - 1 /\ h[i] = g[i] BY <3>3
      <4>. QED BY <2>1, <3>1, <4>1
    <3>. QED BY <3>2, <3>3
  <2>. HIDE DEF h
  <2>7. Fits(n, h) /\ n \in Nat BY <2>4, <2>5, <2>6
  <2>. HIDE DEF Fits
  <2>. QED BY <2>7
<1>3. d \in S
  <2>. HIDE DEF S
  <2>1. \A i \in 0 .. d : i \in S BY <1>1, <1>2, IntervalInduction
  <2>. QED BY <2>1
<1>. QED BY <1>3 DEF Runs

\* Powers of two, as the number of subsets.
LEMMA PowerOfTwo ==
  /\ 2 ^ 0 = 1
  /\ \A n \in Nat : 2 ^ n \in Nat \ {0} /\ 2 ^ (n + 1) = 2 * 2 ^ n
<1>1. ASSUME NEW n \in Nat
      PROVE  IsFiniteSet(SUBSET (1 .. n)) /\ Cardinality(SUBSET (1 .. n)) = 2 ^ n
             /\ 2 ^ n \in Nat
  <2>1. IsFiniteSet(1 .. n) /\ Cardinality(1 .. n) = n BY FS_Interval
  <2>. QED BY <2>1, FS_SUBSET, FS_CardinalityType
<1>2. ASSUME NEW n \in Nat PROVE 2 ^ (n + 1) = 2 * 2 ^ n
  <2>. DEFINE A == SUBSET (1 .. n)
              B == {s \cup {n + 1} : s \in A}
              f == [s \in A |-> s \cup {n + 1}]
  <2>1. SUBSET (1 .. n + 1) = A \cup B
    <3>1. 1 .. n + 1 = (1 .. n) \cup {n + 1} OBVIOUS
    <3>2. ASSUME NEW s \in SUBSET (1 .. n + 1) PROVE s \in A \cup B
      <4>1. CASE n + 1 \in s
        <5>1. s \ {n + 1} \in A /\ s = (s \ {n + 1}) \cup {n + 1} BY <3>1, <4>1
        <5>. QED BY <5>1
      <4>2. CASE n + 1 \notin s BY <3>1, <4>2
      <4>. QED BY <4>1, <4>2
    <3>3. ASSUME NEW s \in B PROVE s \in SUBSET (1 .. n + 1) BY <3>1
    <3>. QED BY <3>1, <3>2, <3>3
  <2>2. A \cap B = {}
    <3>1. n + 1 \notin 1 .. n OBVIOUS
    <3>. QED BY <3>1
  <2>3. f \in Bijection(A, B)
    <3>1. n + 1 \notin 1 .. n OBVIOUS
    <3>2. f \in [A -> B] OBVIOUS
    <3>3. \A s, u \in A : f[s] = f[u] => s = u
      <4>. SUFFICES ASSUME NEW s \in A, NEW u \in A, f[s] = f[u] PROVE s = u
        OBVIOUS
      <4>1. s = f[s] \ {n + 1} /\ u = f[u] \ {n + 1} BY <3>1
      <4>. QED BY <4>1
    <3>4. \A b \in B : \E s \in A : f[s] = b OBVIOUS
    <3>. HIDE DEF A, B, f
    <3>. QED BY <3>2, <3>3, <3>4 DEF Bijection, Injection, Surjection, IsInjective
  <2>4. IsFiniteSet(A) /\ Cardinality(A) = 2 ^ n /\ 2 ^ n \in Nat BY <1>1
  <2>5. Cardinality(SUBSET (1 .. n + 1)) = 2 ^ (n + 1) BY <1>1
  <2>. HIDE DEF A, B, f
  <2>6. IsFiniteSet(B) /\ Cardinality(B) = Cardinality(A)
    BY <2>3, <2>4, FS_Bijection, Zenon DEF ExistsBijection
  <2>7. Cardinality(A \cup B) = Cardinality(A) + Cardinality(B) - Cardinality(A \cap B)
    BY <2>4, <2>6, FS_Union, Zenon
  <2>8. Cardinality(A \cap B) = 0 BY <2>2, FS_EmptySet
  <2>9. Cardinality(SUBSET (1 .. n + 1)) = 2 ^ n + 2 ^ n BY <2>1, <2>4, <2>6, <2>7, <2>8
  <2>10. 2 ^ (n + 1) = 2 ^ n + 2 ^ n BY <2>5, <2>9, Zenon
  <2>. QED BY <2>4, <2>10
<1>3. 2 ^ 0 = 1 OBVIOUS
<1>4. \A n \in Nat : 2 ^ n # 0
  <2>. DEFINE S == {n \in Nat : 2 ^ n # 0}
  <2>1. 0 \in S BY <1>3
  <2>2. \A n \in Nat : n \in S => n + 1 \in S BY <1>1, <1>2
  <2>3. Nat \subseteq S
    <3>. HIDE DEF S
    <3>. QED BY <2>1, <2>2, NatSet
  <2>. QED BY <2>3
<1>. QED BY <1>1, <1>2, <1>3, <1>4

-----------------------------------------------------------------------------
\* Exclusive or of sets and bits.

\* Adding a seed twice takes it away.
LEMMA XorSame == \A a, b : Xor(a, Xor(a, b)) = b
BY DEF Xor

\* The same from the other side.
LEMMA XorOther == \A a, b : Xor(b, Xor(a, b)) = a
BY DEF Xor

\* Seeds add up to a seed.
LEMMA XorType == \A a, b \in Seed : Xor(a, b) \in Seed
BY DEF Xor, Seed

\* Sums of bits modulo 2.
LEMMA Parity ==
  /\ \A n \in Int : n % 2 \in {0, 1}
  /\ \A x, y \in {0, 1}, k \in {0, 1} : (x + y + k + (1 - k)) % 2 = (x + y + 1) % 2
  /\ \A x, y \in {0, 1} : (x + y + 2) % 2 = (x + y) % 2
  /\ \A x, y \in {0, 1} : (x + ((y + x) % 2)) % 2 = y /\ (x + ((x + y) % 2)) % 2 = y
  /\ \A x, y \in {0, 1} : (x + ((x + y + 1) % 2)) % 2 # y /\ (y + ((x + y + 1) % 2)) % 2 # x
OBVIOUS

\* The PRG gives blocks.
LEMMA ChildType == \A s \in Seed, side \in Side : Expand[s][side] \in Block
BY FssAssumption, SMTT(60)

\* A correction word has a seed and a bit for each side.
LEMMA CorrectionType ==
  ASSUME NEW b \in [Party -> Block], NEW keep \in Side
  PROVE  CorrectionWord(b, keep) \in [s : Seed, t : [Side -> {0, 1}]]
<1> DEFINE child(p, side) == Expand[b[p].s][side]
<1>1. \A p \in Party, side \in Side : child(p, side) \in Block
  BY ChildType DEF Block, Party
<1>2. Xor(child(0, 1 - keep).s, child(1, 1 - keep).s) \in Seed
  <2>1. 1 - keep \in Side BY DEF Side
  <2>2. child(0, 1 - keep).s \in Seed /\ child(1, 1 - keep).s \in Seed
    BY <1>1, <2>1 DEF Party, Block
  <2>. QED BY <2>2, XorType
<1>3. \A side \in Side :
        (child(0, side).t + child(1, side).t + keep + (1 - side)) % 2 \in {0, 1}
  <2>. TAKE side \in Side
  <2>1. child(0, side).t \in {0, 1} /\ child(1, side).t \in {0, 1}
    BY <1>1 DEF Party, Block
  <2>2. child(0, side).t + child(1, side).t + keep + (1 - side) \in Int
    BY <2>1 DEF Side
  <2>. QED BY <2>2, Parity
<1>. QED BY <1>2, <1>3 DEF CorrectionWord

\* A step down from a block gives a block.
LEMMA StepType ==
  ASSUME NEW b \in Block, NEW cw \in [s : Seed, t : [Side -> {0, 1}]], NEW keep \in Side
  PROVE  TraverseOne(b, cw, keep) \in Block
<1>1. b.s \in Seed BY DEF Block
<1>2. Expand[b.s][keep] \in Block BY <1>1, ChildType
<1>3. CASE b.t = 0 BY <1>2, <1>3 DEF TraverseOne
<1>4. CASE b.t # 0
  <2>1. Xor(Expand[b.s][keep].s, cw.s) \in Seed BY <1>2, XorType DEF Block
  <2>2. Expand[b.s][keep].t \in {0, 1} /\ cw.t[keep] \in {0, 1} BY <1>2 DEF Block
  <2>3. Expand[b.s][keep].t + cw.t[keep] \in Int BY <2>2
  <2>4. (Expand[b.s][keep].t + cw.t[keep]) % 2 \in {0, 1} BY <2>3, Parity
  <2>. QED BY <1>4, <2>1, <2>4 DEF TraverseOne, Block
<1>. QED BY <1>3, <1>4

-----------------------------------------------------------------------------
\* The step lemmas.

\* On the path: if the bits t of the parties differ at a node, they differ at the
\* child towards x.
LEMMA OnPathApart ==
  ASSUME NEW b \in [Party -> Block], NEW keep \in Side, b[0].t # b[1].t
  PROVE  TraverseOne(b[0], CorrectionWord(b, keep), keep).t
           # TraverseOne(b[1], CorrectionWord(b, keep), keep).t
<1> DEFINE tau(p) == Expand[b[p].s][keep]
           cw == CorrectionWord(b, keep)
<1>1. /\ b[0].t \in {0, 1} /\ b[1].t \in {0, 1}
      /\ tau(0).t \in {0, 1} /\ tau(1).t \in {0, 1}
  <2>1. b[0] \in Block /\ b[1] \in Block BY DEF Party
  <2>2. tau(0) \in Block /\ tau(1) \in Block BY <2>1, ChildType DEF Block
  <2>. QED BY <2>1, <2>2 DEF Block
<1>2. cw.t[keep] = (tau(0).t + tau(1).t + keep + (1 - keep)) % 2
  BY DEF CorrectionWord
<1>3. cw.t[keep] = (tau(0).t + tau(1).t + 1) % 2
  BY <1>1, <1>2, Parity DEF Side
<1>4. \A p \in Party : TraverseOne(b[p], cw, keep).t
        = IF b[p].t = 0 THEN tau(p).t ELSE (tau(p).t + cw.t[keep]) % 2
  BY DEF TraverseOne
<1>. HIDE DEF tau, cw
<1>5. TraverseOne(b[0], cw, keep).t # TraverseOne(b[1], cw, keep).t
  BY <1>1, <1>3, <1>4 DEF Party
<1>. QED BY <1>5 DEF cw

\* Off the path: if the bits t differ at a node on the path, the blocks of the two
\* parties at the child away from x are equal.
LEMMA OffPathEqual ==
  ASSUME NEW b \in [Party -> Block], NEW keep \in Side, b[0].t # b[1].t
  PROVE  TraverseOne(b[0], CorrectionWord(b, keep), 1 - keep)
           = TraverseOne(b[1], CorrectionWord(b, keep), 1 - keep)
<1> DEFINE lose == 1 - keep
           tau(p) == Expand[b[p].s][lose]
           cw == CorrectionWord(b, keep)
<1>0. lose \in Side BY DEF Side
<1>1. /\ b[0].t \in {0, 1} /\ b[1].t \in {0, 1}
      /\ tau(0) \in Block /\ tau(1) \in Block
  <2>1. b[0] \in Block /\ b[1] \in Block BY DEF Party
  <2>2. tau(0) \in Block /\ tau(1) \in Block BY <1>0, <2>1, ChildType DEF Block
  <2>. QED BY <2>1, <2>2 DEF Block
<1>2. cw.s = Xor(tau(0).s, tau(1).s)
  BY DEF CorrectionWord
<1>3. cw.t[lose] = (tau(0).t + tau(1).t + keep + (1 - lose)) % 2
  BY <1>0 DEF CorrectionWord
<1>4. tau(0).t \in {0, 1} /\ tau(1).t \in {0, 1} BY <1>1 DEF Block
<1>5. cw.t[lose] = (tau(0).t + tau(1).t) % 2
  <2>. HIDE DEF tau, cw
  <2>1. CASE keep = 0 BY <1>3, <1>4, <2>1
  <2>2. CASE keep = 1
    <3>1. cw.t[lose] = (tau(0).t + tau(1).t + 2) % 2 BY <1>3, <1>4, <2>2
    <3>. QED BY <1>4, <3>1, Parity
  <2>. QED BY <2>1, <2>2 DEF Side
<1>6. CASE b[0].t = 0 /\ b[1].t = 1
  <2>1. TraverseOne(b[0], cw, lose) = tau(0) BY <1>6 DEF TraverseOne
  <2>2. TraverseOne(b[1], cw, lose)
          = [s |-> Xor(tau(1).s, cw.s), t |-> (tau(1).t + cw.t[lose]) % 2]
    BY <1>6 DEF TraverseOne
  <2>3. Xor(tau(1).s, cw.s) = tau(0).s BY <1>2, XorOther
  <2>4. (tau(1).t + cw.t[lose]) % 2 = tau(0).t BY <1>4, <1>5
  <2>5. tau(0) = [s |-> tau(0).s, t |-> tau(0).t] BY <1>1 DEF Block
  <2>. QED BY <2>1, <2>2, <2>3, <2>4, <2>5
<1>7. CASE b[0].t = 1 /\ b[1].t = 0
  <2>1. TraverseOne(b[1], cw, lose) = tau(1) BY <1>7 DEF TraverseOne
  <2>2. TraverseOne(b[0], cw, lose)
          = [s |-> Xor(tau(0).s, cw.s), t |-> (tau(0).t + cw.t[lose]) % 2]
    BY <1>7 DEF TraverseOne
  <2>3. Xor(tau(0).s, cw.s) = tau(1).s BY <1>2, XorSame
  <2>4. (tau(0).t + cw.t[lose]) % 2 = tau(1).t BY <1>4, <1>5
  <2>5. tau(1) = [s |-> tau(1).s, t |-> tau(1).t] BY <1>1 DEF Block
  <2>. QED BY <2>1, <2>2, <2>3, <2>4, <2>5
<1>. QED BY <1>1, <1>6, <1>7

\* The bits t of the two roots differ: the walk starts on the path.
LEMMA RootsApart ==
  ASSUME NEW draw \in Block \X Block
  PROVE  Roots(draw) \in [Party -> Block] /\ Roots(draw)[0].t # Roots(draw)[1].t
<1>1. draw[1] \in Block /\ draw[2] \in Block OBVIOUS
<1>2. 1 - draw[2].t \in {0, 1} /\ 1 - draw[2].t # draw[2].t BY <1>1 DEF Block
<1>3. [draw[1] EXCEPT !.t = 1 - draw[2].t] \in Block BY <1>1, <1>2 DEF Block
<1>. QED BY <1>1, <1>2, <1>3 DEF Roots, Party, Block

-----------------------------------------------------------------------------
\* Residues.

\* Quotient and remainder.
LEMMA DivMod ==
  ASSUME NEW a \in Int, NEW m \in Nat \ {0}
  PROVE  a % m \in 0 .. m - 1 /\ a = (a \div m) * m + (a % m) /\ a \div m \in Int
BY SMTT(30)

\* A remainder is the only number below m that differs from a by a multiple of m.
LEMMA ModUnique ==
  ASSUME NEW a \in Int, NEW m \in Nat \ {0}, NEW q \in Int, NEW r \in 0 .. m - 1, a = q * m + r
  PROVE  a % m = r
<1>1. a % m \in 0 .. m - 1 /\ a = (a \div m) * m + (a % m) /\ a \div m \in Int BY DivMod
<1> DEFINE p == a \div m
           s == a % m
<1>2. (p - q) * m = r - s BY <1>1
<1>. HIDE DEF p, s
<1>3. p \in Int /\ s \in 0 .. m - 1 BY <1>1 DEF p, s
<1>4. CASE p = q BY <1>2, <1>3, <1>4 DEF s
<1>5. CASE p > q
  <2>1. (p - q) * m >= m BY <1>3, <1>5
  <2>. QED BY <1>2, <1>3, <2>1
<1>6. CASE p < q
  <2>1. (q - p) * m >= m BY <1>3, <1>6
  <2>2. (q - p) * m = s - r BY <1>2, <1>3
  <2>. QED BY <1>3, <2>1, <2>2
<1>. QED BY <1>3, <1>4, <1>5, <1>6

\* A residue modulo a multiple of m has the same residue modulo m.
LEMMA ModOfMod ==
  ASSUME NEW n \in Int, NEW w \in Nat \ {0}, NEW m \in Nat \ {0}, NEW k \in Int, w = k * m
  PROVE  (n % w) % m = n % m
<1> DEFINE u == n \div w
           x == n % w
<1>1. u \in Int /\ x \in Int /\ n = u * w + x
  <2>1. n % w \in 0 .. w - 1 /\ n = (n \div w) * w + (n % w) /\ n \div w \in Int
    BY DivMod
  <2>. QED BY <2>1
<1>. HIDE DEF u, x
<1> DEFINE v == x \div m
           r == x % m
<1>2. v \in Int /\ r \in 0 .. m - 1 /\ x = v * m + r BY <1>1, DivMod
<1>. HIDE DEF v, r
<1>3. n = u * (k * m) + (v * m + r) BY <1>1, <1>2
<1>4. n = (u * k + v) * m + r /\ u * k + v \in Int BY <1>1, <1>2, <1>3
<1>5. n % m = r BY <1>2, <1>4, ModUnique
<1>. QED BY <1>5 DEF r, x

\* Wrapping before the reduction does not disturb the residue.
LEMMA ReducedIsMod ==
  ASSUME NEW n \in Int
  PROVE  Reduced(n) = n % Modulus
<1>1. Word \in Nat \ {0} /\ Modulus \in Nat \ {0} /\ Word % Modulus = 0 BY FssAssumption
<1>2. PICK k \in Int : Word = k * Modulus
  <2>1. Word = (Word \div Modulus) * Modulus + (Word % Modulus) /\ Word \div Modulus \in Int
    BY <1>1, DivMod
  <2>. DEFINE k == Word \div Modulus
  <2>2. k \in Int /\ Word = k * Modulus + 0 BY <1>1, <2>1
  <2>. HIDE DEF k
  <2>3. k * Modulus + 0 = k * Modulus BY <1>1, <2>2
  <2>. QED BY <2>2, <2>3
<1>. QED BY <1>1, <1>2, ModOfMod, ZenonT(60) DEF Reduced

\* Residues may be taken before an addition.
LEMMA ModSum ==
  ASSUME NEW a \in Int, NEW b \in Int, NEW m \in Nat \ {0}
  PROVE  ((a % m) + (b % m)) % m = (a + b) % m
<1> DEFINE p == a \div m
           s == a % m
           q == b \div m
           t == b % m
<1>1. /\ p \in Int /\ s \in 0 .. m - 1 /\ a = p * m + s
      /\ q \in Int /\ t \in 0 .. m - 1 /\ b = q * m + t
  BY DivMod
<1>. HIDE DEF p, s, q, t
<1> DEFINE w == (s + t) \div m
           r == (s + t) % m
<1>2. w \in Int /\ r \in 0 .. m - 1 /\ s + t = w * m + r
  <2>. DEFINE x == s + t
  <2>1. x \in Int BY <1>1
  <2>. HIDE DEF x
  <2>2. x % m \in 0 .. m - 1 /\ x = (x \div m) * m + (x % m) /\ x \div m \in Int
    BY <2>1, DivMod
  <2>. QED BY <2>2 DEF x
<1>. HIDE DEF w, r
<1>3. a + b = (p + q + w) * m + r BY <1>1, <1>2
<1>4. p + q + w \in Int /\ a + b \in Int BY <1>1, <1>2
<1>5. (a + b) % m = r BY <1>2, <1>3, <1>4, ModUnique
<1>. QED BY <1>5 DEF r, s, t

\* Adding a multiple of m leaves the residue alone.
LEMMA ModShift ==
  ASSUME NEW a \in Int, NEW q \in Int, NEW m \in Nat \ {0}
  PROVE  (a + q * m) % m = a % m
<1>1. a % m \in 0 .. m - 1 /\ a = (a \div m) * m + (a % m) /\ a \div m \in Int BY DivMod
<1> DEFINE p == a \div m
           r == a % m
<1>2. p \in Int /\ r \in 0 .. m - 1 /\ a = p * m + r BY <1>1
<1>. HIDE DEF p, r
<1>3. a + q * m = (p + q) * m + r /\ p + q \in Int /\ a + q * m \in Int BY <1>2
<1>4. (a + q * m) % m = r BY <1>2, <1>3, ModUnique
<1>. QED BY <1>4 DEF r

\* A residue differs from its number by a multiple of m.
LEMMA ModWitness ==
  ASSUME NEW a \in Int, NEW m \in Nat \ {0}
  PROVE  \E q \in Int : a % m = a + q * m
<1>1. a = (a \div m) * m + (a % m) /\ a \div m \in Int /\ a % m \in 0 .. m - 1 BY DivMod
<1> DEFINE p == a \div m
           r == a % m
<1>2. p \in Int /\ r \in Int /\ a = p * m + r BY <1>1
<1>. HIDE DEF p, r
<1>3. -p \in Int /\ r = a + (-p) * m BY <1>2
<1>. QED BY <1>3 DEF r

-----------------------------------------------------------------------------
\* The leaves of the point function.

\* At a leaf off the path the blocks of the two parties are equal, and the shares
\* that the evaluation gives for it add up to zero.
LEMMA OffPathZero ==
  ASSUME NEW b \in Block, NEW v, v[1] \in Int
  PROVE  (LeafDPF(b, v, 0) + LeafDPF(b, v, 1)) % Modulus = 0
<1> DEFINE x == Convert[b.s] + b.t * v[1]
<1>1. x \in Int BY FssAssumption DEF Block, Number
<1>2. LeafDPF(b, v, 0) = Reduced(x) /\ LeafDPF(b, v, 1) = Reduced(-x)
  <2>1. LeafDPF(b, v, 0) = Reduced(1 * x) /\ LeafDPF(b, v, 1) = Reduced((-1) * x)
    BY DEF LeafDPF, PartySign
  <2>2. 1 * x = x /\ (-1) * x = -x BY <1>1
  <2>. QED BY <2>1, <2>2
<1>. HIDE DEF x
<1>3. Modulus \in Nat \ {0} /\ -x \in Int BY <1>1, FssAssumption
<1>4. (LeafDPF(b, v, 0) + LeafDPF(b, v, 1)) % Modulus = (x + (-x)) % Modulus
  <2>1. Reduced(x) = x % Modulus /\ Reduced(-x) = (-x) % Modulus BY <1>1, <1>3, ReducedIsMod
  <2>2. ((x % Modulus) + ((-x) % Modulus)) % Modulus = (x + (-x)) % Modulus
    BY <1>1, <1>3, ModSum, Zenon
  <2>. QED BY <1>2, <2>1, <2>2, Zenon
<1>5. x + (-x) = 0 /\ 0 % Modulus = 0
  <2>1. x + (-x) = 0 BY <1>1
  <2>2. 0 = 0 * Modulus + 0 /\ 0 \in 0 .. Modulus - 1 BY <1>3
  <2>. QED BY <1>3, <2>1, <2>2, ModUnique
<1>. QED BY <1>4, <1>5

\* At the leaf x the bits t differ, and the shares, with the value that KeyGenDPF
\* puts in both keys, add up to the payload.
LEMMA OnPathPayload ==
  ASSUME NEW b \in [Party -> Block], b[0].t # b[1].t, NEW payload \in Int, NEW v,
         v[1] = LeafCorrection(b, payload)
  PROVE  (LeafDPF(b[0], v, 0) + LeafDPF(b[1], v, 1)) % Modulus = payload % Modulus
<1> DEFINE c0 == Convert[b[0].s]
           c1 == Convert[b[1].s]
           g  == payload - c0 + c1
<1>1. c0 \in Int /\ c1 \in Int
  <2>1. b[0].s \in Seed /\ b[1].s \in Seed BY DEF Party, Block
  <2>. QED BY <2>1, FssAssumption DEF Number
<1>2. b[0].t \in {0, 1} /\ b[1].t \in {0, 1} BY DEF Party, Block
<1>3. Modulus \in Nat \ {0} BY FssAssumption
<1>4. LeafDPF(b[0], v, 0) = Reduced(1 * (c0 + b[0].t * v[1]))
      /\ LeafDPF(b[1], v, 1) = Reduced((-1) * (c1 + b[1].t * v[1]))
  BY DEF LeafDPF, PartySign
<1>5. v[1] = Reduced(SignOf(b[1].t) * g) BY DEF LeafCorrection
<1>. HIDE DEF c0, c1
<1>6. CASE b[0].t = 0 /\ b[1].t = 1
  <2>1. v[1] = (-g) % Modulus
    <3>1. SignOf(b[1].t) * g = -g /\ -g \in Int BY <1>1, <1>6 DEF SignOf
    <3>. QED BY <1>5, <3>1, ReducedIsMod
  <2>. DEFINE y == -(c1 + v[1])
              w == -v[1]
  <2>2. v[1] \in Int BY <1>1, <1>3, <2>1, DivMod
  <2>3. LeafDPF(b[0], v, 0) = c0 % Modulus /\ LeafDPF(b[1], v, 1) = y % Modulus
    <3>1. 1 * (c0 + b[0].t * v[1]) = c0 /\ (-1) * (c1 + b[1].t * v[1]) = y /\ y \in Int
      BY <1>1, <1>6, <2>2
    <3>. QED BY <1>1, <1>4, <3>1, ReducedIsMod
  <2>4. PICK q \in Int : v[1] = -g + q * Modulus
    <3>1. -g \in Int BY <1>1
    <3>2. \E q \in Int : (-g) % Modulus = -g + q * Modulus BY <1>3, <3>1, ModWitness, Zenon
    <3>. QED BY <2>1, <3>2, Zenon
  <2>5. c0 + y = payload + (-q) * Modulus /\ -q \in Int BY <1>1, <1>3, <2>2, <2>4
  <2>6. (c0 + y) % Modulus = payload % Modulus
    <3>1. (payload + (-q) * Modulus) % Modulus = payload % Modulus
      BY <1>3, <2>5, ModShift, Zenon
    <3>. QED BY <2>5, <3>1, Zenon
  <2>7. y \in Int BY <1>1, <2>2
  <2>8. ((c0 % Modulus) + (y % Modulus)) % Modulus = (c0 + y) % Modulus
    BY <1>1, <1>3, <2>7, ModSum, Zenon
  <2>. QED BY <2>3, <2>6, <2>8, Zenon
<1>7. CASE b[0].t = 1 /\ b[1].t = 0
  <2>1. v[1] = g % Modulus
    <3>1. SignOf(b[1].t) * g = g /\ g \in Int BY <1>1, <1>7 DEF SignOf
    <3>. QED BY <1>5, <3>1, ReducedIsMod
  <2>. DEFINE y == c0 + v[1]
  <2>2. v[1] \in Int BY <1>1, <1>3, <2>1, DivMod
  <2>3. LeafDPF(b[0], v, 0) = y % Modulus /\ LeafDPF(b[1], v, 1) = (-c1) % Modulus
    <3>1. 1 * (c0 + b[0].t * v[1]) = y /\ (-1) * (c1 + b[1].t * v[1]) = -c1
          /\ y \in Int /\ -c1 \in Int
      BY <1>1, <1>7, <2>2
    <3>. QED BY <1>4, <3>1, ReducedIsMod
  <2>4. PICK q \in Int : v[1] = g + q * Modulus
    <3>1. g \in Int BY <1>1
    <3>2. \E q \in Int : g % Modulus = g + q * Modulus BY <1>3, <3>1, ModWitness, Zenon
    <3>. QED BY <2>1, <3>2, Zenon
  <2>5. y + (-c1) = payload + q * Modulus BY <1>1, <1>3, <2>2, <2>4
  <2>6. (y + (-c1)) % Modulus = payload % Modulus
    <3>1. (payload + q * Modulus) % Modulus = payload % Modulus
      BY <1>3, ModShift, Zenon
    <3>. QED BY <2>5, <3>1, Zenon
  <2>7. y \in Int /\ -c1 \in Int BY <1>1, <2>2
  <2>8. ((y % Modulus) + ((-c1) % Modulus)) % Modulus = (y + (-c1)) % Modulus
    BY <1>3, <2>7, ModSum, Zenon
  <2>. QED BY <2>3, <2>6, <2>8, Zenon
<1>. QED BY <1>2, <1>6, <1>7

-----------------------------------------------------------------------------
(* The path to x and the walks that the evaluation takes.                  *)

\* The leading i bits of x.
Prefix(x, i) == x \div 2 ^ (Depth - i)

\* A level adds one bit to the prefix, the one that KeepBit gives.
LEMMA PrefixSteps ==
  ASSUME NEW x \in 0 .. NumLeaves - 1
  PROVE  /\ \A i \in 0 .. Depth : Prefix(x, i) \in Nat
         /\ Prefix(x, 0) = 0
         /\ Prefix(x, Depth) = x
         /\ \A i \in 1 .. Depth :
              KeepBit(x, i) \in Side /\ Prefix(x, i) = 2 * Prefix(x, i - 1) + KeepBit(x, i)
<1>0. Depth \in Nat \ {0} BY FssAssumption
<1>1. x \in Nat /\ NumLeaves \in Nat \ {0} BY <1>0, PowerOfTwo DEF NumLeaves
<1>2. \A e \in Nat \ {0} :
        x % e \in 0 .. e - 1 /\ x = (x \div e) * e + (x % e) /\ x \div e \in Nat
  <2>. TAKE e \in Nat \ {0}
  <2>1. x % e \in 0 .. e - 1 /\ x = (x \div e) * e + (x % e) /\ x \div e \in Int
    BY <1>1, DivMod
  <2>2. x \div e >= 0
    <3>. SUFFICES ASSUME x \div e <= -1 PROVE FALSE BY <2>1
    <3>1. (x \div e) * e <= -e BY <2>1
    <3>. QED BY <1>1, <2>1, <3>1
  <2>. QED BY <2>1, <2>2
<1>3. \A i \in 0 .. Depth : 2 ^ (Depth - i) \in Nat \ {0} BY <1>0, PowerOfTwo
<1>4. \A i \in 0 .. Depth : Prefix(x, i) \in Nat BY <1>2, <1>3 DEF Prefix
<1>5. Prefix(x, 0) = 0
  <2>1. Prefix(x, 0) = x \div NumLeaves BY <1>0 DEF Prefix, NumLeaves
  <2>2. /\ x % NumLeaves \in 0 .. NumLeaves - 1
        /\ x = (x \div NumLeaves) * NumLeaves + (x % NumLeaves)
        /\ x \div NumLeaves \in Nat
    BY <1>1, <1>2, Zenon
  <2>3. x \div NumLeaves = 0
    <3>. SUFFICES ASSUME x \div NumLeaves >= 1 PROVE FALSE BY <2>2
    <3>1. (x \div NumLeaves) * NumLeaves >= NumLeaves BY <1>1, <2>2
    <3>. QED BY <1>1, <2>2, <3>1
  <2>. QED BY <2>1, <2>3
<1>6. Prefix(x, Depth) = x
  <2>1. Depth - Depth = 0 BY <1>0
  <2>2. x \div 1 = x BY <1>1
  <2>. QED BY <2>1, <2>2, PowerOfTwo DEF Prefix
<1>7. ASSUME NEW i \in 1 .. Depth
      PROVE  KeepBit(x, i) \in Side /\ Prefix(x, i) = 2 * Prefix(x, i - 1) + KeepBit(x, i)
  <2>. DEFINE e == 2 ^ (Depth - i)
              q == x \div e
              s == x % e
              h == q \div 2
              b == q % 2
              u == x \div (2 * e)
              w == x % (2 * e)
  <2>1. 2 ^ (Depth - (i - 1)) = 2 * e /\ e \in Nat \ {0}
    <3>1. Depth - (i - 1) = (Depth - i) + 1 /\ Depth - i \in Nat BY <1>0
    <3>. QED BY <3>1, PowerOfTwo
  <2>2. q \in Nat /\ s \in 0 .. e - 1 /\ x = q * e + s BY <1>2, <2>1, Zenon
  <2>3. h \in Int /\ b \in {0, 1} /\ q = h * 2 + b
    <3>. HIDE DEF q
    <3>. QED BY <2>2
  <2>4. u \in Nat /\ w \in 0 .. 2 * e - 1 /\ x = u * (2 * e) + w
    <3>. HIDE DEF e
    <3>1. 2 * e \in Nat \ {0} BY <2>1
    <3>. QED BY <1>2, <3>1, Zenon
  <2>5. Prefix(x, i - 1) = u /\ Prefix(x, i) = q /\ KeepBit(x, i) = b
    BY <2>1 DEF Prefix, KeepBit
  <2>. HIDE DEF e, q, s, h, b, u, w
  <2>6. u = h
    <3>1. b * e \in 0 .. e BY <2>1, <2>3
    <3>2. h * 2 * e + (b * e + s) = u * (2 * e) + w BY <2>1, <2>2, <2>3, <2>4
    <3>3. b * e + s \in 0 .. 2 * e - 1 BY <2>1, <2>2, <3>1
    <3>4. (h - u) * (2 * e) = w - (b * e + s) BY <2>1, <2>3, <2>4, <3>2, <3>3
    <3>. DEFINE k == h - u
                d == 2 * e
                y == w - (b * e + s)
    <3>5. k \in Int /\ d \in Nat \ {0} /\ y \in Int /\ -d < y /\ y < d /\ k * d = y
      BY <2>1, <2>3, <2>4, <3>3, <3>4
    <3>. HIDE DEF k, d, y
    <3>6. k = 0
      <4>1. CASE k >= 1
        <5>1. k * d >= d BY <3>5, <4>1
        <5>. QED BY <3>5, <5>1
      <4>2. CASE k <= -1
        <5>1. k * d <= -d BY <3>5, <4>2
        <5>. QED BY <3>5, <5>1
      <4>. QED BY <3>5, <4>1, <4>2
    <3>. QED BY <2>3, <2>4, <3>6 DEF k
  <2>. QED BY <2>3, <2>5, <2>6 DEF Side
<1>. QED BY <1>4, <1>5, <1>6, <1>7

\* The bit of a level is a side, even of the index behind the last row.
LEMMA KeepBitSide ==
  ASSUME NEW x \in Nat, NEW i \in 1 .. Depth
  PROVE  KeepBit(x, i) \in Side
<1> DEFINE e == 2 ^ (Depth - i)
           q == x \div e
<1>1. e \in Nat \ {0}
  <2>1. Depth - i \in Nat BY FssAssumption
  <2>. QED BY <2>1, PowerOfTwo
<1>. HIDE DEF e
<1>2. q \in Int BY <1>1, DivMod
<1>. HIDE DEF q
<1>3. q % 2 \in {0, 1} BY <1>2, Parity
<1>. QED BY <1>3 DEF KeepBit, Side, q, e

\* A correction word, what the client draws, and a level of the path.
Correction == [s : Seed, t : [Side -> {0, 1}]]
RootPair == Block \X Block
Level == [b : [Party -> Block], cw : Seq(Correction)]

\* One level of the path, as a function of the level and what is above it.
Down(x, i, up) == Descend(up, CorrectionWord(up.b, KeepBit(x, i)), KeepBit(x, i))

\* A level of the path is made of the one above, and appends its correction word.
LEMMA DownType ==
  ASSUME NEW x \in Nat, NEW i \in 1 .. Depth, NEW up \in Level
  PROVE  /\ Down(x, i, up) \in Level
         /\ Down(x, i, up).b = [p \in Party |-> TraverseOne(up.b[p],
                                   CorrectionWord(up.b, KeepBit(x, i)), KeepBit(x, i))]
         /\ Down(x, i, up).cw = Append(up.cw, CorrectionWord(up.b, KeepBit(x, i)))
         /\ CorrectionWord(up.b, KeepBit(x, i)) \in Correction
<1>1. KeepBit(x, i) \in Side BY KeepBitSide
<1>2. up.b \in [Party -> Block] /\ up.cw \in Seq(Correction) BY DEF Level
<1>3. CorrectionWord(up.b, KeepBit(x, i)) \in Correction
  BY <1>1, <1>2, CorrectionType DEF Correction
<1>4. \A p \in Party : TraverseOne(up.b[p], CorrectionWord(up.b, KeepBit(x, i)), KeepBit(x, i))
                         \in Block
  BY <1>1, <1>2, <1>3, StepType DEF Correction
<1>. QED BY <1>2, <1>3, <1>4 DEF Down, Descend, Level

\* The recursive function in Path is one: it takes a step down at every level.
LEMMA PathLevels ==
  ASSUME NEW x \in Nat, NEW draw \in RootPair
  PROVE  /\ Path(x, draw) \in [0 .. Depth -> Level]
         /\ Path(x, draw)[0] = [b |-> Roots(draw), cw |-> <<>>]
         /\ \A i \in 1 .. Depth : Path(x, draw)[i] = Down(x, i, Path(x, draw)[i - 1])
<1> DEFINE top == [b |-> Roots(draw), cw |-> <<>>]
           path == CHOOSE g : g = [i \in 0 .. Depth |->
             IF i = 0 THEN top
             ELSE Descend(g[i - 1], CorrectionWord(g[i - 1].b, KeepBit(x, i)), KeepBit(x, i))]
           step == [i \in 1 .. Depth |-> [up \in Level |-> Down(x, i, up)]]
<1>1. Path(x, draw) = path BY DEF Path
<1>2. top \in Level BY RootsApart DEF Level, RootPair
<1>3. step \in Steps(Depth, Level) BY DownType DEF Steps
<1>4. Depth \in Nat BY FssAssumption
<1>. HIDE DEF top, step
<1>5. PICK g \in [0 .. Depth -> Level] :
        g[0] = top /\ \A i \in 1 .. Depth : g[i] = step[i][g[i - 1]]
  <2>1. \E g : g \in Runs(Depth, Level, top, step)
    BY <1>2, <1>3, <1>4, Recursion, Zenon
  <2>. QED BY <2>1 DEF Runs
<1>6. \A i \in 1 .. Depth : g[i] = Down(x, i, g[i - 1])
  <2>. TAKE i \in 1 .. Depth
  <2>1. i - 1 \in 0 .. Depth BY <1>4
  <2>2. g[i - 1] \in Level BY <2>1
  <2>3. step[i][g[i - 1]] = Down(x, i, g[i - 1]) BY <2>2 DEF step
  <2>. QED BY <1>5, <2>3
<1>7. g = [i \in 0 .. Depth |->
             IF i = 0 THEN top
             ELSE Descend(g[i - 1], CorrectionWord(g[i - 1].b, KeepBit(x, i)), KeepBit(x, i))]
  <2>1. \A i \in 0 .. Depth : i # 0 => i \in 1 .. Depth BY <1>4
  <2>. QED BY <1>5, <1>6, <2>1 DEF Down
<1>8. path = [i \in 0 .. Depth |->
             IF i = 0 THEN top
             ELSE Descend(path[i - 1], CorrectionWord(path[i - 1].b, KeepBit(x, i)),
                          KeepBit(x, i))]
  BY <1>7
<1>. HIDE DEF path
<1>9. /\ DOMAIN path = 0 .. Depth /\ path[0] = top
      /\ \A i \in 1 .. Depth : path[i] = Down(x, i, path[i - 1])
  BY <1>4, <1>8 DEF Down
<1>10. \A i \in 0 .. Depth : path[i] \in Level
  <2>. DEFINE S == {i \in 0 .. Depth : path[i] \in Level}
  <2>1. 0 \in S BY <1>2, <1>4, <1>9
  <2>2. \A i \in 1 .. Depth : i - 1 \in S => i \in S
    <3>. TAKE i \in 1 .. Depth
    <3>. HAVE i - 1 \in S
    <3>1. path[i - 1] \in Level /\ path[i] = Down(x, i, path[i - 1]) BY <1>9
    <3>2. Down(x, i, path[i - 1]) \in Level BY <3>1, DownType, Zenon
    <3>. QED BY <1>4, <3>1, <3>2
  <2>3. \A i \in 0 .. Depth : i \in S
    <3>. HIDE DEF S
    <3>. QED BY <1>4, <2>1, <2>2, IntervalInduction
  <2>. QED BY <2>3
<1>11. path \in [0 .. Depth -> Level] BY <1>8, <1>10
<1>. QED BY <1>1, <1>9, <1>11 DEF top

\* What the keys hold.
LEMMA KeyWords ==
  ASSUME NEW x \in Nat, NEW draw \in RootPair, NEW v, NEW p \in Party
  PROVE  /\ KeyPair(Path(x, draw), v)[p].v = v
         /\ KeyPair(Path(x, draw), v)[p].k[1] = Path(x, draw)[0].b[p]
         /\ \A i \in 1 .. Depth :
              KeyPair(Path(x, draw), v)[p].k[i + 1]
                = CorrectionWord(Path(x, draw)[i - 1].b, KeepBit(x, i))
         /\ KeyPair(Path(x, draw), v)[p].k \in Seq(Block \cup Correction)
         /\ Len(KeyPair(Path(x, draw), v)[p].k) = Depth + 1
<1> DEFINE path == Path(x, draw)
           cw(i) == CorrectionWord(path[i - 1].b, KeepBit(x, i))
           ky == KeyPair(path, v)[p]
           Holds(i) == Len(path[i].cw) = i /\ \A j \in 1 .. i : path[i].cw[j] = cw(j)
           S == {i \in 0 .. Depth : Holds(i)}
<1>1. Depth \in Nat BY FssAssumption
<1>2. /\ path \in [0 .. Depth -> Level] /\ path[0].cw = <<>>
      /\ \A i \in 1 .. Depth : path[i].cw = Append(path[i - 1].cw, cw(i))
  <2>1. path \in [0 .. Depth -> Level] /\ path[0] = [b |-> Roots(draw), cw |-> <<>>]
        /\ \A i \in 1 .. Depth : path[i] = Down(x, i, path[i - 1])
    BY PathLevels, Zenon
  <2>2. \A i \in 1 .. Depth : path[i].cw = Append(path[i - 1].cw, cw(i))
    <3>. TAKE i \in 1 .. Depth
    <3>1. path[i - 1] \in Level /\ path[i] = Down(x, i, path[i - 1]) BY <1>1, <2>1
    <3>2. Down(x, i, path[i - 1]).cw = Append(path[i - 1].cw, cw(i))
      BY <3>1, DownType, Zenon
    <3>. QED BY <3>1, <3>2
  <2>. QED BY <2>1, <2>2
<1>3. ky = [k |-> <<path[0].b[p]>> \o path[Depth].cw, v |-> v] BY DEF KeyPair
<1>. HIDE DEF path, cw, ky
<1>4. 0 \in S BY <1>1, <1>2
<1>5. \A i \in 1 .. Depth : i - 1 \in S => i \in S
  <2>. TAKE i \in 1 .. Depth
  <2>. HAVE i - 1 \in S
  <2>1. path[i - 1].cw \in Seq(Correction) BY <1>1, <1>2 DEF Level
  <2>2. path[i].cw = Append(path[i - 1].cw, cw(i)) BY <1>2
  <2>3. Len(path[i - 1].cw) = i - 1 /\ \A j \in 1 .. i - 1 : path[i - 1].cw[j] = cw(j)
    OBVIOUS
  <2>4. Len(path[i].cw) = i BY <2>1, <2>2, <2>3
  <2>5. \A j \in 1 .. i : path[i].cw[j] = cw(j)
    <3>. TAKE j \in 1 .. i
    <3>1. CASE j = i BY <2>1, <2>2, <2>3, <3>1
    <3>2. CASE j # i
      <4>1. j \in 1 .. i - 1 BY <3>2
      <4>. QED BY <2>1, <2>2, <2>3, <4>1
    <3>. QED BY <3>1, <3>2
  <2>. QED BY <1>1, <2>4, <2>5
<1>6. Holds(Depth)
  <2>1. \A i \in 0 .. Depth : i \in S
    <3>. HIDE DEF S
    <3>. QED BY <1>1, <1>4, <1>5, IntervalInduction
  <2>. QED BY <1>1, <2>1
<1>7. path[Depth].cw \in Seq(Correction) BY <1>1, <1>2 DEF Level
<1>8. ky.k[1] = path[0].b[p] BY <1>3, <1>7
<1>9. \A i \in 1 .. Depth : ky.k[i + 1] = cw(i)
  <2>. TAKE i \in 1 .. Depth
  <2>1. ky.k[i + 1] = path[Depth].cw[i] BY <1>1, <1>3, <1>6, <1>7
  <2>. QED BY <1>6, <2>1
<1>10. ky.v = v BY <1>3
<1>11. ky.k \in Seq(Block \cup Correction) /\ Len(ky.k) = Depth + 1
  <2>. DEFINE S1 == Block \cup Correction
              root == path[0].b[p]
              rest == path[Depth].cw
  <2>1. root \in S1
    <3>1. 0 \in 0 .. Depth BY <1>1
    <3>2. path[0] \in Level BY <1>2, <3>1
    <3>. QED BY <3>2 DEF Level
  <2>2. <<root>> \in Seq(S1) /\ Len(<<root>>) = 1 BY <2>1
  <2>3. rest \in Seq(S1)
    <3>1. Correction \subseteq S1 OBVIOUS
    <3>. QED BY <1>7, <3>1, SeqMonotonic
  <2>4. Len(rest) = Depth BY <1>6
  <2>5. ky.k = <<root>> \o rest BY <1>3
  <2>. HIDE DEF S1, root, rest
  <2>6. ky.k \in Seq(S1) /\ Len(ky.k) = 1 + Depth
    BY <2>2, <2>3, <2>4, <2>5, ConcatProperties
  <2>. QED BY <1>1, <2>6 DEF S1
<1>. QED BY <1>8, <1>9, <1>10, <1>11 DEF ky, path, cw

\* The blocks on the path: the bits t of the two parties differ at every level.
LEMMA PathApart ==
  ASSUME NEW x \in Nat, NEW draw \in RootPair
  PROVE  \A i \in 0 .. Depth :
           /\ Path(x, draw)[i].b \in [Party -> Block]
           /\ Path(x, draw)[i].b[0].t # Path(x, draw)[i].b[1].t
<1> DEFINE path == Path(x, draw)
           S == {i \in 0 .. Depth : path[i].b[0].t # path[i].b[1].t}
<1>1. Depth \in Nat BY FssAssumption
<1>2. path \in [0 .. Depth -> Level] /\ path[0].b = Roots(draw)
      /\ \A i \in 1 .. Depth : path[i] = Down(x, i, path[i - 1])
  <2>1. path \in [0 .. Depth -> Level] /\ path[0] = [b |-> Roots(draw), cw |-> <<>>]
        /\ \A i \in 1 .. Depth : path[i] = Down(x, i, path[i - 1])
    BY PathLevels, Zenon
  <2>. QED BY <2>1
<1>. HIDE DEF path
<1>3. 0 \in S BY <1>1, <1>2, RootsApart DEF RootPair
<1>4. \A i \in 1 .. Depth : i - 1 \in S => i \in S
  <2>. TAKE i \in 1 .. Depth
  <2>. HAVE i - 1 \in S
  <2>. DEFINE b == path[i - 1].b
              keep == KeepBit(x, i)
  <2>1. path[i - 1] \in Level /\ b \in [Party -> Block] BY <1>1, <1>2 DEF Level
  <2>2. path[i].b = [p \in Party |-> TraverseOne(b[p], CorrectionWord(b, keep), keep)]
    <3>1. path[i] = Down(x, i, path[i - 1]) BY <1>2
    <3>2. Down(x, i, path[i - 1]).b
            = [p \in Party |-> TraverseOne(b[p], CorrectionWord(b, keep), keep)]
      BY <2>1, DownType, Zenon
    <3>. QED BY <3>1, <3>2
  <2>3. keep \in Side BY KeepBitSide
  <2>4. b[0].t # b[1].t OBVIOUS
  <2>. HIDE DEF b, keep
  <2>5. path[i].b[0].t # path[i].b[1].t BY <2>1, <2>2, <2>3, <2>4, OnPathApart DEF Party
  <2>. QED BY <1>1, <2>5
<1>5. \A i \in 0 .. Depth : i \in S
  <2>. HIDE DEF S
  <2>. QED BY <1>1, <1>3, <1>4, IntervalInduction
<1>. QED BY <1>2, <1>5 DEF path, Level

\* The blocks that a party goes through when it evaluates index r with a key.
Walks(r, ky) ==
  {w \in [0 .. Depth -> Block] :
     /\ w[0] = ky.k[1]
     /\ \A i \in 1 .. Depth : w[i] = TraverseOne(w[i - 1], ky.k[i + 1], KeepBit(r, i))}

\* The keys that KeyGenDPF and KeyGenDCF give out, as far as the walk goes.
WalkKey(ky) == ky.k[1] \in Block /\ \A i \in 1 .. Depth : ky.k[i + 1] \in Correction

\* Both keys of a pair are such keys.
LEMMA KeyIsWalkKey ==
  ASSUME NEW x \in Nat, NEW draw \in RootPair, NEW v, NEW p \in Party
  PROVE  WalkKey(KeyPair(Path(x, draw), v)[p])
<1> DEFINE path == Path(x, draw)
           ky == KeyPair(path, v)[p]
<1>1. Depth \in Nat BY FssAssumption
<1>2. /\ ky.k[1] = path[0].b[p]
      /\ \A i \in 1 .. Depth : ky.k[i + 1] = CorrectionWord(path[i - 1].b, KeepBit(x, i))
  BY KeyWords
<1>3. \A i \in 0 .. Depth : path[i].b \in [Party -> Block] BY PathApart, Zenon
<1>. HIDE DEF path, ky
<1>4. ky.k[1] \in Block BY <1>1, <1>2, <1>3
<1>5. \A i \in 1 .. Depth : ky.k[i + 1] \in Correction
  <2>. TAKE i \in 1 .. Depth
  <2>1. path[i - 1].b \in [Party -> Block] BY <1>1, <1>3
  <2>2. KeepBit(x, i) \in Side BY KeepBitSide
  <2>3. CorrectionWord(path[i - 1].b, KeepBit(x, i)) \in [s : Seed, t : [Side -> {0, 1}]]
    BY <2>1, <2>2, CorrectionType
  <2>. QED BY <1>2, <2>3 DEF Correction
<1>. QED BY <1>4, <1>5 DEF WalkKey, ky, path

\* EvalOneDPF takes such a walk and gives the share at its end.
LEMMA EvalOneDPFWalks ==
  ASSUME NEW r \in 0 .. NumLeaves - 1, NEW ky, WalkKey(ky), NEW p
  PROVE  \E w : w \in Walks(r, ky) /\ EvalOneDPF(r, ky, p) = LeafDPF(w[Depth], ky.v, p)
<1> DEFINE block == CHOOSE g : g = [i \in 0 .. Depth |->
             IF i = 0 THEN ky.k[1] ELSE TraverseOne(g[i - 1], ky.k[i + 1], KeepBit(r, i))]
           step == [i \in 1 .. Depth |->
                      [b \in Block |-> TraverseOne(b, ky.k[i + 1], KeepBit(r, i))]]
<1>1. EvalOneDPF(r, ky, p) = LeafDPF(block[Depth], ky.v, p) BY DEF EvalOneDPF
<1>2. Depth \in Nat /\ ky.k[1] \in Block BY FssAssumption DEF WalkKey
<1>3. \A i \in 1 .. Depth, b \in Block : TraverseOne(b, ky.k[i + 1], KeepBit(r, i)) \in Block
  <2>. TAKE i \in 1 .. Depth, b \in Block
  <2>1. KeepBit(r, i) \in Side BY PrefixSteps
  <2>2. ky.k[i + 1] \in Correction BY DEF WalkKey
  <2>. QED BY <2>1, <2>2, StepType DEF Correction
<1>4. step \in Steps(Depth, Block) BY <1>3 DEF Steps
<1>. HIDE DEF step
<1>5. \E g : g \in Runs(Depth, Block, ky.k[1], step) BY <1>2, <1>4, Recursion, Zenon
<1>6. PICK g \in [0 .. Depth -> Block] :
        g[0] = ky.k[1] /\ \A i \in 1 .. Depth : g[i] = step[i][g[i - 1]]
  BY <1>5 DEF Runs
<1>7. g = [i \in 0 .. Depth |->
             IF i = 0 THEN ky.k[1] ELSE TraverseOne(g[i - 1], ky.k[i + 1], KeepBit(r, i))]
  <2>1. \A i \in 0 .. Depth : i # 0 => i \in 1 .. Depth /\ g[i - 1] \in Block BY <1>2
  <2>. QED BY <1>6, <2>1 DEF step
<1>8. block = [i \in 0 .. Depth |->
             IF i = 0 THEN ky.k[1] ELSE TraverseOne(block[i - 1], ky.k[i + 1], KeepBit(r, i))]
  BY <1>7
<1>. HIDE DEF block
<1>9. /\ DOMAIN block = 0 .. Depth /\ block[0] = ky.k[1]
      /\ \A i \in 1 .. Depth : block[i] = TraverseOne(block[i - 1], ky.k[i + 1], KeepBit(r, i))
  BY <1>2, <1>8
<1>10. \A i \in 0 .. Depth : block[i] \in Block
  <2>. DEFINE S == {i \in 0 .. Depth : block[i] \in Block}
  <2>1. 0 \in S BY <1>2, <1>9
  <2>2. \A i \in 1 .. Depth : i - 1 \in S => i \in S BY <1>3, <1>9
  <2>3. \A i \in 0 .. Depth : i \in S
    <3>. HIDE DEF S
    <3>. QED BY <1>2, <2>1, <2>2, IntervalInduction
  <2>. QED BY <2>3
<1>11. block \in Walks(r, ky) BY <1>8, <1>9, <1>10 DEF Walks
<1>. QED BY <1>1, <1>11

\* The blocks of a key, for either party: its root and the corrections of the path.
LEMMA KeyBlocks ==
  ASSUME NEW x \in Nat, NEW draw \in RootPair, NEW v
  PROVE  \A p \in Party :
           /\ KeyPair(Path(x, draw), v)[p].k[1] = Path(x, draw)[0].b[p]
           /\ \A i \in 1 .. Depth :
                KeyPair(Path(x, draw), v)[p].k[i + 1]
                  = CorrectionWord(Path(x, draw)[i - 1].b, KeepBit(x, i))
BY KeyWords

\* The walks of the two parties to index r: as long as r shares its leading bits
\* with x they are on the path to x, and from the level on at which they part they
\* have equal blocks.
THEOREM WalksOnOrOff ==
  ASSUME NEW x \in 0 .. NumLeaves - 1, NEW draw \in RootPair, NEW v,
         NEW r \in 0 .. NumLeaves - 1, NEW w,
         \A p \in Party : w[p] \in Walks(r, KeyPair(Path(x, draw), v)[p])
  PROVE  \A i \in 0 .. Depth :
           IF Prefix(r, i) = Prefix(x, i)
           THEN \A p \in Party : w[p][i] = Path(x, draw)[i].b[p]
           ELSE w[0][i] = w[1][i]
<1>. x \in Nat OBVIOUS
<1> DEFINE path == Path(x, draw)
           cw(i) == CorrectionWord(path[i - 1].b, KeepBit(x, i))
           Holds(i) == IF Prefix(r, i) = Prefix(x, i)
                       THEN \A p \in Party : w[p][i] = path[i].b[p]
                       ELSE w[0][i] = w[1][i]
           S == {i \in 0 .. Depth : Holds(i)}
<1>1. Depth \in Nat BY FssAssumption
<1>2. \A p \in Party :
        /\ w[p][0] = path[0].b[p]
        /\ \A i \in 1 .. Depth : w[p][i] = TraverseOne(w[p][i - 1], cw(i), KeepBit(r, i))
  <2>0. \A p \in Party :
          /\ KeyPair(Path(x, draw), v)[p].k[1] = Path(x, draw)[0].b[p]
          /\ \A i \in 1 .. Depth :
               KeyPair(Path(x, draw), v)[p].k[i + 1]
                 = CorrectionWord(Path(x, draw)[i - 1].b, KeepBit(x, i))
    BY KeyBlocks, SMTT(30)
  <2>. TAKE p \in Party
  <2>. DEFINE ky == KeyPair(path, v)[p]
  <2>1. ky.k[1] = path[0].b[p] /\ \A i \in 1 .. Depth : ky.k[i + 1] = cw(i)
    BY <2>0
  <2>2. w[p] \in Walks(r, ky) OBVIOUS
  <2>. HIDE DEF ky
  <2>. QED BY <2>1, <2>2 DEF Walks
<1>3. \A i \in 0 .. Depth :
        path[i].b \in [Party -> Block] /\ path[i].b[0].t # path[i].b[1].t
  BY PathApart, Zenon
<1>4. \A i \in 1 .. Depth, p \in Party :
        path[i].b[p] = TraverseOne(path[i - 1].b[p], cw(i), KeepBit(x, i))
  <2>. TAKE i \in 1 .. Depth, p \in Party
  <2>1. path \in [0 .. Depth -> Level] /\ path[i] = Down(x, i, path[i - 1])
    BY PathLevels, Zenon
  <2>2. path[i - 1] \in Level BY <1>1, <2>1
  <2>3. Down(x, i, path[i - 1]).b = [q \in Party |->
          TraverseOne(path[i - 1].b[q], cw(i), KeepBit(x, i))]
    BY <2>2, DownType, Zenon
  <2>. QED BY <2>1, <2>3
<1>. HIDE DEF path
<1>5. \A i \in 1 .. Depth :
        /\ Prefix(r, i - 1) \in Nat /\ Prefix(x, i - 1) \in Nat
        /\ KeepBit(r, i) \in Side /\ KeepBit(x, i) \in Side
        /\ Prefix(r, i) = 2 * Prefix(r, i - 1) + KeepBit(r, i)
        /\ Prefix(x, i) = 2 * Prefix(x, i - 1) + KeepBit(x, i)
  <2>. TAKE i \in 1 .. Depth
  <2>1. i - 1 \in 0 .. Depth BY <1>1
  <2>. QED BY <2>1, PrefixSteps
<1>6. 0 \in S BY <1>1, <1>2, PrefixSteps
<1>7. \A i \in 1 .. Depth : i - 1 \in S => i \in S
  <2>. TAKE i \in 1 .. Depth
  <2>. HAVE i - 1 \in S
  <2>. DEFINE b == path[i - 1].b
  <2>. SUFFICES Holds(i) BY <1>1
  <2>1. Holds(i - 1) OBVIOUS
  <2>. HIDE DEF S
  <2>2. b \in [Party -> Block] /\ b[0].t # b[1].t BY <1>1, <1>3
  <2>3. CASE Prefix(r, i) = Prefix(x, i)
    <3>1. Prefix(r, i - 1) = Prefix(x, i - 1) /\ KeepBit(r, i) = KeepBit(x, i)
      <4>. DEFINE m == Prefix(r, i - 1)
                  n == Prefix(x, i - 1)
                  j == KeepBit(r, i)
                  k == KeepBit(x, i)
      <4>1. m \in Nat /\ n \in Nat /\ j \in {0, 1} /\ k \in {0, 1} BY <1>5 DEF Side
      <4>2. Prefix(r, i) = 2 * m + j /\ Prefix(x, i) = 2 * n + k BY <1>5
      <4>. HIDE DEF m, n, j, k
      <4>3. 2 * m + j = 2 * n + k BY <2>3, <4>2, Zenon
      <4>4. m = n /\ j = k BY <4>1, <4>3
      <4>. QED BY <4>4 DEF m, n, j, k
    <3>2. \A p \in Party : w[p][i - 1] = b[p] BY <2>1, <3>1
    <3>. QED BY <1>2, <1>4, <2>3, <3>1, <3>2
  <2>4. CASE Prefix(r, i - 1) = Prefix(x, i - 1) /\ Prefix(r, i) # Prefix(x, i)
    <3>1. KeepBit(r, i) = 1 - KeepBit(x, i) /\ KeepBit(x, i) \in Side BY <1>5, <2>4 DEF Side
    <3>2. \A p \in Party : w[p][i - 1] = b[p] BY <2>1, <2>4
    <3>3. TraverseOne(b[0], cw(i), 1 - KeepBit(x, i))
            = TraverseOne(b[1], cw(i), 1 - KeepBit(x, i))
      <4>. HIDE DEF b
      <4>1. cw(i) = CorrectionWord(b, KeepBit(x, i)) BY DEF b
      <4>. QED BY <2>2, <3>1, <4>1, OffPathEqual
    <3>. QED BY <1>2, <2>4, <3>1, <3>2, <3>3 DEF Party
  <2>5. CASE Prefix(r, i - 1) # Prefix(x, i - 1)
    <3>1. Prefix(r, i) # Prefix(x, i) BY <1>5, <2>5 DEF Side
    <3>2. w[0][i - 1] = w[1][i - 1] BY <2>1, <2>5
    <3>. QED BY <1>2, <3>1, <3>2 DEF Party
  <2>. QED BY <2>3, <2>4, <2>5
<1>8. \A i \in 0 .. Depth : i \in S
  <2>. HIDE DEF S
  <2>. QED BY <1>1, <1>6, <1>7, IntervalInduction
<1>. QED BY <1>8 DEF path

\* The point function, on every row: the shares that the two parties evaluate add up
\* to the payload at x and to zero elsewhere.
THEOREM PointFunctionCorrect ==
  ASSUME NEW x \in 0 .. NumLeaves - 1, NEW payload \in Int, NEW draw \in RootPair,
         NEW r \in 0 .. NumLeaves - 1
  PROVE  LET ky == KeyGenDPF(x, payload, draw)
         IN  (EvalOneDPF(r, ky[0], 0) + EvalOneDPF(r, ky[1], 1)) % Modulus
               = IF r = x THEN payload % Modulus ELSE 0
<1>. x \in Nat OBVIOUS
<1> DEFINE path == Path(x, draw)
           leaf == path[Depth].b
           v == <<LeafCorrection(leaf, payload)>>
           ky == KeyPair(path, v)
<1>1. KeyGenDPF(x, payload, draw) = ky BY DEF KeyGenDPF, KeysDPF
<1>2. \A p \in Party : WalkKey(ky[p]) BY KeyIsWalkKey, Zenon
<1>3. \A p \in Party : \E w : w \in Walks(r, ky[p])
                               /\ EvalOneDPF(r, ky[p], p) = LeafDPF(w[Depth], ky[p].v, p)
  <2>. HIDE DEF ky
  <2>. QED BY <1>2, EvalOneDPFWalks, Zenon
<1>4. PICK w0 : w0 \in Walks(r, ky[0])
                 /\ EvalOneDPF(r, ky[0], 0) = LeafDPF(w0[Depth], ky[0].v, 0)
  BY <1>3 DEF Party
<1>5. PICK w1 : w1 \in Walks(r, ky[1])
                 /\ EvalOneDPF(r, ky[1], 1) = LeafDPF(w1[Depth], ky[1].v, 1)
  BY <1>3 DEF Party
<1> DEFINE w == [p \in Party |-> IF p = 0 THEN w0 ELSE w1]
<1>6. w[0] = w0 /\ w[1] = w1 BY DEF Party
<1>7. \A p \in Party : w[p] \in Walks(r, ky[p])
  <2>. HIDE DEF ky, w
  <2>. QED BY <1>4, <1>5, <1>6 DEF Party
<1>. HIDE DEF w
<1>8. Depth \in 0 .. Depth BY FssAssumption
<1>9. IF Prefix(r, Depth) = Prefix(x, Depth)
      THEN \A p \in Party : w[p][Depth] = path[Depth].b[p]
      ELSE w[0][Depth] = w[1][Depth]
  <2>1. \A p \in Party : w[p] \in Walks(r, KeyPair(Path(x, draw), v)[p]) BY <1>7
  <2>. HIDE DEF v
  <2>. QED BY <1>8, <2>1, WalksOnOrOff
<1>10. Prefix(r, Depth) = r /\ Prefix(x, Depth) = x BY PrefixSteps
<1>11. ky[0].v = v /\ ky[1].v = v BY DEF KeyPair, Party
<1>12. leaf \in [Party -> Block] /\ leaf[0].t # leaf[1].t BY <1>8, PathApart, Zenon
<1>13. v[1] = LeafCorrection(leaf, payload) OBVIOUS
<1>14. v[1] \in Int
  <2>. DEFINE n == SignOf(leaf[1].t) * (payload - Convert[leaf[0].s] + Convert[leaf[1].s])
  <2>1. Convert[leaf[0].s] \in Int /\ Convert[leaf[1].s] \in Int
    BY <1>12, FssAssumption DEF Party, Block, Number
  <2>2. n \in Int BY <2>1 DEF SignOf
  <2>. HIDE DEF n
  <2>3. Reduced(n) \in Int BY <2>2, ReducedIsMod, DivMod, FssAssumption
  <2>. QED BY <1>13, <2>3 DEF LeafCorrection, n
<1>15. w0[Depth] \in Block BY <1>4, <1>8 DEF Walks
<1>. HIDE DEF ky, v, leaf, path
<1>16. CASE r = x
  <2>1. w0[Depth] = leaf[0] /\ w1[Depth] = leaf[1] BY <1>6, <1>9, <1>10, <1>16 DEF leaf, Party
  <2>2. (LeafDPF(leaf[0], v, 0) + LeafDPF(leaf[1], v, 1)) % Modulus = payload % Modulus
    BY <1>12, <1>13, OnPathPayload
  <2>. QED BY <1>1, <1>4, <1>5, <1>11, <1>16, <2>1, <2>2
<1>17. CASE r # x
  <2>1. w0[Depth] = w1[Depth] BY <1>6, <1>9, <1>10, <1>17
  <2>2. (LeafDPF(w0[Depth], v, 0) + LeafDPF(w0[Depth], v, 1)) % Modulus = 0
    BY <1>14, <1>15, OffPathZero
  <2>. QED BY <1>1, <1>4, <1>5, <1>11, <1>17, <2>1, <2>2
<1>. QED BY <1>16, <1>17

-----------------------------------------------------------------------------
(* Congruence modulo the group.                                           *)

\* The two numbers differ by a multiple of Modulus.
Congruent(a, b) == \E q \in Int : a = b + q * Modulus

\* Congruence is kept by sums and by negation, and is an equivalence.
LEMMA CongruentSum ==
  ASSUME NEW a \in Int, NEW b \in Int, NEW c \in Int, NEW d \in Int,
         Congruent(a, b), Congruent(c, d)
  PROVE  Congruent(a + c, b + d)
<1>1. Modulus \in Int BY FssAssumption
<1>2. PICK q \in Int : a = b + q * Modulus BY DEF Congruent
<1>3. PICK r \in Int : c = d + r * Modulus BY DEF Congruent
<1>4. a + c = (b + d) + (q + r) * Modulus /\ q + r \in Int BY <1>1, <1>2, <1>3
<1>. QED BY <1>4 DEF Congruent

\* Negation.
LEMMA CongruentMinus ==
  ASSUME NEW a \in Int, NEW b \in Int, Congruent(a, b)
  PROVE  Congruent(-a, -b)
<1>1. Modulus \in Int BY FssAssumption
<1>2. PICK q \in Int : a = b + q * Modulus BY DEF Congruent
<1>3. -a = -b + (-q) * Modulus /\ -q \in Int BY <1>1, <1>2
<1>. QED BY <1>3 DEF Congruent

\* Transitivity.
LEMMA CongruentTrans ==
  ASSUME NEW a \in Int, NEW b \in Int, NEW c \in Int, Congruent(a, b), Congruent(b, c)
  PROVE  Congruent(a, c)
<1>1. Modulus \in Int BY FssAssumption
<1>2. PICK q \in Int : a = b + q * Modulus BY DEF Congruent
<1>3. PICK r \in Int : b = c + r * Modulus BY DEF Congruent
<1>4. a = c + (q + r) * Modulus /\ q + r \in Int BY <1>1, <1>2, <1>3
<1>. QED BY <1>4 DEF Congruent

\* Symmetry.
LEMMA CongruentSym ==
  ASSUME NEW a \in Int, NEW b \in Int, Congruent(a, b)
  PROVE  Congruent(b, a)
<1>1. Modulus \in Int BY FssAssumption
<1>2. PICK q \in Int : a = b + q * Modulus BY DEF Congruent
<1>3. b = a + (-q) * Modulus /\ -q \in Int BY <1>1, <1>2
<1>. QED BY <1>3 DEF Congruent

\* Reflexivity.
LEMMA CongruentSelf ==
  ASSUME NEW a \in Int
  PROVE  Congruent(a, a)
<1>1. Modulus \in Int BY FssAssumption
<1>2. a = a + 0 * Modulus BY <1>1
<1>. QED BY <1>2 DEF Congruent

\* A reduced number is congruent to it.
LEMMA CongruentReduced ==
  ASSUME NEW n \in Int
  PROVE  Reduced(n) \in Int /\ Congruent(Reduced(n), n)
<1>1. Modulus \in Nat \ {0} BY FssAssumption
<1>2. Reduced(n) = n % Modulus BY ReducedIsMod
<1>3. n % Modulus \in Int BY <1>1, DivMod
<1>4. \E q \in Int : n % Modulus = n + q * Modulus BY <1>1, ModWitness, Zenon
<1>. QED BY <1>2, <1>3, <1>4 DEF Congruent

\* Congruent numbers have the same residue.
LEMMA CongruentResidue ==
  ASSUME NEW a \in Int, NEW b \in Int, Congruent(a, b)
  PROVE  a % Modulus = b % Modulus
<1>1. Modulus \in Nat \ {0} BY FssAssumption
<1>2. PICK q \in Int : a = b + q * Modulus BY DEF Congruent
<1>. QED BY <1>1, <1>2, ModShift, Zenon

-----------------------------------------------------------------------------
\* The comparison function: what a level adds to the sum of the two shares.

\* What both parties add, where their bits t differ: the bit of the second one decides
\* the sign with which the value u counts.
LEMMA SharesApart ==
  ASSUME NEW t0 \in {0, 1}, NEW t1 \in {0, 1}, t0 # t1, NEW c0 \in Int, NEW c1 \in Int,
         NEW u \in Int, NEW a0 \in Int, NEW a1 \in Int
  PROVE  /\ Reduced(a0 + PartySign(0) * (c0 + t0 * u)) \in Int
         /\ Reduced(a1 + PartySign(1) * (c1 + t1 * u)) \in Int
         /\ Congruent(Reduced(a0 + PartySign(0) * (c0 + t0 * u))
                        + Reduced(a1 + PartySign(1) * (c1 + t1 * u)),
                      (a0 + a1) - c1 + c0 + SignOf(t1) * u)
<1> DEFINE x0 == a0 + (c0 + t0 * u)
           x1 == a1 - (c1 + t1 * u)
<1>1. x0 \in Int /\ x1 \in Int /\ x0 + x1 = (a0 + a1) - c1 + c0 + SignOf(t1) * u
  <2>1. CASE t0 = 0 /\ t1 = 1 BY <2>1 DEF SignOf
  <2>2. CASE t0 = 1 /\ t1 = 0 BY <2>2 DEF SignOf
  <2>. QED BY <2>1, <2>2
<1>2. a0 + PartySign(0) * (c0 + t0 * u) = x0 /\ a1 + PartySign(1) * (c1 + t1 * u) = x1
  <2>1. t0 * u \in Int /\ t1 * u \in Int OBVIOUS
  <2>. QED BY <2>1 DEF PartySign
<1>. HIDE DEF x0, x1
<1>3. /\ Reduced(x0) \in Int /\ Congruent(Reduced(x0), x0)
      /\ Reduced(x1) \in Int /\ Congruent(Reduced(x1), x1)
  BY <1>1, CongruentReduced
<1>4. Congruent(Reduced(x0) + Reduced(x1), x0 + x1) BY <1>1, <1>3, CongruentSum
<1>. QED BY <1>1, <1>2, <1>3, <1>4

\* What both parties add, where their blocks are equal: the sum stays.
LEMMA SharesEqual ==
  ASSUME NEW c \in Int, NEW a0 \in Int, NEW a1 \in Int
  PROVE  /\ Reduced(a0 + PartySign(0) * c) \in Int
         /\ Reduced(a1 + PartySign(1) * c) \in Int
         /\ Congruent(Reduced(a0 + PartySign(0) * c) + Reduced(a1 + PartySign(1) * c), a0 + a1)
<1>1. /\ a0 + PartySign(0) * c = a0 + c /\ a1 + PartySign(1) * c = a1 - c
      /\ (a0 + c) + (a1 - c) = a0 + a1 /\ a0 + c \in Int /\ a1 - c \in Int
  BY DEF PartySign
<1>2. /\ Reduced(a0 + c) \in Int /\ Congruent(Reduced(a0 + c), a0 + c)
      /\ Reduced(a1 - c) \in Int /\ Congruent(Reduced(a1 - c), a1 - c)
  BY <1>1, CongruentReduced
<1>3. Congruent(Reduced(a0 + c) + Reduced(a1 - c), (a0 + c) + (a1 - c))
  BY <1>1, <1>2, CongruentSum
<1>. QED BY <1>1, <1>2, <1>3

\* A node on the path.
LEMMA LevelOnPath ==
  ASSUME NEW b \in [Party -> Block], b[0].t # b[1].t, NEW keep \in Side, NEW level, NEW v,
         v[level] \in Int, NEW a0 \in Int, NEW a1 \in Int
  PROVE  /\ AddLevel(a0, b[0], v, keep, level, 0) \in Int
         /\ AddLevel(a1, b[1], v, keep, level, 1) \in Int
         /\ Congruent(AddLevel(a0, b[0], v, keep, level, 0)
                        + AddLevel(a1, b[1], v, keep, level, 1),
                      (a0 + a1) - ConvertV[b[1].s][keep] + ConvertV[b[0].s][keep]
                        + SignOf(b[1].t) * v[level])
<1> DEFINE c0 == ConvertV[b[0].s][keep]
           c1 == ConvertV[b[1].s][keep]
           u  == v[level]
<1>1. b[0].s \in Seed /\ b[1].s \in Seed /\ b[0].t \in {0, 1} /\ b[1].t \in {0, 1}
  BY DEF Party, Block
<1>2. c0 \in Int /\ c1 \in Int /\ u \in Int BY <1>1, FssAssumption DEF Number
<1>3. /\ AddLevel(a0, b[0], v, keep, level, 0) = Reduced(a0 + PartySign(0) * (c0 + b[0].t * u))
      /\ AddLevel(a1, b[1], v, keep, level, 1) = Reduced(a1 + PartySign(1) * (c1 + b[1].t * u))
  BY DEF AddLevel
<1>. HIDE DEF c0, c1, u
<1>4. /\ Reduced(a0 + PartySign(0) * (c0 + b[0].t * u)) \in Int
      /\ Reduced(a1 + PartySign(1) * (c1 + b[1].t * u)) \in Int
      /\ Congruent(Reduced(a0 + PartySign(0) * (c0 + b[0].t * u))
                     + Reduced(a1 + PartySign(1) * (c1 + b[1].t * u)),
                   (a0 + a1) - c1 + c0 + SignOf(b[1].t) * u)
  BY <1>1, <1>2, SharesApart
<1>. QED BY <1>3, <1>4 DEF c0, c1, u

\* A node off the path.
LEMMA LevelOffPath ==
  ASSUME NEW b \in Block, NEW keep \in Side, NEW level, NEW v, v[level] \in Int,
         NEW a0 \in Int, NEW a1 \in Int
  PROVE  /\ AddLevel(a0, b, v, keep, level, 0) \in Int
         /\ AddLevel(a1, b, v, keep, level, 1) \in Int
         /\ Congruent(AddLevel(a0, b, v, keep, level, 0) + AddLevel(a1, b, v, keep, level, 1),
                      a0 + a1)
<1> DEFINE c == ConvertV[b.s][keep] + b.t * v[level]
<1>1. c \in Int
  <2>1. ConvertV[b.s][keep] \in Int BY FssAssumption DEF Block, Number
  <2>2. b.t \in Int BY DEF Block
  <2>. QED BY <2>1, <2>2
<1>2. /\ AddLevel(a0, b, v, keep, level, 0) = Reduced(a0 + PartySign(0) * c)
      /\ AddLevel(a1, b, v, keep, level, 1) = Reduced(a1 + PartySign(1) * c)
  BY DEF AddLevel
<1>. HIDE DEF c
<1>. QED BY <1>1, <1>2, SharesEqual

\* The leaf x: the last value cancels the sum of the path.
LEMMA LeafOnPath ==
  ASSUME NEW b \in [Party -> Block], b[0].t # b[1].t, NEW alpha \in Int, NEW v,
         v[Depth + 1] = LastValue(b, alpha),
         NEW a0 \in Int, NEW a1 \in Int, Congruent(a0 + a1, alpha)
  PROVE  Congruent(AddLeaf(a0, b[0], v, 0) + AddLeaf(a1, b[1], v, 1), 0)
<1> DEFINE c0 == Convert[b[0].s]
           c1 == Convert[b[1].s]
           u  == v[Depth + 1]
           s  == SignOf(b[1].t)
           y  == c1 - c0 - alpha
           sum == AddLeaf(a0, b[0], v, 0) + AddLeaf(a1, b[1], v, 1)
<1>1. b[0].s \in Seed /\ b[1].s \in Seed /\ b[0].t \in {0, 1} /\ b[1].t \in {0, 1}
  BY DEF Party, Block
<1>2. c0 \in Int /\ c1 \in Int BY <1>1, FssAssumption DEF Number
<1>3. s \in {1, -1} BY DEF SignOf
<1>4. u = Reduced(s * y) BY DEF LastValue
<1>5. /\ AddLeaf(a0, b[0], v, 0) = Reduced(a0 + PartySign(0) * (c0 + b[0].t * u))
      /\ AddLeaf(a1, b[1], v, 1) = Reduced(a1 + PartySign(1) * (c1 + b[1].t * u))
  BY DEF AddLeaf
<1>. HIDE DEF c0, c1, u, s
<1>6. y \in Int /\ s * y \in Int BY <1>2, <1>3
<1>7. u \in Int /\ Congruent(u, s * y)
  <2>. HIDE DEF y
  <2>. QED BY <1>4, <1>6, CongruentReduced
<1>8. sum \in Int /\ Congruent(sum, (a0 + a1) - c1 + c0 + s * u)
  <2>1. /\ Reduced(a0 + PartySign(0) * (c0 + b[0].t * u)) \in Int
        /\ Reduced(a1 + PartySign(1) * (c1 + b[1].t * u)) \in Int
        /\ Congruent(Reduced(a0 + PartySign(0) * (c0 + b[0].t * u))
                       + Reduced(a1 + PartySign(1) * (c1 + b[1].t * u)),
                     (a0 + a1) - c1 + c0 + SignOf(b[1].t) * u)
    BY <1>1, <1>2, <1>7, SharesApart
  <2>. QED BY <1>5, <2>1 DEF s
<1>9. s * u \in Int /\ Congruent(s * u, y)
  <2>1. CASE s = 1
    <3>1. s * u = u /\ s * y = y BY <1>6, <1>7, <2>1
    <3>. QED BY <1>7, <3>1
  <2>2. CASE s = -1
    <3>1. s * u = -u /\ -(s * y) = y BY <1>6, <1>7, <2>2
    <3>. QED BY <1>6, <1>7, <3>1, CongruentMinus
  <2>. QED BY <1>3, <2>1, <2>2
<1>. HIDE DEF sum, y
<1>10. Congruent((a0 + a1) + (c0 - c1), alpha + (c0 - c1))
  <2>1. c0 - c1 \in Int /\ a0 + a1 \in Int BY <1>2
  <2>2. Congruent(c0 - c1, c0 - c1) BY <2>1, CongruentSelf
  <2>. QED BY <2>1, <2>2, CongruentSum
<1>11. Congruent(((a0 + a1) + (c0 - c1)) + s * u, (alpha + (c0 - c1)) + y)
  <2>1. (a0 + a1) + (c0 - c1) \in Int /\ alpha + (c0 - c1) \in Int BY <1>2
  <2>. QED BY <1>6, <1>9, <1>10, <2>1, CongruentSum
<1>12. /\ ((a0 + a1) + (c0 - c1)) + s * u = (a0 + a1) - c1 + c0 + s * u
       /\ (alpha + (c0 - c1)) + y = 0
       /\ (a0 + a1) - c1 + c0 + s * u \in Int
  BY <1>2, <1>9 DEF y
<1>13. Congruent(sum, 0)
  <2>. DEFINE z == (a0 + a1) - c1 + c0 + s * u
  <2>1. z \in Int /\ Congruent(sum, z) /\ Congruent(z, 0) BY <1>8, <1>11, <1>12
  <2>. HIDE DEF z
  <2>. QED BY <1>8, <2>1, CongruentTrans
<1>. QED BY <1>13 DEF sum

\* A leaf off the path.
LEMMA LeafOffPath ==
  ASSUME NEW b \in Block, NEW v, v[Depth + 1] \in Int, NEW a0 \in Int, NEW a1 \in Int
  PROVE  /\ AddLeaf(a0, b, v, 0) \in Int /\ AddLeaf(a1, b, v, 1) \in Int
         /\ Congruent(AddLeaf(a0, b, v, 0) + AddLeaf(a1, b, v, 1), a0 + a1)
<1> DEFINE c == Convert[b.s] + b.t * v[Depth + 1]
<1>1. c \in Int
  <2>1. Convert[b.s] \in Int BY FssAssumption DEF Block, Number
  <2>2. b.t \in Int BY DEF Block
  <2>. QED BY <2>1, <2>2
<1>2. /\ AddLeaf(a0, b, v, 0) = Reduced(a0 + PartySign(0) * c)
      /\ AddLeaf(a1, b, v, 1) = Reduced(a1 + PartySign(1) * c)
  BY DEF AddLeaf
<1>. HIDE DEF c
<1>. QED BY <1>1, <1>2, SharesEqual

\* The value of a level cancels the sum so far on the side that leaves the path, and
\* leaves what the comparison gives there.
LEMMA LeavingSum ==
  ASSUME NEW b \in [Party -> Block], NEW keep \in Side, NEW payload \in Int, NEW gt \in Side,
         NEW alpha \in Int
  PROVE  LET v == ValueCorrection(b, keep, payload, gt, alpha)
         IN  /\ v \in Int
             /\ Congruent(alpha - ConvertV[b[1].s][1 - keep] + ConvertV[b[0].s][1 - keep]
                            + SignOf(b[1].t) * v,
                          (IF keep = 1 THEN 1 - gt ELSE gt) * payload)
<1> DEFINE c0 == ConvertV[b[0].s][1 - keep]
           c1 == ConvertV[b[1].s][1 - keep]
           s  == SignOf(b[1].t)
           d  == (IF keep = 1 THEN 1 - gt ELSE gt) * payload
           y  == c1 - c0 - alpha
           v  == ValueCorrection(b, keep, payload, gt, alpha)
<1>1. c0 \in Int /\ c1 \in Int
  <2>1. b[0].s \in Seed /\ b[1].s \in Seed /\ 1 - keep \in Side BY DEF Party, Block, Side
  <2>. QED BY <2>1, FssAssumption DEF Number
<1>2. s \in {1, -1} BY DEF SignOf
<1>3. d \in Int
  <2>1. (IF keep = 1 THEN 1 - gt ELSE gt) \in Int BY DEF Side
  <2>. QED BY <2>1
<1>4. v = Reduced(Reduced(s * y) + s * (IF keep = 1 THEN 1 - gt ELSE gt) * payload)
  BY DEF ValueCorrection
<1>5. s * (IF keep = 1 THEN 1 - gt ELSE gt) * payload = s * d
  <2>1. (IF keep = 1 THEN 1 - gt ELSE gt) \in Int BY DEF Side
  <2>. DEFINE e == IF keep = 1 THEN 1 - gt ELSE gt
  <2>. HIDE DEF s, e
  <2>2. s * e * payload = s * (e * payload) BY <1>2, <2>1 DEF e
  <2>. QED BY <2>2 DEF e
<1>. HIDE DEF c0, c1, s, d, v
<1>6. y \in Int /\ s * y \in Int /\ s * d \in Int BY <1>1, <1>2, <1>3
<1>7. v \in Int /\ Congruent(v, s * y + s * d)
  <2>. DEFINE z == Reduced(s * y)
  <2>1. z \in Int /\ Congruent(z, s * y) BY <1>6, CongruentReduced
  <2>2. Congruent(z + s * d, s * y + s * d)
    BY <1>6, <2>1, CongruentSelf, CongruentSum
  <2>3. z + s * d \in Int /\ s * y + s * d \in Int BY <1>6, <2>1
  <2>4. Reduced(z + s * d) \in Int /\ Congruent(Reduced(z + s * d), z + s * d)
    BY <2>3, CongruentReduced
  <2>5. v = Reduced(z + s * d) BY <1>4, <1>5
  <2>. QED BY <2>2, <2>3, <2>4, <2>5, CongruentTrans
<1>8. Congruent(s * v, y + d)
  <2>1. CASE s = 1
    <3>1. s * v = v /\ s * y + s * d = y + d BY <1>3, <1>6, <1>7, <2>1
    <3>. QED BY <1>7, <3>1
  <2>2. CASE s = -1
    <3>1. s * v = -v /\ -(s * y + s * d) = y + d /\ s * y + s * d \in Int
      BY <1>3, <1>6, <1>7, <2>2
    <3>. QED BY <1>7, <3>1, CongruentMinus
  <2>. QED BY <1>2, <2>1, <2>2
<1>9. Congruent((alpha - c1 + c0) + s * v, (alpha - c1 + c0) + (y + d))
  <2>1. alpha - c1 + c0 \in Int /\ s * v \in Int /\ y + d \in Int
    BY <1>1, <1>2, <1>3, <1>6, <1>7
  <2>2. Congruent(alpha - c1 + c0, alpha - c1 + c0) BY <2>1, CongruentSelf
  <2>. QED BY <1>8, <2>1, <2>2, CongruentSum
<1>10. (alpha - c1 + c0) + (y + d) = d BY <1>1, <1>3, SMTT(60)
<1>. QED BY <1>7, <1>9, <1>10 DEF c0, c1, s, d, v

\* The sum on the path down to a level, with the values of the levels above.
Value == [alpha : Int, v : Seq(Int)]

\* The value that ValuesDCF puts into level i of the keys.
Correct(x, payload, gt, draw, i, alpha) ==
  ValueCorrection(Path(x, draw)[i - 1].b, KeepBit(x, i), payload, gt, alpha)

\* The sums and values of all levels, as ValuesDCF makes them.
ValueLevels(x, payload, gt, draw) ==
  {g \in [0 .. Depth -> Value] :
     /\ g[0] = [alpha |-> 0, v |-> <<>>]
     /\ \A i \in 1 .. Depth :
          g[i] = AddValue(g[i - 1], Path(x, draw)[i - 1].b, KeepBit(x, i),
                          Correct(x, payload, gt, draw, i, g[i - 1].alpha))}

\* The value that corrects a level, and the sum on the path below it.
LEMMA ValueStep ==
  ASSUME NEW x \in Nat, NEW payload \in Int, NEW gt \in Side,
         NEW draw \in RootPair, NEW i \in 1 .. Depth, NEW up \in Value
  PROVE  LET b == Path(x, draw)[i - 1].b
             v == Correct(x, payload, gt, draw, i, up.alpha)
             g == AddValue(up, b, KeepBit(x, i), v)
         IN  /\ v \in Int
             /\ g \in Value
             /\ g.v = Append(up.v, v)
             /\ Congruent(g.alpha, up.alpha - ConvertV[b[1].s][KeepBit(x, i)]
                                     + ConvertV[b[0].s][KeepBit(x, i)] + SignOf(b[1].t) * v)
<1> DEFINE b == Path(x, draw)[i - 1].b
           keep == KeepBit(x, i)
           v == Correct(x, payload, gt, draw, i, up.alpha)
           g == AddValue(up, b, keep, v)
           n == up.alpha - ConvertV[b[1].s][keep] + ConvertV[b[0].s][keep] + SignOf(b[1].t) * v
<1>1. b \in [Party -> Block]
  <2>1. i - 1 \in 0 .. Depth BY FssAssumption
  <2>. QED BY <2>1, PathApart, Zenon
<1>2. keep \in Side BY KeepBitSide
<1>3. up.alpha \in Int /\ up.v \in Seq(Int) BY DEF Value
<1>4. v \in Int
  <2>1. v = ValueCorrection(b, keep, payload, gt, up.alpha) BY DEF Correct
  <2>. HIDE DEF b, keep, v
  <2>. QED BY <1>1, <1>2, <1>3, <2>1, LeavingSum
<1>5. ConvertV[b[1].s][keep] \in Int /\ ConvertV[b[0].s][keep] \in Int
  <2>. HIDE DEF b, keep
  <2>1. b[0].s \in Seed /\ b[1].s \in Seed BY <1>1 DEF Party, Block
  <2>. QED BY <1>2, <2>1, FssAssumption DEF Number
<1>6. SignOf(b[1].t) \in {1, -1} BY DEF SignOf
<1>7. g = [alpha |-> Reduced(n), v |-> Append(up.v, v)] BY DEF AddValue
<1>. HIDE DEF b, keep, v
<1>8. n \in Int
  <2>. DEFINE c0 == ConvertV[b[0].s][keep]
              c1 == ConvertV[b[1].s][keep]
              m  == SignOf(b[1].t) * v
  <2>1. c0 \in Int /\ c1 \in Int BY <1>5
  <2>2. m \in Int
    <3>. DEFINE s == SignOf(b[1].t)
    <3>1. s \in {1, -1} BY <1>6
    <3>. HIDE DEF s
    <3>2. s * v \in Int BY <1>4, <3>1
    <3>. QED BY <3>2 DEF s
  <2>. HIDE DEF c0, c1, m
  <2>3. up.alpha - c1 + c0 + m \in Int BY <1>3, <2>1, <2>2
  <2>. QED BY <2>3 DEF c0, c1, m
<1>. HIDE DEF g, n
<1>9. Reduced(n) \in Int /\ Congruent(Reduced(n), n) BY <1>8, CongruentReduced
<1>10. g \in Value BY <1>3, <1>4, <1>7, <1>9 DEF Value
<1>11. g.v = Append(up.v, v) /\ Congruent(g.alpha, n) BY <1>7, <1>9
<1>. QED BY <1>4, <1>10, <1>11, ZenonT(30) DEF b, keep, v, g, n

\* The recursive function in ValuesDCF is one.
LEMMA ValuesDCFLevels ==
  ASSUME NEW x \in Nat, NEW payload \in Int, NEW gt \in Side,
         NEW draw \in RootPair
  PROVE  \E g : g \in ValueLevels(x, payload, gt, draw)
                /\ ValuesDCF(Path(x, draw), x, payload, gt) = g[Depth]
<1> DEFINE path == Path(x, draw)
           Up(i, up) == AddValue(up, path[i - 1].b, KeepBit(x, i),
                                 Correct(x, payload, gt, draw, i, up.alpha))
           level == CHOOSE g : g = [i \in 0 .. Depth |->
             IF i = 0 THEN [alpha |-> 0, v |-> <<>>]
             ELSE AddValue(g[i - 1], path[i - 1].b, KeepBit(x, i),
                           ValueCorrection(path[i - 1].b, KeepBit(x, i), payload, gt,
                                           g[i - 1].alpha))]
           step == [i \in 1 .. Depth |-> [up \in Value |-> Up(i, up)]]
           top == [alpha |-> 0, v |-> <<>>]
<1>1. ValuesDCF(path, x, payload, gt) = level[Depth] BY DEF ValuesDCF
<1>2. Depth \in Nat BY FssAssumption
<1>3. top \in Value BY DEF Value
<1>4. \A i \in 1 .. Depth, up \in Value : Up(i, up) \in Value BY ValueStep, Zenon
<1>5. \A i, up : Up(i, up) = AddValue(up, path[i - 1].b, KeepBit(x, i),
                               ValueCorrection(path[i - 1].b, KeepBit(x, i), payload, gt,
                                               up.alpha))
  BY DEF Correct
<1>. HIDE DEF path, Up
<1>6. step \in Steps(Depth, Value) BY <1>4 DEF Steps
<1>. HIDE DEF step, top
<1>7. \E g : g \in Runs(Depth, Value, top, step) BY <1>2, <1>3, <1>6, Recursion, Zenon
<1>8. PICK g \in [0 .. Depth -> Value] :
        g[0] = top /\ \A i \in 1 .. Depth : g[i] = step[i][g[i - 1]]
  BY <1>7 DEF Runs
<1>9. \A i \in 1 .. Depth : g[i] = Up(i, g[i - 1])
  <2>. TAKE i \in 1 .. Depth
  <2>1. g[i - 1] \in Value BY <1>2
  <2>. QED BY <1>8, <2>1 DEF step
<1>10. g = [i \in 0 .. Depth |->
             IF i = 0 THEN [alpha |-> 0, v |-> <<>>]
             ELSE AddValue(g[i - 1], path[i - 1].b, KeepBit(x, i),
                           ValueCorrection(path[i - 1].b, KeepBit(x, i), payload, gt,
                                           g[i - 1].alpha))]
  <2>1. \A i \in 0 .. Depth : i # 0 => i \in 1 .. Depth BY <1>2
  <2>2. \A i \in 0 .. Depth : i # 0 =>
          g[i] = AddValue(g[i - 1], path[i - 1].b, KeepBit(x, i),
                          ValueCorrection(path[i - 1].b, KeepBit(x, i), payload, gt,
                                          g[i - 1].alpha))
    BY <1>5, <1>9, <2>1, Zenon
  <2>. QED BY <1>8, <2>2 DEF top
<1>11. level = [i \in 0 .. Depth |->
             IF i = 0 THEN [alpha |-> 0, v |-> <<>>]
             ELSE AddValue(level[i - 1], path[i - 1].b, KeepBit(x, i),
                           ValueCorrection(path[i - 1].b, KeepBit(x, i), payload, gt,
                                           level[i - 1].alpha))]
  BY <1>10
<1>. HIDE DEF level
<1>12. /\ DOMAIN level = 0 .. Depth /\ level[0] = top
       /\ \A i \in 1 .. Depth : level[i] = Up(i, level[i - 1])
  <2>1. \A i \in 1 .. Depth : i \in 0 .. Depth /\ i # 0 BY <1>2
  <2>2. \A i \in 1 .. Depth : level[i] =
          AddValue(level[i - 1], path[i - 1].b, KeepBit(x, i),
                   ValueCorrection(path[i - 1].b, KeepBit(x, i), payload, gt,
                                   level[i - 1].alpha))
    BY <1>11, <2>1
  <2>3. \A i \in 1 .. Depth : level[i] = Up(i, level[i - 1]) BY <1>5, <2>2, Zenon
  <2>4. 0 \in 0 .. Depth BY <1>2
  <2>5. DOMAIN level = 0 .. Depth /\ level[0] = top BY <1>11, <2>4 DEF top
  <2>. QED BY <2>3, <2>5
<1>13. \A i \in 0 .. Depth : level[i] \in Value
  <2>. DEFINE S == {i \in 0 .. Depth : level[i] \in Value}
  <2>1. 0 \in S BY <1>2, <1>3, <1>12
  <2>2. \A i \in 1 .. Depth : i - 1 \in S => i \in S
    <3>. TAKE i \in 1 .. Depth
    <3>. HAVE i - 1 \in S
    <3>1. Up(i, level[i - 1]) \in Value BY <1>4
    <3>. QED BY <1>2, <1>12, <3>1
  <2>3. \A i \in 0 .. Depth : i \in S
    <3>. HIDE DEF S
    <3>. QED BY <1>2, <2>1, <2>2, IntervalInduction
  <2>. QED BY <2>3
<1>14. level \in [0 .. Depth -> Value] BY <1>11, <1>13
<1>15. level \in ValueLevels(x, payload, gt, draw)
  BY <1>12, <1>14 DEF ValueLevels, top, Up, path
<1>. QED BY <1>1, <1>15 DEF path

\* What the values of the keys are.
LEMMA KeyValues ==
  ASSUME NEW x \in Nat, NEW payload \in Int, NEW gt \in Side,
         NEW draw \in RootPair, NEW g \in ValueLevels(x, payload, gt, draw)
  PROVE  /\ g[Depth].v \in Seq(Int) /\ Len(g[Depth].v) = Depth
         /\ \A i \in 1 .. Depth : g[Depth].v[i] = Correct(x, payload, gt, draw, i, g[i - 1].alpha)
<1> DEFINE c(i) == Correct(x, payload, gt, draw, i, g[i - 1].alpha)
           Holds(i) == Len(g[i].v) = i /\ \A j \in 1 .. i : g[i].v[j] = c(j)
           S == {i \in 0 .. Depth : Holds(i)}
<1>1. Depth \in Nat BY FssAssumption
<1>2. /\ g \in [0 .. Depth -> Value] /\ g[0].v = <<>>
      /\ \A i \in 1 .. Depth :
           g[i] = AddValue(g[i - 1], Path(x, draw)[i - 1].b, KeepBit(x, i), c(i))
  BY DEF ValueLevels
<1>3. \A i \in 1 .. Depth : g[i].v = Append(g[i - 1].v, c(i))
  <2>1. \A up, b, keep, v : AddValue(up, b, keep, v).v = Append(up.v, v) BY DEF AddValue
  <2>. TAKE i \in 1 .. Depth
  <2>2. g[i] = AddValue(g[i - 1], Path(x, draw)[i - 1].b, KeepBit(x, i), c(i)) BY <1>2
  <2>. HIDE DEF c
  <2>. QED BY <2>1, <2>2
<1>4. \A i \in 0 .. Depth : g[i].v \in Seq(Int) BY <1>2 DEF Value
<1>. HIDE DEF c
<1>5. 0 \in S BY <1>1, <1>2
<1>6. \A i \in 1 .. Depth : i - 1 \in S => i \in S
  <2>. TAKE i \in 1 .. Depth
  <2>. HAVE i - 1 \in S
  <2>1. g[i - 1].v \in Seq(Int) /\ g[i].v \in Seq(Int) BY <1>1, <1>4
  <2>2. g[i].v = Append(g[i - 1].v, c(i)) BY <1>3
  <2>3. Len(g[i - 1].v) = i - 1 /\ \A j \in 1 .. i - 1 : g[i - 1].v[j] = c(j) OBVIOUS
  <2>4. Len(g[i].v) = i BY <2>1, <2>2, <2>3
  <2>5. \A j \in 1 .. i : g[i].v[j] = c(j)
    <3>. TAKE j \in 1 .. i
    <3>1. CASE j = i BY <2>1, <2>2, <2>3, <3>1
    <3>2. CASE j # i
      <4>1. j \in 1 .. i - 1 BY <3>2
      <4>. QED BY <2>1, <2>2, <2>3, <4>1
    <3>. QED BY <3>1, <3>2
  <2>. QED BY <1>1, <2>4, <2>5
<1>7. Holds(Depth)
  <2>1. \A i \in 0 .. Depth : i \in S
    <3>. HIDE DEF S
    <3>. QED BY <1>1, <1>5, <1>6, IntervalInduction
  <2>. QED BY <1>1, <2>1
<1>. QED BY <1>1, <1>4, <1>7 DEF c

\* The blocks and shares that a party goes through when it evaluates index r.
Node == [b : Block, acc : Int]

\* The levels of a walk: EvalOneDCF adds to the share and goes down.
WalksDCF(r, ky, p) ==
  {w \in [0 .. Depth -> Node] :
     /\ w[0].b = ky.k[1] /\ w[0].acc = 0
     /\ \A i \in 1 .. Depth :
          /\ w[i].b = TraverseOne(w[i - 1].b, ky.k[i + 1], KeepBit(r, i))
          /\ w[i].acc = AddLevel(w[i - 1].acc, w[i - 1].b, ky.v, KeepBit(r, i), i, p)}

\* A share is a number.
LEMMA AddLevelType ==
  ASSUME NEW a \in Int, NEW b \in Block, NEW v, NEW keep \in Side, NEW level,
         v[level] \in Int, NEW p \in Party
  PROVE  AddLevel(a, b, v, keep, level, p) \in Int
<1>1. /\ AddLevel(a, b, v, keep, level, 0) \in Int
      /\ AddLevel(a, b, v, keep, level, 1) \in Int
  BY LevelOffPath
<1>. QED BY <1>1 DEF Party

\* EvalOneDCF takes such a walk and adds the leaf's share at its end.
LEMMA EvalOneDCFWalks ==
  ASSUME NEW r \in 0 .. NumLeaves - 1, NEW ky, WalkKey(ky), NEW p \in Party,
         \A i \in 1 .. Depth : ky.v[i] \in Int
  PROVE  \E w : w \in WalksDCF(r, ky, p)
                /\ EvalOneDCF(r, ky, p) = AddLeaf(w[Depth].acc, w[Depth].b, ky.v, p)
<1> DEFINE Go(i, up) == [b   |-> TraverseOne(up.b, ky.k[i + 1], KeepBit(r, i)),
                         acc |-> AddLevel(up.acc, up.b, ky.v, KeepBit(r, i), i, p)]
           top == [b |-> ky.k[1], acc |-> 0]
           walk == CHOOSE g : g = [i \in 0 .. Depth |->
             IF i = 0 THEN [b |-> ky.k[1], acc |-> 0]
             ELSE LET up == g[i - 1]
                  IN  [b   |-> TraverseOne(up.b, ky.k[i + 1], KeepBit(r, i)),
                       acc |-> AddLevel(up.acc, up.b, ky.v, KeepBit(r, i), i, p)]]
           step == [i \in 1 .. Depth |-> [up \in Node |-> Go(i, up)]]
<1>1. EvalOneDCF(r, ky, p) = AddLeaf(walk[Depth].acc, walk[Depth].b, ky.v, p)
  BY DEF EvalOneDCF
<1>2. Depth \in Nat /\ ky.k[1] \in Block BY FssAssumption DEF WalkKey
<1>3. top \in Node BY <1>2 DEF Node
<1>4. \A i \in 1 .. Depth, up \in Node : Go(i, up) \in Node
  <2>. TAKE i \in 1 .. Depth, up \in Node
  <2>1. KeepBit(r, i) \in Side BY PrefixSteps
  <2>2. ky.k[i + 1] \in Correction BY DEF WalkKey
  <2>3. up.b \in Block /\ up.acc \in Int BY DEF Node
  <2>4. TraverseOne(up.b, ky.k[i + 1], KeepBit(r, i)) \in Block
    BY <2>1, <2>2, <2>3, StepType DEF Correction
  <2>5. ky.v[i] \in Int OBVIOUS
  <2>6. AddLevel(up.acc, up.b, ky.v, KeepBit(r, i), i, p) \in Int
    BY <2>1, <2>3, <2>5, AddLevelType
  <2>. QED BY <2>4, <2>6 DEF Node
<1>5. step \in Steps(Depth, Node) BY <1>4 DEF Steps
<1>. HIDE DEF step, top, Go
<1>6. \E g : g \in Runs(Depth, Node, top, step) BY <1>2, <1>3, <1>5, Recursion, Zenon
<1>7. PICK g \in [0 .. Depth -> Node] :
        g[0] = top /\ \A i \in 1 .. Depth : g[i] = step[i][g[i - 1]]
  BY <1>6 DEF Runs
<1>8. \A i \in 1 .. Depth : g[i] = Go(i, g[i - 1])
  <2>. TAKE i \in 1 .. Depth
  <2>1. g[i - 1] \in Node BY <1>2
  <2>2. step[i][g[i - 1]] = Go(i, g[i - 1])
    <3>1. step[i] = [up \in Node |-> Go(i, up)] BY Zenon DEF step
    <3>. QED BY <2>1, <3>1, Zenon
  <2>3. g[i] = step[i][g[i - 1]] BY <1>7
  <2>. QED BY <2>2, <2>3, Zenon
<1>9. g = [i \in 0 .. Depth |-> IF i = 0 THEN top ELSE Go(i, g[i - 1])]
  <2>1. \A i \in 0 .. Depth : i # 0 => i \in 1 .. Depth BY <1>2, SMTT(60)
  <2>. QED BY <1>7, <1>8, <2>1
<1>10. walk = [i \in 0 .. Depth |-> IF i = 0 THEN top ELSE Go(i, walk[i - 1])]
  BY <1>9, ZenonT(30) DEF top, Go
<1>. HIDE DEF walk
<1>11. /\ DOMAIN walk = 0 .. Depth /\ walk[0] = top
       /\ \A i \in 1 .. Depth : walk[i] = Go(i, walk[i - 1])
  BY <1>2, <1>10
<1>12. \A i \in 0 .. Depth : walk[i] \in Node
  <2>. DEFINE S == {i \in 0 .. Depth : walk[i] \in Node}
  <2>1. 0 \in S BY <1>2, <1>3, <1>11
  <2>2. \A i \in 1 .. Depth : i - 1 \in S => i \in S BY <1>4, <1>11
  <2>3. \A i \in 0 .. Depth : i \in S
    <3>. HIDE DEF S
    <3>. QED BY <1>2, <2>1, <2>2, IntervalInduction
  <2>. QED BY <2>3
<1>13. walk \in [0 .. Depth -> Node] BY <1>10, <1>12
<1>14. walk \in WalksDCF(r, ky, p)
  <2>1. walk[0].b = ky.k[1] /\ walk[0].acc = 0 BY <1>11 DEF top
  <2>2. \A i, up :
          /\ Go(i, up).b = TraverseOne(up.b, ky.k[i + 1], KeepBit(r, i))
          /\ Go(i, up).acc = AddLevel(up.acc, up.b, ky.v, KeepBit(r, i), i, p)
    BY DEF Go
  <2>. QED BY <1>11, <1>13, <2>1, <2>2 DEF WalksDCF
<1>. QED BY <1>1, <1>14

\* The shares of the two parties on the way to index r: on the path they add up to the
\* sum of the path, and once they have left it to what the comparison gives there.
THEOREM SharesOnOrOff ==
  ASSUME NEW x \in 0 .. NumLeaves - 1, NEW payload \in Int, NEW gt \in Side,
         NEW draw \in RootPair, NEW g \in ValueLevels(x, payload, gt, draw), NEW v,
         \A i \in 1 .. Depth : v[i] = Correct(x, payload, gt, draw, i, g[i - 1].alpha),
         NEW r \in 0 .. NumLeaves - 1, NEW w,
         \A p \in Party : w[p] \in WalksDCF(r, KeyPair(Path(x, draw), v)[p], p)
  PROVE  \A i \in 0 .. Depth :
           Congruent(w[0][i].acc + w[1][i].acc,
                     IF Prefix(r, i) = Prefix(x, i) THEN g[i].alpha
                     ELSE (IF Prefix(r, i) < Prefix(x, i) THEN 1 - gt ELSE gt) * payload)
<1>. x \in Nat OBVIOUS
<1> DEFINE path == Path(x, draw)
           Want(i) == IF Prefix(r, i) = Prefix(x, i) THEN g[i].alpha
                      ELSE (IF Prefix(r, i) < Prefix(x, i) THEN 1 - gt ELSE gt) * payload
           Holds(i) == Congruent(w[0][i].acc + w[1][i].acc, Want(i))
           S == {i \in 0 .. Depth : Holds(i)}
           blocks == [p \in Party |-> [i \in 0 .. Depth |-> w[p][i].b]]
<1>1. Depth \in Nat BY FssAssumption
<1>2. \A p \in Party : KeyPair(path, v)[p].v = v BY KeyWords
<1>3. \A p \in Party :
        /\ w[p] \in [0 .. Depth -> Node] /\ w[p][0].acc = 0
        /\ \A i \in 1 .. Depth :
             w[p][i].acc = AddLevel(w[p][i - 1].acc, w[p][i - 1].b, v, KeepBit(r, i), i, p)
        /\ blocks[p] \in Walks(r, KeyPair(path, v)[p])
  <2>. TAKE p \in Party
  <2>. DEFINE ky == KeyPair(path, v)[p]
  <2>1. w[p] \in WalksDCF(r, ky, p) /\ ky.v = v BY <1>2
  <2>. HIDE DEF ky
  <2>2. /\ w[p] \in [0 .. Depth -> Node]
        /\ w[p][0].b = ky.k[1] /\ w[p][0].acc = 0
        /\ \A i \in 1 .. Depth :
             /\ w[p][i].b = TraverseOne(w[p][i - 1].b, ky.k[i + 1], KeepBit(r, i))
             /\ w[p][i].acc = AddLevel(w[p][i - 1].acc, w[p][i - 1].b, v, KeepBit(r, i), i, p)
    BY <2>1 DEF WalksDCF
  <2>3. blocks[p] \in [0 .. Depth -> Block] BY <2>2 DEF Node
  <2>4. blocks[p][0] = ky.k[1] BY <1>1, <2>2
  <2>5. \A i \in 1 .. Depth :
          blocks[p][i] = TraverseOne(blocks[p][i - 1], ky.k[i + 1], KeepBit(r, i))
    <3>. TAKE i \in 1 .. Depth
    <3>1. i \in 0 .. Depth /\ i - 1 \in 0 .. Depth BY <1>1
    <3>2. blocks[p][i] = w[p][i].b /\ blocks[p][i - 1] = w[p][i - 1].b BY <3>1
    <3>3. w[p][i].b = TraverseOne(w[p][i - 1].b, ky.k[i + 1], KeepBit(r, i)) BY <2>2
    <3>. QED BY <3>2, <3>3, Zenon
  <2>6. blocks[p] \in Walks(r, ky) BY <2>3, <2>4, <2>5 DEF Walks
  <2>7. w[p][0].acc = 0 BY <2>2
  <2>8. \A i \in 1 .. Depth :
          w[p][i].acc = AddLevel(w[p][i - 1].acc, w[p][i - 1].b, v, KeepBit(r, i), i, p)
    BY <2>2
  <2>. HIDE DEF blocks
  <2>. QED BY <2>2, <2>6, <2>7, <2>8 DEF ky
<1>4. \A i \in 0 .. Depth :
        IF Prefix(r, i) = Prefix(x, i)
        THEN \A p \in Party : w[p][i].b = path[i].b[p]
        ELSE w[0][i].b = w[1][i].b
  <2>1. \A p \in Party : blocks[p] \in Walks(r, KeyPair(Path(x, draw), v)[p]) BY <1>3
  <2>. HIDE DEF blocks
  <2>2. \A i \in 0 .. Depth :
          IF Prefix(r, i) = Prefix(x, i)
          THEN \A p \in Party : blocks[p][i] = Path(x, draw)[i].b[p]
          ELSE blocks[0][i] = blocks[1][i]
    BY <2>1, WalksOnOrOff
  <2>3. \A p \in Party, i \in 0 .. Depth : blocks[p][i] = w[p][i].b BY DEF blocks
  <2>. QED BY <2>2, <2>3 DEF Party
<1>5. \A i \in 0 .. Depth :
        path[i].b \in [Party -> Block] /\ path[i].b[0].t # path[i].b[1].t
  BY PathApart, Zenon
<1>6. /\ g \in [0 .. Depth -> Value] /\ g[0].alpha = 0
      /\ \A i \in 1 .. Depth : g[i] = AddValue(g[i - 1], path[i - 1].b, KeepBit(x, i),
                                      Correct(x, payload, gt, draw, i, g[i - 1].alpha))
  BY SMTT(60) DEF ValueLevels
<1>7. \A i \in 1 .. Depth :
        /\ v[i] \in Int /\ g[i].alpha \in Int /\ g[i - 1].alpha \in Int
        /\ Congruent(g[i].alpha,
             g[i - 1].alpha - ConvertV[path[i - 1].b[1].s][KeepBit(x, i)]
               + ConvertV[path[i - 1].b[0].s][KeepBit(x, i)]
               + SignOf(path[i - 1].b[1].t) * v[i])
  <2>. TAKE i \in 1 .. Depth
  <2>1. g[i - 1] \in Value /\ g[i] \in Value BY <1>1, <1>6
  <2>. DEFINE c == Correct(x, payload, gt, draw, i, g[i - 1].alpha)
  <2>2. /\ c \in Int
        /\ Congruent(AddValue(g[i - 1], path[i - 1].b, KeepBit(x, i), c).alpha,
             g[i - 1].alpha - ConvertV[path[i - 1].b[1].s][KeepBit(x, i)]
               + ConvertV[path[i - 1].b[0].s][KeepBit(x, i)]
               + SignOf(path[i - 1].b[1].t) * c)
    BY <2>1, ValueStep, Zenon
  <2>3. v[i] = c OBVIOUS
  <2>4. g[i] = AddValue(g[i - 1], path[i - 1].b, KeepBit(x, i), c) BY <1>6
  <2>. HIDE DEF c, path
  <2>5. g[i].alpha \in Int /\ g[i - 1].alpha \in Int BY <2>1, SMTT(60) DEF Value
  <2>. QED BY <2>2, <2>3, <2>4, <2>5
<1>8. \A i \in 1 .. Depth :
        Congruent(g[i - 1].alpha - ConvertV[path[i - 1].b[1].s][1 - KeepBit(x, i)]
                    + ConvertV[path[i - 1].b[0].s][1 - KeepBit(x, i)]
                    + SignOf(path[i - 1].b[1].t) * v[i],
                  (IF KeepBit(x, i) = 1 THEN 1 - gt ELSE gt) * payload)
  <2>. TAKE i \in 1 .. Depth
  <2>. DEFINE b == path[i - 1].b
              keep == KeepBit(x, i)
              alpha == g[i - 1].alpha
  <2>1. b \in [Party -> Block] BY <1>1, <1>5
  <2>2. keep \in Side BY PrefixSteps
  <2>3. alpha \in Int BY <1>7
  <2>4. v[i] = ValueCorrection(b, keep, payload, gt, alpha) BY DEF Correct
  <2>. HIDE DEF b, keep, alpha
  <2>5. Congruent(alpha - ConvertV[b[1].s][1 - keep] + ConvertV[b[0].s][1 - keep]
                    + SignOf(b[1].t) * ValueCorrection(b, keep, payload, gt, alpha),
                  (IF keep = 1 THEN 1 - gt ELSE gt) * payload)
    BY <2>1, <2>2, <2>3, LeavingSum
  <2>. QED BY <2>4, <2>5 DEF b, keep, alpha
<1>. HIDE DEF path, blocks
<1>9. \A i \in 1 .. Depth :
        /\ Prefix(r, i - 1) \in Nat /\ Prefix(x, i - 1) \in Nat
        /\ KeepBit(r, i) \in Side /\ KeepBit(x, i) \in Side
        /\ Prefix(r, i) = 2 * Prefix(r, i - 1) + KeepBit(r, i)
        /\ Prefix(x, i) = 2 * Prefix(x, i - 1) + KeepBit(x, i)
  <2>. TAKE i \in 1 .. Depth
  <2>1. i - 1 \in 0 .. Depth BY <1>1
  <2>. QED BY <2>1, PrefixSteps
<1>10. \A i \in 0 .. Depth, p \in Party : w[p][i].acc \in Int /\ w[p][i].b \in Block
  BY <1>3 DEF Node
<1>11. 0 \in S
  <2>1. Prefix(r, 0) = Prefix(x, 0) BY PrefixSteps
  <2>2. w[0][0].acc + w[1][0].acc = 0 BY <1>3 DEF Party
  <2>3. Congruent(0, 0) BY CongruentSelf
  <2>. QED BY <1>1, <1>6, <2>1, <2>2, <2>3
<1>12. \A i \in 1 .. Depth : i - 1 \in S => i \in S
  <2>. TAKE i \in 1 .. Depth
  <2>. HAVE i - 1 \in S
  <2>. SUFFICES Holds(i) BY <1>1
  <2>1. Holds(i - 1) OBVIOUS
  <2>. HIDE DEF S
  <2>. DEFINE b == path[i - 1].b
              a0 == w[0][i - 1].acc
              a1 == w[1][i - 1].acc
              rb == KeepBit(r, i)
              n0 == w[0][i].acc
              n1 == w[1][i].acc
  <2>2. i \in 0 .. Depth /\ i - 1 \in 0 .. Depth BY <1>1
  <2>3. b \in [Party -> Block] /\ b[0].t # b[1].t BY <1>5, <2>2
  <2>4. a0 \in Int /\ a1 \in Int /\ n0 \in Int /\ n1 \in Int BY <1>10, <2>2 DEF Party
  <2>5. rb \in Side /\ v[i] \in Int /\ g[i].alpha \in Int /\ g[i - 1].alpha \in Int
    BY <1>7, <1>9
  <2>6. CASE Prefix(r, i - 1) = Prefix(x, i - 1)
    <3>. DEFINE d == ConvertV[b[0].s][rb] - ConvertV[b[1].s][rb] + SignOf(b[1].t) * v[i]
                alpha == g[i - 1].alpha
    <3>1. d \in Int
      <4>. HIDE DEF b, rb
      <4>1. b[0].s \in Seed /\ b[1].s \in Seed BY <2>3 DEF Party, Block
      <4>2. ConvertV[b[0].s][rb] \in Int /\ ConvertV[b[1].s][rb] \in Int
        BY <2>5, <4>1, FssAssumption DEF Number
      <4>. QED BY <2>5, <4>2 DEF SignOf
    <3>2. w[0][i - 1].b = b[0] /\ w[1][i - 1].b = b[1] BY <1>4, <2>2, <2>6 DEF Party
    <3>3. n0 = AddLevel(a0, b[0], v, rb, i, 0) /\ n1 = AddLevel(a1, b[1], v, rb, i, 1)
      BY <1>3, <3>2 DEF Party
    <3>4. Congruent(n0 + n1, (a0 + a1) + d)
      <4>. HIDE DEF b, rb, a0, a1, n0, n1
      <4>1. Congruent(n0 + n1, (a0 + a1) - ConvertV[b[1].s][rb] + ConvertV[b[0].s][rb]
                                 + SignOf(b[1].t) * v[i])
        BY <2>3, <2>4, <2>5, <3>3, LevelOnPath
      <4>2. b[0].s \in Seed /\ b[1].s \in Seed BY <2>3 DEF Party, Block
      <4>3. ConvertV[b[0].s][rb] \in Int /\ ConvertV[b[1].s][rb] \in Int
        BY <2>5, <4>2, FssAssumption DEF Number
      <4>4. SignOf(b[1].t) * v[i] \in Int BY <2>5 DEF SignOf
      <4>5. (a0 + a1) - ConvertV[b[1].s][rb] + ConvertV[b[0].s][rb] + SignOf(b[1].t) * v[i]
              = (a0 + a1) + d
        BY <2>4, <4>3, <4>4
      <4>. QED BY <4>1, <4>5
    <3>5. Congruent((a0 + a1) + d, alpha + d)
      <4>1. Congruent(a0 + a1, alpha) BY <2>1, <2>6
      <4>. HIDE DEF a0, a1, alpha, d
      <4>2. a0 + a1 \in Int /\ alpha \in Int /\ Congruent(d, d)
        BY <2>4, <2>5, <3>1, CongruentSelf DEF alpha
      <4>. QED BY <3>1, <4>1, <4>2, CongruentSum
    <3>6. Congruent(n0 + n1, alpha + d)
      <4>1. n0 + n1 \in Int /\ (a0 + a1) + d \in Int /\ alpha + d \in Int BY <2>4, <2>5, <3>1
      <4>. HIDE DEF a0, a1, n0, n1, alpha, d
      <4>. QED BY <3>4, <3>5, <4>1, CongruentTrans
    <3>7. CASE rb = KeepBit(x, i)
      <4>1. Prefix(r, i) = Prefix(x, i) BY <1>9, <2>6, <3>7
      <4>2. Congruent(g[i].alpha, alpha + d)
        <5>1. Congruent(g[i].alpha, alpha - ConvertV[b[1].s][rb] + ConvertV[b[0].s][rb]
                                      + SignOf(b[1].t) * v[i])
          BY <1>7, <3>7
        <5>. HIDE DEF b, rb
        <5>2. b[0].s \in Seed /\ b[1].s \in Seed BY <2>3 DEF Party, Block
        <5>3. ConvertV[b[0].s][rb] \in Int /\ ConvertV[b[1].s][rb] \in Int
          BY <2>5, <5>2, FssAssumption DEF Number
        <5>4. SignOf(b[1].t) * v[i] \in Int BY <2>5 DEF SignOf
        <5>5. alpha - ConvertV[b[1].s][rb] + ConvertV[b[0].s][rb] + SignOf(b[1].t) * v[i]
                = alpha + d
          BY <2>5, <5>3, <5>4
        <5>. QED BY <5>1, <5>5
      <4>3. Congruent(n0 + n1, g[i].alpha)
        <5>1. n0 + n1 \in Int /\ alpha + d \in Int BY <2>4, <2>5, <3>1
        <5>. HIDE DEF n0, n1, alpha, d
        <5>2. Congruent(alpha + d, g[i].alpha) BY <2>5, <4>2, <5>1, CongruentSym
        <5>. QED BY <2>5, <3>6, <5>1, <5>2, CongruentTrans
      <4>. QED BY <4>1, <4>3
    <3>8. CASE rb # KeepBit(x, i)
      <4>1. rb = 1 - KeepBit(x, i) /\ KeepBit(x, i) \in Side BY <1>9, <3>8 DEF Side
      <4>2. /\ Prefix(r, i) # Prefix(x, i)
            /\ Prefix(r, i) < Prefix(x, i) <=> KeepBit(x, i) = 1
        BY <1>9, <2>6, <4>1 DEF Side
      <4>3. Congruent(alpha + d, (IF KeepBit(x, i) = 1 THEN 1 - gt ELSE gt) * payload)
        <5>1. Congruent(alpha - ConvertV[b[1].s][rb] + ConvertV[b[0].s][rb]
                          + SignOf(b[1].t) * v[i],
                        (IF KeepBit(x, i) = 1 THEN 1 - gt ELSE gt) * payload)
          BY <1>8, <4>1
        <5>. HIDE DEF b, rb
        <5>2. b[0].s \in Seed /\ b[1].s \in Seed BY <2>3 DEF Party, Block
        <5>3. ConvertV[b[0].s][rb] \in Int /\ ConvertV[b[1].s][rb] \in Int
          BY <2>5, <5>2, FssAssumption DEF Number
        <5>4. SignOf(b[1].t) * v[i] \in Int BY <2>5 DEF SignOf
        <5>5. alpha - ConvertV[b[1].s][rb] + ConvertV[b[0].s][rb] + SignOf(b[1].t) * v[i]
                = alpha + d
          BY <2>5, <5>3, <5>4
        <5>. QED BY <5>1, <5>5
      <4>4. Want(i) = (IF KeepBit(x, i) = 1 THEN 1 - gt ELSE gt) * payload BY <4>2
      <4>5. Congruent(n0 + n1, Want(i))
        <5>1. n0 + n1 \in Int /\ alpha + d \in Int BY <2>4, <2>5, <3>1
        <5>2. (IF KeepBit(x, i) = 1 THEN 1 - gt ELSE gt) * payload \in Int
          <6>1. (IF KeepBit(x, i) = 1 THEN 1 - gt ELSE gt) \in Int BY SMTT(60) DEF Side
          <6>. QED BY <6>1
        <5>. DEFINE z == (IF KeepBit(x, i) = 1 THEN 1 - gt ELSE gt) * payload
        <5>3. Want(i) = z /\ Congruent(alpha + d, z) /\ z \in Int BY <4>3, <4>4, <5>2
        <5>. HIDE DEF n0, n1, alpha, d, z, Want
        <5>. QED BY <3>6, <5>1, <5>3, CongruentTrans
      <4>. QED BY <4>5
    <3>. QED BY <3>7, <3>8
  <2>7. CASE Prefix(r, i - 1) # Prefix(x, i - 1)
    <3>. DEFINE c == w[0][i - 1].b
    <3>1. w[1][i - 1].b = c /\ c \in Block BY <1>4, <1>10, <2>2, <2>7 DEF Party
    <3>2. n0 = AddLevel(a0, c, v, rb, i, 0) /\ n1 = AddLevel(a1, c, v, rb, i, 1)
      BY <1>3, <3>1 DEF Party
    <3>3. Congruent(n0 + n1, a0 + a1)
      <4>. HIDE DEF c, rb, a0, a1, n0, n1
      <4>. QED BY <2>4, <2>5, <3>1, <3>2, LevelOffPath
    <3>4. /\ Prefix(r, i) # Prefix(x, i)
          /\ Prefix(r, i) < Prefix(x, i) <=> Prefix(r, i - 1) < Prefix(x, i - 1)
      BY <1>9, <2>7 DEF Side
    <3>5. Want(i) = Want(i - 1) BY <2>7, <3>4
    <3>6. Want(i - 1) \in Int
      <4>1. (IF Prefix(r, i - 1) < Prefix(x, i - 1) THEN 1 - gt ELSE gt) \in Int BY DEF Side
      <4>2. (IF Prefix(r, i - 1) < Prefix(x, i - 1) THEN 1 - gt ELSE gt) * payload \in Int
        BY <4>1
      <4>. QED BY <2>7, <4>2
    <3>7. Congruent(a0 + a1, Want(i - 1)) BY <2>1
    <3>8. a0 + a1 \in Int /\ n0 + n1 \in Int BY <2>4
    <3>9. Congruent(n0 + n1, Want(i))
      <4>. HIDE DEF a0, a1, n0, n1, Want
      <4>. QED BY <3>3, <3>5, <3>6, <3>7, <3>8, CongruentTrans
    <3>. QED BY <3>9
  <2>. QED BY <2>6, <2>7
<1>13. \A i \in 0 .. Depth : i \in S
  <2>. HIDE DEF S
  <2>. QED BY <1>1, <1>11, <1>12, IntervalInduction
<1>. QED BY <1>13

\* The comparison function, on every row: the shares that the two parties evaluate add
\* up to the payload below x (above x when gt = 1) and to zero elsewhere.
THEOREM ComparisonCorrect ==
  ASSUME NEW x \in 0 .. NumLeaves - 1, NEW payload \in Int, NEW gt \in {0, 1},
         NEW draw \in RootPair, NEW r \in 0 .. NumLeaves - 1
  PROVE  LET ky == KeyGenDCF(x, payload, gt, draw)
         IN  (EvalOneDCF(r, ky[0], 0) + EvalOneDCF(r, ky[1], 1)) % Modulus
               = (IF r = x THEN 0 ELSE (IF r < x THEN 1 - gt ELSE gt) * payload) % Modulus
<1>. x \in Nat OBVIOUS
<1> DEFINE path == Path(x, draw)
           values == ValuesDCF(path, x, payload, gt)
           leaf == path[Depth].b
           v == Append(values.v, LastValue(leaf, values.alpha))
           ky == KeyPair(path, v)
           want == IF r = x THEN 0 ELSE (IF r < x THEN 1 - gt ELSE gt) * payload
<1>0. Depth \in Nat /\ gt \in Side BY FssAssumption DEF Side
<1>1. KeyGenDCF(x, payload, gt, draw) = ky BY DEF KeyGenDCF, KeysDCF
<1>2. PICK g : g \in ValueLevels(x, payload, gt, draw) /\ values = g[Depth]
  BY <1>0, ValuesDCFLevels
<1>3. \A i \in 1 .. Depth + 1 :
        v[i] = IF i = Depth + 1 THEN LastValue(leaf, values.alpha)
               ELSE Correct(x, payload, gt, draw, i, g[i - 1].alpha)
  <2>. DEFINE last == LastValue(leaf, values.alpha)
              u == values.v
  <2>1. /\ g[Depth].v \in Seq(Int) /\ Len(g[Depth].v) = Depth
        /\ \A i \in 1 .. Depth :
             g[Depth].v[i] = Correct(x, payload, gt, draw, i, g[i - 1].alpha)
    BY <1>0, <1>2, KeyValues, Zenon
  <2>2. u = g[Depth].v /\ v = Append(u, last) BY <1>2
  <2>. HIDE DEF last, u, v, values
  <2>3. v[Depth + 1] = last BY <1>0, <2>1, <2>2
  <2>4. \A i \in 1 .. Depth : v[i] = u[i] BY <1>0, <2>1, <2>2
  <2>5. \A i \in 1 .. Depth + 1 : i # Depth + 1 => i \in 1 .. Depth BY <1>0
  <2>. QED BY <2>1, <2>2, <2>3, <2>4, <2>5 DEF last
<1>4. v[Depth + 1] = LastValue(leaf, values.alpha)
  <2>1. Depth + 1 \in 1 .. Depth + 1 BY <1>0
  <2>. HIDE DEF v
  <2>. QED BY <1>3, <2>1
<1>5. \A i \in 1 .. Depth : v[i] = Correct(x, payload, gt, draw, i, g[i - 1].alpha)
  <2>1. \A i \in 1 .. Depth : i \in 1 .. Depth + 1 /\ i # Depth + 1 BY <1>0
  <2>. HIDE DEF v
  <2>. QED BY <1>3, <2>1
<1>6. g \in [0 .. Depth -> Value] BY <1>2 DEF ValueLevels
<1>7. leaf \in [Party -> Block] /\ leaf[0].t # leaf[1].t
  <2>1. Depth \in 0 .. Depth BY <1>0
  <2>. QED BY <2>1, PathApart, Zenon
<1>8. \A i \in 1 .. Depth + 1 : v[i] \in Int
  <2>. HIDE DEF v, values, leaf
  <2>1. \A i \in 1 .. Depth : v[i] \in Int
    <3>. TAKE i \in 1 .. Depth
    <3>1. g[i - 1] \in Value BY <1>0, <1>6
    <3>2. Correct(x, payload, gt, draw, i, g[i - 1].alpha) \in Int BY <1>0, <3>1, ValueStep, Zenon
    <3>. QED BY <1>5, <3>2
  <2>2. v[Depth + 1] \in Int
    <3>. DEFINE n == SignOf(leaf[1].t)
                       * (Convert[leaf[1].s] - Convert[leaf[0].s] - values.alpha)
    <3>1. leaf[0].s \in Seed /\ leaf[1].s \in Seed BY <1>7 DEF Party, Block
    <3>2. Convert[leaf[0].s] \in Int /\ Convert[leaf[1].s] \in Int
      BY <3>1, FssAssumption DEF Number
    <3>3. values.alpha \in Int BY <1>0, <1>2, <1>6 DEF Value
    <3>4. n \in Int BY <3>2, <3>3 DEF SignOf
    <3>5. v[Depth + 1] = Reduced(n) BY <1>4 DEF LastValue
    <3>. HIDE DEF n
    <3>. QED BY <3>4, <3>5, CongruentReduced
  <2>. QED BY <1>0, <2>1, <2>2
<1>9. \A p \in Party : WalkKey(ky[p]) /\ ky[p].v = v
  <2>. HIDE DEF v
  <2>1. \A p \in Party : WalkKey(ky[p]) BY KeyIsWalkKey
  <2>2. \A p \in Party : ky[p].v = v BY KeyWords
  <2>. QED BY <2>1, <2>2
<1>. HIDE DEF ky, v, values, leaf
<1>10. \A p \in Party : \E w : w \in WalksDCF(r, ky[p], p)
                 /\ EvalOneDCF(r, ky[p], p) = AddLeaf(w[Depth].acc, w[Depth].b, v, p)
  <2>. TAKE p \in Party
  <2>1. \A i \in 1 .. Depth : ky[p].v[i] \in Int BY <1>0, <1>8, <1>9
  <2>2. WalkKey(ky[p]) /\ ky[p].v = v BY <1>9
  <2>3. \E w : w \in WalksDCF(r, ky[p], p)
               /\ EvalOneDCF(r, ky[p], p) = AddLeaf(w[Depth].acc, w[Depth].b, ky[p].v, p)
    BY <2>1, <2>2, EvalOneDCFWalks
  <2>. QED BY <2>2, <2>3
<1>11. PICK w0 : w0 \in WalksDCF(r, ky[0], 0)
                 /\ EvalOneDCF(r, ky[0], 0) = AddLeaf(w0[Depth].acc, w0[Depth].b, v, 0)
  BY <1>10 DEF Party
<1>12. PICK w1 : w1 \in WalksDCF(r, ky[1], 1)
                 /\ EvalOneDCF(r, ky[1], 1) = AddLeaf(w1[Depth].acc, w1[Depth].b, v, 1)
  BY <1>10 DEF Party
<1> DEFINE w == [p \in Party |-> IF p = 0 THEN w0 ELSE w1]
<1>13. w[0] = w0 /\ w[1] = w1 BY DEF Party
<1>14. \A p \in Party : w[p] \in WalksDCF(r, KeyPair(Path(x, draw), v)[p], p)
  <2>1. \A p \in Party : w[p] \in WalksDCF(r, ky[p], p)
    <3>. HIDE DEF w
    <3>. QED BY <1>11, <1>12, <1>13 DEF Party
  <2>. QED BY <2>1 DEF ky
<1>. HIDE DEF w, path
<1>15. Depth \in 0 .. Depth /\ Prefix(r, Depth) = r /\ Prefix(x, Depth) = x
  BY <1>0, PrefixSteps
<1>16. Congruent(w[0][Depth].acc + w[1][Depth].acc,
                 IF r = x THEN g[Depth].alpha ELSE (IF r < x THEN 1 - gt ELSE gt) * payload)
  <2>1. \A i \in 0 .. Depth :
          Congruent(w[0][i].acc + w[1][i].acc,
                    IF Prefix(r, i) = Prefix(x, i) THEN g[i].alpha
                    ELSE (IF Prefix(r, i) < Prefix(x, i) THEN 1 - gt ELSE gt) * payload)
    BY <1>0, <1>2, <1>5, <1>14, SharesOnOrOff
  <2>. QED BY <1>15, <2>1
<1>17. /\ w0[Depth].acc \in Int /\ w1[Depth].acc \in Int
       /\ w0[Depth].b \in Block /\ w1[Depth].b \in Block
  BY <1>11, <1>12, <1>15 DEF WalksDCF, Node
<1>18. IF r = x THEN w0[Depth].b = leaf[0] /\ w1[Depth].b = leaf[1]
       ELSE w0[Depth].b = w1[Depth].b
  <2>. DEFINE blocks == [p \in Party |-> [i \in 0 .. Depth |-> w[p][i].b]]
  <2>1. \A p \in Party : blocks[p] \in Walks(r, KeyPair(Path(x, draw), v)[p])
    <3>. TAKE p \in Party
    <3>. DEFINE k == KeyPair(Path(x, draw), v)[p]
    <3>1. w[p] \in WalksDCF(r, k, p) BY <1>14
    <3>. HIDE DEF k
    <3>2. /\ w[p] \in [0 .. Depth -> Node]
          /\ w[p][0].b = k.k[1]
          /\ \A i \in 1 .. Depth :
               w[p][i].b = TraverseOne(w[p][i - 1].b, k.k[i + 1], KeepBit(r, i))
      BY <3>1 DEF WalksDCF
    <3>3. blocks[p] \in [0 .. Depth -> Block] BY <3>2 DEF Node
    <3>4. blocks[p][0] = k.k[1] BY <1>0, <3>2
    <3>5. \A i \in 1 .. Depth :
            blocks[p][i] = TraverseOne(blocks[p][i - 1], k.k[i + 1], KeepBit(r, i))
      <4>. TAKE i \in 1 .. Depth
      <4>1. i \in 0 .. Depth /\ i - 1 \in 0 .. Depth BY <1>0
      <4>2. blocks[p][i] = w[p][i].b /\ blocks[p][i - 1] = w[p][i - 1].b BY <4>1
      <4>3. w[p][i].b = TraverseOne(w[p][i - 1].b, k.k[i + 1], KeepBit(r, i)) BY <3>2
      <4>. QED BY <4>2, <4>3, Zenon
    <3>6. blocks[p] \in Walks(r, k) BY <3>3, <3>4, <3>5 DEF Walks
    <3>. QED BY <3>6 DEF k
  <2>2. \A p \in Party : blocks[p][Depth] = w[p][Depth].b BY <1>15
  <2>. HIDE DEF blocks
  <2>3. \A i \in 0 .. Depth :
          IF Prefix(r, i) = Prefix(x, i)
          THEN \A p \in Party : blocks[p][i] = Path(x, draw)[i].b[p]
          ELSE blocks[0][i] = blocks[1][i]
    BY <2>1, WalksOnOrOff
  <2>. QED BY <1>13, <1>15, <2>2, <2>3 DEF Party, leaf, path
<1> DEFINE e0 == EvalOneDCF(r, ky[0], 0)
           e1 == EvalOneDCF(r, ky[1], 1)
           a0 == w0[Depth].acc
           a1 == w1[Depth].acc
<1>19. want \in Int
  <2>1. (IF r < x THEN 1 - gt ELSE gt) \in Int OBVIOUS
  <2>. QED BY <2>1
<1>20. v[Depth + 1] \in Int BY <1>0, <1>8
<1>21. e0 \in Int /\ e1 \in Int
  <2>1. \A b \in Block, a \in Int : AddLeaf(a, b, v, 0) \in Int /\ AddLeaf(a, b, v, 1) \in Int
    BY <1>20, LeafOffPath
  <2>. QED BY <1>11, <1>12, <1>17, <2>1
<1>22. CASE r = x
  <2>1. Congruent(a0 + a1, values.alpha) BY <1>2, <1>13, <1>16, <1>22
  <2>2. values.alpha \in Int BY <1>2, <1>6, <1>15 DEF Value
  <2>3. e0 = AddLeaf(a0, leaf[0], v, 0) /\ e1 = AddLeaf(a1, leaf[1], v, 1)
    BY <1>11, <1>12, <1>18, <1>22
  <2>4. a0 \in Int /\ a1 \in Int BY <1>17
  <2>. HIDE DEF a0, a1, e0, e1
  <2>5. Congruent(e0 + e1, 0) BY <1>4, <1>7, <2>1, <2>2, <2>3, <2>4, LeafOnPath
  <2>6. (e0 + e1) % Modulus = 0 % Modulus BY <1>21, <2>5, CongruentResidue
  <2>. QED BY <1>1, <1>22, <2>6 DEF e0, e1
<1>23. CASE r # x
  <2>1. Congruent(a0 + a1, want) BY <1>13, <1>16, <1>23
  <2>. DEFINE c == w0[Depth].b
  <2>2. e0 = AddLeaf(a0, c, v, 0) /\ e1 = AddLeaf(a1, c, v, 1) /\ c \in Block
    BY <1>11, <1>12, <1>17, <1>18, <1>23
  <2>3. a0 \in Int /\ a1 \in Int BY <1>17
  <2>. HIDE DEF a0, a1, e0, e1, want, c
  <2>4. Congruent(e0 + e1, a0 + a1) BY <1>20, <2>2, <2>3, LeafOffPath
  <2>5. Congruent(e0 + e1, want) BY <1>19, <1>21, <2>1, <2>3, <2>4, CongruentTrans
  <2>6. (e0 + e1) % Modulus = want % Modulus BY <1>19, <1>21, <2>5, CongruentResidue
  <2>. QED BY <1>1, <2>6 DEF e0, e1, want
<1>. QED BY <1>22, <1>23

-----------------------------------------------------------------------------
\* The division of the rows.

\* The chunks fit in the rows, and none is empty when there are rows for all.
LEMMA SizeBounds ==
  ASSUME NEW n \in Nat, NEW c \in Nat \ {0}
  PROVE  /\ ChunkSize(n, c) \in Nat
         /\ c * ChunkSize(n, c) <= n
         /\ c <= n => ChunkSize(n, c) > 0
BY DEF ChunkSize

\* Multiplication keeps an order, which the arithmetic below needs step by step.
LEMMA TimesMonotone ==
  ASSUME NEW a \in Nat, NEW b \in Nat, NEW z \in Nat, a <= b
  PROVE  a * z <= b * z
OBVIOUS

\* Every row is evaluated: for every number of rows and threads, each row is in the
\* chunk of some thread.
THEOREM ChunksCover ==
  ASSUME NEW n \in Nat, NEW c \in Nat \ {0}
  PROVE  \A r \in 0 .. n - 1 : \E th \in Thread(c) : r \in Rows(n, c, th)
<1> DEFINE z == ChunkSize(n, c)
<1>0. z \in Nat BY SizeBounds
<1>. SUFFICES ASSUME NEW r \in 0 .. n - 1
              PROVE  \E th \in Thread(c) : r \in Rows(n, c, th)
  OBVIOUS
<1>. HIDE DEF z
<1>1. CASE (c - 1) * z <= r
  <2>1. r \in Rows(n, c, c - 1) BY <1>0, <1>1 DEF Rows, FirstRow, LastRow, z
  <2>. QED BY <2>1 DEF Thread
<1>2. CASE r < (c - 1) * z
  <2>1. z > 0 BY <1>0, <1>2
  <2> DEFINE th == r \div z
  <2>2. th \in Nat /\ th * z <= r /\ r < (th + 1) * z BY <1>0, <2>1
  <2>. HIDE DEF th
  <2>3. th < c - 1
    <3>. SUFFICES ASSUME c - 1 <= th PROVE FALSE BY <2>2
    <3>1. (c - 1) * z <= th * z BY <1>0, <2>2, TimesMonotone
    <3>. QED BY <1>0, <1>2, <2>2, <3>1
  <2>4. r \in Rows(n, c, th)
    <3>1. FirstRow(n, c, th) <= r BY <2>2 DEF FirstRow, z
    <3>2. LastRow(n, c, th) = (th + 1) * z - 1 BY <2>2, <2>3 DEF LastRow, z
    <3>3. r <= LastRow(n, c, th) BY <1>0, <2>2, <3>2
    <3>. QED BY <1>0, <2>2, <3>1, <3>2, <3>3 DEF Rows, FirstRow, z
  <2>. QED BY <2>2, <2>3, <2>4 DEF Thread
<1>. QED BY <1>0, <1>1, <1>2

\* No row is evaluated twice: the chunks of two threads have no row in common, so
\* the workers write to different places.
THEOREM ChunksDisjoint ==
  ASSUME NEW n \in Nat, NEW c \in Nat \ {0},
         NEW th1 \in Thread(c), NEW th2 \in Thread(c), th1 # th2
  PROVE  Rows(n, c, th1) \cap Rows(n, c, th2) = {}
<1> DEFINE z == ChunkSize(n, c)
<1>0. z \in Nat BY SizeBounds
<1>. HIDE DEF z
<1>1. ASSUME NEW a \in Thread(c), NEW b \in Thread(c), a < b
      PROVE  /\ LastRow(n, c, a) < FirstRow(n, c, b)
             /\ LastRow(n, c, a) \in Int /\ FirstRow(n, c, a) \in Int
             /\ FirstRow(n, c, b) \in Int
  <2>1. a \in Nat /\ b \in Nat /\ a # c - 1 BY <1>1 DEF Thread
  <2>2. (a + 1) * z <= b * z BY <1>0, <1>1, <2>1, TimesMonotone
  <2>3. (a + 1) * z \in Int /\ b * z \in Int /\ a * z \in Int BY <1>0, <2>1
  <2>4. LastRow(n, c, a) = (a + 1) * z - 1 BY <2>1 DEF LastRow, z
  <2>5. FirstRow(n, c, b) = b * z /\ FirstRow(n, c, a) = a * z BY DEF FirstRow, z
  <2>. QED BY <2>2, <2>3, <2>4, <2>5
<1>2. \A th \in Thread(c) : LastRow(n, c, th) \in Int
  BY <1>0 DEF LastRow, Thread, z
<1>3. CASE th1 < th2 BY <1>1, <1>2, <1>3 DEF Rows
<1>4. CASE th2 < th1 BY <1>1, <1>2, <1>4 DEF Rows
<1>. QED BY <1>3, <1>4 DEF Thread

\* With at most as many threads as rows no worker leaves the table.
THEOREM ChunksInTable ==
  ASSUME NEW n \in Nat, NEW c \in Nat \ {0}, c <= n, NEW th \in Thread(c)
  PROVE  0 <= FirstRow(n, c, th) /\ FirstRow(n, c, th) <= LastRow(n, c, th)
         /\ LastRow(n, c, th) < n
<1> DEFINE z == ChunkSize(n, c)
<1>1. z \in Nat /\ z > 0 /\ c * z <= n BY SizeBounds
<1>2. th \in Nat /\ th + 1 <= c BY DEF Thread
<1>3. FirstRow(n, c, th) = th * z BY DEF FirstRow
<1>. HIDE DEF z
<1>4. th * z \in Nat /\ (th + 1) * z = th * z + z BY <1>1, <1>2
<1>5. (th + 1) * z <= c * z BY <1>1, <1>2, TimesMonotone
<1>6. c * z \in Nat BY <1>1
<1>7. CASE th = c - 1
  <2>1. LastRow(n, c, th) = n - 1 BY <1>7 DEF LastRow
  <2>. QED BY <1>1, <1>3, <1>4, <1>5, <1>6, <2>1
<1>8. CASE th # c - 1
  <2>1. LastRow(n, c, th) = (th + 1) * z - 1 BY <1>8 DEF LastRow, z
  <2>. QED BY <1>1, <1>3, <1>4, <1>5, <1>6, <2>1
<1>. QED BY <1>7, <1>8

-----------------------------------------------------------------------------
(* Recursive functions: when F makes a value from values at lower ranks,   *)
(* there is exactly one function that satisfies the recursion, and that is *)
(* what CHOOSE gives.                                                      *)

\* F makes the value of a function at n from its values at lower ranks alone.
Lower(S, T, rank) ==
  {F \in [[S -> T] -> [S -> T]] : \A g, h \in [S -> T] : \A n \in S :
     (\A m \in S : rank[m] < rank[n] => g[m] = h[m]) => F[g][n] = F[h][n]}

\* The functions that F leaves as they are.
Fixed(S, T, F) == {g \in [S -> T] : F[g] = g}

\* A function may be defined by recursion over a rank.
LEMMA RankRecursion ==
  ASSUME NEW d \in Nat, NEW S, NEW T, NEW a \in [S -> T], NEW rank \in [S -> 0 .. d],
         NEW F \in Lower(S, T, rank)
  PROVE  \E g : g \in Fixed(S, T, F)
<1>0. /\ F \in [[S -> T] -> [S -> T]]
      /\ \A g, h \in [S -> T] : \A n \in S :
           (\A m \in S : rank[m] < rank[n] => g[m] = h[m]) => F[g][n] = F[h][n]
  BY DEF Lower
<1> DEFINE A == [S -> T]
           step == [i \in 1 .. d + 1 |-> F]
<1>1. d + 1 \in Nat /\ F \in [A -> A] /\ a \in A BY <1>0
<1>. HIDE DEF A
<1>2. step \in Steps(d + 1, A) BY <1>1 DEF Steps
<1>. HIDE DEF step
<1>3. \E g : g \in Runs(d + 1, A, a, step) BY <1>1, <1>2, Recursion, Zenon
<1>4. PICK r \in [0 .. d + 1 -> A] :
        r[0] = a /\ \A i \in 1 .. d + 1 : r[i] = step[i][r[i - 1]]
  BY <1>3 DEF Runs
<1>5. \A i \in 1 .. d + 1 : r[i] = F[r[i - 1]] BY <1>4 DEF step
<1> DEFINE Holds(i) == \A n \in S : rank[n] < i => F[r[i]][n] = r[i][n]
           H == {i \in 0 .. d + 1 : Holds(i)}
<1>6. 0 \in H OBVIOUS
<1>7. \A i \in 1 .. d + 1 : i - 1 \in H => i \in H
  <2>. TAKE i \in 1 .. d + 1
  <2>. HAVE i - 1 \in H
  <2>. SUFFICES ASSUME NEW n \in S, rank[n] < i PROVE F[r[i]][n] = r[i][n]
    OBVIOUS
  <2>1. r[i] \in [S -> T] /\ r[i - 1] \in [S -> T] BY <1>4 DEF A
  <2>2. r[i] = F[r[i - 1]] BY <1>5
  <2>3. \A m \in S : rank[m] < rank[n] => r[i - 1][m] = r[i][m]
    <3>. TAKE m \in S
    <3>. HAVE rank[m] < rank[n]
    <3>1. rank[m] < i - 1 OBVIOUS
    <3>2. F[r[i - 1]][m] = r[i - 1][m] BY <3>1
    <3>. QED BY <2>2, <3>2
  <2>4. F[r[i - 1]][n] = F[r[i]][n] BY <1>0, <2>1, <2>3
  <2>. QED BY <2>2, <2>4
<1>8. \A i \in 0 .. d + 1 : i \in H
  <2>. HIDE DEF H
  <2>. QED BY <1>1, <1>6, <1>7, IntervalInduction
<1> DEFINE g == r[d + 1]
<1>9. g \in [S -> T] BY <1>4 DEF A
<1>10. \A n \in S : F[g][n] = g[n]
  <2>. TAKE n \in S
  <2>1. d + 1 \in H BY <1>8
  <2>2. rank[n] < d + 1 OBVIOUS
  <2>. QED BY <2>1, <2>2
<1>11. F[g] \in [S -> T] BY <1>1, <1>9 DEF A
<1>. HIDE DEF g
<1>12. F[g] = g BY <1>9, <1>10, <1>11
<1>. QED BY <1>9, <1>12 DEF Fixed

\* Induction over a rank.
LEMMA RankInduction ==
  ASSUME NEW d \in Nat, NEW S, NEW rank \in [S -> 0 .. d], NEW P,
         \A n \in S : (\A m \in S : rank[m] < rank[n] => m \in P) => n \in P
  PROVE  \A n \in S : n \in P
<1> DEFINE H == {i \in 0 .. d + 1 : \A n \in S : rank[n] < i => n \in P}
<1>1. 0 \in H OBVIOUS
<1>2. \A i \in 1 .. d + 1 : i - 1 \in H => i \in H
  <2>. TAKE i \in 1 .. d + 1
  <2>. HAVE i - 1 \in H
  <2>. SUFFICES ASSUME NEW n \in S, rank[n] < i PROVE n \in P
    OBVIOUS
  <2>1. \A m \in S : rank[m] < rank[n] => rank[m] < i - 1 OBVIOUS
  <2>. QED BY <2>1
<1>3. \A i \in 0 .. d + 1 : i \in H
  <2>. HIDE DEF H
  <2>. QED BY <1>1, <1>2, IntervalInduction
<1>4. d + 1 \in H BY <1>3
<1>. QED BY <1>4

-----------------------------------------------------------------------------
(* Rows of a block: the bits of an index, level by level.                  *)

\* Quotient and remainder are the only ones.
LEMMA DivUnique ==
  ASSUME NEW a \in Int, NEW m \in Nat \ {0}, NEW q \in Int, NEW r \in 0 .. m - 1, a = q * m + r
  PROVE  a \div m = q
<1>1. a % m = r BY ModUnique
<1>2. a = (a \div m) * m + (a % m) /\ a \div m \in Int BY DivMod
<1> DEFINE p == a \div m
<1>3. p \in Int /\ p * m = q * m BY <1>1, <1>2
<1>. HIDE DEF p
<1>4. CASE p >= q + 1
  <2>1. (p - q) * m >= m BY <1>3, <1>4
  <2>. QED BY <1>3, <2>1
<1>5. CASE p <= q - 1
  <2>1. (q - p) * m >= m BY <1>3, <1>5
  <2>. QED BY <1>3, <2>1
<1>6. p = q BY <1>3, <1>4, <1>5
<1>. QED BY <1>6 DEF p

\* Exponents add up.
LEMMA PowerSum == \A a, b \in Nat : 2 ^ (a + b) = 2 ^ a * 2 ^ b
<1>. SUFFICES ASSUME NEW a \in Nat PROVE \A b \in Nat : 2 ^ (a + b) = 2 ^ a * 2 ^ b
  OBVIOUS
<1> DEFINE S == {b \in Nat : 2 ^ (a + b) = 2 ^ a * 2 ^ b}
<1>1. 2 ^ a \in Nat /\ 2 ^ 0 = 1 BY PowerOfTwo
<1>2. 0 \in S
  <2>1. a + 0 = a BY SMT
  <2>. DEFINE x == 2 ^ a
  <2>2. x \in Nat BY <1>1
  <2>. HIDE DEF x
  <2>3. x = x * 1 BY <2>2
  <2>. QED BY <1>1, <2>1, <2>3 DEF x
<1>3. \A b \in Nat : b \in S => b + 1 \in S
  <2>. TAKE b \in Nat
  <2>. HAVE b \in S
  <2>1. 2 ^ (b + 1) = 2 * 2 ^ b /\ 2 ^ ((a + b) + 1) = 2 * 2 ^ (a + b) /\ 2 ^ b \in Nat
        /\ 2 ^ (a + b) \in Nat
    <3>1. a + b \in Nat OBVIOUS
    <3>. QED BY <3>1, PowerOfTwo
  <2>2. (a + b) + 1 = a + (b + 1) OBVIOUS
  <2>3. 2 ^ (a + b) = 2 ^ a * 2 ^ b OBVIOUS
  <2>. DEFINE x == 2 ^ a
              y == 2 ^ b
              z == 2 ^ (b + 1)
  <2>4. x \in Nat /\ y \in Nat /\ z = 2 * y BY <1>1, <2>1
  <2>5. 2 ^ (a + (b + 1)) = 2 * (x * y) BY <2>1, <2>2, <2>3
  <2>. HIDE DEF x, y, z
  <2>6. 2 * (x * y) = x * z BY <2>4
  <2>. QED BY <2>5, <2>6 DEF x, z
<1>4. Nat \subseteq S
  <2>. HIDE DEF S
  <2>. QED BY <1>2, <1>3, NatSet
<1>. QED BY <1>4

\* The rows of an aligned block of 2^e have the same leading bits.
LEMMA BlockPrefix ==
  ASSUME NEW i \in 0 .. Depth, NEW e \in 0 .. Depth - i, NEW k \in Nat, NEW t \in 0 .. 2 ^ e - 1
  PROVE  Prefix(k * 2 ^ e + t, i) = Prefix(k * 2 ^ e, i)
<1> DEFINE m == 2 ^ e
           c == 2 ^ (Depth - i - e)
           n == 2 ^ (Depth - i)
<1>1. Depth \in Nat BY FssAssumption
<1>2. e \in Nat /\ Depth - i - e \in Nat /\ (Depth - i - e) + e = Depth - i BY <1>1
<1>3. n = c * m /\ c \in Nat \ {0} /\ m \in Nat \ {0} BY <1>2, PowerSum, PowerOfTwo
<1>. HIDE DEF m, c, n
<1> DEFINE q == k \div c
           s == k % c
<1>4. q \in Int /\ s \in 0 .. c - 1 /\ k = q * c + s BY <1>3, DivMod
<1>. HIDE DEF q, s
<1>5. n \in Nat \ {0} BY <1>3
<1>6. k * m = q * n + s * m
  <2>1. (q * c + s) * m = q * (c * m) + s * m BY <1>3, <1>4
  <2>. QED BY <1>3, <1>4, <2>1
<1>7. t \in 0 .. m - 1 BY DEF m
<1>8. s * m \in Nat /\ s * m + t \in 0 .. n - 1
  <2>1. s * m \in Nat BY <1>3, <1>4
  <2>2. (s + 1) * m <= c * m BY <1>3, <1>4, TimesMonotone
  <2>3. (s + 1) * m = s * m + m BY <1>3, <1>4
  <2>. QED BY <1>3, <1>7, <2>1, <2>2, <2>3
<1>9. (k * m) \div n = q
  <2>. DEFINE x == k * m
              y == s * m
  <2>1. x \in Int /\ y \in 0 .. n - 1 /\ x = q * n + y
    <3>1. k * m \in Int BY <1>3
    <3>. QED BY <1>5, <1>6, <1>7, <1>8, <3>1
  <2>. HIDE DEF x, y
  <2>2. x \div n = q BY <1>4, <1>5, <2>1, DivUnique
  <2>. QED BY <2>2 DEF x
<1>10. (k * m + t) \div n = q
  <2>. DEFINE x == k * m + t
              y == s * m + t
  <2>1. x \in Int /\ y \in 0 .. n - 1 /\ x = q * n + y
    <3>1. k * m \in Int /\ q * n \in Int BY <1>3, <1>4, <1>5
    <3>. QED BY <1>5, <1>6, <1>7, <1>8, <3>1
  <2>. HIDE DEF x, y
  <2>2. x \div n = q BY <1>4, <1>5, <2>1, DivUnique
  <2>. QED BY <2>2 DEF x
<1>. QED BY <1>9, <1>10 DEF Prefix, m, n

\* Two sequences of blocks that begin together and stay so as long as their rows have
\* the same bits.
StayTogether(r, s, w, u) ==
  /\ w[0] = u[0]
  /\ \A i \in 1 .. Depth : w[i - 1] = u[i - 1] /\ KeepBit(r, i) = KeepBit(s, i) => w[i] = u[i]

\* Walks to rows with the same leading bits go through the same blocks.
LEMMA SameWalk ==
  ASSUME NEW r \in 0 .. NumLeaves - 1, NEW s \in 0 .. NumLeaves - 1,
         NEW w, NEW u, StayTogether(r, s, w, u)
  PROVE  \A i \in 0 .. Depth : Prefix(r, i) = Prefix(s, i) => w[i] = u[i]
<1> DEFINE S == {j \in 0 .. Depth : Prefix(r, j) = Prefix(s, j) => w[j] = u[j]}
<1>1. Depth \in Nat BY FssAssumption
<1>2. 0 \in S BY <1>1 DEF StayTogether
<1>3. \A j \in 1 .. Depth : j - 1 \in S => j \in S
  <2>. TAKE j \in 1 .. Depth
  <2>. HAVE j - 1 \in S
  <2>. SUFFICES ASSUME Prefix(r, j) = Prefix(s, j) PROVE w[j] = u[j]
    BY <1>1
  <2>1. Prefix(r, j - 1) = Prefix(s, j - 1) /\ KeepBit(r, j) = KeepBit(s, j)
    <3>. DEFINE m == Prefix(r, j - 1)
                n == Prefix(s, j - 1)
                a == KeepBit(r, j)
                b == KeepBit(s, j)
    <3>0. j - 1 \in 0 .. Depth BY <1>1
    <3>1. /\ m \in Nat /\ n \in Nat /\ a \in {0, 1} /\ b \in {0, 1}
          /\ Prefix(r, j) = 2 * m + a /\ Prefix(s, j) = 2 * n + b
      BY <3>0, PrefixSteps DEF Side
    <3>. HIDE DEF m, n, a, b
    <3>2. 2 * m + a = 2 * n + b BY <3>1, Zenon
    <3>3. m = n /\ a = b BY <3>1, <3>2
    <3>. QED BY <3>3 DEF m, n, a, b
  <2>2. w[j - 1] = u[j - 1] BY <2>1
  <2>. QED BY <2>1, <2>2 DEF StayTogether
<1>4. \A j \in 0 .. Depth : j \in S
  <2>. HIDE DEF S
  <2>. QED BY <1>1, <1>2, <1>3, IntervalInduction
<1>. QED BY <1>4

-----------------------------------------------------------------------------
(* Slices: the values of a block, written from a place on.                 *)

\* The n values of f from s on, written from place at on.
Slice(f, at, s, n) == [i \in at .. at + n - 1 |-> f[s + (i - at)]]

\* Two slices behind each other are one.
LEMMA SlicesJoin ==
  ASSUME NEW f, NEW at \in Nat, NEW s \in Nat, NEW n \in Nat
  PROVE  /\ Over(Slice(f, at + n, s + n, n), Slice(f, at, s, n)) = Slice(f, at, s, 2 * n)
         /\ Over(Slice(f, at, s, n), <<>>) = Slice(f, at, s, n)
<1> DEFINE left  == Slice(f, at, s, n)
           right == Slice(f, at + n, s + n, n)
           all   == Slice(f, at, s, 2 * n)
<1>1. DOMAIN left = at .. at + n - 1 /\ \A i \in at .. at + n - 1 : left[i] = f[s + (i - at)]
  BY DEF Slice
<1>2. /\ DOMAIN right = at + n .. (at + n) + n - 1
      /\ \A i \in at + n .. (at + n) + n - 1 : right[i] = f[(s + n) + (i - (at + n))]
  BY DEF Slice
<1>3. Over(left, <<>>) = left
  <2>1. DOMAIN <<>> = {} /\ left = [i \in DOMAIN left |-> left[i]] BY DEF Slice
  <2>. HIDE DEF left
  <2>2. (DOMAIN left) \cup (DOMAIN <<>>) = DOMAIN left BY <2>1
  <2>3. Over(left, <<>>) = [i \in DOMAIN left |-> left[i]] BY <2>2 DEF Over
  <2>. QED BY <2>1, <2>3
<1>4. Over(right, left) = [i \in (DOMAIN right) \cup (DOMAIN left) |->
                             IF i \in DOMAIN right THEN right[i] ELSE left[i]]
  BY DEF Over
<1>. HIDE DEF left, right
<1>6. (at + n .. (at + n) + n - 1) \cup (at .. at + n - 1) = at .. at + 2 * n - 1
  OBVIOUS
<1>7. \A i \in at .. at + 2 * n - 1 :
        (IF i \in at + n .. (at + n) + n - 1 THEN right[i] ELSE left[i]) = f[s + (i - at)]
  <2>. TAKE i \in at .. at + 2 * n - 1
  <2>1. CASE i \in at + n .. (at + n) + n - 1
    <3>1. (s + n) + (i - (at + n)) = s + (i - at) OBVIOUS
    <3>. QED BY <1>2, <2>1, <3>1
  <2>2. CASE i \notin at + n .. (at + n) + n - 1
    <3>1. i \in at .. at + n - 1 BY <2>2
    <3>. QED BY <1>1, <2>2, <3>1
  <2>. QED BY <2>1, <2>2
<1>8. Over(right, left) = all BY <1>1, <1>2, <1>4, <1>6, <1>7 DEF Slice
<1>. QED BY <1>3, <1>8 DEF left, right

\* The ranges that cover an aligned block of 2^e rows: below the branching one row has
\* range 1 first and then range 0.
RangeOf(e) == IF e = 0 THEN {0, 1} ELSE {2 ^ e}

\* The recursion of the contiguous evaluations, as a function out of the level, first
\* row, range and place of a node: nothing below the leaves,
WritesNothing(out) ==
  \A s \in 0 .. NumLeaves - 1, range, at \in Nat : out[<<Depth + 1, s, range, at>>] = <<>>

\* a row by itself once the range does not branch,
WritesRow(row, out) ==
  \A l \in 1 .. Depth, s \in 0 .. NumLeaves - 1, range \in {0, 1}, at \in Nat :
    out[<<l, s, range, at>>] =
      Over(out[<<l + 1, s, 0, at>>],
           IF l = Depth THEN [i \in {at} |-> row[s]] ELSE <<>>)

\* and two halves before.
WritesHalves(out) ==
  \A l \in 1 .. Depth, e \in Nat, k \in Nat, at \in Nat :
    e + 1 <= Depth - l /\ (2 * k + 2) * 2 ^ e <= NumLeaves =>
      out[<<l, (2 * k) * 2 ^ e, 2 * 2 ^ e, at>>] =
        Over(out[<<l + 1, (2 * k + 1) * 2 ^ e, 2 ^ e, at + 2 ^ e>>],
             Over(out[<<l + 1, (2 * k) * 2 ^ e, 2 ^ e, at>>], <<>>))

\* The nodes of level l write the rows of an aligned block at their places.
WritesBlocks(row, out, l) ==
  \A e \in Nat : \A k, at \in Nat, range \in RangeOf(e) :
    e <= Depth - l /\ (k + 1) * 2 ^ e <= NumLeaves =>
      out[<<l, k * 2 ^ e, range, at>>] = Slice(row, at, k * 2 ^ e, 2 ^ e)

\* The recursion does so on every level.
LEMMA ContigRows ==
  ASSUME NEW row, NEW out, WritesNothing(out), WritesRow(row, out), WritesHalves(out)
  PROVE  \A l \in 1 .. Depth : WritesBlocks(row, out, l)
<1> DEFINE Claim(l) == WritesBlocks(row, out, l)
           S == {d \in 0 .. Depth - 1 : Claim(Depth - d)}
<1>1. Depth \in Nat \ {0} /\ NumLeaves \in Nat BY FssAssumption, PowerOfTwo DEF NumLeaves
\* one row
<1>2. ASSUME NEW l \in 1 .. Depth, l = Depth \/ Claim(l + 1),
             NEW k \in Nat, NEW at \in Nat, NEW range \in {0, 1}, k + 1 <= NumLeaves
      PROVE  out[<<l, k, range, at>>] = Slice(row, at, k, 1)
  <2>1. k \in 0 .. NumLeaves - 1 BY <1>1, <1>2
  <2>2. out[<<l, k, range, at>>] = Over(out[<<l + 1, k, 0, at>>],
                  IF l = Depth THEN [i \in {at} |-> row[k]] ELSE <<>>)
    BY <2>1 DEF WritesRow
  <2>3. Slice(row, at, k, 1) = [i \in {at} |-> row[k]]
    <3>1. at .. at + 1 - 1 = {at} /\ k + (at - at) = k OBVIOUS
    <3>. QED BY <3>1 DEF Slice
  <2>4. DOMAIN <<>> = {} OBVIOUS
  <2>5. CASE l = Depth
    <3>1. out[<<l + 1, k, 0, at>>] = <<>> BY <2>1, <2>5 DEF WritesNothing
    <3>. DEFINE g == [i \in {at} |-> row[k]]
    <3>2. Over(<<>>, g) = g BY <2>4 DEF Over
    <3>. QED BY <2>2, <2>3, <2>5, <3>1, <3>2
  <2>6. CASE l # Depth
    <3>1. 0 \in RangeOf(0) /\ 0 \in Nat BY DEF RangeOf
    <3>2. 0 <= Depth - (l + 1) /\ k * 2 ^ 0 = k /\ (k + 1) * 2 ^ 0 = k + 1 /\ 2 ^ 0 = 1
      BY <1>1, <2>6, PowerOfTwo
    <3>3. Claim(l + 1) BY <1>2, <2>6
    <3>4. out[<<l + 1, k * 2 ^ 0, 0, at>>] = Slice(row, at, k * 2 ^ 0, 2 ^ 0)
      BY <1>2, <3>1, <3>2, <3>3 DEF WritesBlocks
    <3>5. out[<<l + 1, k, 0, at>>] = Slice(row, at, k, 1) BY <3>2, <3>4
    <3>. DEFINE g == [i \in {at} |-> row[k]]
    <3>6. Over(g, <<>>) = g BY <2>4 DEF Over
    <3>. QED BY <2>2, <2>3, <2>6, <3>5, <3>6
  <2>. QED BY <2>5, <2>6
\* two halves
<1>3. ASSUME NEW l \in 1 .. Depth, l = Depth \/ Claim(l + 1),
             NEW e \in Nat, NEW k \in Nat, NEW at \in Nat,
             e + 1 <= Depth - l, (2 * k + 2) * 2 ^ e <= NumLeaves
      PROVE  out[<<l, (2 * k) * 2 ^ e, 2 * 2 ^ e, at>>]
               = Slice(row, at, (2 * k) * 2 ^ e, 2 * 2 ^ e)
  <2>. DEFINE n == 2 ^ e
              s == (2 * k) * n
              t == (2 * k + 1) * n
  <2>1. n \in Nat \ {0} BY PowerOfTwo
  <2>2. n \in RangeOf(e)
    <3>1. CASE e = 0 BY <3>1, PowerOfTwo DEF RangeOf
    <3>2. CASE e # 0 BY <3>2 DEF RangeOf
    <3>. QED BY <3>1, <3>2
  <2>3. out[<<l, s, 2 * n, at>>] =
          Over(out[<<l + 1, t, n, at + n>>], Over(out[<<l + 1, s, n, at>>], <<>>))
    BY <1>3 DEF WritesHalves
  <2>4. l # Depth /\ e <= Depth - (l + 1) BY <1>1, <1>3
  <2>5. Claim(l + 1) BY <1>3, <2>4
  <2>6. (2 * k + 2) * n <= NumLeaves BY <1>3
  <2>7. \A j \in Nat, a \in Nat :
          (j + 1) * n <= NumLeaves =>
            out[<<l + 1, j * n, n, a>>] = Slice(row, a, j * n, n)
    BY <2>2, <2>4, <2>5 DEF WritesBlocks
  <2>. HIDE DEF n
  <2>8. 2 * k \in Nat /\ 2 * k + 1 \in Nat /\ at + n \in Nat /\ s \in Nat /\ t = s + n
    BY <2>1
  <2>9. (2 * k + 1) * n <= NumLeaves /\ ((2 * k + 1) + 1) * n <= NumLeaves
    <3>1. (2 * k + 1) * n = (2 * k + 2) * n - n /\ (2 * k + 2) * n \in Nat BY <2>1
    <3>2. (2 * k + 1) + 1 = 2 * k + 2 OBVIOUS
    <3>. QED BY <1>1, <2>1, <2>6, <3>1, <3>2
  <2>10. out[<<l + 1, s, n, at>>] = Slice(row, at, s, n) BY <2>7, <2>8, <2>9
  <2>11. out[<<l + 1, t, n, at + n>>] = Slice(row, at + n, t, n) BY <2>7, <2>8, <2>9
  <2>. HIDE DEF s, t
  <2>12. /\ Over(Slice(row, at + n, s + n, n), Slice(row, at, s, n)) = Slice(row, at, s, 2 * n)
         /\ Over(Slice(row, at, s, n), <<>>) = Slice(row, at, s, n)
    BY <2>1, <2>8, SlicesJoin
  <2>13. out[<<l, s, 2 * n, at>>] = Slice(row, at, s, 2 * n)
    BY <2>3, <2>8, <2>10, <2>11, <2>12
  <2>. QED BY <2>13 DEF n, s
\* a level
<1>4. ASSUME NEW l \in 1 .. Depth, l = Depth \/ Claim(l + 1) PROVE Claim(l)
  <2>. SUFFICES ASSUME NEW e \in Nat, NEW k \in Nat, NEW at \in Nat, NEW range \in RangeOf(e),
                       e <= Depth - l, (k + 1) * 2 ^ e <= NumLeaves
                PROVE  out[<<l, k * 2 ^ e, range, at>>] = Slice(row, at, k * 2 ^ e, 2 ^ e)
    BY Zenon DEF WritesBlocks
  <2>. HIDE DEF Claim
  <2>1. CASE e = 0
    <3>1. k * 2 ^ 0 = k /\ (k + 1) * 2 ^ 0 = k + 1 /\ 2 ^ 0 = 1 BY PowerOfTwo
    <3>2. range \in {0, 1} /\ k + 1 <= NumLeaves BY <2>1, <3>1 DEF RangeOf
    <3>3. out[<<l, k, range, at>>] = Slice(row, at, k, 1) BY <1>2, <1>4, <3>2
    <3>. QED BY <2>1, <3>1, <3>3
  <2>2. CASE e # 0
    <3>. DEFINE f == e - 1
                n == 2 ^ f
                h == k
    <3>1. f \in Nat /\ e = f + 1 BY <2>2
    <3>2. 2 ^ e = 2 * n /\ n \in Nat BY <3>1, PowerOfTwo
    <3>3. range = 2 * n BY <2>2, <3>2 DEF RangeOf
    <3>4. f + 1 <= Depth - l BY <3>1
    <3>5. (2 * k + 2) * n <= NumLeaves /\ k * 2 ^ e = (2 * k) * n
      <4>. HIDE DEF n
      <4>1. (k + 1) * (2 * n) = (2 * k + 2) * n /\ k * (2 * n) = (2 * k) * n BY <3>2
      <4>. QED BY <3>2, <4>1
    <3>6. out[<<l, (2 * k) * n, 2 * n, at>>] = Slice(row, at, (2 * k) * n, 2 * n)
      BY <1>3, <1>4, <3>1, <3>4, <3>5
    <3>. QED BY <3>2, <3>3, <3>5, <3>6
  <2>. QED BY <2>1, <2>2
<1>. HIDE DEF Claim
<1>5. 0 \in S
  <2>1. Depth - 0 = Depth /\ Depth \in 1 .. Depth /\ 0 \in 0 .. Depth - 1 BY <1>1
  <2>. QED BY <1>4, <2>1
<1>6. \A d \in 1 .. Depth - 1 : d - 1 \in S => d \in S
  <2>. TAKE d \in 1 .. Depth - 1
  <2>. HAVE d - 1 \in S
  <2>1. Depth - (d - 1) = (Depth - d) + 1 /\ Depth - d \in 1 .. Depth /\ d \in 0 .. Depth - 1
    BY <1>1
  <2>2. Claim((Depth - d) + 1)
    <3>1. Claim(Depth - (d - 1)) OBVIOUS
    <3>. QED BY <2>1, <3>1
  <2>3. Claim(Depth - d) BY <1>4, <2>1, <2>2
  <2>. QED BY <2>1, <2>3
<1>7. \A d \in 0 .. Depth - 1 : d \in S
  <2>1. Depth - 1 \in Nat BY <1>1
  <2>. HIDE DEF S
  <2>. QED BY <1>5, <1>6, <2>1, IntervalInduction
<1>8. \A l \in 1 .. Depth : Claim(l)
  <2>. TAKE l \in 1 .. Depth
  <2>1. Depth - l \in 0 .. Depth - 1 /\ Depth - (Depth - l) = l BY <1>1
  <2>2. Claim(Depth - (Depth - l)) BY <1>7, <2>1
  <2>. QED BY <2>1, <2>2
<1>. QED BY <1>8 DEF Claim

\* The two nodes with which they begin.
LEMMA ContigTop ==
  ASSUME NEW row, NEW out, WritesBlocks(row, out, 1),
         NEW e \in 0 .. Depth, NEW k \in Nat, (k + 1) * 2 ^ e <= NumLeaves
  PROVE  Over(out[<<1, k * 2 ^ e + 2 ^ e \div 2, 2 ^ e \div 2, 2 ^ e \div 2>>],
              out[<<1, k * 2 ^ e, 2 ^ e \div 2, 0>>]) = Slice(row, 0, k * 2 ^ e, 2 ^ e)
<1>1. Depth \in Nat \ {0} /\ NumLeaves \in Nat BY FssAssumption, PowerOfTwo DEF NumLeaves
<1>2. CASE e = 0
  <2>1. /\ k * 2 ^ 0 = k /\ (k + 1) * 2 ^ 0 = k + 1 /\ 2 ^ 0 = 1 /\ 1 \div 2 = 0 /\ k + 0 = k
        /\ 0 \in RangeOf(0)
    BY PowerOfTwo DEF RangeOf
  <2>2. out[<<1, k * 2 ^ 0, 0, 0>>] = Slice(row, 0, k * 2 ^ 0, 2 ^ 0)
    <3>1. 0 <= Depth - 1 BY <1>1
    <3>. QED BY <1>2, <2>1, <3>1 DEF WritesBlocks
  <2>3. Over(Slice(row, 0, k, 1), Slice(row, 0, k, 1)) = Slice(row, 0, k, 1)
    <3>. DEFINE g == Slice(row, 0, k, 1)
    <3>1. g = [i \in DOMAIN g |-> g[i]] BY DEF Slice
    <3>. HIDE DEF g
    <3>2. Over(g, g) = [i \in DOMAIN g |-> g[i]] BY DEF Over
    <3>3. Over(g, g) = g BY <3>1, <3>2
    <3>. QED BY <3>3 DEF g
  <2>. QED BY <1>2, <2>1, <2>2, <2>3
<1>3. CASE e # 0
  <2>. DEFINE f == e - 1
              n == 2 ^ f
              s == (2 * k) * n
              t == (2 * k + 1) * n
  <2>1. f \in Nat /\ e = f + 1 /\ f <= Depth - 1 BY <1>1, <1>3
  <2>2. 2 ^ e = 2 * n /\ n \in Nat \ {0} BY <2>1, PowerOfTwo
  <2>3. n \in RangeOf(f)
    <3>1. CASE f = 0 BY <3>1, PowerOfTwo DEF RangeOf
    <3>2. CASE f # 0 BY <3>2 DEF RangeOf
    <3>. QED BY <3>1, <3>2
  <2>4. \A j, at \in Nat :
          (j + 1) * n <= NumLeaves => out[<<1, j * n, n, at>>] = Slice(row, at, j * n, n)
    BY <2>1, <2>3 DEF WritesBlocks
  <2>. HIDE DEF f, n
  <2>5. /\ (k + 1) * (2 * n) = ((2 * k + 1) + 1) * n /\ k * (2 * n) = s
        /\ (2 * k + 1) * n <= ((2 * k + 1) + 1) * n
        /\ (2 * k + 1) * n \in Nat /\ ((2 * k + 1) + 1) * n \in Nat
        /\ s \in Nat /\ t = s + n /\ 2 * k \in Nat /\ 2 * k + 1 \in Nat /\ (2 * n) \div 2 = n
    BY <2>2
  <2>6. out[<<1, s, n, 0>>] = Slice(row, 0, s, n)
    <3>1. (2 * k + 1) * n <= NumLeaves BY <1>1, <2>2, <2>5
    <3>. QED BY <2>4, <2>5, <3>1
  <2>7. out[<<1, t, n, n>>] = Slice(row, n, t, n)
    <3>1. ((2 * k + 1) + 1) * n <= NumLeaves BY <2>2, <2>5
    <3>. QED BY <2>2, <2>4, <2>5, <3>1
  <2>. HIDE DEF s, t
  <2>8. Over(Slice(row, 0 + n, s + n, n), Slice(row, 0, s, n)) = Slice(row, 0, s, 2 * n)
    BY <2>2, <2>5, SlicesJoin
  <2>9. 0 + n = n BY <2>2
  <2>10. Over(out[<<1, s + n, n, n>>], out[<<1, s, n, 0>>]) = Slice(row, 0, s, 2 * n)
    BY <2>5, <2>6, <2>7, <2>8, <2>9
  <2>11. k * 2 ^ e = s /\ 2 ^ e \div 2 = n
    <3>1. k * (2 * n) = s /\ (2 * n) \div 2 = n BY <2>5
    <3>. QED BY <2>2, <3>1
  <2>. QED BY <2>2, <2>10, <2>11
<1>. QED BY <1>2, <1>3

-----------------------------------------------------------------------------
(* Arrays of numbers, and writing one over another.                        *)

\* Arrays of numbers.
Outs == UNION {[D -> Number] : D \in SUBSET Nat}

\* What is written over an array of numbers is one.
LEMMA OverType ==
  ASSUME NEW f \in Outs, NEW g \in Outs
  PROVE  Over(f, g) \in Outs
<1>1. PICK D \in SUBSET Nat : f \in [D -> Number] BY DEF Outs
<1>2. PICK E \in SUBSET Nat : g \in [E -> Number] BY DEF Outs
<1>3. Over(f, g) \in [D \cup E -> Number] BY <1>1, <1>2 DEF Over
<1>4. D \cup E \in SUBSET Nat OBVIOUS
<1>. QED BY <1>3, <1>4 DEF Outs

\* Nothing is an array of numbers.
LEMMA NothingType == <<>> \in Outs
<1>1. <<>> \in [{} -> Number] OBVIOUS
<1>. QED BY <1>1 DEF Outs

\* The shape of the recursion of the contiguous evaluations over nodes S: which nodes
\* are below a node, and what it writes itself.
Shape(S) ==
  {t \in [level : [S -> 1 .. Depth + 1], down : [S -> S], right : [S -> S],
          wide : [S -> BOOLEAN], here : [S -> Outs]] :
     \A n \in S : t.level[n] <= Depth =>
       t.level[t.down[n]] = t.level[n] + 1 /\ t.level[t.right[n]] = t.level[n] + 1}

\* What it writes at node n, if g is what it writes below.
Branch(g, t, n) ==
  IF t.level[n] > Depth THEN <<>>
  ELSE IF t.wide[n] THEN Over(g[t.right[n]], Over(g[t.down[n]], t.here[n]))
       ELSE Over(g[t.down[n]], t.here[n])

\* There is a function that does this recursion.
LEMMA TreeRecursion ==
  ASSUME NEW S, NEW t \in Shape(S)
  PROVE  \E g : g = [n \in S |-> Branch(g, t, n)]
<1> DEFINE level == t.level
           down  == t.down
           right == t.right
           here  == t.here
           B(g, n) == Branch(g, t, n)
           rank == [n \in S |-> Depth + 1 - level[n]]
           F == [g \in [S -> Outs] |-> [n \in S |-> B(g, n)]]
           a == [n \in S |-> <<>>]
<1>1. Depth \in Nat BY FssAssumption
<1>0. /\ level \in [S -> 1 .. Depth + 1] /\ down \in [S -> S] /\ right \in [S -> S]
      /\ here \in [S -> Outs]
      /\ \A n \in S : level[n] <= Depth =>
           level[down[n]] = level[n] + 1 /\ level[right[n]] = level[n] + 1
  BY DEF Shape
<1>. HIDE DEF level, down, right, here
<1>2. rank \in [S -> 0 .. Depth] BY <1>0, <1>1
<1>3. a \in [S -> Outs] BY NothingType
<1>4. \A g \in [S -> Outs], n \in S : B(g, n) \in Outs
  <2>. TAKE g \in [S -> Outs], n \in S
  <2>1. g[down[n]] \in Outs /\ g[right[n]] \in Outs /\ here[n] \in Outs BY <1>0
  <2>2. Over(g[down[n]], here[n]) \in Outs BY <2>1, OverType
  <2>3. Over(g[right[n]], Over(g[down[n]], here[n])) \in Outs BY <2>1, <2>2, OverType
  <2>. QED BY <2>2, <2>3, NothingType DEF Branch, down, right, here
<1>5. F \in [[S -> Outs] -> [S -> Outs]]
  <2>. HIDE DEF B
  <2>. QED BY <1>4
<1>6. \A g, h \in [S -> Outs] : \A n \in S :
        (\A m \in S : rank[m] < rank[n] => g[m] = h[m]) => F[g][n] = F[h][n]
  <2>. TAKE g, h \in [S -> Outs]
  <2>. TAKE n \in S
  <2>. HAVE \A m \in S : rank[m] < rank[n] => g[m] = h[m]
  <2>1. F[g][n] = B(g, n) /\ F[h][n] = B(h, n) OBVIOUS
  <2>2. CASE level[n] > Depth BY <2>1, <2>2 DEF Branch, level
  <2>3. CASE ~(level[n] > Depth)
    <3>1. level[n] \in Int /\ level[n] <= Depth BY <1>0, <1>1, <2>3
    <3>2. level[down[n]] = level[n] + 1 /\ level[right[n]] = level[n] + 1 BY <1>0, <3>1
    <3>3. down[n] \in S /\ right[n] \in S BY <1>0
    <3>4. rank[down[n]] < rank[n] /\ rank[right[n]] < rank[n] BY <1>1, <3>1, <3>2, <3>3
    <3>5. g[down[n]] = h[down[n]] /\ g[right[n]] = h[right[n]] BY <3>3, <3>4
    <3>6. B(g, n) = B(h, n) BY <3>5, Zenon DEF Branch, down, right
    <3>. QED BY <2>1, <3>6
  <2>. QED BY <2>2, <2>3
<1>. HIDE DEF rank, F, a
<1>7. F \in Lower(S, Outs, rank) BY <1>5, <1>6 DEF Lower
<1>8. PICK g \in [S -> Outs] : F[g] = g
  <2>1. \E g : g \in Fixed(S, Outs, F) BY <1>1, <1>2, <1>3, <1>7, RankRecursion, Zenon
  <2>. QED BY <2>1 DEF Fixed
<1>9. F[g] = [n \in S |-> B(g, n)] BY <1>8 DEF F
<1>. QED BY <1>8, <1>9

-----------------------------------------------------------------------------
(* The contiguous evaluation of the point function: on an aligned block of *)
(* rows it gives what the walk to each row gives.                          *)

\* A share is a number that fits the group.
LEMMA ReducedType == ASSUME NEW n \in Int PROVE Reduced(n) \in Number
<1>1. Modulus \in Nat \ {0} /\ Word \in Nat \ {0} /\ Word % Modulus = 0 BY FssAssumption
<1>2. Reduced(n) = n % Modulus BY ReducedIsMod
<1>3. n % Modulus \in 0 .. Modulus - 1 BY <1>1, DivMod
<1>4. Modulus <= Word
  <2>1. Word = (Word \div Modulus) * Modulus + (Word % Modulus) /\ Word \div Modulus \in Int
    BY <1>1, DivMod
  <2>. DEFINE q == Word \div Modulus
  <2>2. q \in Int /\ Word = q * Modulus BY <1>1, <2>1
  <2>. HIDE DEF q
  <2>3. q >= 1
    <3>. SUFFICES ASSUME q <= 0 PROVE FALSE BY <2>2
    <3>1. q * Modulus <= 0 BY <1>1, <2>2
    <3>. QED BY <1>1, <2>2, <3>1
  <2>4. q * Modulus >= Modulus BY <1>1, <2>2, <2>3
  <2>. QED BY <2>2, <2>4
<1>. QED BY <1>1, <1>2, <1>3, <1>4 DEF Number

\* The share of a leaf is a number.
LEMMA LeafDPFType ==
  ASSUME NEW b \in Block, NEW v, v[1] \in Int, NEW p
  PROVE  LeafDPF(b, v, p) \in Number
<1> DEFINE n == Convert[b.s] + b.t * v[1]
<1>1. Convert[b.s] \in Int /\ b.t \in {0, 1} BY FssAssumption DEF Block, Number
<1>2. n \in Int
  <2>. DEFINE t == b.t
              w == v[1]
  <2>1. t \in {0, 1} /\ w \in Int BY <1>1
  <2>. HIDE DEF t, w
  <2>2. t * w \in Int BY <2>1
  <2>. QED BY <1>1, <2>2 DEF t, w
<1>. HIDE DEF n
<1>3. PartySign(p) * n \in Int BY <1>2 DEF PartySign
<1>4. LeafDPF(b, v, p) = Reduced(PartySign(p) * n) BY DEF LeafDPF, n
<1>. QED BY <1>3, <1>4, ReducedType

\* A node of the recursion of the point function.
Node5(b, l, s, range, at) ==
  [b |-> b, level |-> l, start |-> s, range |-> range, at |-> at]

\* The contiguous evaluation of an aligned block of rows gives on every row what the
\* walk from the root to that row gives.
THEOREM ContigPointwiseDPF ==
  ASSUME NEW ky, WalkKey(ky), ky.v[1] \in Int, NEW p \in Party,
         NEW e \in 0 .. Depth, NEW k \in Nat, (k + 1) * 2 ^ e <= NumLeaves
  PROVE  ContigEvalDPF(ky, p, k * 2 ^ e, 2 ^ e)
           = [i \in 0 .. 2 ^ e - 1 |-> EvalOneDPF(k * 2 ^ e + i, ky, p)]
<1> DEFINE Nodes == [b : Block, level : 1 .. Depth + 1, start : Nat, range : Nat, at : Nat]
           Child(n)  == TraverseOne(n.b, ky.k[n.level + 1], KeepBit(n.start, n.level))
           Below(n)  == [n EXCEPT !.b = Child(n), !.level = @ + 1, !.range = n.range \div 2]
           Beside(n) == [Below(n) EXCEPT !.start = @ + n.range \div 2, !.at = @ + n.range \div 2]
           Here(n)   == IF n.level = Depth THEN [i \in {n.at} |-> LeafDPF(Child(n), ky.v, p)]
                                           ELSE <<>>
           Body(g, n) == IF n.level > Depth THEN <<>>
                         ELSE IF n.range > 1 THEN Over(g[Beside(n)], Over(g[Below(n)], Here(n)))
                              ELSE Over(g[Below(n)], Here(n))
           node == CHOOSE g : g = [n \in Nodes |-> Body(g, n)]
           Root(s, range, at) ==
             [b |-> ky.k[1], level |-> 1, start |-> s, range |-> range, at |-> at]
<1>1. \A s, range : ContigEvalDPF(ky, p, s, range) =
        Over(node[[Root(s, range \div 2, 0) EXCEPT !.start = @ + range \div 2,
                                                   !.at = range \div 2]],
             node[Root(s, range \div 2, 0)])
  BY DEF ContigEvalDPF
<1>2. Depth \in Nat \ {0} /\ NumLeaves \in Nat BY FssAssumption, PowerOfTwo DEF NumLeaves
<1>. HIDE DEF node
\* the recursive function is one
<1>3. ASSUME NEW n \in Nodes
      PROVE  /\ n.level \in 1 .. Depth + 1 /\ n.start \in Nat /\ n.range \in Nat /\ n.at \in Nat
             /\ n.range \div 2 \in Nat
             /\ n.level <= Depth => /\ Child(n) \in Block
                                    /\ Below(n) \in Nodes /\ Below(n).level = n.level + 1
                                    /\ Beside(n) \in Nodes /\ Beside(n).level = n.level + 1
                                    /\ Here(n) \in Outs
  <2>1. /\ n.b \in Block /\ n.level \in 1 .. Depth + 1 /\ n.start \in Nat
        /\ n.range \in Nat /\ n.at \in Nat
    OBVIOUS
  <2>2. n.range \div 2 \in Nat BY <2>1
  <2>3. ASSUME n.level <= Depth
        PROVE  Child(n) \in Block
    <3>1. n.level \in 1 .. Depth BY <1>2, <2>1, <2>3
    <3>2. KeepBit(n.start, n.level) \in Side BY <2>1, <3>1, KeepBitSide
    <3>3. ky.k[n.level + 1] \in [s : Seed, t : [Side -> {0, 1}]]
      BY <3>1 DEF WalkKey, Correction
    <3>. QED BY <2>1, <3>2, <3>3, StepType
  <2>4. ASSUME n.level <= Depth
        PROVE  Below(n) \in Nodes /\ Below(n).level = n.level + 1
    <3>. DEFINE c == Child(n)
                h == n.range \div 2
    <3>1. c \in Block /\ h \in Nat BY <2>2, <2>3, <2>4
    <3>. HIDE DEF c, h
    <3>2. n.level + 1 \in 1 .. Depth + 1 BY <1>2, <2>1, <2>4
    <3>3. [n EXCEPT !.b = c, !.level = @ + 1, !.range = h] \in Nodes
          /\ [n EXCEPT !.b = c, !.level = @ + 1, !.range = h].level = n.level + 1
      BY <2>1, <3>1, <3>2
    <3>. QED BY <3>3 DEF c, h
  <2>5. ASSUME n.level <= Depth
        PROVE  Beside(n) \in Nodes /\ Beside(n).level = n.level + 1
    <3>. DEFINE m == Below(n)
                h == n.range \div 2
    <3>1. m \in Nodes /\ m.level = n.level + 1 /\ h \in Nat BY <2>2, <2>4, <2>5
    <3>. HIDE DEF m, h
    <3>2. m.start + h \in Nat /\ m.at + h \in Nat BY <3>1
    <3>3. [m EXCEPT !.start = @ + h, !.at = @ + h] \in Nodes
          /\ [m EXCEPT !.start = @ + h, !.at = @ + h].level = m.level
      BY <3>1, <3>2
    <3>. QED BY <3>1, <3>3 DEF m, h
  <2>6. ASSUME n.level <= Depth PROVE Here(n) \in Outs
    <3>1. LeafDPF(Child(n), ky.v, p) \in Number BY <2>3, <2>6, LeafDPFType
    <3>2. [i \in {n.at} |-> LeafDPF(Child(n), ky.v, p)] \in [{n.at} -> Number] BY <3>1
    <3>3. {n.at} \in SUBSET Nat BY <2>1
    <3>4. [i \in {n.at} |-> LeafDPF(Child(n), ky.v, p)] \in Outs
      <4>. HIDE DEF Child
      <4>. QED BY <3>2, <3>3 DEF Outs
    <3>. QED BY <3>4, NothingType
  <2>. HIDE DEF Nodes, Below, Beside, Here, Child
  <2>. QED BY <2>1, <2>2, <2>3, <2>4, <2>5, <2>6
<1>. HIDE DEF Nodes, Below, Beside, Here, Child
<1> DEFINE level == [n \in Nodes |-> n.level]
           down  == [n \in Nodes |-> IF n.level <= Depth THEN Below(n) ELSE n]
           right == [n \in Nodes |-> IF n.level <= Depth THEN Beside(n) ELSE n]
           wide  == [n \in Nodes |-> n.range > 1]
           here  == [n \in Nodes |-> IF n.level <= Depth THEN Here(n) ELSE <<>>]
           t == [level |-> level, down |-> down, right |-> right, wide |-> wide, here |-> here]
<1>4. \E g : g = [n \in Nodes |-> Branch(g, t, n)]
  <2>1. level \in [Nodes -> 1 .. Depth + 1] BY <1>3
  <2>2. down \in [Nodes -> Nodes] BY <1>3
  <2>3. right \in [Nodes -> Nodes] BY <1>3
  <2>4. wide \in [Nodes -> BOOLEAN] OBVIOUS
  <2>5. here \in [Nodes -> Outs] BY <1>3, NothingType
  <2>6. \A n \in Nodes : level[n] <= Depth =>
           level[down[n]] = level[n] + 1 /\ level[right[n]] = level[n] + 1
    BY <1>3
  <2>. HIDE DEF level, down, right, wide, here
  <2>7. t \in Shape(Nodes) BY <2>1, <2>2, <2>3, <2>4, <2>5, <2>6 DEF Shape
  <2>. QED BY <2>7, TreeRecursion, Zenon
<1>5. PICK g : g = [n \in Nodes |-> Branch(g, t, n)] BY <1>4
<1>6. \A n \in Nodes : Branch(g, t, n) = Body(g, n)
  <2>. TAKE n \in Nodes
  <2>1. level[n] = n.level /\ wide[n] = (n.range > 1) OBVIOUS
  <2>. HIDE DEF Body
  <2>2. CASE n.level > Depth BY <2>1, <2>2 DEF Branch, Body
  <2>3. CASE ~(n.level > Depth)
    <3>1. n.level <= Depth BY <1>2, <1>3, <2>3
    <3>2. down[n] = Below(n) /\ right[n] = Beside(n) /\ here[n] = Here(n) BY <3>1
    <3>. HIDE DEF level, down, right, wide, here
    <3>. QED BY <2>1, <2>3, <3>2 DEF Branch, Body
  <2>. QED BY <2>2, <2>3
<1>7. g = [n \in Nodes |-> Body(g, n)]
  <2>. HIDE DEF Body, t
  <2>. QED BY <1>5, <1>6
<1>8. node = [n \in Nodes |-> Body(node, n)]
  <2>. HIDE DEF Body
  <2>. QED BY <1>7 DEF node
<1>9. \A b \in Block, l \in 1 .. Depth + 1, s, range, at \in Nat :
        /\ Node5(b, l, s, range, at) \in Nodes
        /\ node[Node5(b, l, s, range, at)] = Body(node, Node5(b, l, s, range, at))
  <2>. TAKE b \in Block, l \in 1 .. Depth + 1, s \in Nat, range \in Nat, at \in Nat
  <2>1. Node5(b, l, s, range, at) \in Nodes BY DEF Nodes, Node5
  <2>2. \A n \in Nodes : node[n] = Body(node, n)
    <3>. HIDE DEF Body
    <3>. QED BY <1>8
  <2>. HIDE DEF Body
  <2>. QED BY <2>1, <2>2
<1> DEFINE Kid(b, l, s) == TraverseOne(b, ky.k[l + 1], KeepBit(s, l))
           Parts(n, b, l, s, range, at) ==
             /\ Below(n) = Node5(Kid(b, l, s), l + 1, s, range \div 2, at)
             /\ Beside(n) = Node5(Kid(b, l, s), l + 1, s + range \div 2, range \div 2,
                                  at + range \div 2)
             /\ Here(n) = IF l = Depth THEN [i \in {at} |-> LeafDPF(Kid(b, l, s), ky.v, p)]
                          ELSE <<>>
             /\ n.level = l /\ n.range = range
<1>10. \A b, l, s, range, at : Parts(Node5(b, l, s, range, at), b, l, s, range, at)
  <2>. TAKE b, l, s, range, at
  <2>. SUFFICES ASSUME NEW n, n = Node5(b, l, s, range, at)
                PROVE  Parts(n, b, l, s, range, at)
    <3>. HIDE DEF Parts
    <3>. QED OBVIOUS
  <2>. DEFINE c == Kid(b, l, s)
              h == range \div 2
  <2>1. n.b = b /\ n.level = l /\ n.start = s /\ n.range = range /\ n.at = at
    BY DEF Node5
  <2>2. Child(n) = c BY <2>1 DEF Child
  <2>3. Below(n) = [n EXCEPT !.b = c, !.level = @ + 1, !.range = h] BY <2>1, <2>2 DEF Below
  <2>4. Beside(n) = [Below(n) EXCEPT !.start = @ + h, !.at = @ + h] BY <2>1 DEF Beside
  <2>5. Here(n) = IF l = Depth THEN [i \in {at} |-> LeafDPF(c, ky.v, p)] ELSE <<>>
    BY <2>1, <2>2 DEF Here
  <2>. HIDE DEF c, h
  <2>6. Below(n) = Node5(c, l + 1, s, h, at) BY <2>3 DEF Node5
  <2>7. Beside(n) = Node5(c, l + 1, s + h, h, at + h)
    <3>. DEFINE m == Node5(c, l + 1, s, h, at)
                x == s + h
                y == at + h
    <3>1. m.start = s /\ m.at = at BY DEF Node5
    <3>2. Beside(n) = [m EXCEPT !.start = x, !.at = y] BY <2>4, <2>6, <3>1
    <3>3. [m EXCEPT !.start = x, !.at = y] = [[m EXCEPT !.start = x] EXCEPT !.at = y]
      OBVIOUS
    <3>. HIDE DEF x, y
    <3>4. [m EXCEPT !.start = x] = Node5(c, l + 1, x, h, at) BY DEF Node5
    <3>5. [Node5(c, l + 1, x, h, at) EXCEPT !.at = y] = Node5(c, l + 1, x, h, y) BY DEF Node5
    <3>. QED BY <3>2, <3>3, <3>4, <3>5 DEF x, y
  <2>8. h = range \div 2 /\ c = Kid(b, l, s) BY DEF h, c
  <2>. HIDE DEF Kid
  <2>. QED BY <2>1, <2>5, <2>6, <2>7, <2>8, Zenon DEF Parts
\* its value at the nodes on the walks
<1> DEFINE W == [r \in 0 .. NumLeaves - 1 |-> CHOOSE w : w \in Walks(r, ky)
                   /\ EvalOneDPF(r, ky, p) = LeafDPF(w[Depth], ky.v, p)]
           row == [r \in 0 .. NumLeaves - 1 |-> EvalOneDPF(r, ky, p)]
           Places == (1 .. Depth + 1) \X (0 .. NumLeaves - 1) \X Nat \X Nat
           out == [z \in Places |-> node[Node5(W[z[2]][z[1] - 1], z[1], z[2], z[3], z[4])]]
<1>11. \A r \in 0 .. NumLeaves - 1 :
         W[r] \in Walks(r, ky) /\ row[r] = LeafDPF(W[r][Depth], ky.v, p)
  <2>. TAKE r \in 0 .. NumLeaves - 1
  <2>1. \E w : w \in Walks(r, ky) /\ EvalOneDPF(r, ky, p) = LeafDPF(w[Depth], ky.v, p)
    BY EvalOneDPFWalks
  <2>. QED BY <2>1
<1>. HIDE DEF W, row, Body
<1>12. \A r \in 0 .. NumLeaves - 1 :
         /\ W[r] \in [0 .. Depth -> Block] /\ W[r][0] = ky.k[1]
         /\ \A l \in 1 .. Depth : W[r][l] = TraverseOne(W[r][l - 1], ky.k[l + 1], KeepBit(r, l))
  BY <1>11 DEF Walks
<1> DEFINE Unfolds(l, s, range, at) ==
             out[<<l, s, range, at>>] = Body(node, Node5(W[s][l - 1], l, s, range, at))
<1>13. \A l \in 1 .. Depth + 1, s \in 0 .. NumLeaves - 1, range, at \in Nat :
         Unfolds(l, s, range, at)
  <2>. TAKE l \in 1 .. Depth + 1, s \in 0 .. NumLeaves - 1, range, at \in Nat
  <2>1. <<l, s, range, at>> \in Places OBVIOUS
  <2>2. out[<<l, s, range, at>>] = node[Node5(W[s][l - 1], l, s, range, at)] BY <2>1
  <2>3. l - 1 \in 0 .. Depth /\ s \in Nat BY <1>2
  <2>4. W[s][l - 1] \in Block BY <1>12, <2>3
  <2>. HIDE DEF out
  <2>. QED BY <1>9, <2>2, <2>3, <2>4
<1>14. \A l \in 1 .. Depth, s \in 0 .. NumLeaves - 1, range, at \in Nat :
         /\ range > 1 /\ l # Depth =>
              out[<<l, s, range, at>>] =
                Over(node[Node5(W[s][l], l + 1, s + range \div 2, range \div 2,
                                at + range \div 2)],
                     Over(out[<<l + 1, s, range \div 2, at>>], <<>>))
         /\ ~(range > 1) =>
              out[<<l, s, range, at>>] =
                Over(out[<<l + 1, s, range \div 2, at>>],
                     IF l = Depth THEN [i \in {at} |-> row[s]] ELSE <<>>)
  <2>. TAKE l \in 1 .. Depth, s \in 0 .. NumLeaves - 1, range \in Nat, at \in Nat
  <2>. DEFINE n == Node5(W[s][l - 1], l, s, range, at)
              h == range \div 2
              leaf == [i \in {at} |-> row[s]]
  <2>1. l \in 1 .. Depth + 1 /\ l + 1 \in 1 .. Depth + 1 /\ (l + 1) - 1 = l /\ h \in Nat
    BY <1>2
  <2>2. out[<<l, s, range, at>>] = Body(node, n)
    <3>1. Unfolds(l, s, range, at)
      <4>. HIDE DEF Unfolds
      <4>. QED BY <1>13, <2>1
    <3>. HIDE DEF out
    <3>. QED BY <3>1
  <2>3. <<l + 1, s, h, at>> \in Places BY <2>1
  <2>4. out[<<l + 1, s, h, at>>] = node[Node5(W[s][l], l + 1, s, h, at)] BY <2>1, <2>3
  <2>5. Kid(W[s][l - 1], l, s) = W[s][l] BY <1>12
  <2>6. row[s] = LeafDPF(W[s][Depth], ky.v, p) BY <1>11
  <2>. HIDE DEF out, Kid
  <2>7. /\ Below(n) = Node5(W[s][l], l + 1, s, h, at)
        /\ Beside(n) = Node5(W[s][l], l + 1, s + h, h, at + h)
        /\ Here(n) = IF l = Depth THEN [i \in {at} |-> LeafDPF(W[s][l], ky.v, p)] ELSE <<>>
        /\ n.level = l /\ n.range = range
    <3>. DEFINE b == W[s][l - 1]
    <3>1. n = Node5(b, l, s, range, at) OBVIOUS
    <3>. HIDE DEF h, b
    <3>2. Parts(n, b, l, s, range, at)
      <4>. HIDE DEF Parts
      <4>1. Parts(Node5(b, l, s, range, at), b, l, s, range, at) BY <1>10
      <4>. QED BY <3>1, <4>1
    <3>. HIDE DEF n
    <3>3. h = range \div 2 /\ b = W[s][l - 1] BY DEF h, b
    <3>. QED BY <2>5, <3>2, <3>3, Zenon DEF Parts
  <2>. HIDE DEF n, h
  <2>8. Here(n) = IF l = Depth THEN leaf ELSE <<>>
    BY <2>6, <2>7
  <2>9. ~(l > Depth) BY <1>2
  <2>10. Body(node, n) =
           IF range > 1 THEN Over(node[Beside(n)], Over(node[Below(n)], Here(n)))
           ELSE Over(node[Below(n)], Here(n))
    BY <2>7, <2>9 DEF Body
  <2>. HIDE DEF leaf
  <2>11. CASE range > 1
    <3>1. CASE l = Depth BY <2>11, <3>1 DEF h, leaf
    <3>2. CASE l # Depth
      <4>1. Here(n) = <<>> BY <2>8, <3>2
      <4>2. out[<<l, s, range, at>>] =
              Over(node[Node5(W[s][l], l + 1, s + h, h, at + h)],
                   Over(out[<<l + 1, s, h, at>>], <<>>))
        BY <2>2, <2>4, <2>7, <2>10, <2>11, <4>1
      <4>. QED BY <2>11, <4>2 DEF h, leaf
    <3>. QED BY <3>1, <3>2
  <2>12. CASE ~(range > 1)
    <3>1. out[<<l, s, range, at>>] =
            Over(out[<<l + 1, s, h, at>>], IF l = Depth THEN leaf ELSE <<>>)
      BY <2>2, <2>4, <2>7, <2>8, <2>10, <2>12
    <3>. QED BY <2>12, <3>1 DEF h, leaf
  <2>. QED BY <2>11, <2>12
<1>14a. \A l \in 1 .. Depth, s \in 0 .. NumLeaves - 1, range, at \in Nat :
         range > 1 /\ l # Depth =>
              out[<<l, s, range, at>>] =
                Over(node[Node5(W[s][l], l + 1, s + range \div 2, range \div 2,
                                at + range \div 2)],
                     Over(out[<<l + 1, s, range \div 2, at>>], <<>>))
  <2>. HIDE DEF out
  <2>. QED BY <1>14, Zenon
<1>15. \A s \in 0 .. NumLeaves - 1, range, at \in Nat : out[<<Depth + 1, s, range, at>>] = <<>>
  <2>. TAKE s \in 0 .. NumLeaves - 1, range \in Nat, at \in Nat
  <2>. DEFINE n == Node5(W[s][(Depth + 1) - 1], Depth + 1, s, range, at)
  <2>1. Depth + 1 \in 1 .. Depth + 1 BY <1>2
  <2>2. out[<<Depth + 1, s, range, at>>] = Body(node, n)
    <3>1. Unfolds(Depth + 1, s, range, at)
      <4>. HIDE DEF Unfolds
      <4>. QED BY <1>13, <2>1
    <3>. HIDE DEF out
    <3>. QED BY <3>1
  <2>. HIDE DEF out
  <2>3. n.level > Depth BY <1>2 DEF Node5
  <2>. HIDE DEF n
  <2>4. Body(node, n) = <<>> BY <2>3 DEF Body
  <2>. QED BY <2>2, <2>4
<1>16. \A l \in 1 .. Depth, s \in 0 .. NumLeaves - 1, range \in {0, 1}, at \in Nat :
         out[<<l, s, range, at>>] =
           Over(out[<<l + 1, s, 0, at>>],
                IF l = Depth THEN [i \in {at} |-> row[s]] ELSE <<>>)
  <2>. TAKE l \in 1 .. Depth, s \in 0 .. NumLeaves - 1, range \in {0, 1}, at \in Nat
  <2>1. range \in Nat /\ ~(range > 1) /\ range \div 2 = 0 OBVIOUS
  <2>. HIDE DEF out
  <2>2. out[<<l, s, range, at>>] =
          Over(out[<<l + 1, s, range \div 2, at>>],
               IF l = Depth THEN [i \in {at} |-> row[s]] ELSE <<>>)
    BY <1>14, <2>1, Zenon
  <2>. QED BY <2>1, <2>2, Zenon
<1>17. \A l \in 1 .. Depth, f \in Nat, j \in Nat, at \in Nat :
         f + 1 <= Depth - l /\ (2 * j + 2) * 2 ^ f <= NumLeaves =>
           out[<<l, (2 * j) * 2 ^ f, 2 * 2 ^ f, at>>] =
             Over(out[<<l + 1, (2 * j + 1) * 2 ^ f, 2 ^ f, at + 2 ^ f>>],
                  Over(out[<<l + 1, (2 * j) * 2 ^ f, 2 ^ f, at>>], <<>>))
  <2>. TAKE l \in 1 .. Depth, f \in Nat, j \in Nat, at \in Nat
  <2>. HAVE f + 1 <= Depth - l /\ (2 * j + 2) * 2 ^ f <= NumLeaves
  <2>. DEFINE n == 2 ^ f
              s == (2 * j) * n
              u == (2 * j + 1) * n
  <2>1. n \in Nat \ {0} /\ 2 ^ (f + 1) = 2 * n BY PowerOfTwo
  <2>2. (2 * j + 2) * n <= NumLeaves OBVIOUS
  <2>. HIDE DEF n
  <2>3. s \in Nat /\ u = s + n /\ u + n = (2 * j + 2) * n BY <2>1
  <2>. HIDE DEF s, u
  <2>4. s \in 0 .. NumLeaves - 1 /\ u \in 0 .. NumLeaves - 1
    BY <1>2, <2>1, <2>2, <2>3
  <2>5. W[u][l] = W[s][l]
    <3>1. l \in 0 .. Depth /\ f + 1 \in 0 .. Depth - l BY <1>2
    <3>2. s = j * 2 ^ (f + 1)
      <4>1. (2 * j) * n = j * (2 * n) BY <2>1
      <4>. QED BY <2>1, <4>1 DEF s
    <3>3. n \in 0 .. 2 ^ (f + 1) - 1 BY <2>1
    <3>4. Prefix(j * 2 ^ (f + 1) + n, l) = Prefix(j * 2 ^ (f + 1), l)
      BY <3>1, <3>3, BlockPrefix
    <3>5. Prefix(u, l) = Prefix(s, l) BY <2>3, <3>2, <3>4
    <3>. DEFINE v == W[u]
                w == W[s]
    <3>6. StayTogether(u, s, v, w) BY <1>12, <2>4 DEF StayTogether
    <3>. HIDE DEF v, w
    <3>7. v[l] = w[l] BY <2>4, <3>1, <3>5, <3>6, SameWalk
    <3>. QED BY <3>7 DEF v, w
  <2>6. 2 * n \in Nat /\ 2 * n > 1 /\ (2 * n) \div 2 = n /\ l # Depth BY <1>2, <2>1
  <2>7. out[<<l, s, 2 * n, at>>] =
          Over(node[Node5(W[s][l], l + 1, s + n, n, at + n)],
               Over(out[<<l + 1, s, n, at>>], <<>>))
    <3>. HIDE DEF out
    <3>1. out[<<l, s, 2 * n, at>>] =
            Over(node[Node5(W[s][l], l + 1, s + (2 * n) \div 2, (2 * n) \div 2,
                            at + (2 * n) \div 2)],
                 Over(out[<<l + 1, s, (2 * n) \div 2, at>>], <<>>))
      BY <1>14a, <2>4, <2>6, ZenonT(60)
    <3>. QED BY <2>6, <3>1, Zenon
  <2>8. out[<<l + 1, u, n, at + n>>] = node[Node5(W[u][l], l + 1, u, n, at + n)]
    <3>1. <<l + 1, u, n, at + n>> \in Places /\ (l + 1) - 1 = l BY <1>2, <2>1, <2>4
    <3>. QED BY <3>1
  <2>. HIDE DEF out
  <2>9. out[<<l, s, 2 * n, at>>] =
          Over(out[<<l + 1, u, n, at + n>>], Over(out[<<l + 1, s, n, at>>], <<>>))
    BY <2>3, <2>5, <2>7, <2>8
  <2>. QED BY <2>9 DEF s, u, n
<1>18. Over(out[<<1, k * 2 ^ e + 2 ^ e \div 2, 2 ^ e \div 2, 2 ^ e \div 2>>],
            out[<<1, k * 2 ^ e, 2 ^ e \div 2, 0>>]) = Slice(row, 0, k * 2 ^ e, 2 ^ e)
  <2>. HIDE DEF out
  <2>1. WritesNothing(out) BY <1>15 DEF WritesNothing
  <2>2. WritesRow(row, out) BY <1>16 DEF WritesRow
  <2>3. WritesHalves(out) BY <1>17 DEF WritesHalves
  <2>4. \A l \in 1 .. Depth : WritesBlocks(row, out, l) BY <2>1, <2>2, <2>3, ContigRows, Zenon
  <2>5. 1 \in 1 .. Depth BY <1>2
  <2>6. WritesBlocks(row, out, 1) BY <2>4, <2>5
  <2>. QED BY <2>6, ContigTop
\* the two nodes it begins with
<1>19. ContigEvalDPF(ky, p, k * 2 ^ e, 2 ^ e) = Slice(row, 0, k * 2 ^ e, 2 ^ e)
  <2>. DEFINE n == 2 ^ e
              h == n \div 2
              s == k * n
  <2>1. n \in Nat \ {0} /\ (k + 1) * n <= NumLeaves BY PowerOfTwo
  <2>. HIDE DEF n
  <2>2. h \in Nat /\ h < n /\ s \in Nat /\ s + n = (k + 1) * n BY <2>1
  <2>. HIDE DEF h, s
  <2>3. s \in 0 .. NumLeaves - 1 /\ s + h \in 0 .. NumLeaves - 1
    BY <1>2, <2>1, <2>2
  <2>4. 1 \in 1 .. Depth + 1 /\ 1 - 1 = 0 BY <1>2
  <2>5. <<1, s, h, 0>> \in Places /\ <<1, s + h, h, h>> \in Places BY <2>2, <2>3, <2>4
  <2>6. /\ out[<<1, s, h, 0>>] = node[Node5(ky.k[1], 1, s, h, 0)]
        /\ out[<<1, s + h, h, h>>] = node[Node5(ky.k[1], 1, s + h, h, h)]
    BY <1>12, <2>3, <2>4, <2>5
  <2>. HIDE DEF out
  <2>7. Root(s, h, 0) = Node5(ky.k[1], 1, s, h, 0) BY DEF Root, Node5
  <2>8. [Root(s, h, 0) EXCEPT !.start = @ + h, !.at = h] = Node5(ky.k[1], 1, s + h, h, h)
    <3>. DEFINE m == Root(s, h, 0)
                x == s + h
    <3>1. m.start = s BY DEF Root
    <3>2. [m EXCEPT !.start = @ + h, !.at = h] = [m EXCEPT !.start = x, !.at = h]
      BY <3>1
    <3>3. [m EXCEPT !.start = x, !.at = h] = [[m EXCEPT !.start = x] EXCEPT !.at = h]
      OBVIOUS
    <3>. HIDE DEF x
    <3>4. [m EXCEPT !.start = x] = Node5(ky.k[1], 1, x, h, 0) BY DEF Root, Node5
    <3>5. [Node5(ky.k[1], 1, x, h, 0) EXCEPT !.at = h] = Node5(ky.k[1], 1, x, h, h) BY DEF Node5
    <3>. QED BY <3>2, <3>3, <3>4, <3>5 DEF x
  <2>9. ContigEvalDPF(ky, p, s, n) =
          Over(node[[Root(s, h, 0) EXCEPT !.start = @ + h, !.at = h]], node[Root(s, h, 0)])
    BY <1>1 DEF h
  <2>10. ContigEvalDPF(ky, p, s, n) = Over(out[<<1, s + h, h, h>>], out[<<1, s, h, 0>>])
    BY <2>6, <2>7, <2>8, <2>9
  <2>. QED BY <1>18, <2>10 DEF s, h, n
<1>20. Slice(row, 0, k * 2 ^ e, 2 ^ e)
         = [i \in 0 .. 2 ^ e - 1 |-> EvalOneDPF(k * 2 ^ e + i, ky, p)]
  <2>. DEFINE n == 2 ^ e
              s == k * n
  <2>1. n \in Nat \ {0} /\ (k + 1) * n <= NumLeaves BY PowerOfTwo
  <2>. HIDE DEF n
  <2>2. s \in Nat /\ s + n = (k + 1) * n BY <2>1
  <2>. HIDE DEF s
  <2>3. \A i \in 0 .. n - 1 : row[s + (i - 0)] = EvalOneDPF(s + i, ky, p)
    <3>. TAKE i \in 0 .. n - 1
    <3>1. s + (i - 0) = s + i /\ s + i \in 0 .. NumLeaves - 1 BY <1>2, <2>1, <2>2
    <3>. QED BY <3>1 DEF row
  <2>4. 0 .. 0 + n - 1 = 0 .. n - 1 BY <2>1
  <2>5. Slice(row, 0, s, n) = [i \in 0 .. n - 1 |-> EvalOneDPF(s + i, ky, p)]
    BY <2>3, <2>4 DEF Slice
  <2>. QED BY <2>5 DEF s, n
<1>. QED BY <1>19, <1>20

-----------------------------------------------------------------------------
(* The contiguous evaluation of the comparison function, in the same way.  *)

\* A block and a share.
Spot == [b : Block, acc : Number]

\* Numbers are integers.
LEMMA NumbersAreInts == ASSUME NEW n \in Number PROVE n \in Int
  BY FssAssumption DEF Number

\* A share at a leaf is a number.
LEMMA AddLeafType ==
  ASSUME NEW acc \in Int, NEW b \in Block, NEW v, v[Depth + 1] \in Int, NEW p
  PROVE  AddLeaf(acc, b, v, p) \in Number
<1> DEFINE n == Convert[b.s] + b.t * v[Depth + 1]
<1>1. Convert[b.s] \in Int /\ b.t \in {0, 1} BY FssAssumption DEF Block, Number
<1>2. n \in Int
  <2>. DEFINE t == b.t
              w == v[Depth + 1]
  <2>1. t \in {0, 1} /\ w \in Int BY <1>1
  <2>. HIDE DEF t, w
  <2>2. t * w \in Int BY <2>1
  <2>. QED BY <1>1, <2>2 DEF t, w
<1>. HIDE DEF n
<1>3. acc + PartySign(p) * n \in Int BY <1>2 DEF PartySign
<1>4. AddLeaf(acc, b, v, p) = Reduced(acc + PartySign(p) * n) BY DEF AddLeaf, n
<1>. QED BY <1>3, <1>4, ReducedType

\* So is the share after a level.
LEMMA AddLevelNumber ==
  ASSUME NEW acc \in Int, NEW b \in Block, NEW v, NEW keep \in Side, NEW level,
         v[level] \in Int, NEW p
  PROVE  AddLevel(acc, b, v, keep, level, p) \in Number
<1> DEFINE n == ConvertV[b.s][keep] + b.t * v[level]
<1>1. ConvertV[b.s][keep] \in Int /\ b.t \in {0, 1} BY FssAssumption DEF Block, Number
<1>2. n \in Int
  <2>. DEFINE t == b.t
              w == v[level]
  <2>1. t \in {0, 1} /\ w \in Int BY <1>1
  <2>. HIDE DEF t, w
  <2>2. t * w \in Int BY <2>1
  <2>. QED BY <1>1, <2>2 DEF t, w
<1>. HIDE DEF n
<1>3. acc + PartySign(p) * n \in Int BY <1>2 DEF PartySign
<1>4. AddLevel(acc, b, v, keep, level, p) = Reduced(acc + PartySign(p) * n)
  BY DEF AddLevel, n
<1>. QED BY <1>3, <1>4, ReducedType

\* A node of the recursion of the comparison function, at a block and share c.
Node6(c, l, s, range, at) ==
  [b |-> c.b, acc |-> c.acc, level |-> l, start |-> s, range |-> range, at |-> at]

\* The contiguous evaluation of an aligned block of rows gives on every row what the
\* walk from the root to that row gives.
THEOREM ContigPointwiseDCF ==
  ASSUME NEW ky, WalkKey(ky), \A i \in 1 .. Depth + 1 : ky.v[i] \in Int, NEW p \in Party,
         NEW e \in 0 .. Depth, NEW k \in Nat, (k + 1) * 2 ^ e <= NumLeaves
  PROVE  ContigEvalDCF(ky, p, k * 2 ^ e, 2 ^ e)
           = [i \in 0 .. 2 ^ e - 1 |-> EvalOneDCF(k * 2 ^ e + i, ky, p)]
<1> DEFINE Nodes == [b : Block, acc : Number, level : 1 .. Depth + 1,
                     start : Nat, range : Nat, at : Nat]
           Child(n)  == TraverseOne(n.b, ky.k[n.level + 1], KeepBit(n.start, n.level))
           Share(n)  == AddLevel(n.acc, n.b, ky.v, KeepBit(n.start, n.level), n.level, p)
           Below(n)  == [n EXCEPT !.b = Child(n), !.acc = Share(n), !.level = @ + 1,
                                  !.range = n.range \div 2]
           Beside(n) == [Below(n) EXCEPT !.start = @ + n.range \div 2, !.at = @ + n.range \div 2]
           Here(n)   == IF n.level = Depth
                        THEN [i \in {n.at} |-> AddLeaf(Share(n), Child(n), ky.v, p)]
                        ELSE <<>>
           Body(g, n) == IF n.level > Depth THEN <<>>
                         ELSE IF n.range > 1 THEN Over(g[Beside(n)], Over(g[Below(n)], Here(n)))
                              ELSE Over(g[Below(n)], Here(n))
           node == CHOOSE g : g = [n \in Nodes |-> Body(g, n)]
           Root(s, range, at) ==
             [b |-> ky.k[1], acc |-> 0, level |-> 1, start |-> s, range |-> range, at |-> at]
<1>1. \A s, range : ContigEvalDCF(ky, p, s, range) =
        Over(node[[Root(s, range \div 2, 0) EXCEPT !.start = @ + range \div 2,
                                                   !.at = range \div 2]],
             node[Root(s, range \div 2, 0)])
  BY DEF ContigEvalDCF
<1>2. Depth \in Nat \ {0} /\ NumLeaves \in Nat BY FssAssumption, PowerOfTwo DEF NumLeaves
<1>. HIDE DEF node
\* the recursive function is one
<1>3. ASSUME NEW n \in Nodes
      PROVE  /\ n.level \in 1 .. Depth + 1 /\ n.start \in Nat /\ n.range \in Nat /\ n.at \in Nat
             /\ n.range \div 2 \in Nat
             /\ n.level <= Depth => /\ Child(n) \in Block /\ Share(n) \in Number
                                    /\ Below(n) \in Nodes /\ Below(n).level = n.level + 1
                                    /\ Beside(n) \in Nodes /\ Beside(n).level = n.level + 1
                                    /\ Here(n) \in Outs
  <2>1. /\ n.b \in Block /\ n.acc \in Number /\ n.level \in 1 .. Depth + 1 /\ n.start \in Nat
        /\ n.range \in Nat /\ n.at \in Nat
    OBVIOUS
  <2>2. n.range \div 2 \in Nat BY <2>1
  <2>3. ASSUME n.level <= Depth
        PROVE  Child(n) \in Block /\ Share(n) \in Number
    <3>1. n.level \in 1 .. Depth BY <1>2, <2>1, <2>3
    <3>2. KeepBit(n.start, n.level) \in Side BY <2>1, <3>1, KeepBitSide
    <3>3. ky.k[n.level + 1] \in [s : Seed, t : [Side -> {0, 1}]]
      BY <3>1 DEF WalkKey, Correction
    <3>4. Child(n) \in Block BY <2>1, <3>2, <3>3, StepType
    <3>5. n.acc \in Int /\ ky.v[n.level] \in Int /\ n.b \in Block
      BY <2>1, <3>1, NumbersAreInts
    <3>6. Share(n) \in Number BY <3>2, <3>5, AddLevelNumber
    <3>. QED BY <3>4, <3>6
  <2>4. ASSUME n.level <= Depth
        PROVE  Below(n) \in Nodes /\ Below(n).level = n.level + 1
    <3>. DEFINE c == Child(n)
                a == Share(n)
                h == n.range \div 2
    <3>1. c \in Block /\ a \in Number /\ h \in Nat BY <2>2, <2>3, <2>4
    <3>. HIDE DEF c, a, h
    <3>2. n.level + 1 \in 1 .. Depth + 1 BY <1>2, <2>1, <2>4
    <3>3. [n EXCEPT !.b = c, !.acc = a, !.level = @ + 1, !.range = h] \in Nodes
          /\ [n EXCEPT !.b = c, !.acc = a, !.level = @ + 1, !.range = h].level = n.level + 1
      BY <2>1, <3>1, <3>2
    <3>. QED BY <3>3 DEF c, a, h
  <2>5. ASSUME n.level <= Depth
        PROVE  Beside(n) \in Nodes /\ Beside(n).level = n.level + 1
    <3>. DEFINE m == Below(n)
                h == n.range \div 2
    <3>1. m \in Nodes /\ m.level = n.level + 1 /\ h \in Nat BY <2>2, <2>4, <2>5
    <3>. HIDE DEF m, h
    <3>2. m.start + h \in Nat /\ m.at + h \in Nat BY <3>1
    <3>3. [m EXCEPT !.start = @ + h, !.at = @ + h] \in Nodes
          /\ [m EXCEPT !.start = @ + h, !.at = @ + h].level = m.level
      BY <3>1, <3>2
    <3>. QED BY <3>1, <3>3 DEF m, h
  <2>6. ASSUME n.level <= Depth PROVE Here(n) \in Outs
    <3>. DEFINE x == AddLeaf(Share(n), Child(n), ky.v, p)
    <3>1. x \in Number
      <4>1. Share(n) \in Int /\ Child(n) \in Block BY <2>3, <2>6, NumbersAreInts
      <4>2. ky.v[Depth + 1] \in Int BY <1>2
      <4>. HIDE DEF Share, Child
      <4>. QED BY <4>1, <4>2, AddLeafType
    <3>. HIDE DEF x
    <3>2. [i \in {n.at} |-> x] \in [{n.at} -> Number] BY <3>1
    <3>3. {n.at} \in SUBSET Nat BY <2>1
    <3>4. [i \in {n.at} |-> x] \in Outs BY <3>2, <3>3 DEF Outs
    <3>5. Here(n) = IF n.level = Depth THEN [i \in {n.at} |-> x] ELSE <<>> BY DEF x
    <3>. HIDE DEF Here
    <3>. QED BY <3>4, <3>5, NothingType
  <2>. HIDE DEF Nodes, Below, Beside, Here, Child, Share
  <2>. QED BY <2>1, <2>2, <2>3, <2>4, <2>5, <2>6
<1>. HIDE DEF Nodes, Below, Beside, Here, Child, Share
<1> DEFINE level == [n \in Nodes |-> n.level]
           down  == [n \in Nodes |-> IF n.level <= Depth THEN Below(n) ELSE n]
           right == [n \in Nodes |-> IF n.level <= Depth THEN Beside(n) ELSE n]
           wide  == [n \in Nodes |-> n.range > 1]
           here  == [n \in Nodes |-> IF n.level <= Depth THEN Here(n) ELSE <<>>]
           t == [level |-> level, down |-> down, right |-> right, wide |-> wide, here |-> here]
<1>4. \E g : g = [n \in Nodes |-> Branch(g, t, n)]
  <2>1. level \in [Nodes -> 1 .. Depth + 1] BY <1>3
  <2>2. down \in [Nodes -> Nodes] BY <1>3
  <2>3. right \in [Nodes -> Nodes] BY <1>3
  <2>4. wide \in [Nodes -> BOOLEAN] OBVIOUS
  <2>5. here \in [Nodes -> Outs] BY <1>3, NothingType
  <2>6. \A n \in Nodes : level[n] <= Depth =>
           level[down[n]] = level[n] + 1 /\ level[right[n]] = level[n] + 1
    BY <1>3
  <2>. HIDE DEF level, down, right, wide, here
  <2>7. t \in Shape(Nodes) BY <2>1, <2>2, <2>3, <2>4, <2>5, <2>6 DEF Shape
  <2>. QED BY <2>7, TreeRecursion, Zenon
<1>5. PICK g : g = [n \in Nodes |-> Branch(g, t, n)] BY <1>4
<1>6. \A n \in Nodes : Branch(g, t, n) = Body(g, n)
  <2>. TAKE n \in Nodes
  <2>1. level[n] = n.level /\ wide[n] = (n.range > 1) OBVIOUS
  <2>. HIDE DEF Body
  <2>2. CASE n.level > Depth BY <2>1, <2>2 DEF Branch, Body
  <2>3. CASE ~(n.level > Depth)
    <3>1. n.level <= Depth BY <1>2, <1>3, <2>3
    <3>2. down[n] = Below(n) /\ right[n] = Beside(n) /\ here[n] = Here(n) BY <3>1
    <3>. HIDE DEF level, down, right, wide, here
    <3>. QED BY <2>1, <2>3, <3>2 DEF Branch, Body
  <2>. QED BY <2>2, <2>3
<1>7. g = [n \in Nodes |-> Body(g, n)]
  <2>. HIDE DEF Body, t
  <2>. QED BY <1>5, <1>6
<1>8. node = [n \in Nodes |-> Body(node, n)]
  <2>. HIDE DEF Body
  <2>. QED BY <1>7 DEF node
<1>9. \A c \in Spot, l \in 1 .. Depth + 1, s, range, at \in Nat :
        /\ Node6(c, l, s, range, at) \in Nodes
        /\ node[Node6(c, l, s, range, at)] = Body(node, Node6(c, l, s, range, at))
  <2>. TAKE c \in Spot, l \in 1 .. Depth + 1, s \in Nat, range \in Nat, at \in Nat
  <2>1. Node6(c, l, s, range, at) \in Nodes BY DEF Nodes, Node6, Spot
  <2>2. \A n \in Nodes : node[n] = Body(node, n)
    <3>. HIDE DEF Body
    <3>. QED BY <1>8
  <2>. HIDE DEF Body
  <2>. QED BY <2>1, <2>2
<1> DEFINE Kid(c, l, s) == [b   |-> TraverseOne(c.b, ky.k[l + 1], KeepBit(s, l)),
                            acc |-> AddLevel(c.acc, c.b, ky.v, KeepBit(s, l), l, p)]
           Leaf(c) == AddLeaf(c.acc, c.b, ky.v, p)
           Parts(n, c, l, s, range, at) ==
             /\ Below(n) = Node6(Kid(c, l, s), l + 1, s, range \div 2, at)
             /\ Beside(n) = Node6(Kid(c, l, s), l + 1, s + range \div 2, range \div 2,
                                  at + range \div 2)
             /\ Here(n) = IF l = Depth THEN [i \in {at} |-> Leaf(Kid(c, l, s))]
                          ELSE <<>>
             /\ n.level = l /\ n.range = range
<1>10. \A c, l, s, range, at : Parts(Node6(c, l, s, range, at), c, l, s, range, at)
  <2>. TAKE c, l, s, range, at
  <2>. SUFFICES ASSUME NEW n, n = Node6(c, l, s, range, at)
                PROVE  Parts(n, c, l, s, range, at)
    <3>. HIDE DEF Parts
    <3>. QED OBVIOUS
  <2>. DEFINE d == Kid(c, l, s)
              h == range \div 2
  <2>1. /\ n.b = c.b /\ n.acc = c.acc /\ n.level = l
        /\ n.start = s /\ n.range = range /\ n.at = at
    BY DEF Node6
  <2>2. Child(n) = d.b /\ Share(n) = d.acc BY <2>1 DEF Child, Share
  <2>3. Below(n) = [n EXCEPT !.b = d.b, !.acc = d.acc, !.level = l + 1, !.range = h]
    BY <2>1, <2>2 DEF Below
  <2>4. Beside(n) = [Below(n) EXCEPT !.start = @ + h, !.at = @ + h] BY <2>1 DEF Beside
  <2>5. Here(n) = IF l = Depth THEN [i \in {at} |-> Leaf(d)] ELSE <<>>
    BY <2>1, <2>2 DEF Here
  <2>. HIDE DEF d, h
  <2>6. Below(n) = Node6(d, l + 1, s, h, at) BY <2>3 DEF Node6
  <2>7. Beside(n) = Node6(d, l + 1, s + h, h, at + h)
    <3>. DEFINE m == Node6(d, l + 1, s, h, at)
                x == s + h
                y == at + h
    <3>1. m.start = s /\ m.at = at BY DEF Node6
    <3>2. Beside(n) = [m EXCEPT !.start = x, !.at = y] BY <2>4, <2>6, <3>1
    <3>3. [m EXCEPT !.start = x, !.at = y] = [[m EXCEPT !.start = x] EXCEPT !.at = y]
      OBVIOUS
    <3>. HIDE DEF x, y
    <3>4. [m EXCEPT !.start = x] = Node6(d, l + 1, x, h, at) BY DEF Node6
    <3>5. [Node6(d, l + 1, x, h, at) EXCEPT !.at = y] = Node6(d, l + 1, x, h, y) BY DEF Node6
    <3>. QED BY <3>2, <3>3, <3>4, <3>5 DEF x, y
  <2>8. h = range \div 2 /\ d = Kid(c, l, s) BY DEF h, d
  <2>. HIDE DEF Kid, Leaf
  <2>. QED BY <2>1, <2>5, <2>6, <2>7, <2>8, Zenon DEF Parts
\* its value at the nodes on the walks
<1> DEFINE W == [r \in 0 .. NumLeaves - 1 |-> CHOOSE w : w \in WalksDCF(r, ky, p)
                   /\ EvalOneDCF(r, ky, p) = Leaf(w[Depth])]
           row == [r \in 0 .. NumLeaves - 1 |-> EvalOneDCF(r, ky, p)]
           Places == (1 .. Depth + 1) \X (0 .. NumLeaves - 1) \X Nat \X Nat
           out == [z \in Places |-> node[Node6(W[z[2]][z[1] - 1], z[1], z[2], z[3], z[4])]]
<1>11. \A r \in 0 .. NumLeaves - 1 :
         W[r] \in WalksDCF(r, ky, p) /\ row[r] = Leaf(W[r][Depth])
  <2>. TAKE r \in 0 .. NumLeaves - 1
  <2>1. \E w : w \in WalksDCF(r, ky, p) /\ EvalOneDCF(r, ky, p) = Leaf(w[Depth])
    <3>1. \A i \in 1 .. Depth : ky.v[i] \in Int BY <1>2
    <3>. QED BY <3>1, EvalOneDCFWalks
  <2>. QED BY <2>1
<1>. HIDE DEF W, row, Body
<1>12. \A r \in 0 .. NumLeaves - 1 :
         /\ W[r] \in [0 .. Depth -> Spot] /\ W[r][0] = [b |-> ky.k[1], acc |-> 0]
         /\ \A l \in 1 .. Depth : W[r][l] = Kid(W[r][l - 1], l, r)
  <2>. TAKE r \in 0 .. NumLeaves - 1
  <2>. DEFINE w == W[r]
  <2>1. /\ w \in [0 .. Depth -> Node] /\ w[0].b = ky.k[1] /\ w[0].acc = 0
        /\ \A i \in 1 .. Depth :
             /\ w[i].b = TraverseOne(w[i - 1].b, ky.k[i + 1], KeepBit(r, i))
             /\ w[i].acc = AddLevel(w[i - 1].acc, w[i - 1].b, ky.v, KeepBit(r, i), i, p)
    BY <1>11 DEF WalksDCF
  <2>. HIDE DEF w
  <2>2. \A i \in 0 .. Depth : /\ w[i] \in Node /\ w[i].b \in Block /\ w[i].acc \in Int
                              /\ w[i] = [b |-> w[i].b, acc |-> w[i].acc]
    BY <2>1 DEF Node
  <2>3. w[0] = [b |-> ky.k[1], acc |-> 0]
    <3>1. 0 \in 0 .. Depth BY <1>2
    <3>2. w[0] = [b |-> w[0].b, acc |-> w[0].acc] BY <2>2, <3>1, Zenon
    <3>. QED BY <2>1, <3>2
  <2>4. ASSUME NEW i \in 1 .. Depth PROVE w[i] = Kid(w[i - 1], i, r)
    <3>1. i \in 0 .. Depth BY <1>2
    <3>. QED BY <2>1, <2>2, <3>1
  <2>5. 0 \in Number BY FssAssumption DEF Number
  <2>6. ASSUME NEW i \in 0 .. Depth PROVE w[i].acc \in Number
    <3>1. CASE i = 0 BY <2>1, <2>5, <3>1
    <3>2. CASE i # 0
      <4>1. i \in 1 .. Depth /\ i - 1 \in 0 .. Depth BY <1>2, <3>2
      <4>2. KeepBit(r, i) \in Side BY <4>1, PrefixSteps
      <4>3. w[i - 1].acc \in Int /\ w[i - 1].b \in Block BY <2>2, <4>1
      <4>4. ky.v[i] \in Int BY <1>2, <4>1
      <4>5. AddLevel(w[i - 1].acc, w[i - 1].b, ky.v, KeepBit(r, i), i, p) \in Number
        BY <4>2, <4>3, <4>4, AddLevelNumber
      <4>. QED BY <2>1, <4>1, <4>5
    <3>. QED BY <3>1, <3>2
  <2>7. \A i \in 0 .. Depth : w[i] \in Spot
    <3>. TAKE i \in 0 .. Depth
    <3>1. w[i].b \in Block /\ w[i].acc \in Number /\ w[i] = [b |-> w[i].b, acc |-> w[i].acc]
      BY <2>2, <2>6
    <3>. QED BY <3>1 DEF Spot
  <2>8. w \in [0 .. Depth -> Spot] BY <2>1, <2>7
  <2>. HIDE DEF Kid
  <2>. QED BY <2>3, <2>4, <2>8 DEF w
<1> DEFINE Unfolds(l, s, range, at) ==
             out[<<l, s, range, at>>] = Body(node, Node6(W[s][l - 1], l, s, range, at))
<1>13. \A l \in 1 .. Depth + 1, s \in 0 .. NumLeaves - 1, range, at \in Nat :
         Unfolds(l, s, range, at)
  <2>. TAKE l \in 1 .. Depth + 1, s \in 0 .. NumLeaves - 1, range, at \in Nat
  <2>1. <<l, s, range, at>> \in Places OBVIOUS
  <2>2. out[<<l, s, range, at>>] = node[Node6(W[s][l - 1], l, s, range, at)] BY <2>1
  <2>3. l - 1 \in 0 .. Depth /\ s \in Nat BY <1>2
  <2>4. W[s][l - 1] \in Spot BY <1>12, <2>3
  <2>. HIDE DEF out
  <2>. QED BY <1>9, <2>2, <2>3, <2>4
<1>14. \A l \in 1 .. Depth, s \in 0 .. NumLeaves - 1, range, at \in Nat :
         /\ range > 1 /\ l # Depth =>
              out[<<l, s, range, at>>] =
                Over(node[Node6(W[s][l], l + 1, s + range \div 2, range \div 2,
                                at + range \div 2)],
                     Over(out[<<l + 1, s, range \div 2, at>>], <<>>))
         /\ ~(range > 1) =>
              out[<<l, s, range, at>>] =
                Over(out[<<l + 1, s, range \div 2, at>>],
                     IF l = Depth THEN [i \in {at} |-> row[s]] ELSE <<>>)
  <2>. TAKE l \in 1 .. Depth, s \in 0 .. NumLeaves - 1, range \in Nat, at \in Nat
  <2>. DEFINE n == Node6(W[s][l - 1], l, s, range, at)
              h == range \div 2
              leaf == [i \in {at} |-> row[s]]
  <2>1. l \in 1 .. Depth + 1 /\ l + 1 \in 1 .. Depth + 1 /\ (l + 1) - 1 = l /\ h \in Nat
    BY <1>2
  <2>2. out[<<l, s, range, at>>] = Body(node, n)
    <3>1. Unfolds(l, s, range, at)
      <4>. HIDE DEF Unfolds
      <4>. QED BY <1>13, <2>1
    <3>. HIDE DEF out
    <3>. QED BY <3>1
  <2>3. <<l + 1, s, h, at>> \in Places BY <2>1
  <2>4. out[<<l + 1, s, h, at>>] = node[Node6(W[s][l], l + 1, s, h, at)] BY <2>1, <2>3
  <2>5. Kid(W[s][l - 1], l, s) = W[s][l] BY <1>12
  <2>6. row[s] = Leaf(W[s][Depth]) BY <1>11
  <2>. HIDE DEF out, Kid, Leaf
  <2>7. /\ Below(n) = Node6(W[s][l], l + 1, s, h, at)
        /\ Beside(n) = Node6(W[s][l], l + 1, s + h, h, at + h)
        /\ Here(n) = IF l = Depth THEN [i \in {at} |-> Leaf(W[s][l])] ELSE <<>>
        /\ n.level = l /\ n.range = range
    <3>. DEFINE b == W[s][l - 1]
    <3>1. n = Node6(b, l, s, range, at) OBVIOUS
    <3>. HIDE DEF h, b
    <3>2. Parts(n, b, l, s, range, at)
      <4>. HIDE DEF Parts
      <4>1. Parts(Node6(b, l, s, range, at), b, l, s, range, at) BY <1>10
      <4>. QED BY <3>1, <4>1
    <3>. HIDE DEF n
    <3>3. h = range \div 2 /\ b = W[s][l - 1] BY DEF h, b
    <3>. QED BY <2>5, <3>2, <3>3, Zenon DEF Parts
  <2>. HIDE DEF n, h
  <2>8. Here(n) = IF l = Depth THEN leaf ELSE <<>>
    BY <2>6, <2>7
  <2>9. ~(l > Depth) BY <1>2
  <2>10. Body(node, n) =
           IF range > 1 THEN Over(node[Beside(n)], Over(node[Below(n)], Here(n)))
           ELSE Over(node[Below(n)], Here(n))
    BY <2>7, <2>9 DEF Body
  <2>. HIDE DEF leaf
  <2>11. CASE range > 1
    <3>1. CASE l = Depth BY <2>11, <3>1 DEF h, leaf
    <3>2. CASE l # Depth
      <4>1. Here(n) = <<>> BY <2>8, <3>2
      <4>2. out[<<l, s, range, at>>] =
              Over(node[Node6(W[s][l], l + 1, s + h, h, at + h)],
                   Over(out[<<l + 1, s, h, at>>], <<>>))
        BY <2>2, <2>4, <2>7, <2>10, <2>11, <4>1
      <4>. QED BY <2>11, <4>2 DEF h, leaf
    <3>. QED BY <3>1, <3>2
  <2>12. CASE ~(range > 1)
    <3>1. out[<<l, s, range, at>>] =
            Over(out[<<l + 1, s, h, at>>], IF l = Depth THEN leaf ELSE <<>>)
      BY <2>2, <2>4, <2>7, <2>8, <2>10, <2>12
    <3>. QED BY <2>12, <3>1 DEF h, leaf
  <2>. QED BY <2>11, <2>12
<1>14a. \A l \in 1 .. Depth, s \in 0 .. NumLeaves - 1, range, at \in Nat :
         range > 1 /\ l # Depth =>
              out[<<l, s, range, at>>] =
                Over(node[Node6(W[s][l], l + 1, s + range \div 2, range \div 2,
                                at + range \div 2)],
                     Over(out[<<l + 1, s, range \div 2, at>>], <<>>))
  <2>. HIDE DEF out
  <2>. QED BY <1>14, Zenon
<1>15. \A s \in 0 .. NumLeaves - 1, range, at \in Nat : out[<<Depth + 1, s, range, at>>] = <<>>
  <2>. TAKE s \in 0 .. NumLeaves - 1, range \in Nat, at \in Nat
  <2>. DEFINE n == Node6(W[s][(Depth + 1) - 1], Depth + 1, s, range, at)
  <2>1. Depth + 1 \in 1 .. Depth + 1 BY <1>2
  <2>2. out[<<Depth + 1, s, range, at>>] = Body(node, n)
    <3>1. Unfolds(Depth + 1, s, range, at)
      <4>. HIDE DEF Unfolds
      <4>. QED BY <1>13, <2>1
    <3>. HIDE DEF out
    <3>. QED BY <3>1
  <2>. HIDE DEF out
  <2>3. n.level > Depth BY <1>2 DEF Node6
  <2>. HIDE DEF n
  <2>4. Body(node, n) = <<>> BY <2>3 DEF Body
  <2>. QED BY <2>2, <2>4
<1>16. \A l \in 1 .. Depth, s \in 0 .. NumLeaves - 1, range \in {0, 1}, at \in Nat :
         out[<<l, s, range, at>>] =
           Over(out[<<l + 1, s, 0, at>>],
                IF l = Depth THEN [i \in {at} |-> row[s]] ELSE <<>>)
  <2>. TAKE l \in 1 .. Depth, s \in 0 .. NumLeaves - 1, range \in {0, 1}, at \in Nat
  <2>1. range \in Nat /\ ~(range > 1) /\ range \div 2 = 0 OBVIOUS
  <2>. HIDE DEF out
  <2>2. out[<<l, s, range, at>>] =
          Over(out[<<l + 1, s, range \div 2, at>>],
               IF l = Depth THEN [i \in {at} |-> row[s]] ELSE <<>>)
    BY <1>14, <2>1, Zenon
  <2>. QED BY <2>1, <2>2, Zenon
<1>17. \A l \in 1 .. Depth, f \in Nat, j \in Nat, at \in Nat :
         f + 1 <= Depth - l /\ (2 * j + 2) * 2 ^ f <= NumLeaves =>
           out[<<l, (2 * j) * 2 ^ f, 2 * 2 ^ f, at>>] =
             Over(out[<<l + 1, (2 * j + 1) * 2 ^ f, 2 ^ f, at + 2 ^ f>>],
                  Over(out[<<l + 1, (2 * j) * 2 ^ f, 2 ^ f, at>>], <<>>))
  <2>. TAKE l \in 1 .. Depth, f \in Nat, j \in Nat, at \in Nat
  <2>. HAVE f + 1 <= Depth - l /\ (2 * j + 2) * 2 ^ f <= NumLeaves
  <2>. DEFINE n == 2 ^ f
              s == (2 * j) * n
              u == (2 * j + 1) * n
  <2>1. n \in Nat \ {0} /\ 2 ^ (f + 1) = 2 * n BY PowerOfTwo
  <2>2. (2 * j + 2) * n <= NumLeaves OBVIOUS
  <2>. HIDE DEF n
  <2>3. s \in Nat /\ u = s + n /\ u + n = (2 * j + 2) * n BY <2>1
  <2>. HIDE DEF s, u
  <2>4. s \in 0 .. NumLeaves - 1 /\ u \in 0 .. NumLeaves - 1
    BY <1>2, <2>1, <2>2, <2>3
  <2>5. W[u][l] = W[s][l]
    <3>1. l \in 0 .. Depth /\ f + 1 \in 0 .. Depth - l BY <1>2
    <3>2. s = j * 2 ^ (f + 1)
      <4>1. (2 * j) * n = j * (2 * n) BY <2>1
      <4>. QED BY <2>1, <4>1 DEF s
    <3>3. n \in 0 .. 2 ^ (f + 1) - 1 BY <2>1
    <3>4. Prefix(j * 2 ^ (f + 1) + n, l) = Prefix(j * 2 ^ (f + 1), l)
      BY <3>1, <3>3, BlockPrefix
    <3>5. Prefix(u, l) = Prefix(s, l) BY <2>3, <3>2, <3>4
    <3>. DEFINE v == W[u]
                w == W[s]
    <3>6. StayTogether(u, s, v, w) BY <1>12, <2>4 DEF StayTogether
    <3>. HIDE DEF v, w
    <3>7. v[l] = w[l] BY <2>4, <3>1, <3>5, <3>6, SameWalk
    <3>. QED BY <3>7 DEF v, w
  <2>6. 2 * n \in Nat /\ 2 * n > 1 /\ (2 * n) \div 2 = n /\ l # Depth BY <1>2, <2>1
  <2>7. out[<<l, s, 2 * n, at>>] =
          Over(node[Node6(W[s][l], l + 1, s + n, n, at + n)],
               Over(out[<<l + 1, s, n, at>>], <<>>))
    <3>. HIDE DEF out
    <3>1. out[<<l, s, 2 * n, at>>] =
            Over(node[Node6(W[s][l], l + 1, s + (2 * n) \div 2, (2 * n) \div 2,
                            at + (2 * n) \div 2)],
                 Over(out[<<l + 1, s, (2 * n) \div 2, at>>], <<>>))
      BY <1>14a, <2>4, <2>6, ZenonT(60)
    <3>. QED BY <2>6, <3>1, Zenon
  <2>8. out[<<l + 1, u, n, at + n>>] = node[Node6(W[u][l], l + 1, u, n, at + n)]
    <3>1. <<l + 1, u, n, at + n>> \in Places /\ (l + 1) - 1 = l BY <1>2, <2>1, <2>4
    <3>. QED BY <3>1
  <2>. HIDE DEF out
  <2>9. out[<<l, s, 2 * n, at>>] =
          Over(out[<<l + 1, u, n, at + n>>], Over(out[<<l + 1, s, n, at>>], <<>>))
    BY <2>3, <2>5, <2>7, <2>8
  <2>. QED BY <2>9 DEF s, u, n
<1>18. Over(out[<<1, k * 2 ^ e + 2 ^ e \div 2, 2 ^ e \div 2, 2 ^ e \div 2>>],
            out[<<1, k * 2 ^ e, 2 ^ e \div 2, 0>>]) = Slice(row, 0, k * 2 ^ e, 2 ^ e)
  <2>. HIDE DEF out
  <2>1. WritesNothing(out) BY <1>15 DEF WritesNothing
  <2>2. WritesRow(row, out) BY <1>16 DEF WritesRow
  <2>3. WritesHalves(out) BY <1>17 DEF WritesHalves
  <2>4. \A l \in 1 .. Depth : WritesBlocks(row, out, l) BY <2>1, <2>2, <2>3, ContigRows, Zenon
  <2>5. 1 \in 1 .. Depth BY <1>2
  <2>6. WritesBlocks(row, out, 1) BY <2>4, <2>5
  <2>. QED BY <2>6, ContigTop
\* the two nodes it begins with
<1>19. ContigEvalDCF(ky, p, k * 2 ^ e, 2 ^ e) = Slice(row, 0, k * 2 ^ e, 2 ^ e)
  <2>. DEFINE n == 2 ^ e
              h == n \div 2
              s == k * n
  <2>1. n \in Nat \ {0} /\ (k + 1) * n <= NumLeaves BY PowerOfTwo
  <2>. HIDE DEF n
  <2>2. h \in Nat /\ h < n /\ s \in Nat /\ s + n = (k + 1) * n BY <2>1
  <2>. HIDE DEF h, s
  <2>3. s \in 0 .. NumLeaves - 1 /\ s + h \in 0 .. NumLeaves - 1
    BY <1>2, <2>1, <2>2
  <2>4. 1 \in 1 .. Depth + 1 /\ 1 - 1 = 0 BY <1>2
  <2>. DEFINE top == [b |-> ky.k[1], acc |-> 0]
  <2>5. <<1, s, h, 0>> \in Places /\ <<1, s + h, h, h>> \in Places BY <2>2, <2>3, <2>4
  <2>6. /\ out[<<1, s, h, 0>>] = node[Node6(top, 1, s, h, 0)]
        /\ out[<<1, s + h, h, h>>] = node[Node6(top, 1, s + h, h, h)]
    BY <1>12, <2>3, <2>4, <2>5
  <2>. HIDE DEF out
  <2>7. Root(s, h, 0) = Node6(top, 1, s, h, 0) BY DEF Root, Node6
  <2>8. [Root(s, h, 0) EXCEPT !.start = @ + h, !.at = h] = Node6(top, 1, s + h, h, h)
    <3>. DEFINE m == Root(s, h, 0)
                x == s + h
    <3>1. m.start = s BY DEF Root
    <3>2. [m EXCEPT !.start = @ + h, !.at = h] = [m EXCEPT !.start = x, !.at = h]
      BY <3>1
    <3>3. [m EXCEPT !.start = x, !.at = h] = [[m EXCEPT !.start = x] EXCEPT !.at = h]
      OBVIOUS
    <3>. HIDE DEF x
    <3>4. [m EXCEPT !.start = x] = Node6(top, 1, x, h, 0) BY DEF Root, Node6
    <3>5. [Node6(top, 1, x, h, 0) EXCEPT !.at = h] = Node6(top, 1, x, h, h) BY DEF Node6
    <3>. QED BY <3>2, <3>3, <3>4, <3>5 DEF x
  <2>9. ContigEvalDCF(ky, p, s, n) =
          Over(node[[Root(s, h, 0) EXCEPT !.start = @ + h, !.at = h]], node[Root(s, h, 0)])
    BY <1>1 DEF h
  <2>10. ContigEvalDCF(ky, p, s, n) = Over(out[<<1, s + h, h, h>>], out[<<1, s, h, 0>>])
    BY <2>6, <2>7, <2>8, <2>9
  <2>. QED BY <1>18, <2>10 DEF s, h, n
<1>20. Slice(row, 0, k * 2 ^ e, 2 ^ e)
         = [i \in 0 .. 2 ^ e - 1 |-> EvalOneDCF(k * 2 ^ e + i, ky, p)]
  <2>. DEFINE n == 2 ^ e
              s == k * n
  <2>1. n \in Nat \ {0} /\ (k + 1) * n <= NumLeaves BY PowerOfTwo
  <2>. HIDE DEF n
  <2>2. s \in Nat /\ s + n = (k + 1) * n BY <2>1
  <2>. HIDE DEF s
  <2>3. \A i \in 0 .. n - 1 : row[s + (i - 0)] = EvalOneDCF(s + i, ky, p)
    <3>. TAKE i \in 0 .. n - 1
    <3>1. s + (i - 0) = s + i /\ s + i \in 0 .. NumLeaves - 1 BY <1>2, <2>1, <2>2
    <3>. QED BY <3>1 DEF row
  <2>4. 0 .. 0 + n - 1 = 0 .. n - 1 BY <2>1
  <2>5. Slice(row, 0, s, n) = [i \in 0 .. n - 1 |-> EvalOneDCF(s + i, ky, p)]
    BY <2>3, <2>4 DEF Slice
  <2>. QED BY <2>5 DEF s, n
<1>. QED BY <1>19, <1>20

=============================================================================
