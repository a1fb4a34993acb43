------------------------- MODULE SecureShuffleProofs -------------------------
(***************************************************************************)
(* Theorems about SecureShuffle, for any number of parties, threads and    *)
(* units: the threads of a party never get hold of each other's entry of   *)
(* the ShuffleStore, and what the networks make of the vectors is what the *)
(* permutations say.  The first part is about the Waksman network alone:   *)
(* every permutation has a configuration, and the network, run round by    *)
(* round, does what its configuration says.                                *)
(***************************************************************************)
EXTENDS SecureShuffle, FiniteSetTheorems, SequenceTheorems, TLAPS

-----------------------------------------------------------------------------
(* Induction, recursion and powers of two.                                 *)

\* A set with 0 that is closed under adding 1 has all natural numbers.
LEMMA NatSet ==
  ASSUME NEW S, 0 \in S, \A n \in Nat : n \in S => n + 1 \in S
  PROVE  Nat \subseteq S
<1>. SUFFICES ASSUME NEW n \in Nat, n \notin S PROVE FALSE
  OBVIOUS
<1> DEFINE U == S \cap (0 .. n)
           V == U \ {0}
           f == [x \in U |-> x + 1]
<1>1. IsFiniteSet(0 .. n) BY FS_Interval
<1>2. IsFiniteSet(U) BY <1>1, FS_Subset
<1>3. 0 \in U OBVIOUS
<1>4. /\ IsFiniteSet(V) /\ Cardinality(V) = Cardinality(U) - 1
      /\ Cardinality(U) \in Nat
  BY <1>2, <1>3, FS_RemoveElement, FS_CardinalityType
<1>5. f \in [U -> V]
  <2>. SUFFICES ASSUME NEW x \in U PROVE x + 1 \in V
    OBVIOUS
  <2>1. x \in Nat /\ x # n /\ x <= n OBVIOUS
  <2>. QED BY <2>1
<1>6. \A x, y \in U : f[x] = f[y] => x = y OBVIOUS
<1>. HIDE DEF U, V, f
<1>7. Cardinality(V) < Cardinality(U) BY <1>4
<1>8. \E x, y \in U : x # y /\ f[x] = f[y]
  BY <1>2, <1>4, <1>5, <1>7, FS_PigeonHole
<1>. QED BY <1>6, <1>8

\* The same up to a bound: what holds at the root and goes down a level holds at all levels.
LEMMA IntervalInduction ==
  ASSUME NEW d \in Nat, NEW S, 0 \in S, \A i \in 1 .. d : i - 1 \in S => i \in S
  PROVE  \A i \in 0 .. d : i \in S
<1> DEFINE H == {n \in Nat : n \in 0 .. d => n \in S}
<1>1. 0 \in H OBVIOUS
<1>2. \A n \in Nat : n \in H => n + 1 \in H
  <2>. SUFFICES ASSUME NEW n \in Nat, n \in H, n + 1 \in 0 .. d PROVE n + 1 \in S
    OBVIOUS
  <2>1. n \in S /\ n + 1 \in 1 .. d /\ (n + 1) - 1 = n OBVIOUS
  <2>. QED BY <2>1
<1>3. Nat \subseteq H
  <2>. HIDE DEF H
  <2>. QED BY <1>1, <1>2, NatSet
<1>. QED BY <1>3

\* For each of d steps the function by which it makes one member of T of another.
Steps(d, T) == [1 .. d -> [T -> T]]

\* The functions that start with a and take these steps.
Runs(d, T, a, step) ==
  {g \in [0 .. d -> T] : g[0] = a /\ \A i \in 1 .. d : g[i] = step[i][g[i - 1]]}

\* A function may be defined by recursion over its index.
LEMMA Recursion ==
  ASSUME NEW d \in Nat, NEW T, NEW a \in T, NEW step \in Steps(d, T)
  PROVE  \E g : g \in Runs(d, T, a, step)
<1> DEFINE Fits(n, g) == g \in [0 .. n -> T] /\ g[0] = a
                           /\ \A i \in 1 .. n : g[i] = step[i][g[i - 1]]
           S == {n \in Nat : \E g : Fits(n, g)}
<1>0. step \in [1 .. d -> [T -> T]] BY DEF Steps
<1>1. 0 \in S
  <2>. DEFINE g == [i \in 0 .. 0 |-> a]
  <2>1. Fits(0, g) OBVIOUS
  <2>. QED BY <2>1
<1>2. \A n \in 1 .. d : n - 1 \in S => n \in S
  <2>. SUFFICES ASSUME NEW n \in 1 .. d, n - 1 \in S PROVE n \in S
    OBVIOUS
  <2>1. PICK g : Fits(n - 1, g) OBVIOUS
  <2>. DEFINE h == [i \in 0 .. n |-> IF i = n THEN step[n][g[n - 1]] ELSE g[i]]
  <2>2. g[n - 1] \in T BY <2>1
  <2>3. step[n][g[n - 1]] \in T BY <1>0, <2>2
  <2>4. h \in [0 .. n -> T] BY <2>1, <2>3
  <2>5. h[0] = a BY <2>1
  <2>6. \A i \in 1 .. n : h[i] = step[i][h[i - 1]]
    <3>. TAKE i \in 1 .. n
    <3>1. h[i - 1] = g[i - 1] OBVIOUS
    <3>2. CASE i = n
      <4>1. h[n] = step[n][g[n - 1]] OBVIOUS
      <4>2. h[n - 1] = g[n - 1] OBVIOUS
      <4>. HIDE DEF h
      <4>. QED BY <3>2, <4>1, <4>2, Zenon
    <3>3. CASE i # n
      <4>1. i \in 1 .. n - 1 /\ h[i] = g[i] BY <3>3
      <4>. QED BY <2>1, <3>1, <4>1
    <3>. QED BY <3>2, <3>3
  <2>. HIDE DEF h
  <2>7. Fits(n, h) /\ n \in Nat BY <2>4, <2>5, <2>6
  <2>. HIDE DEF Fits
  <2>. QED BY <2>7
<1>3. d \in S
  <2>. HIDE DEF S
  <2>1. \A i \in 0 .. d : i \in S BY <1>1, <1>2, IntervalInduction
  <2>. QED BY <2>1
<1>. QED BY <1>3 DEF Runs

\* Powers of two, as the number of subsets.
LEMMA PowerOfTwo ==
  /\ 2 ^ 0 = 1
  /\ \A n \in Nat : 2 ^ n \in Nat \ {0} /\ 2 ^ (n + 1) = 2 * 2 ^ n
<1>1. ASSUME NEW n \in Nat
      PROVE  IsFiniteSet(SUBSET (1 .. n)) /\ Cardinality(SUBSET (1 .. n)) = 2 ^ n
             /\ 2 ^ n \in Nat
  <2>1. IsFiniteSet(1 .. n) /\ Cardinality(1 .. n) = n BY FS_Interval
  <2>. QED BY <2>1, FS_SUBSET, FS_CardinalityType
<1>2. ASSUME NEW n \in Nat PROVE 2 ^ (n + 1) = 2 * 2 ^ n
  <2>. DEFINE A == SUBSET (1 .. n)
              B == {s \cup {n + 1} : s \in A}
              f == [s \in A |-> s \cup {n + 1}]
  <2>1. SUBSET (1 .. n + 1) = A \cup B
    <3>1. 1 .. n + 1 = (1 .. n) \cup {n + 1} OBVIOUS
    <3>2. ASSUME NEW s \in SUBSET (1 .. n + 1) PROVE s \in A \cup B
      <4>1. CASE n + 1 \in s
        <5>1. s \ {n + 1} \in A /\ s = (s \ {n + 1}) \cup {n + 1} BY <3>1, <4>1
        <5>. QED BY <5>1
      <4>2. CASE n + 1 \notin s BY <3>1, <4>2
      <4>. QED BY <4>1, <4>2
    <3>3. ASSUME NEW s \in B PROVE s \in SUBSET (1 .. n + 1) BY <3>1
    <3>. QED BY <3>1, <3>2, <3>3
  <2>2. A \cap B = {}
    <3>1. n + 1 \notin 1 .. n OBVIOUS
    <3>. QED BY <3>1
  <2>3. f \in Bijection(A, B)
    <3>1. n + 1 \notin 1 .. n OBVIOUS
    <3>2. f \in [A -> B] OBVIOUS
    <3>3. \A s, u \in A : f[s] = f[u] => s = u
      <4>. SUFFICES ASSUME NEW s \in A, NEW u \in A, f[s] = f[u] PROVE s = u
        OBVIOUS
      <4>1. s = f[s] \ {n + 1} /\ u = f[u] \ {n + 1} BY <3>1
      <4>. QED BY <4>1
    <3>4. \A b \in B : \E s \in A : f[s] = b OBVIOUS
    <3>. HIDE DEF A, B, f
    <3>. QED BY <3>2, <3>3, <3>4 DEF Bijection, Injection, Surjection, IsInjective
  <2>4. IsFiniteSet(A) /\ Cardinality(A) = 2 ^ n /\ 2 ^ n \in Nat BY <1>1
  <2>5. Cardinality(SUBSET (1 .. n + 1)) = 2 ^ (n + 1) BY <1>1
  <2>. HIDE DEF A, B, f
  <2>6. IsFiniteSet(B) /\ Cardinality(B) = Cardinality(A)
    BY <2>3, <2>4, FS_Bijection, Zenon DEF ExistsBijection
  <2>7. Cardinality(A \cup B) = Cardinality(A) + Cardinality(B) - Cardinality(A \cap B)
    BY <2>4, <2>6, FS_Union, Zenon
  <2>8. Cardinality(A \cap B) = 0 BY <2>2, FS_EmptySet
  <2>9. Cardinality(SUBSET (1 .. n + 1)) = 2 ^ n + 2 ^ n BY <2>1, <2>4, <2>6, <2>7, <2>8
  <2>10. 2 ^ (n + 1) = 2 ^ n + 2 ^ n BY <2>5, <2>9, Zenon
  <2>. QED BY <2>4, <2>10
<1>3. 2 ^ 0 = 1 OBVIOUS
<1>4. \A n \in Nat : 2 ^ n # 0
  <2>. DEFINE S == {n \in Nat : 2 ^ n # 0}
  <2>1. 0 \in S BY <1>3
  <2>2. \A n \in Nat : n \in S => n + 1 \in S BY <1>1, <1>2
  <2>3. Nat \subseteq S
    <3>. HIDE DEF S
    <3>. QED BY <2>1, <2>2, NatSet
  <2>. QED BY <2>3
<1>. QED BY <1>1, <1>2, <1>3, <1>4

-----------------------------------------------------------------------------
(* Division.                                                               *)

\* A number by a divisor.
LEMMA DivMod ==
  ASSUME NEW b \in Nat \ {0}, NEW a \in Nat
  PROVE  a = (a \div b) * b + (a % b) /\ a % b \in 0 .. b - 1 /\ a \div b \in Nat
  OBVIOUS

\* Quotient and remainder are the only ones.
LEMMA DivModUnique ==
  ASSUME NEW b \in Nat \ {0}, NEW q \in Nat, NEW r \in 0 .. b - 1
  PROVE  (q * b + r) \div b = q /\ (q * b + r) % b = r
  OBVIOUS

\* Halves.
LEMMA Halves ==
  ASSUME NEW j \in Nat, NEW e \in {0, 1}
  PROVE  (2 * j + e) \div 2 = j /\ (2 * j + e) % 2 = e
  OBVIOUS

LEMMA Halved ==
  ASSUME NEW w \in Nat
  PROVE  w = 2 * (w \div 2) + (w % 2) /\ w % 2 \in {0, 1} /\ w \div 2 \in Nat
  OBVIOUS

\* Xor of two bits.
LEMMA XorBits ==
  ASSUME NEW e \in {0, 1}, NEW f \in {0, 1}
  PROVE  Xor(e, f) = IF e = f THEN 0 ELSE 1
<1>1. CASE e = 0 /\ f = 0 BY <1>1 DEF Xor
<1>2. CASE e = 0 /\ f = 1 BY <1>2 DEF Xor
<1>3. CASE e = 1 /\ f = 0 BY <1>3 DEF Xor
<1>4. CASE e = 1 /\ f = 1 BY <1>4 DEF Xor
<1> QED BY <1>1, <1>2, <1>3, <1>4

\* Only the last bit of a number counts.
LEMMA XorLast ==
  ASSUME NEW j \in Nat, NEW e \in {0, 1}, NEW f \in {0, 1}
  PROVE  Xor(2 * j + e, f) = Xor(e, f)
<1>1. CASE e + f = 2 BY <1>1 DEF Xor
<1>2. CASE e + f # 2 BY <1>2 DEF Xor
<1> QED BY <1>1, <1>2

-----------------------------------------------------------------------------
(* Sizes of the network.                                                   *)

\* Powers of two grow.
LEMMA PowersGrow ==
  \A k \in Nat : /\ 2 ^ k > k
                 /\ \A j \in 0 .. k : j # k => 2 ^ j < 2 ^ k
<1> DEFINE S == {k \in Nat : 2 ^ k > k /\ \A j \in 0 .. k : j # k => 2 ^ j < 2 ^ k}
<1>1. 0 \in S BY PowerOfTwo
<1>2. ASSUME NEW k \in Nat, k \in S PROVE k + 1 \in S
  <2>1. 2 ^ k \in Nat \ {0} /\ 2 ^ (k + 1) = 2 * 2 ^ k BY PowerOfTwo
  <2>2. 2 ^ (k + 1) > k + 1 BY <1>2, <2>1
  <2>3. ASSUME NEW j \in 0 .. k + 1, j # k + 1 PROVE 2 ^ j < 2 ^ (k + 1)
    <3>1. j \in 0 .. k /\ 2 ^ j \in Nat BY <2>3, PowerOfTwo
    <3>2. 2 ^ j <= 2 ^ k BY <1>2, <2>1, <3>1
    <3> QED BY <2>1, <3>1, <3>2
  <2> QED BY <2>2, <2>3
<1>3. Nat \subseteq S
  <2> HIDE DEF S
  <2> QED BY <1>1, <1>2, NatSet
<1> QED BY <1>3

\* A product of powers of two.
LEMMA PowersMultiply == \A a, b \in Nat : 2 ^ (a + b) = 2 ^ a * 2 ^ b
<1> SUFFICES ASSUME NEW a \in Nat PROVE \A b \in Nat : 2 ^ (a + b) = 2 ^ a * 2 ^ b
  OBVIOUS
<1> DEFINE S == {b \in Nat : 2 ^ (a + b) = 2 ^ a * 2 ^ b}
<1>1. 0 \in S
  <2>1. 2 ^ a \in Nat /\ a + 0 = a BY PowerOfTwo
  <2> QED BY <2>1, PowerOfTwo
<1>2. ASSUME NEW b \in Nat, b \in S PROVE b + 1 \in S
  <2>1. 2 ^ a \in Nat /\ 2 ^ b \in Nat BY PowerOfTwo
  <2>2. 2 ^ (b + 1) = 2 * 2 ^ b BY PowerOfTwo
  <2>3. 2 ^ ((a + b) + 1) = 2 * 2 ^ (a + b) BY PowerOfTwo
  <2>4. a + (b + 1) = (a + b) + 1 OBVIOUS
  <2>5. 2 ^ (a + (b + 1)) = 2 * 2 ^ (a + b) BY <2>3, <2>4, Zenon
  <2>6. 2 * (2 ^ a * 2 ^ b) = 2 ^ a * (2 * 2 ^ b) BY <2>1
  <2>7. 2 ^ (a + b) = 2 ^ a * 2 ^ b BY <1>2
  <2>8. 2 ^ (a + (b + 1)) = 2 ^ a * 2 ^ (b + 1) BY <2>2, <2>5, <2>6, <2>7, Zenon
  <2> QED BY <2>8
<1>3. Nat \subseteq S
  <2> HIDE DEF S
  <2> QED BY <1>1, <1>2, NatSet
<1> QED BY <1>3

\* The depth of a network of 2^k wires.
LEMMA DepthIs ==
  ASSUME NEW k \in Nat
  PROVE  Depth(2 ^ k) = k
<1>1. 2 ^ k \in Nat /\ k \in 0 .. 2 ^ k BY PowerOfTwo, PowersGrow
<1>2. ASSUME NEW j \in Nat, 2 ^ j = 2 ^ k PROVE j = k
  <2>1. CASE j < k
    <3>1. 2 ^ j < 2 ^ k BY <2>1, PowersGrow
    <3> QED BY <1>2, <1>1, <3>1
  <2>2. CASE k < j
    <3>1. 2 ^ k < 2 ^ j BY <2>2, PowersGrow
    <3> QED BY <1>2, <1>1, <3>1
  <2> QED BY <2>1, <2>2
<1>3. \A j \in 0 .. 2 ^ k : 2 ^ j = 2 ^ k => j = k BY <1>1, <1>2
<1> QED BY <1>1, <1>3 DEF Depth

\* The wires that n units need are a power of two.
LEMMA Pow2Is ==
  ASSUME NEW n \in Nat \ {0}
  PROVE  /\ Pow2(n) \in n .. 2 * n - 1
         /\ \E k \in Nat : Pow2(n) = 2 ^ k
<1> DEFINE S == {u \in Nat : \E k \in 0 .. u + 1 : 2 ^ k \in u + 1 .. 2 * u + 1}
<1>1. 0 \in S
  <2>1. 2 ^ 0 = 1 BY PowerOfTwo
  <2>2. 2 ^ 0 \in 0 + 1 .. 2 * 0 + 1 /\ 0 \in 0 .. 0 + 1 BY <2>1
  <2> QED BY <2>2
<1>2. ASSUME NEW u \in Nat, u \in S PROVE u + 1 \in S
  <2>1. PICK k \in 0 .. u + 1 : 2 ^ k \in u + 1 .. 2 * u + 1 BY <1>2
  <2>2. k \in Nat /\ 2 ^ (k + 1) = 2 * 2 ^ k BY PowerOfTwo
  <2>3. CASE 2 ^ k = u + 1
    <3>1. 2 ^ (k + 1) \in (u + 1) + 1 .. 2 * (u + 1) + 1 BY <2>1, <2>2, <2>3
    <3>2. k + 1 \in 0 .. (u + 1) + 1 OBVIOUS
    <3> QED BY <3>1, <3>2
  <2>4. CASE 2 ^ k # u + 1
    <3>1. 2 ^ k \in (u + 1) + 1 .. 2 * (u + 1) + 1 BY <2>1, <2>4
    <3>2. k \in 0 .. (u + 1) + 1 OBVIOUS
    <3> QED BY <3>1, <3>2
  <2> QED BY <2>3, <2>4
<1>3. Nat \subseteq S
  <2> HIDE DEF S
  <2> QED BY <1>1, <1>2, NatSet
<1>4. PICK k \in 0 .. n : 2 ^ k \in n .. 2 * n - 1
  <2>1. n - 1 \in S BY <1>3
  <2>2. PICK k \in 0 .. (n - 1) + 1 : 2 ^ k \in (n - 1) + 1 .. 2 * (n - 1) + 1 BY <2>1
  <2>3. k \in 0 .. n /\ 2 ^ k \in n .. 2 * n - 1 BY <2>2
  <2> QED BY <2>3
<1>5. \E m \in n .. 2 * n - 1 : \E j \in 0 .. n : m = 2 ^ j BY <1>4
<1>6. Pow2(n) \in n .. 2 * n - 1 /\ \E j \in 0 .. n : Pow2(n) = 2 ^ j
  BY <1>5 DEF Pow2
<1> QED BY <1>6

-----------------------------------------------------------------------------
(* Two ways to pair the members of a finite set: there are two colours such*)
(* that the members of every pair differ.                                  *)

Flips(S) == {a \in [S -> S] : \A x \in S : a[x] # x /\ a[a[x]] = x}

Colours(S, a, b) ==
  {f \in [S -> {0, 1}] : \A x \in S : f[a[x]] # f[x] /\ f[b[x]] # f[x]}

\* A pair of both kinds is coloured by itself.
LEMMA ColourPair ==
  ASSUME NEW S, NEW a \in Flips(S), NEW b \in Flips(S), NEW x \in S, b[x] = a[x],
         \A a1, b1 \in Flips(S \ {x, a[x]}) : \E f : f \in Colours(S \ {x, a[x]}, a1, b1)
  PROVE  \E f : f \in Colours(S, a, b)
<1> DEFINE y == a[x]
           R == S \ {x, y}
           a1 == [z \in R |-> a[z]]
           b1 == [z \in R |-> b[z]]
<1>1. /\ a \in [S -> S] /\ \A z \in S : a[z] # z /\ a[a[z]] = z
      /\ b \in [S -> S] /\ \A z \in S : b[z] # z /\ b[b[z]] = z
  BY DEF Flips
<1>2. /\ y \in S /\ y # x /\ a[x] = y /\ a[y] = x /\ b[x] = y /\ b[y] = x
      /\ \A z \in R : a[z] \in R /\ b[z] \in R
  BY <1>1
<1>3. a1 \in Flips(R) /\ b1 \in Flips(R)
  BY <1>1, <1>2 DEF Flips
<1>4. PICK f : f \in Colours(R, a1, b1)
  BY <1>3
<1>5. f \in [R -> {0, 1}] /\ \A z \in R : f[a[z]] # f[z] /\ f[b[z]] # f[z]
  BY <1>2, <1>4 DEF Colours
<1> DEFINE g == [z \in S |-> IF z = x THEN 0 ELSE IF z = y THEN 1 ELSE f[z]]
<1>6. g \in [S -> {0, 1}]
  BY <1>5
<1>7. g[x] = 0 /\ g[y] = 1 /\ \A z \in R : g[z] = f[z]
  BY <1>2
<1> HIDE DEF g
<1>8. ASSUME NEW z \in S PROVE g[a[z]] # g[z] /\ g[b[z]] # g[z]
  <2>1. CASE z \in R BY <2>1, <1>2, <1>5, <1>7
  <2>2. CASE z = x BY <2>2, <1>2, <1>7
  <2>3. CASE z = y BY <2>3, <1>2, <1>7
  <2> QED BY <2>1, <2>2, <2>3
<1> QED BY <1>6, <1>8 DEF Colours

\* A pair of the first kind lies between two pairs of the second: without it these
\* make one.
LEMMA ColourChain ==
  ASSUME NEW S, NEW a \in Flips(S), NEW b \in Flips(S), NEW x \in S, b[x] # a[x],
         \A a1, b1 \in Flips(S \ {x, a[x]}) : \E f : f \in Colours(S \ {x, a[x]}, a1, b1)
  PROVE  \E f : f \in Colours(S, a, b)
<1> DEFINE y == a[x]
           R == S \ {x, y}
           u == b[x]
           v == b[y]
           a1 == [z \in R |-> a[z]]
           b1 == [z \in R |-> IF z = u THEN v ELSE IF z = v THEN u ELSE b[z]]
<1>1. /\ a \in [S -> S] /\ \A z \in S : a[z] # z /\ a[a[z]] = z
      /\ b \in [S -> S] /\ \A z \in S : b[z] # z /\ b[b[z]] = z
  BY DEF Flips
<1>2. /\ y \in S /\ y # x /\ a[x] = y /\ a[y] = x
      /\ u \in R /\ v \in R /\ u # v /\ b[u] = x /\ b[v] = y
      /\ \A z \in R : a[z] \in R /\ (z # u /\ z # v => b[z] \in R /\ b[z] # u /\ b[z] # v)
  BY <1>1
<1>3. a1 \in Flips(R)
  BY <1>1, <1>2 DEF Flips
<1>4. b1 \in Flips(R)
  <2>1. b1 \in [R -> R] BY <1>2
  <2>2. b1[u] = v /\ b1[v] = u /\ \A z \in R : z # u /\ z # v => b1[z] = b[z]
    BY <1>2
  <2> HIDE DEF b1
  <2>3. ASSUME NEW z \in R PROVE b1[z] # z /\ b1[b1[z]] = z
    <3>1. CASE z = u BY <3>1, <1>2, <2>2
    <3>2. CASE z = v BY <3>2, <1>2, <2>2
    <3>3. CASE z # u /\ z # v
      <4>1. b1[z] = b[z] /\ b[z] \in R /\ b[z] # u /\ b[z] # v BY <3>3, <1>2, <2>2
      <4>2. b1[b[z]] = b[b[z]] BY <4>1, <2>2
      <4> QED BY <4>1, <4>2, <1>1
    <3> QED BY <3>1, <3>2, <3>3
  <2> QED BY <2>1, <2>3 DEF Flips
<1>5. PICK f : f \in Colours(R, a1, b1)
  BY <1>3, <1>4
<1>6. /\ f \in [R -> {0, 1}] /\ f[u] # f[v]
      /\ \A z \in R : f[a[z]] # f[z] /\ (z # u /\ z # v => f[b[z]] # f[z])
  <2>1. f \in [R -> {0, 1}] /\ \A z \in R : f[a1[z]] # f[z] /\ f[b1[z]] # f[z]
    BY <1>5 DEF Colours
  <2>2. b1[u] = v /\ \A z \in R : a1[z] = a[z] /\ (z # u /\ z # v => b1[z] = b[z])
    BY <1>2
  <2> HIDE DEF a1, b1
  <2> QED BY <2>1, <2>2, <1>2
<1> DEFINE g == [z \in S |-> IF z = x THEN 1 - f[u] ELSE IF z = y THEN 1 - f[v] ELSE f[z]]
<1>7. g \in [S -> {0, 1}]
  <2>1. 1 - f[u] \in {0, 1} /\ 1 - f[v] \in {0, 1} BY <1>2, <1>6
  <2> QED BY <1>6, <2>1
<1>8. /\ g[x] = 1 - f[u] /\ g[y] = 1 - f[v] /\ \A z \in R : g[z] = f[z]
      /\ f[u] \in {0, 1} /\ f[v] \in {0, 1}
  BY <1>2, <1>6
<1> HIDE DEF g
<1>9. ASSUME NEW z \in S PROVE g[a[z]] # g[z] /\ g[b[z]] # g[z]
  <2>0. g[x] # g[y] /\ g[u] # g[x] /\ g[v] # g[y] BY <1>2, <1>6, <1>8
  <2>1. CASE z \in R /\ z # u /\ z # v BY <2>1, <1>2, <1>6, <1>8
  <2>2. CASE z = x BY <2>0, <2>2, <1>2
  <2>3. CASE z = y BY <2>0, <2>3, <1>2
  <2>4. CASE z = u BY <2>0, <2>4, <1>2, <1>6, <1>8
  <2>5. CASE z = v BY <2>0, <2>5, <1>2, <1>6, <1>8
  <2> QED BY <2>1, <2>2, <2>3, <2>4, <2>5
<1> QED BY <1>7, <1>9 DEF Colours

\* Every two ways to pair.
LEMMA Colouring ==
  ASSUME NEW U, IsFiniteSet(U)
  PROVE  \A a, b \in Flips(U) : \E f : f \in Colours(U, a, b)
<1> DEFINE Good(S) == \A a, b \in Flips(S) : \E f : f \in Colours(S, a, b)
           H == {k \in Nat : \A S \in SUBSET U : Cardinality(S) <= k => Good(S)}
<1>0. ASSUME NEW S, S = {} PROVE Good(S)
  <2> SUFFICES ASSUME NEW a \in Flips(S), NEW b \in Flips(S)
               PROVE  \E f : f \in Colours(S, a, b)
    OBVIOUS
  <2>1. [z \in S |-> 0] \in Colours(S, a, b) BY <1>0 DEF Colours
  <2> QED BY <2>1
<1>1. ASSUME NEW S \in SUBSET U
      PROVE  IsFiniteSet(S) /\ Cardinality(S) \in Nat /\ (Cardinality(S) = 0 => S = {})
  <2>1. IsFiniteSet(S) BY FS_Subset
  <2> QED BY <2>1, FS_CardinalityType, FS_EmptySet
<1>2. 0 \in H
  <2> HIDE DEF Good
  <2> QED BY <1>0, <1>1
<1>3. ASSUME NEW k \in Nat, k \in H PROVE k + 1 \in H
  <2> SUFFICES ASSUME NEW S \in SUBSET U, Cardinality(S) <= k + 1 PROVE Good(S)
    OBVIOUS
  <2>1. CASE S = {}
    <3> HIDE DEF Good
    <3> QED BY <1>0, <2>1
  <2>2. CASE S # {}
    <3> SUFFICES ASSUME NEW a \in Flips(S), NEW b \in Flips(S)
                 PROVE  \E f : f \in Colours(S, a, b)
      OBVIOUS
    <3>1. PICK x : x \in S BY <2>2
    <3> DEFINE R == S \ {x, a[x]}
    <3>2. R \in SUBSET U /\ Cardinality(R) <= k
      <4>1. IsFiniteSet(S \ {x}) /\ Cardinality(S \ {x}) = Cardinality(S) - 1
        BY <1>1, <3>1, FS_RemoveElement
      <4>2. IsFiniteSet(R) /\ Cardinality(R) <= Cardinality(S \ {x})
            /\ Cardinality(R) \in Nat /\ Cardinality(S \ {x}) \in Nat
        BY <4>1, FS_Subset, FS_CardinalityType
      <4>3. Cardinality(S) \in Nat BY <1>1
      <4> HIDE DEF R
      <4>4. Cardinality(R) <= k BY <4>1, <4>2, <4>3
      <4> QED BY <4>4 DEF R
    <3>3. Good(R)
      <4> HIDE DEF Good, R
      <4> QED BY <1>3, <3>2
    <3>4. CASE b[x] = a[x] BY <3>1, <3>3, <3>4, ColourPair
    <3>5. CASE b[x] # a[x] BY <3>1, <3>3, <3>5, ColourChain
    <3> QED BY <3>4, <3>5
  <2> QED BY <2>1, <2>2
<1>4. Cardinality(U) \in H
  <2> HIDE DEF H
  <2>1. Nat \subseteq H BY <1>2, <1>3, NatSet
  <2> QED BY <1>1, <2>1
<1>5. Good(U)
  <2> HIDE DEF Good
  <2> QED BY <1>1, <1>4
<1> QED BY <1>5

-----------------------------------------------------------------------------
(* Wires and blocks.                                                       *)

\* Multiples of b.
LEMMA Multiple ==
  ASSUME NEW b \in Nat \ {0}, NEW a \in Nat
  PROVE  a % b = 0 <=> \E q \in Nat : a = q * b
<1>1. ASSUME a % b = 0 PROVE \E q \in Nat : a = q * b
  <2> DEFINE q == a \div b
  <2>1. a = q * b + (a % b) /\ q \in Nat BY DivMod
  <2> HIDE DEF q
  <2>2. a = q * b BY <1>1, <2>1
  <2> QED BY <2>1, <2>2
<1>2. ASSUME NEW q \in Nat, a = q * b PROVE a % b = 0
  BY <1>2
<1> QED BY <1>1, <1>2

Wires(n) == 0 .. n - 1

\* Where the block of m wires begins that v lies in
Start(m, v) == v - (v % m)

Starts(n, m) == {s \in Wires(n) : s % m = 0}

\* n wires in blocks of m with halves of h
Splits(n, m, h) == n \in Nat \ {0} /\ h \in Nat \ {0} /\ m = 2 * h /\ n % m = 0

\* The wires of pair j at the ends of a block that begins at s
Pin(s, j, e) == s + 2 * j + e

\* The ends of its halves
Pos(h, s, half, j) == s + half * h + j

\* A block ends within the wires.
LEMMA BlockIs ==
  ASSUME NEW n \in Nat \ {0}, NEW m \in Nat \ {0}, n % m = 0, NEW s \in Starts(n, m)
  PROVE  /\ s \in Nat /\ s + m <= n
         /\ \A w \in 0 .. m - 1 : s + w \in Wires(n) /\ Start(m, s + w) = s
<1>1. s \in Nat /\ s < n /\ s % m = 0 BY DEF Starts, Wires
<1>2. n = (n \div m) * m + (n % m) /\ n \div m \in Nat BY DivMod
<1>3. s = (s \div m) * m + (s % m) /\ s \div m \in Nat BY <1>1, DivMod
<1> DEFINE c == n \div m
           q == s \div m
<1>4. n = c * m /\ s = q * m /\ c \in Nat /\ q \in Nat BY <1>1, <1>2, <1>3
<1> HIDE DEF c, q
<1>5. q < c
  <2>1. ASSUME q >= c PROVE FALSE
    <3>1. q * m >= c * m BY <1>4, <2>1
    <3> QED BY <3>1, <1>1, <1>4
  <2> QED BY <2>1, <1>4
<1>6. q * m + m <= c * m
  <2>1. c - (q + 1) \in Nat BY <1>4, <1>5
  <2>2. c * m = (q + 1) * m + (c - (q + 1)) * m BY <1>4, <2>1
  <2>3. (c - (q + 1)) * m \in Nat BY <2>1
  <2>4. (q + 1) * m = q * m + m BY <1>4
  <2>5. (q + 1) * m \in Nat BY <1>4
  <2> QED BY <2>2, <2>3, <2>4, <2>5
<1>7. ASSUME NEW w \in 0 .. m - 1
      PROVE  s + w \in Wires(n) /\ Start(m, s + w) = s
  <2>1. (s + w) % m = w BY <1>4, DivModUnique
  <2>2. s + w \in Wires(n) BY <1>1, <1>4, <1>6 DEF Wires
  <2> QED BY <1>1, <2>1, <2>2 DEF Start
<1> QED BY <1>1, <1>4, <1>6, <1>7

\* Every wire lies in a block.
LEMMA StartOf ==
  ASSUME NEW n \in Nat \ {0}, NEW m \in Nat \ {0}, n % m = 0, NEW v \in Wires(n)
  PROVE  Start(m, v) \in Starts(n, m) /\ v - Start(m, v) \in 0 .. m - 1 /\ Start(m, v) \in Nat
<1>1. v \in Nat /\ v < n BY DEF Wires
<1>2. v = (v \div m) * m + (v % m) /\ v \div m \in Nat /\ v % m \in 0 .. m - 1
  BY <1>1, DivMod
<1> DEFINE q == v \div m
           r == v % m
<1>3. v = q * m + r /\ q \in Nat /\ r \in 0 .. m - 1 /\ Start(m, v) = v - r
  BY <1>2 DEF Start
<1> HIDE DEF q, r
<1>4. q * m \in Nat /\ v - r = q * m BY <1>3
<1>5. (v - r) % m = 0 BY <1>3, <1>4, Multiple
<1>6. v - r \in Nat /\ (v - r) % m = 0 /\ v - r < n /\ v - (v - r) = r
  BY <1>1, <1>3, <1>4, <1>5
<1> QED BY <1>3, <1>6 DEF Starts, Wires

\* The halves of blocks are blocks.
LEMMA HalfStarts ==
  ASSUME NEW n, NEW m, NEW h, Splits(n, m, h), NEW s \in Starts(n, m)
  PROVE  n % h = 0 /\ s \in Starts(n, h) /\ s + h \in Starts(n, h)
<1>1. n \in Nat \ {0} /\ h \in Nat \ {0} /\ m \in Nat \ {0} /\ n % m = 0 /\ m = 2 * h
  BY DEF Splits
<1>2. s \in Nat /\ s + m <= n /\ s % m = 0
  BY <1>1, BlockIs DEF Starts
<1>3. ASSUME NEW a \in Nat, a % m = 0
      PROVE  a % h = 0 /\ (a + h) % h = 0
  <2>1. PICK q \in Nat : a = q * m BY <1>1, <1>3, Multiple
  <2>2. a = (2 * q) * h /\ a + h = (2 * q + 1) * h /\ 2 * q \in Nat /\ 2 * q + 1 \in Nat
    BY <1>1, <2>1
  <2>3. a + h \in Nat BY <1>1, <1>3
  <2> QED BY <1>1, <2>2, <2>3, Multiple
<1>4. n % h = 0 /\ s % h = 0 /\ (s + h) % h = 0 BY <1>1, <1>2, <1>3
<1> QED BY <1>1, <1>2, <1>4 DEF Starts, Wires

\* A wire by its pair, as the switches at the ends of a block see it.
LEMMA Outer ==
  ASSUME NEW n, NEW m, NEW h, Splits(n, m, h), NEW v \in Wires(n)
  PROVE  \E s \in Starts(n, m), j \in 0 .. h - 1, e \in {0, 1} :
            v = Pin(s, j, e) /\ Start(m, v) = s
<1>1. n \in Nat \ {0} /\ h \in Nat \ {0} /\ m \in Nat \ {0} /\ n % m = 0 /\ m = 2 * h
  BY DEF Splits
<1> DEFINE s == Start(m, v)
           w == v - s
<1>2. s \in Starts(n, m) /\ w \in 0 .. m - 1 /\ s \in Nat BY <1>1, StartOf
<1>3. v = s + w BY <1>2 DEF Wires
<1> HIDE DEF s, w
<1>4. w = 2 * (w \div 2) + (w % 2) /\ w % 2 \in {0, 1} /\ w \div 2 \in Nat BY <1>2, Halved
<1>5. w \div 2 \in 0 .. h - 1 BY <1>1, <1>2, <1>4
<1>6. v = s + 2 * (w \div 2) + (w % 2) BY <1>2, <1>3, <1>4
<1>7. v = Pin(s, w \div 2, w % 2) BY <1>6 DEF Pin
<1> QED BY <1>2, <1>4, <1>5, <1>7 DEF s

LEMMA PinMinus ==
  ASSUME NEW n, NEW m, NEW h, Splits(n, m, h), NEW s \in Starts(n, m), NEW j \in 0 .. h - 1,
         NEW e \in {0, 1}
  PROVE  Pin(s, j, e) - s = 2 * j + e /\ (Pin(s, j, e) - s) \div 2 = j
<1>1. n \in Nat \ {0} /\ h \in Nat \ {0} /\ m \in Nat \ {0} /\ n % m = 0 /\ m = 2 * h
  BY DEF Splits
<1> DEFINE w == 2 * j + e
<1>2. w \in Nat /\ j \in Nat BY <1>1
<1>3. w \div 2 = j BY <1>2, Halves
<1>4. s \in Nat BY <1>1, BlockIs
<1>5. Pin(s, j, e) = s + w /\ (s + w) - s = w BY <1>2, <1>4 DEF Pin
<1> HIDE DEF w
<1>6. Pin(s, j, e) - s = w BY <1>5
<1>7. (Pin(s, j, e) - s) \div 2 = j BY <1>3, <1>6
<1> QED BY <1>6, <1>7 DEF w

LEMMA OuterWire ==
  ASSUME NEW n, NEW m, NEW h, Splits(n, m, h), NEW s \in Starts(n, m), NEW j \in 0 .. h - 1,
         NEW e \in {0, 1}
  PROVE  s \in Nat /\ Pin(s, j, e) \in Wires(n) /\ Start(m, Pin(s, j, e)) = s
<1>1. n \in Nat \ {0} /\ h \in Nat \ {0} /\ m \in Nat \ {0} /\ n % m = 0 /\ m = 2 * h
  BY DEF Splits
<1> DEFINE w == 2 * j + e
<1>2. w \in 0 .. m - 1 /\ j \in Nat BY <1>1
<1>4. s \in Nat /\ s + w \in Wires(n) /\ Start(m, s + w) = s BY <1>1, <1>2, BlockIs
<1>5. Pin(s, j, e) = s + w BY <1>2, <1>4 DEF Pin
<1> HIDE DEF w
<1> QED BY <1>4, <1>5

\* A wire by the half of its block, as the halves see it.
LEMMA Inner ==
  ASSUME NEW n, NEW m, NEW h, Splits(n, m, h), NEW v \in Wires(n)
  PROVE  \E s \in Starts(n, m), half \in {0, 1}, j \in 0 .. h - 1 :
            v = Pos(h, s, half, j) /\ Start(m, v) = s
<1>1. n \in Nat \ {0} /\ h \in Nat \ {0} /\ m \in Nat \ {0} /\ n % m = 0 /\ m = 2 * h
  BY DEF Splits
<1> DEFINE s == Start(m, v)
           w == v - s
<1>2. s \in Starts(n, m) /\ w \in 0 .. m - 1 /\ s \in Nat BY <1>1, StartOf
<1>3. v = s + w BY <1>2 DEF Wires
<1> HIDE DEF s, w
<1>4. CASE w < h
  <2>1. w \in 0 .. h - 1 /\ v = s + 0 * h + w BY <1>1, <1>2, <1>3, <1>4
  <2>2. v = Pos(h, s, 0, w) BY <2>1 DEF Pos
  <2> QED BY <1>2, <2>1, <2>2 DEF s
<1>5. CASE w >= h
  <2>1. w - h \in 0 .. h - 1 /\ v = s + 1 * h + (w - h) BY <1>1, <1>2, <1>3, <1>5
  <2>2. v = Pos(h, s, 1, w - h) BY <2>1 DEF Pos
  <2> QED BY <1>2, <2>1, <2>2 DEF s
<1> QED BY <1>1, <1>2, <1>4, <1>5

LEMMA PosZero ==
  ASSUME NEW n, NEW m, NEW h, Splits(n, m, h), NEW s \in Starts(n, m), NEW half \in {0, 1}
  PROVE  /\ s \in Nat /\ Pos(h, s, half, 0) \in Starts(n, h) /\ Pos(h, s, half, 0) \in Nat
         /\ Pos(h, s, half, 0) = IF half = 1 THEN s + h ELSE s
<1>1. n \in Nat \ {0} /\ h \in Nat \ {0} /\ m \in Nat \ {0} /\ n % m = 0 /\ m = 2 * h
  BY DEF Splits
<1>2. s \in Nat BY <1>1, BlockIs
<1>3. s \in Starts(n, h) /\ s + h \in Starts(n, h) BY HalfStarts
<1>4. Pos(h, s, half, 0) = s + half * h + 0 BY DEF Pos
<1>5. CASE half = 0 BY <1>1, <1>2, <1>3, <1>4, <1>5
<1>6. CASE half = 1 BY <1>1, <1>2, <1>3, <1>4, <1>6
<1> QED BY <1>5, <1>6

LEMMA PosPlus ==
  ASSUME NEW n, NEW m, NEW h, Splits(n, m, h), NEW s \in Starts(n, m), NEW j \in 0 .. h - 1,
         NEW half \in {0, 1}
  PROVE  Pos(h, s, half, j) = Pos(h, s, half, 0) + j
<1>1. h \in Nat \ {0} BY DEF Splits
<1>2. s \in Nat BY PosZero
<1>3. Pos(h, s, half, 0) = s + half * h + 0 /\ Pos(h, s, half, j) = s + half * h + j
  BY DEF Pos
<1>4. half * h \in Nat
  <2>1. CASE half = 0 BY <1>1, <2>1
  <2>2. CASE half = 1 BY <1>1, <2>2
  <2> QED BY <2>1, <2>2
<1> QED BY <1>2, <1>3, <1>4

LEMMA InnerWire ==
  ASSUME NEW n, NEW m, NEW h, Splits(n, m, h), NEW s \in Starts(n, m), NEW j \in 0 .. h - 1,
         NEW half \in {0, 1}
  PROVE  /\ Pos(h, s, half, j) \in Wires(n) /\ Start(m, Pos(h, s, half, j)) = s
         /\ Start(h, Pos(h, s, half, j)) = Pos(h, s, half, 0)
<1>1. n \in Nat \ {0} /\ h \in Nat \ {0} /\ m \in Nat \ {0} /\ n % m = 0 /\ m = 2 * h
  BY DEF Splits
<1> DEFINE b == Pos(h, s, half, 0)
<1>2. s \in Nat /\ b \in Starts(n, h) /\ b \in Nat /\ b = IF half = 1 THEN s + h ELSE s
  BY PosZero
<1>3. Pos(h, s, half, j) = b + j BY PosPlus
<1> HIDE DEF b
<1>4. n % h = 0 BY HalfStarts
<1>5. b + j \in Wires(n) /\ Start(h, b + j) = b
  <2>1. \A w \in 0 .. h - 1 : b + w \in Wires(n) /\ Start(h, b + w) = b
    <3>1. b \in Starts(n, h) BY <1>2
    <3>2. n \in Nat \ {0} /\ h \in Nat \ {0} /\ n % h = 0 BY <1>1, <1>4
    <3> QED BY <3>1, <3>2, BlockIs
  <2> QED BY <2>1
<1>6. Start(m, b + j) = s
  <2>1. CASE half = 0
    <3>1. j \in 0 .. m - 1 /\ b + j = s + j BY <1>1, <1>2, <2>1
    <3> QED BY <1>1, <3>1, BlockIs
  <2>2. CASE half = 1
    <3>1. h + j \in 0 .. m - 1 /\ b + j = s + (h + j) BY <1>1, <1>2, <2>2
    <3> QED BY <1>1, <3>1, BlockIs
  <2> QED BY <2>1, <2>2
<1> QED BY <1>3, <1>5, <1>6 DEF b

-----------------------------------------------------------------------------
(* A permutation within blocks, by the sources of the halves.              *)

\* Maps that stay within blocks of m wires
Blockwise(n, m) ==
  {p \in [Wires(n) -> Wires(n)] : \A v \in Wires(n) : Start(m, p[v]) = Start(m, v)}

Inverses(n, p, q) == \A v \in Wires(n) : q[p[v]] = v /\ p[q[v]] = v

\* The other wire of a pair
Other(n) == [v \in Wires(n) |-> IF v % 2 = 0 THEN v + 1 ELSE v - 1]

\* A number for each wire, such that the wires of a pair differ
Halving(n) == {g \in [Wires(n) -> {0, 1}] : \A v \in Wires(n) : g[Other(n)[v]] # g[v]}

\* The wire of pair j in the block at s that goes to this half
Chosen(g, s, j, half) == Pin(s, j, Xor(half, g[Pin(s, j, 0)]))

\* The other wire, by the pair.
LEMMA OtherPin ==
  ASSUME NEW n, NEW m, NEW h, Splits(n, m, h), NEW s \in Starts(n, m), NEW j \in 0 .. h - 1
  PROVE  Other(n)[Pin(s, j, 0)] = Pin(s, j, 1) /\ Other(n)[Pin(s, j, 1)] = Pin(s, j, 0)
<1>1. n \in Nat \ {0} /\ h \in Nat \ {0} /\ m \in Nat \ {0} /\ n % m = 0 /\ m = 2 * h
  BY DEF Splits
<1>2. Pin(s, j, 0) \in Wires(n) /\ Pin(s, j, 1) \in Wires(n) /\ s \in Nat
  BY OuterWire
<1>3. Pin(s, j, 0) = s + 2 * j + 0 /\ Pin(s, j, 1) = s + 2 * j + 1 /\ j \in Nat
  BY DEF Pin
<1>4. s % 2 = 0
  <2>1. s % m = 0 BY DEF Starts
  <2>2. PICK q \in Nat : s = q * m BY <1>1, <1>2, <2>1, Multiple
  <2>3. s = 2 * (q * h) + 0 /\ q * h \in Nat BY <1>1, <2>2
  <2> QED BY <2>3, Halves
<1>5. (s + 2 * j + 0) % 2 = 0 /\ (s + 2 * j + 1) % 2 = 1 /\ s + 2 * j + 0 + 1 = s + 2 * j + 1
  BY <1>2, <1>3, <1>4
<1> QED BY <1>2, <1>3, <1>5 DEF Other

LEMMA OtherIs ==
  ASSUME NEW n, NEW m, NEW h, Splits(n, m, h)
  PROVE  Other(n) \in Flips(Wires(n)) /\ Other(n) \in Blockwise(n, m)
<1>1. ASSUME NEW s \in Starts(n, m), NEW j \in 0 .. h - 1
      PROVE  /\ Pin(s, j, 0) \in Wires(n) /\ Start(m, Pin(s, j, 0)) = s
             /\ Pin(s, j, 1) \in Wires(n) /\ Start(m, Pin(s, j, 1)) = s
             /\ Pin(s, j, 0) # Pin(s, j, 1)
  <2>1. /\ Pin(s, j, 0) \in Wires(n) /\ Start(m, Pin(s, j, 0)) = s
        /\ Pin(s, j, 1) \in Wires(n) /\ Start(m, Pin(s, j, 1)) = s
    BY OuterWire
  <2>2. Pin(s, j, 0) - s = 2 * j + 0 /\ Pin(s, j, 1) - s = 2 * j + 1
    BY PinMinus
  <2>3. 2 * j + 0 # 2 * j + 1 OBVIOUS
  <2> QED BY <2>1, <2>2, <2>3
<1>3. ASSUME NEW v \in Wires(n)
      PROVE  /\ Other(n)[v] \in Wires(n) /\ Other(n)[v] # v /\ Other(n)[Other(n)[v]] = v
             /\ Start(m, Other(n)[v]) = Start(m, v)
  <2>1. PICK s \in Starts(n, m), j \in 0 .. h - 1, e \in {0, 1} :
          v = Pin(s, j, e) /\ Start(m, v) = s
    BY Outer
  <2>2. Other(n)[Pin(s, j, 0)] = Pin(s, j, 1) /\ Other(n)[Pin(s, j, 1)] = Pin(s, j, 0)
    BY OtherPin
  <2> QED BY <1>1, <2>1, <2>2
<1>4. Other(n) \in [Wires(n) -> Wires(n)]
  <2>1. Other(n) = [v \in Wires(n) |-> Other(n)[v]] BY DEF Other
  <2> QED BY <1>3, <2>1
<1> QED BY <1>3, <1>4 DEF Flips, Blockwise

\* The chosen wire is the one of its pair with that number.
LEMMA ChosenIs ==
  ASSUME NEW n, NEW m, NEW h, Splits(n, m, h), NEW g \in Halving(n), NEW s \in Starts(n, m),
         NEW j \in 0 .. h - 1, NEW half \in {0, 1}
  PROVE  /\ Xor(half, g[Pin(s, j, 0)]) \in {0, 1}
         /\ Chosen(g, s, j, half) \in Wires(n) /\ g[Chosen(g, s, j, half)] = half
         /\ \A e \in {0, 1} : g[Pin(s, j, e)] = half => Xor(half, g[Pin(s, j, 0)]) = e
                                                      /\ Chosen(g, s, j, half) = Pin(s, j, e)
<1>1. /\ Pin(s, j, 0) \in Wires(n) /\ Pin(s, j, 1) \in Wires(n)
      /\ Other(n)[Pin(s, j, 0)] = Pin(s, j, 1)
  BY OuterWire, OtherPin
<1>3. g[Pin(s, j, 0)] \in {0, 1} /\ g[Pin(s, j, 1)] \in {0, 1} /\ g[Pin(s, j, 1)] # g[Pin(s, j, 0)]
  BY <1>1 DEF Halving
<1>4. Xor(half, g[Pin(s, j, 0)]) = IF half = g[Pin(s, j, 0)] THEN 0 ELSE 1 BY <1>3, XorBits
<1> QED BY <1>1, <1>3, <1>4 DEF Chosen

-----------------------------------------------------------------------------
(* The sources of a block, from those in its halves.                       *)

LEMMA BlockSourceAt ==
  ASSUME NEW n, NEW m, NEW h, Splits(n, m, h), NEW row \in [Wires(n) -> {0, 1}],
         NEW inner \in Blockwise(n, h), NEW s \in Starts(n, m), NEW j \in 0 .. h - 1,
         NEW e \in {0, 1}
  PROVE  \E half \in {0, 1}, i \in 0 .. h - 1 :
            /\ half = Xor(e, row[Pos(h, s, 0, j)])
            /\ inner[Pos(h, s, half, j)] = Pos(h, s, half, i)
            /\ Xor(half, row[Pos(h, s, 1, i)]) \in {0, 1}
            /\ BlockSource(n, m, row, inner)[Pin(s, j, e)]
                 = Pin(s, i, Xor(half, row[Pos(h, s, 1, i)]))
<1>1. n \in Nat \ {0} /\ h \in Nat \ {0} /\ m \in Nat \ {0} /\ n % m = 0 /\ m = 2 * h
  BY DEF Splits
<1> DEFINE v == Pin(s, j, e)
           half == Xor(e, row[Pos(h, s, 0, j)])
           other == Pos(h, s, half, 0)
           i == inner[Pos(h, s, half, j)] - other
<1>2. v \in Wires(n) /\ Start(m, v) = s /\ v - s = 2 * j + e /\ (v - s) \div 2 = j /\ s \in Nat
  <2> HIDE DEF half, other, i
  <2>0. s \in Nat BY DEF Starts, Wires
  <2>1. Pin(s, j, e) \in Wires(n) /\ Start(m, Pin(s, j, e)) = s BY OuterWire
  <2>2. v - s = 2 * j + e /\ (v - s) \div 2 = j BY PinMinus
  <2> QED BY <2>0, <2>1, <2>2
<1>3. Pos(h, s, 0, j) \in Wires(n) /\ Pos(h, s, 0, j) = s + j
  <2>1. Pos(h, s, 0, j) \in Wires(n) BY InnerWire
  <2>2. Pos(h, s, 0, j) = Pos(h, s, 0, 0) + j BY PosPlus
  <2>3. Pos(h, s, 0, 0) = s BY PosZero
  <2> QED BY <2>1, <2>2, <2>3
<1>4. half \in {0, 1}
  <2>1. row[Pos(h, s, 0, j)] \in {0, 1} BY <1>3
  <2> QED BY <2>1, XorBits
<1>5. other \in Starts(n, h) /\ Pos(h, s, half, j) \in Wires(n)
      /\ Pos(h, s, half, j) = other + j /\ Start(h, Pos(h, s, half, j)) = other
      /\ other \in Nat /\ other = IF half = 1 THEN s + h ELSE s
  <2> HIDE DEF half
  <2>1. Pos(h, s, half, j) \in Wires(n) /\ Start(h, Pos(h, s, half, j)) = other
    BY <1>4, InnerWire
  <2>2. other \in Starts(n, h) /\ other \in Nat /\ other = IF half = 1 THEN s + h ELSE s
    BY <1>4, PosZero
  <2>3. Pos(h, s, half, j) = other + j BY <1>4, PosPlus
  <2> QED BY <2>1, <2>2, <2>3
<1>6. n % h = 0 BY HalfStarts
<1>7. i \in 0 .. h - 1 /\ inner[Pos(h, s, half, j)] = other + i
  <2> DEFINE u == inner[Pos(h, s, half, j)]
  <2>1. u \in Wires(n) /\ Start(h, u) = other BY <1>5 DEF Blockwise
  <2>2. u - Start(h, u) \in 0 .. h - 1 BY <1>1, <1>6, <2>1, StartOf
  <2>3. other \in Nat /\ u \in Nat BY <1>5, <2>1 DEF Starts, Wires
  <2> QED BY <2>1, <2>2, <2>3
<1>8. inner[Pos(h, s, half, j)] = Pos(h, s, half, i)
  <2> HIDE DEF half, i
  <2>1. Pos(h, s, half, i) = other + i BY <1>4, <1>7, PosPlus
  <2> QED BY <1>7, <2>1
<1>9. Pos(h, s, 1, i) \in Wires(n) /\ Pos(h, s, 1, i) = s + h + i
  <2> HIDE DEF i
  <2>1. Pos(h, s, 1, i) \in Wires(n) BY <1>7, InnerWire
  <2>2. Pos(h, s, 1, i) = Pos(h, s, 1, 0) + i BY <1>7, PosPlus
  <2>3. Pos(h, s, 1, 0) = s + h BY PosZero
  <2> QED BY <2>1, <2>2, <2>3
<1>10. Xor(half, row[Pos(h, s, 1, i)]) \in {0, 1}
  <2>1. row[Pos(h, s, 1, i)] \in {0, 1} BY <1>9
  <2> QED BY <1>4, <2>1, XorBits
<1>11. BlockSource(n, m, row, inner)[v] = s + 2 * i + Xor(half, row[s + h + i])
  <2>1. v - (v % m) = s BY <1>2 DEF Start
  <2>2. m \div 2 = h
    <3>1. (2 * h + 0) \div 2 = h BY <1>1, Halves
    <3> QED BY <1>1, <3>1
  <2>3. Xor(v - s, row[s + (v - s) \div 2]) = half
    <3>1. row[s + j] \in {0, 1} BY <1>3
    <3>2. Xor(2 * j + e, row[s + j]) = Xor(e, row[s + j]) BY <3>1, XorLast
    <3> QED BY <1>2, <1>3, <3>2
  <2>4. s + half * h = other /\ other + (v - s) \div 2 = Pos(h, s, half, j)
    <3> HIDE DEF half, other
    <3>1. CASE half = 0 BY <1>1, <1>2, <1>5, <3>1
    <3>2. CASE half = 1 BY <1>1, <1>2, <1>5, <3>2
    <3> QED BY <1>4, <3>1, <3>2
  <2>5. BlockSource(n, m, row, inner)[v] =
          LET start == v - (v % m)
              w == v - start
              hf == Xor(w, row[start + w \div 2])
              oth == start + hf * (m \div 2)
              k == inner[oth + w \div 2] - oth
          IN  start + 2 * k + Xor(hf, row[start + m \div 2 + k])
    BY <1>2 DEF BlockSource, Wires
  <2> HIDE DEF v, half, other
  <2>6. BlockSource(n, m, row, inner)[v] =
          LET k == inner[Pos(h, s, half, j)] - other
          IN  s + 2 * k + Xor(half, row[s + h + k])
    BY <2>1, <2>2, <2>3, <2>4, <2>5
  <2> QED BY <2>6
<1>12. BlockSource(n, m, row, inner)[v] = Pin(s, i, Xor(half, row[Pos(h, s, 1, i)]))
  BY <1>9, <1>11 DEF Pin
<1> HIDE DEF v, i, other
<1> QED BY <1>4, <1>7, <1>8, <1>10, <1>12 DEF v

\* What comes out of a block went into it.
LEMMA BlockSourceIs ==
  ASSUME NEW n, NEW m, NEW h, Splits(n, m, h), NEW row \in [Wires(n) -> {0, 1}],
         NEW inner \in Blockwise(n, h)
  PROVE  BlockSource(n, m, row, inner) \in Blockwise(n, m)
<1> DEFINE f == BlockSource(n, m, row, inner)
<1>1. ASSUME NEW v \in Wires(n) PROVE f[v] \in Wires(n) /\ Start(m, f[v]) = Start(m, v)
  <2>1. PICK s \in Starts(n, m), j \in 0 .. h - 1, e \in {0, 1} :
          v = Pin(s, j, e) /\ Start(m, v) = s
    BY Outer
  <2>2. PICK i \in 0 .. h - 1, d \in {0, 1} : f[v] = Pin(s, i, d)
    <3>1. \E half \in {0, 1}, i \in 0 .. h - 1 :
            /\ Xor(half, row[Pos(h, s, 1, i)]) \in {0, 1}
            /\ f[Pin(s, j, e)] = Pin(s, i, Xor(half, row[Pos(h, s, 1, i)]))
      BY BlockSourceAt
    <3> HIDE DEF f
    <3> QED BY <2>1, <3>1
  <2>3. Pin(s, i, d) \in Wires(n) /\ Start(m, Pin(s, i, d)) = s BY OuterWire
  <2> HIDE DEF f
  <2> QED BY <2>1, <2>2, <2>3
<1>2. f = [v \in Wires(n) |-> f[v]] BY DEF BlockSource, Wires
<1> HIDE DEF f
<1>3. f \in [Wires(n) -> Wires(n)] BY <1>1, <1>2
<1> QED BY <1>1, <1>3 DEF Blockwise, f

-----------------------------------------------------------------------------
(* The permutations that the halves of a block have to do.                 *)

HalfPerm(n, m, h, p, g) ==
  [u \in Wires(n) |->
     LET s == Start(m, u)
         b == Start(h, u)
     IN  b + (p[Chosen(g, s, u - b, IF b = s THEN 0 ELSE 1)] - s) \div 2]

\* What a half does at its place j.
Goes(h, p, g, f, s, half, j) ==
  \E i \in 0 .. h - 1, e \in {0, 1} :
     p[Chosen(g, s, j, half)] = Pin(s, i, e) /\ f[Pos(h, s, half, j)] = Pos(h, s, half, i)

LEMMA HalfPermAt ==
  ASSUME NEW n, NEW m, NEW h, Splits(n, m, h), NEW p \in Blockwise(n, m),
         NEW g \in Halving(n), NEW s \in Starts(n, m), NEW half \in {0, 1},
         NEW j \in 0 .. h - 1
  PROVE  Goes(h, p, g, HalfPerm(n, m, h, p, g), s, half, j)
<1> DEFINE u == Pos(h, s, half, j)
           b == Pos(h, s, half, 0)
           c == Chosen(g, s, j, half)
<1>1. h \in Nat \ {0} BY DEF Splits
<1>2. /\ u \in Wires(n) /\ Start(m, u) = s /\ Start(h, u) = b /\ u = b + j
      /\ s \in Nat /\ b \in Nat /\ b = IF half = 1 THEN s + h ELSE s
  <2>1. u \in Wires(n) /\ Start(m, u) = s /\ Start(h, u) = b BY InnerWire
  <2>2. s \in Nat /\ b \in Nat /\ b = IF half = 1 THEN s + h ELSE s BY PosZero
  <2>3. u = b + j BY PosPlus
  <2> QED BY <2>1, <2>2, <2>3
<1>4. (IF b = s THEN 0 ELSE 1) = half
  <2> HIDE DEF b, u
  <2> QED BY <1>1, <1>2
<1>5. u - b = j
  <2> HIDE DEF b, u
  <2> QED BY <1>2
<1>6. c \in Wires(n) /\ \E e \in {0, 1} : c = Pin(s, j, e)
  BY ChosenIs DEF Chosen
<1>7. Start(m, c) = s
  <2>1. \A e \in {0, 1} : Start(m, Pin(s, j, e)) = s BY OuterWire
  <2> QED BY <1>6, <2>1
<1>8. p[c] \in Wires(n) /\ Start(m, p[c]) = s BY <1>6, <1>7 DEF Blockwise
<1>9. PICK i \in 0 .. h - 1, e \in {0, 1} : p[c] = Pin(s, i, e)
  <2> DEFINE w == p[c]
  <2>1. w \in Wires(n) /\ Start(m, w) = s BY <1>8
  <2> HIDE DEF w
  <2>2. \E t \in Starts(n, m), i \in 0 .. h - 1, e \in {0, 1} :
           w = Pin(t, i, e) /\ Start(m, w) = t
    BY <2>1, Outer
  <2> QED BY <2>1, <2>2 DEF w
<1>10. (p[c] - s) \div 2 = i
  <2>1. (Pin(s, i, e) - s) \div 2 = i BY PinMinus
  <2> QED BY <1>9, <2>1
<1>11. HalfPerm(n, m, h, p, g)[u] =
         Start(h, u) + (p[Chosen(g, Start(m, u), u - Start(h, u),
                                 IF Start(h, u) = Start(m, u) THEN 0 ELSE 1)] - Start(m, u)) \div 2
  BY <1>2 DEF HalfPerm
<1> HIDE DEF u, b
<1>12. HalfPerm(n, m, h, p, g)[u] = b + (p[c] - s) \div 2
  BY <1>2, <1>4, <1>5, <1>11
<1>13. HalfPerm(n, m, h, p, g)[u] = b + i BY <1>10, <1>12
<1>14. Pos(h, s, half, i) = b + i BY PosPlus DEF b
<1> QED BY <1>9, <1>13, <1>14 DEF u, c, Goes

\* It stays within the half.
LEMMA HalfPermIs ==
  ASSUME NEW n, NEW m, NEW h, Splits(n, m, h), NEW p \in Blockwise(n, m), NEW g \in Halving(n)
  PROVE  HalfPerm(n, m, h, p, g) \in Blockwise(n, h)
<1> DEFINE f == HalfPerm(n, m, h, p, g)
<1>1. ASSUME NEW u \in Wires(n) PROVE f[u] \in Wires(n) /\ Start(h, f[u]) = Start(h, u)
  <2>1. PICK s \in Starts(n, m), half \in {0, 1}, j \in 0 .. h - 1 : u = Pos(h, s, half, j)
    BY Inner
  <2>2. PICK i \in 0 .. h - 1 : f[u] = Pos(h, s, half, i)
    <3>1. Goes(h, p, g, f, s, half, j) BY HalfPermAt
    <3> HIDE DEF f
    <3> QED BY <2>1, <3>1 DEF Goes
  <2>3. Pos(h, s, half, i) \in Wires(n) /\ Start(h, Pos(h, s, half, i)) = Pos(h, s, half, 0)
    BY InnerWire
  <2>4. Start(h, Pos(h, s, half, j)) = Pos(h, s, half, 0)
    BY InnerWire
  <2> HIDE DEF f
  <2> QED BY <2>1, <2>2, <2>3, <2>4
<1>2. f = [u \in Wires(n) |-> f[u]] BY DEF HalfPerm
<1> HIDE DEF f
<1>3. f \in [Wires(n) -> Wires(n)] BY <1>1, <1>2
<1> QED BY <1>1, <1>3 DEF Blockwise, f

\* The halves of a permutation and of its inverse are inverses.
LEMMA HalfInverse ==
  ASSUME NEW n, NEW m, NEW h, Splits(n, m, h), NEW p \in Blockwise(n, m),
         NEW q \in Blockwise(n, m), NEW g \in Halving(n), NEW r \in Halving(n),
         \A v \in Wires(n) : q[p[v]] = v /\ r[p[v]] = g[v]
  PROVE  \A u \in Wires(n) : HalfPerm(n, m, h, q, r)[HalfPerm(n, m, h, p, g)[u]] = u
<1> SUFFICES ASSUME NEW u \in Wires(n)
             PROVE  HalfPerm(n, m, h, q, r)[HalfPerm(n, m, h, p, g)[u]] = u
  OBVIOUS
<1>1. PICK s \in Starts(n, m), half \in {0, 1}, j \in 0 .. h - 1 : u = Pos(h, s, half, j)
  BY Inner
<1>2. PICK i \in 0 .. h - 1, e \in {0, 1} :
        /\ p[Chosen(g, s, j, half)] = Pin(s, i, e)
        /\ HalfPerm(n, m, h, p, g)[u] = Pos(h, s, half, i)
  <2>1. Goes(h, p, g, HalfPerm(n, m, h, p, g), s, half, j) BY HalfPermAt
  <2> QED BY <1>1, <2>1 DEF Goes
<1>3. /\ Chosen(g, s, j, half) \in Wires(n) /\ g[Chosen(g, s, j, half)] = half
      /\ \E d \in {0, 1} : Chosen(g, s, j, half) = Pin(s, j, d)
  BY ChosenIs DEF Chosen
<1>4. r[Pin(s, i, e)] = half /\ q[Pin(s, i, e)] = Chosen(g, s, j, half)
  BY <1>2, <1>3
<1>5. Chosen(r, s, i, half) = Pin(s, i, e) BY <1>4, ChosenIs
<1>6. PICK k \in 0 .. h - 1, d \in {0, 1} :
        /\ q[Chosen(r, s, i, half)] = Pin(s, k, d)
        /\ HalfPerm(n, m, h, q, r)[Pos(h, s, half, i)] = Pos(h, s, half, k)
  <2>1. Goes(h, q, r, HalfPerm(n, m, h, q, r), s, half, i) BY HalfPermAt
  <2> QED BY <2>1 DEF Goes
<1>7. \E c \in {0, 1} : Pin(s, j, c) = Pin(s, k, d) BY <1>3, <1>4, <1>5, <1>6
<1>8. k = j
  <2>1. PICK c \in {0, 1} : Pin(s, j, c) = Pin(s, k, d) BY <1>7
  <2>2. (Pin(s, j, c) - s) \div 2 = j BY PinMinus
  <2>3. (Pin(s, k, d) - s) \div 2 = k BY PinMinus
  <2> QED BY <2>1, <2>2, <2>3
<1> QED BY <1>1, <1>2, <1>6, <1>8

-----------------------------------------------------------------------------
(* The row of bits that sends every wire to the half of its number.        *)

Row(n, m, h, g, r) ==
  [v \in Wires(n) |->
     LET s == Start(m, v)
         b == Start(h, v)
     IN  IF b = s THEN g[Pin(s, v - b, 0)] ELSE r[Pin(s, v - b, 0)]]

LEMMA RowAt ==
  ASSUME NEW n, NEW m, NEW h, Splits(n, m, h), NEW g \in Halving(n), NEW r \in Halving(n)
  PROVE  /\ Row(n, m, h, g, r) \in [Wires(n) -> {0, 1}]
         /\ \A s \in Starts(n, m), j \in 0 .. h - 1 :
               /\ Row(n, m, h, g, r)[Pos(h, s, 0, j)] = g[Pin(s, j, 0)]
               /\ Row(n, m, h, g, r)[Pos(h, s, 1, j)] = r[Pin(s, j, 0)]
<1> DEFINE f == Row(n, m, h, g, r)
<1>0. h \in Nat \ {0} BY DEF Splits
<1>1. ASSUME NEW s \in Starts(n, m), NEW j \in 0 .. h - 1, NEW half \in {0, 1}
      PROVE  /\ f[Pos(h, s, half, j)] = IF half = 0 THEN g[Pin(s, j, 0)] ELSE r[Pin(s, j, 0)]
             /\ f[Pos(h, s, half, j)] \in {0, 1}
  <2> DEFINE u == Pos(h, s, half, j)
             b == Pos(h, s, half, 0)
  <2>1. /\ u \in Wires(n) /\ Start(m, u) = s /\ Start(h, u) = b /\ u = b + j
        /\ s \in Nat /\ b \in Nat /\ b = IF half = 1 THEN s + h ELSE s
    <3>1. u \in Wires(n) /\ Start(m, u) = s /\ Start(h, u) = b BY InnerWire
    <3>2. s \in Nat /\ b \in Nat /\ b = IF half = 1 THEN s + h ELSE s BY PosZero
    <3>3. u = b + j BY PosPlus
    <3> QED BY <3>1, <3>2, <3>3
  <2>3. (b = s) <=> (half = 0)
    <3> HIDE DEF b, u
    <3> QED BY <1>0, <2>1
  <2>4. u - b = j
    <3> HIDE DEF b, u
    <3> QED BY <2>1
  <2>5. f[u] = IF Start(h, u) = Start(m, u) THEN g[Pin(Start(m, u), u - Start(h, u), 0)]
               ELSE r[Pin(Start(m, u), u - Start(h, u), 0)]
    BY <2>1 DEF Row
  <2> HIDE DEF u, b, f
  <2>6. f[u] = IF half = 0 THEN g[Pin(s, j, 0)] ELSE r[Pin(s, j, 0)]
    BY <2>1, <2>3, <2>4, <2>5
  <2>7. Pin(s, j, 0) \in Wires(n) BY OuterWire
  <2>8. g[Pin(s, j, 0)] \in {0, 1} /\ r[Pin(s, j, 0)] \in {0, 1} BY <2>7 DEF Halving
  <2> QED BY <2>6, <2>8 DEF u
<1>2. ASSUME NEW v \in Wires(n) PROVE f[v] \in {0, 1}
  BY <1>1, Inner
<1>3. f = [v \in Wires(n) |-> f[v]] BY DEF Row
<1> HIDE DEF f
<1>4. f \in [Wires(n) -> {0, 1}] BY <1>2, <1>3
<1> QED BY <1>1, <1>4 DEF f

\* With that row and the halves' permutations the block does its own.
LEMMA Realised ==
  ASSUME NEW n, NEW m, NEW h, Splits(n, m, h), NEW p \in Blockwise(n, m),
         NEW g \in Halving(n), NEW r \in Halving(n),
         \A v \in Wires(n) : r[p[v]] = g[v]
  PROVE  BlockSource(n, m, Row(n, m, h, g, r), HalfPerm(n, m, h, p, g)) = p
<1> DEFINE row == Row(n, m, h, g, r)
           inner == HalfPerm(n, m, h, p, g)
           f == BlockSource(n, m, row, inner)
<1>1. row \in [Wires(n) -> {0, 1}] /\ inner \in Blockwise(n, h)
  BY RowAt, HalfPermIs
<1>2. f \in Blockwise(n, m) BY <1>1, BlockSourceIs
<1>3. ASSUME NEW v \in Wires(n) PROVE f[v] = p[v]
  <2>1. PICK s \in Starts(n, m), j \in 0 .. h - 1, e \in {0, 1} :
          v = Pin(s, j, e) /\ Start(m, v) = s
    BY Outer
  <2>2. PICK half \in {0, 1}, i \in 0 .. h - 1 :
          /\ half = Xor(e, row[Pos(h, s, 0, j)])
          /\ inner[Pos(h, s, half, j)] = Pos(h, s, half, i)
          /\ f[Pin(s, j, e)] = Pin(s, i, Xor(half, row[Pos(h, s, 1, i)]))
    <3> HIDE DEF row, inner
    <3>1. \E half \in {0, 1}, i \in 0 .. h - 1 :
            /\ half = Xor(e, row[Pos(h, s, 0, j)])
            /\ inner[Pos(h, s, half, j)] = Pos(h, s, half, i)
            /\ Xor(half, row[Pos(h, s, 1, i)]) \in {0, 1}
            /\ f[Pin(s, j, e)] = Pin(s, i, Xor(half, row[Pos(h, s, 1, i)]))
      BY <1>1, BlockSourceAt
    <3> HIDE DEF f
    <3> QED BY <3>1
  <2>3. row[Pos(h, s, 0, j)] = g[Pin(s, j, 0)] /\ row[Pos(h, s, 1, i)] = r[Pin(s, i, 0)]
    BY RowAt
  <2>4. PICK k \in 0 .. h - 1, d \in {0, 1} :
          /\ p[Chosen(g, s, j, half)] = Pin(s, k, d)
          /\ inner[Pos(h, s, half, j)] = Pos(h, s, half, k)
    <3>1. Goes(h, p, g, inner, s, half, j) BY HalfPermAt
    <3> HIDE DEF inner
    <3> QED BY <3>1 DEF Goes
  <2> HIDE DEF row, inner, f
  <2>5. k = i
    <3>1. Pos(h, s, half, k) = Pos(h, s, half, 0) + k BY PosPlus
    <3>2. Pos(h, s, half, i) = Pos(h, s, half, 0) + i BY PosPlus
    <3>3. Pos(h, s, half, 0) \in Nat BY PosZero
    <3>4. Pos(h, s, half, k) = Pos(h, s, half, i) BY <2>2, <2>4
    <3> QED BY <3>1, <3>2, <3>3, <3>4
  <2>6. g[v] = half
    <3>1. /\ Pin(s, j, 0) \in Wires(n) /\ Pin(s, j, 1) \in Wires(n)
          /\ Other(n)[Pin(s, j, 0)] = Pin(s, j, 1)
      BY OuterWire, OtherPin
    <3>2. /\ g[Pin(s, j, 0)] \in {0, 1} /\ g[Pin(s, j, 1)] \in {0, 1}
          /\ g[Pin(s, j, 1)] # g[Pin(s, j, 0)]
      BY <3>1 DEF Halving
    <3>3. half = IF e = g[Pin(s, j, 0)] THEN 0 ELSE 1
      BY <2>2, <2>3, <3>2, XorBits
    <3> QED BY <2>1, <3>2, <3>3
  <2>7. Chosen(g, s, j, half) = v BY <2>1, <2>6, ChosenIs
  <2>8. p[v] = Pin(s, i, d) /\ r[Pin(s, i, d)] = half
    BY <2>4, <2>5, <2>6, <2>7
  <2>9. Xor(half, r[Pin(s, i, 0)]) = d BY <2>8, ChosenIs
  <2> QED BY <2>1, <2>2, <2>3, <2>8, <2>9
<1>4. p \in [Wires(n) -> Wires(n)] /\ f \in [Wires(n) -> Wires(n)] BY <1>2 DEF Blockwise
<1> HIDE DEF f
<1>5. f = p BY <1>3, <1>4
<1> QED BY <1>5 DEF f

\* There are numbers for the wires such that those of a pair differ, at the outputs
\* and at the inputs, and that the first output of a block has 0.
LEMMA HalvingExists ==
  ASSUME NEW n, NEW m, NEW h, Splits(n, m, h), NEW p \in Blockwise(n, m),
         NEW q \in Blockwise(n, m), Inverses(n, p, q)
  PROVE  \E g \in Halving(n), r \in Halving(n) :
            /\ \A v \in Wires(n) : r[p[v]] = g[v] /\ g[q[v]] = r[v]
            /\ \A s \in Starts(n, m) : g[s] = 0
<1>0. n \in Nat \ {0} /\ h \in Nat \ {0} /\ m \in Nat \ {0} /\ n % m = 0 /\ m = 2 * h
  BY DEF Splits
<1> DEFINE I == Wires(n)
           a == Other(n)
           b == [v \in I |-> q[a[p[v]]]]
<1>1. /\ a \in Flips(I) /\ a \in [I -> I]
      /\ \A v \in I : a[v] # v /\ a[a[v]] = v /\ Start(m, a[v]) = Start(m, v)
  BY OtherIs DEF Flips, Blockwise
<1>2. /\ p \in [I -> I] /\ q \in [I -> I]
      /\ \A v \in I : /\ q[p[v]] = v /\ p[q[v]] = v
                      /\ Start(m, p[v]) = Start(m, v) /\ Start(m, q[v]) = Start(m, v)
  BY DEF Blockwise, Inverses
<1> HIDE DEF I, a
<1>3. b \in Flips(I)
  <2>1. b \in [I -> I] BY <1>1, <1>2
  <2>2. ASSUME NEW v \in I PROVE b[v] # v /\ b[b[v]] = v
    <3>1. p[v] \in I /\ a[p[v]] \in I /\ a[p[v]] # p[v] /\ b[v] = q[a[p[v]]] /\ b[v] \in I
      BY <1>1, <1>2
    <3>2. p[b[v]] = a[p[v]] BY <1>2, <3>1
    <3>3. b[b[v]] = q[a[p[b[v]]]] BY <3>1
    <3>4. a[a[p[v]]] = p[v] BY <1>1, <3>1
    <3>5. b[b[v]] = v BY <1>2, <3>2, <3>3, <3>4
    <3> QED BY <3>1, <3>2, <3>5
  <2> QED BY <2>1, <2>2 DEF Flips
<1>4. IsFiniteSet(I) BY <1>0, FS_Interval DEF I, Wires
<1>5. PICK f : f \in Colours(I, a, b) BY <1>1, <1>3, <1>4, Colouring
<1>6. /\ f \in [I -> {0, 1}] /\ \A v \in I : f[a[v]] # f[v] /\ f[q[a[p[v]]]] # f[v]
  BY <1>5 DEF Colours
<1> DEFINE g == [v \in I |-> IF f[v] = f[Start(m, v)] THEN 0 ELSE 1]
           r == [v \in I |-> g[q[v]]]
<1>7. \A v \in I : Start(m, v) \in I
  BY <1>0, StartOf DEF Starts, I
<1>8. g \in [I -> {0, 1}] /\ \A v \in I : g[a[v]] # g[v] /\ g[q[a[p[v]]]] # g[v]
  <2>1. ASSUME NEW v \in I, NEW u \in I, f[u] # f[v], Start(m, u) = Start(m, v)
        PROVE  g[u] # g[v]
    <3>1. f[u] \in {0, 1} /\ f[v] \in {0, 1} /\ f[Start(m, v)] \in {0, 1} BY <1>6, <1>7
    <3> QED BY <2>1, <3>1
  <2>2. ASSUME NEW v \in I PROVE g[a[v]] # g[v] /\ g[q[a[p[v]]]] # g[v]
    <3>1. a[v] \in I /\ Start(m, a[v]) = Start(m, v) /\ f[a[v]] # f[v] BY <1>1, <1>6
    <3>2. /\ q[a[p[v]]] \in I /\ Start(m, q[a[p[v]]]) = Start(m, v) /\ f[q[a[p[v]]]] # f[v]
      BY <1>1, <1>2, <1>6
    <3> HIDE DEF g
    <3> QED BY <2>1, <3>1, <3>2
  <2>3. g \in [I -> {0, 1}] OBVIOUS
  <2> QED BY <2>2, <2>3
<1>9. g \in Halving(n) BY <1>8 DEF Halving, I, a
<1>10. r \in Halving(n)
  <2>1. r \in [I -> {0, 1}] BY <1>2, <1>8
  <2>2. ASSUME NEW v \in I PROVE r[a[v]] # r[v]
    <3>1. q[v] \in I /\ p[q[v]] = v /\ a[v] \in I BY <1>1, <1>2
    <3>2. g[q[a[p[q[v]]]]] # g[q[v]] BY <1>8, <3>1
    <3>3. r[a[v]] = g[q[a[v]]] /\ r[v] = g[q[v]] BY <3>1
    <3> HIDE DEF g, r
    <3> QED BY <3>1, <3>2, <3>3
  <2> HIDE DEF r
  <2> QED BY <2>1, <2>2 DEF Halving, I, a
<1>11. \A v \in I : r[p[v]] = g[v] /\ g[q[v]] = r[v]
  <2> HIDE DEF g
  <2> QED BY <1>2
<1>12. \A s \in Starts(n, m) : g[s] = 0
  <2> SUFFICES ASSUME NEW s \in Starts(n, m) PROVE g[s] = 0
    OBVIOUS
  <2>1. s \in I BY DEF Starts, I
  <2>2. Start(m, s) = s
    <3>1. s \in Nat /\ s % m = 0 BY <2>1 DEF Starts, I, Wires
    <3> QED BY <3>1 DEF Start
  <2> QED BY <2>1, <2>2
<1> HIDE DEF g, r
<1> QED BY <1>9, <1>10, <1>11, <1>12 DEF I

-----------------------------------------------------------------------------
(* The levels of a network.                                                *)

\* The same induction from the last level up.
LEMMA DownInduction ==
  ASSUME NEW last \in Nat, NEW S, last \in S, \A d \in 0 .. last - 1 : d + 1 \in S => d \in S
  PROVE  \A d \in 0 .. last : d \in S
<1> DEFINE R == {i \in 0 .. last : last - i \in S}
<1>1. 0 \in R OBVIOUS
<1>2. \A i \in 1 .. last : i - 1 \in R => i \in R
  <2> SUFFICES ASSUME NEW i \in 1 .. last, i - 1 \in R PROVE last - i \in S
    OBVIOUS
  <2> DEFINE d == last - i
  <2>1. d \in 0 .. last - 1 /\ last - (i - 1) = d + 1 OBVIOUS
  <2>2. last - (i - 1) \in S OBVIOUS
  <2> HIDE DEF d, R
  <2>3. d \in S BY <2>1, <2>2
  <2> QED BY <2>3 DEF d
<1>3. \A i \in 0 .. last : i \in R
  <2> HIDE DEF R
  <2> QED BY <1>1, <1>2, IntervalInduction
<1>4. \A d \in 0 .. last : last - d \in 0 .. last /\ last - (last - d) = d OBVIOUS
<1> QED BY <1>3, <1>4

\* The wires of a block at this level
Size(n, d) == n \div 2 ^ d

LEMMA SizeIs ==
  ASSUME NEW k \in Nat \ {0}, NEW n, n = 2 ^ k
  PROVE  /\ n \in Nat \ {0}
         /\ \A d \in 0 .. k : Size(n, d) = 2 ^ (k - d) /\ Size(n, d) \in Nat \ {0}
                              /\ n % Size(n, d) = 0
         /\ \A d \in 0 .. k - 1 : Size(n, d) = 2 * Size(n, d + 1)
                                  /\ Splits(n, Size(n, d), Size(n, d + 1))
         /\ Size(n, k) = 1 /\ Size(n, k - 1) = 2 /\ Size(n, 0) = n /\ Depth(n) = k
<1>1. n \in Nat \ {0} BY PowerOfTwo
<1>2. ASSUME NEW d \in 0 .. k
      PROVE  Size(n, d) = 2 ^ (k - d) /\ Size(n, d) \in Nat \ {0} /\ n % Size(n, d) = 0
  <2> DEFINE a == 2 ^ (k - d)
             b == 2 ^ d
  <2>1. a \in Nat \ {0} /\ b \in Nat \ {0}
    <3>1. k - d \in Nat /\ d \in Nat OBVIOUS
    <3> QED BY <3>1, PowerOfTwo
  <2>2. n = a * b
    <3>1. k - d \in Nat /\ d \in Nat /\ (k - d) + d = k OBVIOUS
    <3>2. 2 ^ ((k - d) + d) = a * b BY <3>1, PowersMultiply
    <3> QED BY <3>1, <3>2
  <2> HIDE DEF a, b
  <2>3. n = a * b + 0 /\ n = b * a BY <2>1, <2>2
  <2>4. n \div b = a BY <2>1, <2>3, DivModUnique
  <2>5. n % a = 0 BY <1>1, <2>1, <2>3, Multiple
  <2> QED BY <2>1, <2>4, <2>5 DEF Size, a, b
<1>3. ASSUME NEW d \in 0 .. k - 1
      PROVE  Size(n, d) = 2 * Size(n, d + 1) /\ Splits(n, Size(n, d), Size(n, d + 1))
  <2>1. d \in 0 .. k /\ d + 1 \in 0 .. k OBVIOUS
  <2>2. k - (d + 1) \in Nat /\ (k - (d + 1)) + 1 = k - d OBVIOUS
  <2>3. 2 ^ ((k - (d + 1)) + 1) = 2 * 2 ^ (k - (d + 1)) BY <2>2, PowerOfTwo
  <2>4. 2 ^ (k - d) = 2 * 2 ^ (k - (d + 1)) BY <2>2, <2>3
  <2>5. Size(n, d) = 2 * Size(n, d + 1) BY <1>2, <2>1, <2>4
  <2> QED BY <1>1, <1>2, <2>1, <2>5 DEF Splits
<1>4. Size(n, k) = 1
  <2>1. k \in 0 .. k /\ k - k = 0 OBVIOUS
  <2> QED BY <1>2, <2>1, PowerOfTwo
<1>5. Size(n, k - 1) = 2
  <2>1. k - 1 \in 0 .. k - 1 /\ (k - 1) + 1 = k OBVIOUS
  <2>2. Size(n, k - 1) = 2 * Size(n, (k - 1) + 1) BY <1>3, <2>1
  <2> QED BY <1>4, <2>1, <2>2
<1>6. Size(n, 0) = n
  <2>1. 0 \in 0 .. k /\ k - 0 = k OBVIOUS
  <2> QED BY <1>2, <2>1
<1>7. Depth(n) = k BY DepthIs
<1> QED BY <1>1, <1>2, <1>3, <1>4, <1>5, <1>6, <1>7

-----------------------------------------------------------------------------
(* Blocks of two wires.                                                    *)

\* The two wires of a pair are where a half of one wire is.
LEMMA Pairs ==
  ASSUME NEW n, Splits(n, 2, 1), NEW v \in Wires(n)
  PROVE  \E s \in Starts(n, 2), e \in {0, 1} :
            /\ v = Pin(s, 0, e) /\ v = Pos(1, s, e, 0) /\ Start(2, v) = s
<1>1. \E s \in Starts(n, 2), j \in 0 .. 1 - 1, e \in {0, 1} : v = Pin(s, j, e) /\ Start(2, v) = s
  BY Outer
<1>2. PICK s \in Starts(n, 2), e \in {0, 1} : v = Pin(s, 0, e) /\ Start(2, v) = s
  BY <1>1
<1>3. s \in Nat BY DEF Starts, Wires
<1>4. Pin(s, 0, e) = Pos(1, s, e, 0)
  <2>1. Pin(s, 0, e) = s + 2 * 0 + e BY DEF Pin
  <2>2. Pos(1, s, e, 0) = s + e * 1 + 0 BY DEF Pos
  <2> QED BY <1>3, <2>1, <2>2
<1> QED BY <1>2, <1>4

LEMMA PairIs ==
  ASSUME NEW n, Splits(n, 2, 1), NEW s \in Starts(n, 2), NEW e \in {0, 1}
  PROVE  /\ s \in Nat /\ Pin(s, 0, e) = s + e /\ Pos(1, s, e, 0) = s + e
         /\ s + e \in Wires(n) /\ Start(2, s + e) = s
<1>1. s \in Nat BY DEF Starts, Wires
<1>2. Pin(s, 0, e) = s + e
  <2>1. Pin(s, 0, e) = s + 2 * 0 + e BY DEF Pin
  <2> QED BY <1>1, <2>1
<1>3. Pos(1, s, e, 0) = s + e
  <2>1. Pos(1, s, e, 0) = s + e * 1 + 0 BY DEF Pos
  <2> QED BY <1>1, <2>1
<1>4. Pin(s, 0, e) \in Wires(n) /\ Start(2, Pin(s, 0, e)) = s
  <2>1. 0 \in 0 .. 1 - 1 OBVIOUS
  <2> QED BY <2>1, OuterWire
<1> QED BY <1>1, <1>2, <1>3, <1>4

PairTakes(n, row) ==
  \A s \in Starts(n, 2), e \in {0, 1} :
     PairSource(n, row)[s + e] = s + Xor(e, row[s]) /\ Xor(e, row[s]) \in {0, 1}

LEMMA PairSourceIs ==
  ASSUME NEW n, Splits(n, 2, 1), NEW row \in [Wires(n) -> {0, 1}]
  PROVE  PairSource(n, row) \in Blockwise(n, 2) /\ PairTakes(n, row)
<1> DEFINE f == PairSource(n, row)
<1>1. ASSUME NEW s \in Starts(n, 2), NEW e \in {0, 1}
      PROVE  f[s + e] = s + Xor(e, row[s]) /\ Xor(e, row[s]) \in {0, 1}
  <2>1. s \in Nat /\ s + e \in Wires(n) /\ Start(2, s + e) = s BY PairIs
  <2>2. f[s + e] = Start(2, s + e) + Xor(s + e - Start(2, s + e), row[Start(2, s + e)])
    BY <2>1 DEF PairSource, Start, Wires
  <2>3. s + e - s = e BY <2>1
  <2> HIDE DEF f
  <2>4. f[s + e] = s + Xor(e, row[s]) BY <2>1, <2>2, <2>3
  <2>5. row[s] \in {0, 1} BY DEF Starts
  <2> QED BY <2>4, <2>5, XorBits
<1>2. ASSUME NEW v \in Wires(n) PROVE f[v] \in Wires(n) /\ Start(2, f[v]) = Start(2, v)
  <2>1. PICK s \in Starts(n, 2), e \in {0, 1} : v = Pin(s, 0, e) /\ Start(2, v) = s
    BY Pairs
  <2>2. v = s + e BY <2>1, PairIs
  <2> DEFINE x == Xor(e, row[s])
  <2>3. f[v] = s + x /\ x \in {0, 1} BY <1>1, <2>2
  <2> HIDE DEF x, f
  <2>4. s + x \in Wires(n) /\ Start(2, s + x) = s BY <2>3, PairIs
  <2> QED BY <2>1, <2>3, <2>4
<1>3. f = [v \in Wires(n) |-> f[v]] BY DEF PairSource, Wires
<1> HIDE DEF f
<1>4. f \in [Wires(n) -> Wires(n)] BY <1>2, <1>3
<1> QED BY <1>1, <1>2, <1>4 DEF Blockwise, f, PairTakes

\* Every permutation of the pairs is a row of switches.
LEMMA PairRow ==
  ASSUME NEW n, Splits(n, 2, 1), NEW p \in Blockwise(n, 2), NEW q \in Blockwise(n, 2),
         Inverses(n, p, q)
  PROVE  \E row \in [Wires(n) -> {0, 1}] :
            /\ PairSource(n, row) = p
            /\ \A s \in Starts(n, 2) : row[s + 1] = row[s]
<1> DEFINE row == [v \in Wires(n) |-> p[Start(2, v)] - Start(2, v)]
<1>1. ASSUME NEW s \in Starts(n, 2)
      PROVE  /\ s \in Nat /\ s \in Wires(n) /\ s + 1 \in Wires(n)
             /\ Start(2, s) = s /\ Start(2, s + 1) = s
             /\ p[s] - s \in {0, 1} /\ p[s] \in Nat
             /\ p[s + 1] = s + Xor(1, p[s] - s) /\ p[s] = s + Xor(0, p[s] - s)
  <2>1. s \in Nat /\ s + 0 \in Wires(n) /\ Start(2, s + 0) = s BY PairIs
  <2>2. s + 1 \in Wires(n) /\ Start(2, s + 1) = s BY PairIs
  <2>3. s + 0 = s BY <2>1
  <2>4. ASSUME NEW v \in Wires(n), Start(2, v) = s PROVE p[v] \in {s, s + 1}
    <3> DEFINE u == p[v]
    <3>1. u \in Wires(n) /\ Start(2, u) = s BY <2>4 DEF Blockwise
    <3> HIDE DEF u
    <3>2. PICK t \in Starts(n, 2), e \in {0, 1} : u = Pin(t, 0, e) /\ Start(2, u) = t
      BY <3>1, Pairs
    <3>3. t = s /\ u = s + e BY <3>1, <3>2, PairIs
    <3>4. u = s \/ u = s + 1 BY <2>3, <3>3
    <3> QED BY <3>4 DEF u
  <2>5. p[s] \in {s, s + 1} /\ p[s + 1] \in {s, s + 1} BY <2>1, <2>2, <2>3, <2>4
  <2>6. p[s] # p[s + 1]
    <3>1. q[p[s]] = s /\ q[p[s + 1]] = s + 1 BY <2>1, <2>2, <2>3 DEF Inverses
    <3>2. s # s + 1 BY <2>1
    <3> QED BY <3>1, <3>2
  <2>7. CASE p[s] = s
    <3>1. p[s] - s = 0 /\ p[s + 1] = s + 1 BY <2>1, <2>5, <2>6, <2>7
    <3>2. Xor(1, 0) = 1 /\ Xor(0, 0) = 0 BY XorBits
    <3> QED BY <2>1, <2>2, <2>3, <2>7, <3>1, <3>2
  <2>8. CASE p[s] = s + 1
    <3>1. p[s] - s = 1 /\ p[s + 1] = s /\ s + 0 = s BY <2>1, <2>5, <2>6, <2>8
    <3>2. Xor(1, 1) = 0 /\ Xor(0, 1) = 1 BY XorBits
    <3> QED BY <2>1, <2>2, <2>3, <2>8, <3>1, <3>2
  <2> QED BY <2>5, <2>7, <2>8
<1>2. ASSUME NEW s \in Starts(n, 2) PROVE row[s] = p[s] - s /\ row[s + 1] = p[s] - s
  BY <1>1
<1>3. row \in [Wires(n) -> {0, 1}]
  <2>1. ASSUME NEW v \in Wires(n) PROVE row[v] \in {0, 1}
    <3>1. PICK s \in Starts(n, 2), e \in {0, 1} : v = Pin(s, 0, e) /\ Start(2, v) = s
      BY Pairs
    <3>2. row[v] = p[s] - s BY <3>1
    <3> QED BY <1>1, <3>2
  <2> QED BY <2>1
<1> HIDE DEF row
<1>4. PairSource(n, row) \in Blockwise(n, 2) BY <1>3, PairSourceIs
<1>5. ASSUME NEW v \in Wires(n) PROVE PairSource(n, row)[v] = p[v]
  <2>1. PICK s \in Starts(n, 2), e \in {0, 1} : v = Pin(s, 0, e) /\ Start(2, v) = s
    BY Pairs
  <2>2. v = s + e BY <2>1, PairIs
  <2>3. PairSource(n, row)[s + e] = s + Xor(e, row[s])
    <3>1. \A t \in Starts(n, 2), d \in {0, 1} :
             PairSource(n, row)[t + d] = t + Xor(d, row[t]) /\ Xor(d, row[t]) \in {0, 1}
      BY <1>3, PairSourceIs DEF PairTakes
    <3> QED BY <3>1
  <2>4. PairSource(n, row)[s + e] = s + Xor(e, p[s] - s) BY <1>2, <2>3
  <2>5. CASE e = 0
    <3>1. v = s BY <1>1, <2>2, <2>5
    <3> QED BY <1>1, <2>2, <2>4, <2>5, <3>1
  <2>6. CASE e = 1 BY <1>1, <2>2, <2>4, <2>6
  <2> QED BY <2>5, <2>6
<1>6. PairSource(n, row) = p
  <2>1. PairSource(n, row) \in [Wires(n) -> Wires(n)] /\ p \in [Wires(n) -> Wires(n)]
    BY <1>4 DEF Blockwise
  <2> QED BY <1>5, <2>1
<1> QED BY <1>2, <1>3, <1>6

-----------------------------------------------------------------------------
(* The network, level by level.                                            *)

\* What Configs asks of the row of a level
RowFits(n, d, row) ==
  /\ row \in [Wires(n) -> {0, 1}]
  /\ \A j \in Wires(n) : /\ ~Matters(n, d, j) => row[j] = 0
                         /\ IsDouble(n, d, j) => row[j] = row[j - 1]

\* The levels from d on of the network of 2^k wires with these rows: where the wires
\* come from at each.
Levels(n, k, d, c, fr) ==
  /\ \A e \in d .. k - 1 : RowFits(n, e, c[e]) /\ fr[e] \in Blockwise(n, Size(n, e))
  /\ fr[k - 1] = PairSource(n, c[k - 1])
  /\ \A e \in d .. k - 2 : fr[e] = BlockSource(n, Size(n, e), c[e], fr[e + 1])

\* The levels are what the recursive function in Source gives.
LEMMA SourceIs ==
  ASSUME NEW k \in Nat \ {0}, NEW n, n = 2 ^ k, NEW c, NEW fr, Levels(n, k, 0, c, fr)
  PROVE  Source(n, c) = fr[0]
<1> DEFINE last == Depth(n) - 1
           Body(g, d) == IF d = last THEN PairSource(n, c[d])
                         ELSE BlockSource(n, n \div 2 ^ d, c[d], g[d + 1])
           h == [d \in 0 .. last |-> fr[d]]
           from == CHOOSE g : g = [d \in 0 .. last |-> Body(g, d)]
<1>1. n # 1 /\ last = k - 1 /\ last \in Nat /\ 0 \in 0 .. last
  <2>1. Depth(n) = k /\ Size(n, k - 1) = 2 BY SizeIs
  <2>2. Depth(2 ^ 0) = 0 BY DepthIs
  <2>3. n # 1 BY <2>1, <2>2, PowerOfTwo
  <2> QED BY <2>1, <2>3
<1>5. Source(n, c) = from[0]
  BY <1>1 DEF Source
<1> HIDE DEF last
<1>2. ASSUME NEW d \in 0 .. last PROVE h[d] = Body(h, d)
  <2>1. CASE d = last BY <1>1, <2>1 DEF Levels
  <2>2. CASE d # last
    <3>1. d \in 0 .. k - 2 /\ d + 1 \in 0 .. last BY <1>1, <2>2
    <3>2. h[d] = BlockSource(n, n \div 2 ^ d, c[d], fr[d + 1]) BY <3>1 DEF Levels, Size
    <3>3. h[d + 1] = fr[d + 1] BY <3>1
    <3> HIDE DEF h
    <3> QED BY <2>2, <3>2, <3>3
  <2> QED BY <2>1, <2>2
<1>3. h = [d \in 0 .. last |-> Body(h, d)]
  <2>1. h = [d \in 0 .. last |-> h[d]] OBVIOUS
  <2> HIDE DEF h, Body
  <2> QED BY <1>2, <2>1
<1>4. from = [d \in 0 .. last |-> Body(from, d)]
  <2> HIDE DEF h, Body
  <2> QED BY <1>3
<1> DEFINE S == {d \in 0 .. last : from[d] = h[d]}
<1> HIDE DEF h, from
<1>6. last \in S
  <2>1. last \in 0 .. last BY <1>1
  <2>2. from[last] = Body(from, last) /\ h[last] = Body(h, last)
    <3> HIDE DEF Body
    <3> QED BY <1>2, <1>4, <2>1
  <2> QED BY <2>1, <2>2
<1>7. \A d \in 0 .. last - 1 : d + 1 \in S => d \in S
  <2> SUFFICES ASSUME NEW d \in 0 .. last - 1, d + 1 \in S PROVE d \in S
    OBVIOUS
  <2>1. d \in 0 .. last /\ d # last BY <1>1
  <2>2. from[d] = Body(from, d) /\ h[d] = Body(h, d)
    <3> HIDE DEF Body
    <3> QED BY <1>2, <1>4, <2>1
  <2> QED BY <2>1, <2>2
<1>8. \A d \in 0 .. last : d \in S
  <2> HIDE DEF S, last
  <2> QED BY <1>1, <1>6, <1>7, DownInduction
<1>9. from[0] = h[0] BY <1>1, <1>8
<1>10. h[0] = fr[0] BY <1>1 DEF h
<1> QED BY <1>5, <1>9, <1>10

\* The last level and one more level make the levels.
LEMMA LastLevel ==
  ASSUME NEW k \in Nat \ {0}, NEW n, n = 2 ^ k, NEW c, RowFits(n, k - 1, c[k - 1]), NEW fr,
         fr[k - 1] = PairSource(n, c[k - 1])
  PROVE  Levels(n, k, k - 1, c, fr)
<1>1. Size(n, k - 1) = 2 /\ Splits(n, 2, 1)
  <2>1. Size(n, k - 1) = 2 /\ Size(n, k) = 1 BY SizeIs
  <2>2. k - 1 \in 0 .. k - 1 /\ (k - 1) + 1 = k OBVIOUS
  <2>3. Splits(n, Size(n, k - 1), Size(n, (k - 1) + 1)) BY <2>2, SizeIs
  <2> QED BY <2>1, <2>2, <2>3
<1>2. PairSource(n, c[k - 1]) \in Blockwise(n, 2) BY <1>1, PairSourceIs DEF RowFits
<1>3. ASSUME NEW e \in k - 1 .. k - 1
      PROVE  RowFits(n, e, c[e]) /\ fr[e] \in Blockwise(n, Size(n, e))
  <2>1. e = k - 1 OBVIOUS
  <2> QED BY <1>1, <1>2, <2>1
<1>4. k - 1 .. k - 2 = {} OBVIOUS
<1> QED BY <1>3, <1>4 DEF Levels

LEMMA OneLevel ==
  ASSUME NEW k \in Nat \ {0}, NEW n, n = 2 ^ k, NEW d \in 0 .. k - 2, NEW c, NEW fr,
         Levels(n, k, d + 1, c, fr), RowFits(n, d, c[d]),
         fr[d] = BlockSource(n, Size(n, d), c[d], fr[d + 1])
  PROVE  Levels(n, k, d, c, fr)
<1>1. d \in 0 .. k - 1 /\ d + 1 \in d + 1 .. k - 1 OBVIOUS
<1>2. Splits(n, Size(n, d), Size(n, d + 1)) BY <1>1, SizeIs
<1>3. fr[d + 1] \in Blockwise(n, Size(n, d + 1)) BY <1>1 DEF Levels
<1>4. fr[d] \in Blockwise(n, Size(n, d)) BY <1>2, <1>3, BlockSourceIs DEF RowFits
<1>5. ASSUME NEW e \in d .. k - 1
      PROVE  RowFits(n, e, c[e]) /\ fr[e] \in Blockwise(n, Size(n, e))
  <2>1. e = d \/ e \in d + 1 .. k - 1 OBVIOUS
  <2> QED BY <1>4, <2>1 DEF Levels
<1>6. ASSUME NEW e \in d .. k - 2 PROVE fr[e] = BlockSource(n, Size(n, e), c[e], fr[e + 1])
  <2>1. e = d \/ e \in d + 1 .. k - 2 OBVIOUS
  <2> QED BY <2>1 DEF Levels
<1>7. fr[k - 1] = PairSource(n, c[k - 1]) BY DEF Levels
<1> QED BY <1>5, <1>6, <1>7 DEF Levels

\* Every configuration has its levels.
LEMMA ConfigLevels ==
  ASSUME NEW k \in Nat \ {0}, NEW n, n = 2 ^ k, NEW c \in Configs(n)
  PROVE  \E fr : Levels(n, k, 0, c, fr)
<1> DEFINE last == k - 1
           S == {d \in 0 .. last : \E fr : Levels(n, k, d, c, fr)}
<1>0. last \in Nat /\ last \in 0 .. last /\ 0 \in 0 .. last OBVIOUS
<1>1. \A d \in 0 .. last : RowFits(n, d, c[d])
  <2>1. Depth(n) = k BY SizeIs
  <2> QED BY <2>1 DEF Configs, RowFits, Wires
<1>2. last \in S
  <2> DEFINE fr == [d \in 0 .. last |-> PairSource(n, c[d])]
  <2>1. fr[k - 1] = PairSource(n, c[k - 1]) BY <1>0
  <2> HIDE DEF fr
  <2>2. Levels(n, k, k - 1, c, fr) BY <1>0, <1>1, <2>1, LastLevel
  <2> QED BY <1>0, <2>2
<1>3. \A d \in 0 .. last - 1 : d + 1 \in S => d \in S
  <2> SUFFICES ASSUME NEW d \in 0 .. last - 1, d + 1 \in S PROVE d \in S
    OBVIOUS
  <2>0. d \in 0 .. k - 2 /\ d \in 0 .. last /\ d + 1 \in 0 .. last OBVIOUS
  <2>1. PICK up : Levels(n, k, d + 1, c, up) OBVIOUS
  <2> DEFINE fr == [e \in 0 .. last |-> IF e = d THEN BlockSource(n, Size(n, d), c[d], up[d + 1])
                                        ELSE up[e]]
  <2>2. fr[d] = BlockSource(n, Size(n, d), c[d], up[d + 1]) BY <2>0
  <2>3. \A e \in d + 1 .. last : fr[e] = up[e] BY <2>0
  <2> HIDE DEF fr
  <2>4. fr[d + 1] = up[d + 1] BY <2>0, <2>3
  <2>5. Levels(n, k, d + 1, c, fr)
    <3>1. \A e \in d + 1 .. k - 1 : fr[e] = up[e] BY <2>3
    <3>2. \A e \in d + 1 .. k - 2 : fr[e] = up[e] /\ fr[e + 1] = up[e + 1] BY <2>3
    <3>3. fr[k - 1] = up[k - 1] BY <2>0, <2>3
    <3> QED BY <2>1, <3>1, <3>2, <3>3 DEF Levels
  <2>6. Levels(n, k, d, c, fr)
    <3>1. fr[d] = BlockSource(n, Size(n, d), c[d], fr[d + 1]) BY <2>2, <2>4
    <3> QED BY <1>1, <2>0, <2>5, <3>1, OneLevel
  <2> QED BY <2>0, <2>6
<1>4. \A d \in 0 .. last : d \in S
  <2> HIDE DEF S, last
  <2> QED BY <1>0, <1>2, <1>3, DownInduction
<1> QED BY <1>0, <1>4

-----------------------------------------------------------------------------
(* Every permutation has a configuration.                                  *)

\* The row of a level that is not the last
LEMMA RowIsFit ==
  ASSUME NEW k \in Nat \ {0}, NEW n, n = 2 ^ k, NEW d \in 0 .. k - 2,
         NEW g \in Halving(n), NEW r \in Halving(n),
         \A s \in Starts(n, Size(n, d)) : g[s] = 0
  PROVE  RowFits(n, d, Row(n, Size(n, d), Size(n, d + 1), g, r))
<1> DEFINE m == Size(n, d)
           h == Size(n, d + 1)
           row == Row(n, m, h, g, r)
<1>1. Depth(n) = k /\ Splits(n, m, h)
  <2>1. d \in 0 .. k - 1 OBVIOUS
  <2> QED BY <2>1, SizeIs
<1> HIDE DEF m, h
<1>2. row \in [Wires(n) -> {0, 1}] BY <1>1, RowAt
<1>3. ASSUME NEW j \in Wires(n) PROVE ~IsDouble(n, d, j)
  BY <1>1 DEF IsDouble
<1>4. ASSUME NEW j \in Wires(n), ~Matters(n, d, j) PROVE row[j] = 0
  <2>1. j \in Starts(n, m)
    BY <1>4 DEF Matters, Starts, m, Size
  <2>2. Pos(h, j, 0, 0) = j BY <1>1, <2>1, PosZero
  <2>3. 0 \in 0 .. h - 1 BY <1>1 DEF Splits
  <2>4. row[Pos(h, j, 0, 0)] = g[Pin(j, 0, 0)]
    <3>1. \A s \in Starts(n, m), i \in 0 .. h - 1 : row[Pos(h, s, 0, i)] = g[Pin(s, i, 0)]
      BY <1>1, RowAt
    <3> HIDE DEF row
    <3> QED BY <2>1, <2>3, <3>1
  <2>5. Pin(j, 0, 0) = j
    <3>1. Pin(j, 0, 0) = j + 2 * 0 + 0 BY DEF Pin
    <3>2. j \in Nat BY DEF Wires
    <3> QED BY <3>1, <3>2
  <2>6. g[j] = 0 BY <2>1 DEF m
  <2> QED BY <2>2, <2>4, <2>5, <2>6
<1> HIDE DEF row
<1>5. RowFits(n, d, row) BY <1>2, <1>3, <1>4 DEF RowFits
<1> QED BY <1>5 DEF row, m, h

\* There are levels from d on that do p.
Configurable(n, k, d, p) == \E c, fr : Levels(n, k, d, c, fr) /\ fr[d] = p

LEMMA PairConfig ==
  ASSUME NEW k \in Nat \ {0}, NEW n, n = 2 ^ k, NEW p \in Blockwise(n, 2),
         NEW q \in Blockwise(n, 2), Inverses(n, p, q)
  PROVE  Configurable(n, k, k - 1, p)
<1>1. Size(n, k - 1) = 2 /\ Splits(n, 2, 1) /\ Depth(n) = k
  <2>1. Size(n, k - 1) = 2 /\ Size(n, k) = 1 /\ Depth(n) = k BY SizeIs
  <2>2. k - 1 \in 0 .. k - 1 /\ (k - 1) + 1 = k OBVIOUS
  <2>3. Splits(n, Size(n, k - 1), Size(n, (k - 1) + 1)) BY <2>2, SizeIs
  <2> QED BY <2>1, <2>2, <2>3
<1>2. PICK row \in [Wires(n) -> {0, 1}] :
        PairSource(n, row) = p /\ \A s \in Starts(n, 2) : row[s + 1] = row[s]
  BY <1>1, PairRow
<1>3. RowFits(n, k - 1, row)
  <2>1. \A j \in Wires(n) : Matters(n, k - 1, j) BY <1>1 DEF Matters
  <2>2. ASSUME NEW j \in Wires(n), IsDouble(n, k - 1, j) PROVE row[j] = row[j - 1]
    <3>1. j % 2 = 1 BY <2>2 DEF IsDouble
    <3>2. j \in Nat /\ j <= n - 1 BY <1>1 DEF Wires, Splits
    <3>3. (j - 1) % 2 = 0 /\ j - 1 \in Wires(n) /\ (j - 1) + 1 = j
      BY <1>1, <3>1, <3>2 DEF Wires, Splits
    <3>4. j - 1 \in Starts(n, 2) BY <3>3 DEF Starts
    <3> DEFINE i == j - 1
    <3>5. i \in Starts(n, 2) /\ i + 1 = j BY <3>3, <3>4
    <3> HIDE DEF i
    <3>6. row[j] = row[i] BY <1>2, <3>5
    <3> QED BY <3>6 DEF i
  <2> QED BY <2>1, <2>2 DEF RowFits
<1> DEFINE c == [d \in 0 .. k - 1 |-> row]
           fr == [d \in 0 .. k - 1 |-> p]
<1>4. c[k - 1] = row /\ fr[k - 1] = p OBVIOUS
<1> HIDE DEF c, fr
<1>5. Levels(n, k, k - 1, c, fr) BY <1>2, <1>3, <1>4, LastLevel
<1> QED BY <1>4, <1>5 DEF Configurable

LEMMA BlockConfig ==
  ASSUME NEW k \in Nat \ {0}, NEW n, n = 2 ^ k, NEW d \in 0 .. k - 2,
         \A p, q \in Blockwise(n, Size(n, d + 1)) :
            Inverses(n, p, q) => Configurable(n, k, d + 1, p),
         NEW p \in Blockwise(n, Size(n, d)), NEW q \in Blockwise(n, Size(n, d)),
         Inverses(n, p, q)
  PROVE  Configurable(n, k, d, p)
<1> DEFINE m == Size(n, d)
           h == Size(n, d + 1)
<1>0. d \in 0 .. k - 1 /\ d + 1 \in 0 .. k - 1 /\ d + 1 # d /\ k - 1 # d OBVIOUS
<1>1. Splits(n, m, h) BY <1>0, SizeIs
<1>2. \E g \in Halving(n), r \in Halving(n) :
            /\ \A v \in Wires(n) : r[p[v]] = g[v] /\ g[q[v]] = r[v]
            /\ \A s \in Starts(n, m) : g[s] = 0
  <2> HIDE DEF m, h
  <2>1. p \in Blockwise(n, m) /\ q \in Blockwise(n, m) BY DEF m
  <2> QED BY <1>1, <2>1, HalvingExists
<1>3. PICK g \in Halving(n), r \in Halving(n) :
            /\ \A v \in Wires(n) : r[p[v]] = g[v] /\ g[q[v]] = r[v]
            /\ \A s \in Starts(n, m) : g[s] = 0
  BY <1>2
<1> DEFINE pp == HalfPerm(n, m, h, p, g)
           qq == HalfPerm(n, m, h, q, r)
           row == Row(n, m, h, g, r)
<1>4. RowFits(n, d, row) BY <1>3, RowIsFit
<1>5. p \in Blockwise(n, m) /\ q \in Blockwise(n, m) OBVIOUS
<1>6. pp \in Blockwise(n, h) /\ qq \in Blockwise(n, h)
  <2> HIDE DEF m, h
  <2> QED BY <1>1, <1>5, HalfPermIs
<1>7. Inverses(n, pp, qq)
  <2> HIDE DEF m, h
  <2>1. \A v \in Wires(n) : q[p[v]] = v /\ r[p[v]] = g[v] BY <1>3 DEF Inverses
  <2>2. \A v \in Wires(n) : p[q[v]] = v /\ g[q[v]] = r[v] BY <1>3 DEF Inverses
  <2>3. \A v \in Wires(n) : qq[pp[v]] = v BY <1>1, <1>5, <2>1, HalfInverse
  <2>4. \A v \in Wires(n) : pp[qq[v]] = v BY <1>1, <1>5, <2>2, HalfInverse
  <2> QED BY <2>3, <2>4 DEF Inverses
<1>8. BlockSource(n, m, row, pp) = p
  <2> HIDE DEF m, h
  <2>1. \A v \in Wires(n) : r[p[v]] = g[v] BY <1>3
  <2> QED BY <1>1, <1>5, <2>1, Realised
<1> HIDE DEF pp, qq, row
<1>9. PICK cc, up : Levels(n, k, d + 1, cc, up) /\ up[d + 1] = pp
  BY <1>6, <1>7 DEF Configurable
<1> DEFINE c == [e \in 0 .. k - 1 |-> IF e = d THEN row ELSE cc[e]]
           fr == [e \in 0 .. k - 1 |-> IF e = d THEN p ELSE up[e]]
<1>10. c[d] = row /\ fr[d] = p /\ fr[d + 1] = pp BY <1>0, <1>9
<1>11. \A e \in d + 1 .. k - 1 : c[e] = cc[e] /\ fr[e] = up[e] BY <1>0
<1> HIDE DEF c, fr, m, h
<1>12. Levels(n, k, d + 1, c, fr)
  <2>1. \A e \in d + 1 .. k - 2 : /\ c[e] = cc[e] /\ fr[e] = up[e]
                                  /\ fr[e + 1] = up[e + 1]
    BY <1>11
  <2>2. c[k - 1] = cc[k - 1] /\ fr[k - 1] = up[k - 1] BY <1>0, <1>11
  <2> QED BY <1>9, <1>11, <2>1, <2>2 DEF Levels
<1>13. Levels(n, k, d, c, fr)
  <2>1. fr[d] = BlockSource(n, Size(n, d), c[d], fr[d + 1]) BY <1>8, <1>10 DEF m
  <2>2. RowFits(n, d, c[d]) BY <1>4, <1>10
  <2> QED BY <1>12, <2>1, <2>2, OneLevel
<1> QED BY <1>10, <1>13 DEF Configurable

\* The permutations of n wires
Bijective(n, p, q) ==
  p \in [Wires(n) -> Wires(n)] /\ q \in [Wires(n) -> Wires(n)] /\ Inverses(n, p, q)

\* Every permutation of the wires has a configuration, and waksman shows the network of
\* that configuration to do the permutation: configure never fails to find one.
THEOREM ConfigExists ==
  ASSUME NEW k \in Nat, NEW n, n = 2 ^ k, NEW p, NEW q, Bijective(n, p, q)
  PROVE  \E c \in Configs(n) : Source(n, c) = p
<1>1. CASE k = 0
  <2>1. n = 1 /\ Depth(n) = 0 BY <1>1, PowerOfTwo, DepthIs
  <2>2. Wires(n) = {0} BY <2>1 DEF Wires
  <2> DEFINE c == [d \in 0 .. 0 - 1 |-> [j \in 0 .. n - 1 |-> 0]]
  <2>3. c \in Configs(n) BY <2>1 DEF Configs
  <2>4. Source(n, c) = [w \in 0 .. 0 |-> 0] BY <2>1 DEF Source
  <2>5. p = [w \in 0 .. 0 |-> 0]
    <3>1. p \in [{0} -> {0}] BY <2>2 DEF Bijective
    <3>2. 0 .. 0 = {0} OBVIOUS
    <3> QED BY <3>1, <3>2
  <2> QED BY <2>3, <2>4, <2>5
<1>2. CASE k # 0
  <2> DEFINE last == k - 1
             S == {d \in 0 .. last : \A f, g \in Blockwise(n, Size(n, d)) :
                      Inverses(n, f, g) => Configurable(n, k, d, f)}
  <2>0. k \in Nat \ {0} /\ last \in Nat /\ last \in 0 .. last /\ 0 \in 0 .. last BY <1>2
  <2>1. last \in S
    <3>1. Size(n, last) = 2 BY <2>0, SizeIs
    <3>2. ASSUME NEW f \in Blockwise(n, 2), NEW g \in Blockwise(n, 2), Inverses(n, f, g)
          PROVE  Configurable(n, k, k - 1, f)
      BY <2>0, <3>2, PairConfig
    <3> QED BY <2>0, <3>1, <3>2
  <2>2. \A d \in 0 .. last - 1 : d + 1 \in S => d \in S
    <3> SUFFICES ASSUME NEW d \in 0 .. last - 1, d + 1 \in S PROVE d \in S
      OBVIOUS
    <3>1. d \in 0 .. k - 2 /\ d \in 0 .. last BY <2>0
    <3>2. ASSUME NEW f \in Blockwise(n, Size(n, d)), NEW g \in Blockwise(n, Size(n, d)),
                 Inverses(n, f, g)
          PROVE  Configurable(n, k, d, f)
      <4>1. \A pp, qq \in Blockwise(n, Size(n, d + 1)) :
              Inverses(n, pp, qq) => Configurable(n, k, d + 1, pp)
        OBVIOUS
      <4> QED BY <2>0, <3>1, <3>2, <4>1, BlockConfig
    <3> QED BY <3>1, <3>2
  <2>3. \A d \in 0 .. last : d \in S
    <3> HIDE DEF S, last
    <3> QED BY <2>0, <2>1, <2>2, DownInduction
  <2>4. 0 \in S BY <2>0, <2>3
  <2>5. n \in Nat \ {0} /\ Size(n, 0) = n /\ Depth(n) = k BY <2>0, SizeIs
  <2>6. ASSUME NEW f \in [Wires(n) -> Wires(n)] PROVE f \in Blockwise(n, n)
    <3>1. ASSUME NEW v \in Wires(n) PROVE Start(n, v) = 0
      <4>1. v = 0 * n + v /\ v \in 0 .. n - 1 BY <2>5 DEF Wires
      <4>2. (0 * n + v) % n = v BY <2>5, <4>1, DivModUnique
      <4> QED BY <2>5, <4>1, <4>2 DEF Start
    <3> QED BY <3>1 DEF Blockwise
  <2>7. Configurable(n, k, 0, p) BY <2>4, <2>5, <2>6 DEF Bijective
  <2>8. PICK cc, fr : Levels(n, k, 0, cc, fr) /\ fr[0] = p BY <2>7 DEF Configurable
  <2> DEFINE c == [d \in 0 .. k - 1 |-> cc[d]]
  <2>9. Levels(n, k, 0, c, fr)
    <3>1. \A e \in 0 .. k - 1 : c[e] = cc[e] OBVIOUS
    <3>2. c[k - 1] = cc[k - 1] /\ \A e \in 0 .. k - 2 : c[e] = cc[e] BY <2>0
    <3> HIDE DEF c
    <3> QED BY <2>8, <3>1, <3>2 DEF Levels
  <2>10. c \in Configs(n)
    <3>1. \A e \in 0 .. k - 1 : RowFits(n, e, c[e]) BY <2>9 DEF Levels
    <3>2. c = [d \in 0 .. k - 1 |-> c[d]] OBVIOUS
    <3> HIDE DEF c
    <3>3. c \in [0 .. k - 1 -> [0 .. n - 1 -> {0, 1}]] BY <3>1, <3>2 DEF RowFits, Wires
    <3> QED BY <2>5, <3>1, <3>3 DEF Configs, RowFits, Wires
  <2> HIDE DEF c
  <2>11. Source(n, c) = p BY <2>0, <2>8, <2>9, SourceIs
  <2> QED BY <2>10, <2>11
<1> QED BY <1>1, <1>2

-----------------------------------------------------------------------------
(* The rounds of the network.                                              *)

\* The switch of pair j of the block at s
SwitchAt(h, s, j, side) ==
  [near |-> Pos(h, s, 0, j), far |-> Pos(h, s, 1, j),
   left |-> Pin(s, j, 0), right |-> Pin(s, j, 1), bit |-> Pos(h, s, side, j)]

\* Switch number i of a round belongs to a pair, and every pair has one.
LEMMA SwitchPair ==
  ASSUME NEW n, NEW m, NEW h, Splits(n, m, h)
  PROVE  /\ \A i \in 0 .. n \div 2 - 1 : 2 * (i \div h) * h \in Starts(n, m) /\ i % h \in 0 .. h - 1
         /\ \A s \in Starts(n, m), j \in 0 .. h - 1 :
               \E i \in 0 .. n \div 2 - 1 : 2 * (i \div h) * h = s /\ i % h = j
<1>1. n \in Nat \ {0} /\ h \in Nat \ {0} /\ m \in Nat \ {0} /\ n % m = 0 /\ m = 2 * h
  BY DEF Splits
<1>2. PICK c \in Nat : n = c * m BY <1>1, Multiple
<1>3. n \div 2 = c * h
  <2>1. c * h \in Nat /\ n = 2 * (c * h) + 0 BY <1>1, <1>2
  <2> QED BY <2>1, Halves
<1>4. ASSUME NEW q \in Nat
      PROVE  /\ 2 * q * h = q * m /\ q * m \in Nat
             /\ (q * m) % m = 0
             /\ (q < c => q * m < n) /\ (q >= c => q * m >= n /\ q * h >= c * h)
  <2>1. 2 * q * h = q * m /\ q * m \in Nat /\ c * m \in Nat /\ q * h \in Nat /\ c * h \in Nat
    BY <1>1
  <2>2. (q * m) % m = 0
    <3> DEFINE a == q * m
    <3>1. a \in Nat /\ a = q * m BY <2>1
    <3> HIDE DEF a
    <3>2. a % m = 0 BY <1>1, <3>1, Multiple
    <3> QED BY <3>1, <3>2
  <2>3. ASSUME q < c PROVE q * m < n
    <3>1. c - (q + 1) \in Nat /\ q + 1 + (c - (q + 1)) = c BY <2>3
    <3> DEFINE r == c - (q + 1)
    <3>2. r \in Nat /\ c = q + 1 + r BY <3>1
    <3> HIDE DEF r
    <3>3. c * m = q * m + m + r * m /\ r * m \in Nat BY <1>1, <3>2
    <3> QED BY <1>1, <1>2, <2>1, <3>3
  <2>4. ASSUME q >= c PROVE q * m >= n /\ q * h >= c * h
    <3>1. q - c \in Nat /\ c + (q - c) = q BY <2>4
    <3> DEFINE r == q - c
    <3>2. r \in Nat /\ q = c + r BY <3>1
    <3> HIDE DEF r
    <3>3. q * m = c * m + r * m /\ r * m \in Nat BY <1>1, <3>2
    <3>4. q * h = c * h + r * h /\ r * h \in Nat BY <1>1, <3>2
    <3> QED BY <1>1, <1>2, <2>1, <3>3, <3>4
  <2> QED BY <2>1, <2>2, <2>3, <2>4
<1>5. ASSUME NEW i \in 0 .. n \div 2 - 1
      PROVE  2 * (i \div h) * h \in Starts(n, m) /\ i % h \in 0 .. h - 1
  <2> DEFINE q == i \div h
             r == i % h
  <2>1. i \in Nat /\ i < c * h BY <1>1, <1>3
  <2>2. i = q * h + r /\ r \in 0 .. h - 1 /\ q \in Nat BY <1>1, <2>1, DivMod
  <2> HIDE DEF q, r
  <2>3. q < c
    <3>1. ASSUME q >= c PROVE FALSE
      <4>1. q * h >= c * h BY <1>4, <2>2, <3>1
      <4>2. q * h \in Nat /\ c * h \in Nat BY <1>1, <2>2
      <4> QED BY <2>1, <2>2, <4>1, <4>2
    <3> QED BY <2>2, <3>1
  <2>4. q * m \in Nat /\ (q * m) % m = 0 /\ q * m < n /\ 2 * q * h = q * m
    BY <1>4, <2>2, <2>3
  <2>5. q * m \in Starts(n, m) BY <1>1, <2>4 DEF Starts, Wires
  <2>6. 2 * q * h \in Starts(n, m) BY <2>4, <2>5
  <2> QED BY <2>2, <2>6 DEF q, r
<1>6. ASSUME NEW s \in Starts(n, m), NEW j \in 0 .. h - 1
      PROVE  \E i \in 0 .. n \div 2 - 1 : 2 * (i \div h) * h = s /\ i % h = j
  <2>1. s \in Nat /\ s < n /\ s % m = 0 BY <1>1 DEF Starts, Wires
  <2>2. PICK q \in Nat : s = q * m BY <1>1, <2>1, Multiple
  <2>3. q < c
    <3>1. ASSUME q >= c PROVE FALSE
      <4>1. q * m >= n BY <1>4, <3>1
      <4>2. q * m \in Nat BY <1>4
      <4> QED BY <1>1, <2>1, <2>2, <4>1, <4>2
    <3> QED BY <3>1
  <2> DEFINE i == q * h + j
  <2>4. i \div h = q /\ i % h = j BY <1>1, DivModUnique
  <2>5. i \in 0 .. c * h - 1
    <3>1. c - (q + 1) \in Nat /\ q + 1 + (c - (q + 1)) = c BY <2>3
    <3> DEFINE r == c - (q + 1)
    <3>2. r \in Nat /\ c = q + 1 + r BY <3>1
    <3> HIDE DEF r
    <3>3. c * h = q * h + h + r * h /\ r * h \in Nat /\ q * h \in Nat BY <1>1, <3>2
    <3> QED BY <1>1, <3>3
  <2> HIDE DEF i
  <2>6. 2 * q * h = s BY <1>4, <2>2
  <2>7. 2 * (i \div h) * h = s BY <2>4, <2>6
  <2> QED BY <1>3, <2>4, <2>5, <2>7
<1> QED BY <1>5, <1>6

\* Which of the two bits of a pair a round uses
Side(inwards, reverse) == IF inwards = reverse THEN 1 ELSE 0

Switches(n, d, inwards, reverse) ==
  {Switch(n, d, inwards, reverse, i) : i \in 0 .. n \div 2 - 1}

SwitchesAt(n, m, h, side) == {SwitchAt(h, s, j, side) : s \in Starts(n, m), j \in 0 .. h - 1}

LEMMA SwitchesAre ==
  ASSUME NEW n, NEW d, Splits(n, Size(n, d), Size(n, d + 1)), NEW inwards \in BOOLEAN,
         NEW reverse \in BOOLEAN
  PROVE  Switches(n, d, inwards, reverse)
           = SwitchesAt(n, Size(n, d), Size(n, d + 1), Side(inwards, reverse))
<1> DEFINE m == Size(n, d)
           h == Size(n, d + 1)
           side == Side(inwards, reverse)
<1>1. ASSUME NEW i \in 0 .. n \div 2 - 1
      PROVE  Switch(n, d, inwards, reverse, i)
               = SwitchAt(h, 2 * (i \div h) * h, i % h, side)
  <2> DEFINE s == 2 * (i \div h) * h
             j == i % h
  <2>1. Switch(n, d, inwards, reverse, i)
          = [near |-> s + j, far |-> s + j + h, left |-> s + 2 * j, right |-> s + 2 * j + 1,
             bit |-> s + j + IF inwards = reverse THEN h ELSE 0]
    BY DEF Switch, BitOf, Size
  <2> HIDE DEF m, h, s, j
  <2>2. s \in Starts(n, m) /\ j \in 0 .. h - 1
    <3>1. Splits(n, m, h) BY DEF m, h
    <3> QED BY <3>1, SwitchPair DEF s, j
  <2>3. s \in Nat /\ j \in Nat /\ h \in Nat \ {0}
    <3>1. h \in Nat \ {0} BY DEF Splits, h
    <3> QED BY <2>2, <3>1 DEF Starts, Wires
  <2>4. Pin(s, j, 0) = s + 2 * j /\ Pin(s, j, 1) = s + 2 * j + 1
    BY <2>3 DEF Pin
  <2>5. Pos(h, s, 0, j) = s + j /\ Pos(h, s, 1, j) = s + j + h
    BY <2>3 DEF Pos
  <2>6. Pos(h, s, side, j) = s + j + IF inwards = reverse THEN h ELSE 0
    <3>1. CASE inwards = reverse BY <2>5, <3>1 DEF Side
    <3>2. CASE inwards # reverse
      <4>1. s + j + 0 = s + j BY <2>3
      <4> QED BY <2>5, <3>2, <4>1 DEF Side
    <3> QED BY <3>1, <3>2
  <2>7. Switch(n, d, inwards, reverse, i) = SwitchAt(h, s, j, side)
    BY <2>1, <2>4, <2>5, <2>6 DEF SwitchAt
  <2> QED BY <2>7 DEF s, j
<1>2. Splits(n, m, h) OBVIOUS
<1> HIDE DEF m, h, side
<1>3. \A i \in 0 .. n \div 2 - 1 : 2 * (i \div h) * h \in Starts(n, m) /\ i % h \in 0 .. h - 1
  BY <1>2, SwitchPair
<1>4. \A s \in Starts(n, m), j \in 0 .. h - 1 :
         \E i \in 0 .. n \div 2 - 1 : 2 * (i \div h) * h = s /\ i % h = j
  BY <1>2, SwitchPair
<1>5. ASSUME NEW i \in 0 .. n \div 2 - 1
      PROVE  \E s \in Starts(n, m), j \in 0 .. h - 1 :
                Switch(n, d, inwards, reverse, i) = SwitchAt(h, s, j, side)
  BY <1>1, <1>3
<1>6. ASSUME NEW s \in Starts(n, m), NEW j \in 0 .. h - 1
      PROVE  \E i \in 0 .. n \div 2 - 1 :
                Switch(n, d, inwards, reverse, i) = SwitchAt(h, s, j, side)
  <2>1. PICK i \in 0 .. n \div 2 - 1 : 2 * (i \div h) * h = s /\ i % h = j BY <1>4
  <2>2. Switch(n, d, inwards, reverse, i) = SwitchAt(h, 2 * (i \div h) * h, i % h, side) BY <1>1
  <2> QED BY <2>1, <2>2
<1>7. {Switch(n, d, inwards, reverse, i) : i \in 0 .. n \div 2 - 1}
        = {SwitchAt(h, s, j, side) : s \in Starts(n, m), j \in 0 .. h - 1}
  BY <1>5, <1>6
<1>8. Switches(n, d, inwards, reverse) = SwitchesAt(n, m, h, side)
  BY <1>7 DEF Switches, SwitchesAt
<1> QED BY <1>8 DEF m, h, side

\* A wire is at one place of one pair.
LEMMA PosUnique ==
  ASSUME NEW n, NEW m, NEW h, Splits(n, m, h), NEW s \in Starts(n, m), NEW t \in Starts(n, m),
         NEW i \in 0 .. h - 1, NEW j \in 0 .. h - 1, NEW e \in {0, 1}, NEW f \in {0, 1},
         Pos(h, s, e, i) = Pos(h, t, f, j)
  PROVE  s = t /\ i = j /\ e = f
<1>1. Start(m, Pos(h, s, e, i)) = s /\ Start(h, Pos(h, s, e, i)) = Pos(h, s, e, 0) BY InnerWire
<1>2. Start(m, Pos(h, t, f, j)) = t /\ Start(h, Pos(h, t, f, j)) = Pos(h, t, f, 0) BY InnerWire
<1>3. s = t /\ Pos(h, s, e, 0) = Pos(h, t, f, 0) BY <1>1, <1>2
<1>4. Pos(h, s, e, i) = Pos(h, s, e, 0) + i BY PosPlus
<1>5. Pos(h, t, f, j) = Pos(h, t, f, 0) + j BY PosPlus
<1>6. s \in Nat /\ Pos(h, s, e, 0) \in Nat /\ Pos(h, s, e, 0) = IF e = 1 THEN s + h ELSE s
  BY PosZero
<1>7. Pos(h, s, f, 0) = IF f = 1 THEN s + h ELSE s BY PosZero
<1>8. i = j BY <1>3, <1>4, <1>5, <1>6
<1>9. e = f
  <2>1. h \in Nat \ {0} BY DEF Splits
  <2>2. s + h # s BY <1>6, <2>1
  <2>3. Pos(h, s, e, 0) = Pos(h, s, f, 0) BY <1>3
  <2> QED BY <1>6, <1>7, <2>2, <2>3
<1> QED BY <1>3, <1>8, <1>9

LEMMA PinUnique ==
  ASSUME NEW n, NEW m, NEW h, Splits(n, m, h), NEW s \in Starts(n, m), NEW t \in Starts(n, m),
         NEW i \in 0 .. h - 1, NEW j \in 0 .. h - 1, NEW e \in {0, 1}, NEW f \in {0, 1},
         Pin(s, i, e) = Pin(t, j, f)
  PROVE  s = t /\ i = j /\ e = f
<1>1. Start(m, Pin(s, i, e)) = s BY OuterWire
<1>2. Start(m, Pin(t, j, f)) = t BY OuterWire
<1>3. s = t BY <1>1, <1>2
<1>4. Pin(s, i, e) - s = 2 * i + e /\ (Pin(s, i, e) - s) \div 2 = i BY PinMinus
<1>5. Pin(t, j, f) - t = 2 * j + f /\ (Pin(t, j, f) - t) \div 2 = j BY PinMinus
<1>6. i = j BY <1>3, <1>4, <1>5
<1>7. 2 * i + e = 2 * i + f BY <1>3, <1>4, <1>5, <1>6
<1>8. i \in Nat OBVIOUS
<1>9. e = f BY <1>7, <1>8
<1> QED BY <1>3, <1>6, <1>9

\* A switch that is not set lets both wires pass.
LEMMA SwapIs ==
  ASSUME NEW n, NEW d, NEW row, RowFits(n, d, row), NEW b \in Wires(n)
  PROVE  row[b] \in {0, 1} /\ ((Matters(n, d, b) /\ row[b] = 1) <=> row[b] = 1)
BY DEF RowFits

\* An inwards round takes the wires of a pair to its places in the halves.
TakesIn(n, d, c, reverse, x, s, j, e) ==
  WaksmanRound(n, c, d, TRUE, reverse, x)[Pos(Size(n, d + 1), s, e, j)]
    = x[Pin(s, j, Xor(e, c[d][Pos(Size(n, d + 1), s, Side(TRUE, reverse), j)]))]

LEMMA InwardsRound ==
  ASSUME NEW n, NEW d, Splits(n, Size(n, d), Size(n, d + 1)), NEW c, RowFits(n, d, c[d]),
         NEW reverse \in BOOLEAN, NEW x, NEW s \in Starts(n, Size(n, d)),
         NEW j \in 0 .. Size(n, d + 1) - 1, NEW e \in {0, 1}
  PROVE  TakesIn(n, d, c, reverse, x, s, j, e)
<1> DEFINE m == Size(n, d)
           h == Size(n, d + 1)
           side == Side(TRUE, reverse)
           all == Switches(n, d, TRUE, reverse)
           u == SwitchAt(h, s, j, side)
           w == Pos(h, s, e, j)
           b == Pos(h, s, side, j)
<1>1. all = SwitchesAt(n, m, h, side)
  BY SwitchesAre, Zenon
<1>2. Splits(n, m, h) /\ s \in Starts(n, m) /\ j \in 0 .. h - 1 /\ side \in {0, 1}
  BY DEF Side
<1>3. WaksmanRound(n, c, d, TRUE, reverse, x)
        = [v \in 0 .. n - 1 |->
             LET t == CHOOSE t \in all : v \in {t.near, t.far}
             IN  x[IF (v = t.near) # (Matters(n, d, t.bit) /\ c[d][t.bit] = 1)
                   THEN t.left ELSE t.right]]
  BY DEF WaksmanRound, Switches
<1> HIDE DEF m, h, side, all, b
<1>4. w \in Wires(n) /\ b \in Wires(n) BY <1>2, InnerWire DEF b
<1>5. /\ u.near = Pos(h, s, 0, j) /\ u.far = Pos(h, s, 1, j) /\ u.bit = b
      /\ u.left = Pin(s, j, 0) /\ u.right = Pin(s, j, 1)
  BY DEF SwitchAt, b
<1>6. u \in all BY <1>1, <1>2 DEF SwitchesAt
<1>7. w \in {u.near, u.far} BY <1>5
<1>8. ASSUME NEW t \in all, w \in {t.near, t.far} PROVE t = u
  <2>1. PICK r \in Starts(n, m), i \in 0 .. h - 1 : t = SwitchAt(h, r, i, side)
    BY <1>1 DEF SwitchesAt
  <2>2. t.near = Pos(h, r, 0, i) /\ t.far = Pos(h, r, 1, i) BY <2>1 DEF SwitchAt
  <2>3. PICK f \in {0, 1} : Pos(h, s, e, j) = Pos(h, r, f, i) BY <1>8, <2>2
  <2>4. s = r /\ j = i BY <1>2, <2>3, PosUnique
  <2> QED BY <2>1, <2>4
<1>9. w = u.near <=> e = 0
  <2>1. ASSUME e = 1, Pos(h, s, 1, j) = Pos(h, s, 0, j) PROVE FALSE
    <3>1. 1 = 0 BY <1>2, <2>1, PosUnique
    <3> QED BY <3>1
  <2> QED BY <1>5, <2>1
<1> HIDE DEF u, w
<1>10. (CHOOSE t \in all : w \in {t.near, t.far}) = u BY <1>6, <1>7, <1>8
<1>11. WaksmanRound(n, c, d, TRUE, reverse, x)[w]
         = x[IF (w = u.near) # (Matters(n, d, u.bit) /\ c[d][u.bit] = 1) THEN u.left ELSE u.right]
  BY <1>3, <1>4, <1>10 DEF Wires
<1>12. c[d][b] \in {0, 1} /\ ((Matters(n, d, b) /\ c[d][b] = 1) <=> c[d][b] = 1)
  BY <1>4, SwapIs
<1>13. ((w = u.near) # (Matters(n, d, u.bit) /\ c[d][u.bit] = 1)) <=> (e = c[d][b])
  BY <1>5, <1>9, <1>12
<1>14. Xor(e, c[d][b]) = IF e = c[d][b] THEN 0 ELSE 1 BY <1>12, XorBits
<1>15. WaksmanRound(n, c, d, TRUE, reverse, x)[w] = x[Pin(s, j, Xor(e, c[d][b]))]
  BY <1>5, <1>11, <1>13, <1>14
<1> QED BY <1>15 DEF w, b, h, side, TakesIn

\* An outwards round brings them back.
BringsOut(n, d, c, reverse, x, s, j, e) ==
  WaksmanRound(n, c, d, FALSE, reverse, x)[Pin(s, j, e)]
    = x[Pos(Size(n, d + 1), s,
            Xor(e, c[d][Pos(Size(n, d + 1), s, Side(FALSE, reverse), j)]), j)]

LEMMA OutwardsRound ==
  ASSUME NEW n, NEW d, Splits(n, Size(n, d), Size(n, d + 1)), NEW c, RowFits(n, d, c[d]),
         NEW reverse \in BOOLEAN, NEW x, NEW s \in Starts(n, Size(n, d)),
         NEW j \in 0 .. Size(n, d + 1) - 1, NEW e \in {0, 1}
  PROVE  BringsOut(n, d, c, reverse, x, s, j, e)
<1> DEFINE m == Size(n, d)
           h == Size(n, d + 1)
           side == Side(FALSE, reverse)
           all == Switches(n, d, FALSE, reverse)
           u == SwitchAt(h, s, j, side)
           w == Pin(s, j, e)
           b == Pos(h, s, side, j)
<1>1. all = SwitchesAt(n, m, h, side)
  BY SwitchesAre, Zenon
<1>2. Splits(n, m, h) /\ s \in Starts(n, m) /\ j \in 0 .. h - 1 /\ side \in {0, 1}
  BY DEF Side
<1>3. WaksmanRound(n, c, d, FALSE, reverse, x)
        = [v \in 0 .. n - 1 |->
             LET t == CHOOSE t \in all : v \in {t.left, t.right}
             IN  x[IF (v = t.left) # (Matters(n, d, t.bit) /\ c[d][t.bit] = 1)
                   THEN t.near ELSE t.far]]
  BY DEF WaksmanRound, Switches
<1> HIDE DEF m, h, side, all, b
<1>4. w \in Wires(n) /\ b \in Wires(n)
  <2>1. w \in Wires(n) BY <1>2, OuterWire
  <2>2. b \in Wires(n) BY <1>2, InnerWire DEF b
  <2> QED BY <2>1, <2>2
<1>5. /\ u.near = Pos(h, s, 0, j) /\ u.far = Pos(h, s, 1, j) /\ u.bit = b
      /\ u.left = Pin(s, j, 0) /\ u.right = Pin(s, j, 1)
  BY DEF SwitchAt, b
<1>6. u \in all BY <1>1, <1>2 DEF SwitchesAt
<1>7. w \in {u.left, u.right} BY <1>5
<1>8. ASSUME NEW t \in all, w \in {t.left, t.right} PROVE t = u
  <2>1. PICK r \in Starts(n, m), i \in 0 .. h - 1 : t = SwitchAt(h, r, i, side)
    BY <1>1 DEF SwitchesAt
  <2>2. t.left = Pin(r, i, 0) /\ t.right = Pin(r, i, 1) BY <2>1 DEF SwitchAt
  <2>3. PICK f \in {0, 1} : Pin(s, j, e) = Pin(r, i, f) BY <1>8, <2>2
  <2>4. s = r /\ j = i BY <1>2, <2>3, PinUnique
  <2> QED BY <2>1, <2>4
<1>9. w = u.left <=> e = 0
  <2>1. ASSUME e = 1, Pin(s, j, 1) = Pin(s, j, 0) PROVE FALSE
    <3>1. 1 = 0 BY <1>2, <2>1, PinUnique
    <3> QED BY <3>1
  <2> QED BY <1>5, <2>1
<1> HIDE DEF u, w
<1>10. (CHOOSE t \in all : w \in {t.left, t.right}) = u BY <1>6, <1>7, <1>8
<1>11. WaksmanRound(n, c, d, FALSE, reverse, x)[w]
         = x[IF (w = u.left) # (Matters(n, d, u.bit) /\ c[d][u.bit] = 1) THEN u.near ELSE u.far]
  BY <1>3, <1>4, <1>10 DEF Wires
<1>12. c[d][b] \in {0, 1} /\ ((Matters(n, d, b) /\ c[d][b] = 1) <=> c[d][b] = 1)
  BY <1>4, SwapIs
<1>13. ((w = u.left) # (Matters(n, d, u.bit) /\ c[d][u.bit] = 1)) <=> (e = c[d][b])
  BY <1>5, <1>9, <1>12
<1>14. Xor(e, c[d][b]) = IF e = c[d][b] THEN 0 ELSE 1 BY <1>12, XorBits
<1>15. WaksmanRound(n, c, d, FALSE, reverse, x)[w] = x[Pos(h, s, Xor(e, c[d][b]), j)]
  BY <1>5, <1>11, <1>13, <1>14
<1> QED BY <1>15 DEF w, b, h, side, BringsOut

-----------------------------------------------------------------------------
(* The network as it is run.                                               *)

\* A round moves what is on the wires.
LEMMA InwardsType ==
  ASSUME NEW n, NEW d, Splits(n, Size(n, d), Size(n, d + 1)), NEW c, RowFits(n, d, c[d]),
         NEW reverse \in BOOLEAN, NEW V, NEW x \in [Wires(n) -> V]
  PROVE  WaksmanRound(n, c, d, TRUE, reverse, x) \in [Wires(n) -> V]
<1> DEFINE m == Size(n, d)
           h == Size(n, d + 1)
           f == WaksmanRound(n, c, d, TRUE, reverse, x)
           row == c[d]
<1>1. Splits(n, m, h) /\ row \in [Wires(n) -> {0, 1}] BY DEF RowFits
<1>2. f = [w \in Wires(n) |-> f[w]] BY DEF WaksmanRound, Wires
<1>3. ASSUME NEW s \in Starts(n, m), NEW j \in 0 .. h - 1, NEW e \in {0, 1}
      PROVE  f[Pos(h, s, e, j)] = x[Pin(s, j, Xor(e, row[Pos(h, s, Side(TRUE, reverse), j)]))]
  <2>1. TakesIn(n, d, c, reverse, x, s, j, e) BY InwardsRound
  <2> QED BY <2>1 DEF TakesIn
<1>4. ASSUME NEW w \in Wires(n) PROVE f[w] \in V
  <2> HIDE DEF f, m, h, row
  <2>1. PICK s \in Starts(n, m), e \in {0, 1}, j \in 0 .. h - 1 : w = Pos(h, s, e, j)
    BY <1>1, Inner
  <2> DEFINE b == row[Pos(h, s, Side(TRUE, reverse), j)]
  <2>2. b \in {0, 1}
    <3>1. Side(TRUE, reverse) \in {0, 1} BY DEF Side
    <3>2. Pos(h, s, Side(TRUE, reverse), j) \in Wires(n) BY <1>1, <3>1, InnerWire
    <3> QED BY <1>1, <3>2
  <2>3. f[w] = x[Pin(s, j, Xor(e, b))] BY <1>3, <2>1
  <2> HIDE DEF b
  <2>4. Xor(e, b) \in {0, 1} BY <2>2, XorBits
  <2>5. Pin(s, j, Xor(e, b)) \in Wires(n) BY <1>1, <2>4, OuterWire
  <2> QED BY <2>3, <2>5
<1> HIDE DEF f
<1>5. f \in [Wires(n) -> V] BY <1>2, <1>4
<1> QED BY <1>5 DEF f

LEMMA OutwardsType ==
  ASSUME NEW n, NEW d, Splits(n, Size(n, d), Size(n, d + 1)), NEW c, RowFits(n, d, c[d]),
         NEW reverse \in BOOLEAN, NEW V, NEW x \in [Wires(n) -> V]
  PROVE  WaksmanRound(n, c, d, FALSE, reverse, x) \in [Wires(n) -> V]
<1> DEFINE m == Size(n, d)
           h == Size(n, d + 1)
           f == WaksmanRound(n, c, d, FALSE, reverse, x)
           row == c[d]
<1>1. Splits(n, m, h) /\ row \in [Wires(n) -> {0, 1}] BY DEF RowFits
<1>2. f = [w \in Wires(n) |-> f[w]] BY DEF WaksmanRound, Wires
<1>3. ASSUME NEW s \in Starts(n, m), NEW j \in 0 .. h - 1, NEW e \in {0, 1}
      PROVE  f[Pin(s, j, e)] = x[Pos(h, s, Xor(e, row[Pos(h, s, Side(FALSE, reverse), j)]), j)]
  <2>1. BringsOut(n, d, c, reverse, x, s, j, e) BY OutwardsRound
  <2> QED BY <2>1 DEF BringsOut
<1>4. ASSUME NEW w \in Wires(n) PROVE f[w] \in V
  <2> HIDE DEF f, m, h, row
  <2>1. PICK s \in Starts(n, m), j \in 0 .. h - 1, e \in {0, 1} : w = Pin(s, j, e)
    BY <1>1, Outer
  <2> DEFINE b == row[Pos(h, s, Side(FALSE, reverse), j)]
  <2>2. b \in {0, 1}
    <3>1. Side(FALSE, reverse) \in {0, 1} BY DEF Side
    <3>2. Pos(h, s, Side(FALSE, reverse), j) \in Wires(n) BY <1>1, <3>1, InnerWire
    <3> QED BY <1>1, <3>2
  <2>3. f[w] = x[Pos(h, s, Xor(e, b), j)] BY <1>3, <2>1
  <2> HIDE DEF b
  <2>4. Xor(e, b) \in {0, 1} BY <2>2, XorBits
  <2>5. Pos(h, s, Xor(e, b), j) \in Wires(n) BY <1>1, <2>4, InnerWire
  <2> QED BY <2>3, <2>5
<1> HIDE DEF f
<1>5. f \in [Wires(n) -> V] BY <1>2, <1>4
<1> QED BY <1>5 DEF f

\* What goes into the levels, X, and what comes out of them, Y.
Passes(n, k, c, reverse, x, X, Y) ==
  /\ X[0] = x
  /\ \A d \in 0 .. k - 2 : X[d + 1] = WaksmanRound(n, c, d, TRUE, reverse, X[d])
  /\ Y[k - 1] = WaksmanRound(n, c, k - 1, TRUE, reverse, X[k - 1])
  /\ \A d \in 0 .. k - 2 : Y[d] = WaksmanRound(n, c, d, FALSE, reverse, Y[d + 1])

\* The recursive functions of IterWaksman
Inwards(n, c, reverse, x) ==
  CHOOSE g : g = [d \in 0 .. Depth(n) - 1 |->
    WaksmanRound(n, c, d, TRUE, reverse, IF d = 0 THEN x ELSE g[d - 1])]

Outwards(n, c, reverse, y) ==
  CHOOSE g : g = [d \in 0 .. Depth(n) - 1 - 1 |->
    WaksmanRound(n, c, d, FALSE, reverse,
                 IF d = Depth(n) - 1 - 1 THEN y[Depth(n) - 1] ELSE g[d + 1])]

RowsFit(n, k, c) == \A d \in 0 .. k - 1 : RowFits(n, d, c[d])

GoesIn(n, k, c, reverse, x, V, g) ==
  /\ g[0] = WaksmanRound(n, c, 0, TRUE, reverse, x)
  /\ \A d \in 1 .. k - 1 : g[d] = WaksmanRound(n, c, d, TRUE, reverse, g[d - 1])
  /\ g[k - 1] \in [Wires(n) -> V]

GoesOut(n, k, c, reverse, y, V, g) ==
  /\ g[k - 2] = WaksmanRound(n, c, k - 2, FALSE, reverse, y[k - 1])
  /\ \A d \in 0 .. k - 3 : g[d] = WaksmanRound(n, c, d, FALSE, reverse, g[d + 1])
  /\ g[0] \in [Wires(n) -> V]

LEMMA InwardsIs ==
  ASSUME NEW k \in Nat \ {0}, NEW n, n = 2 ^ k, NEW c, RowsFit(n, k, c),
         NEW reverse \in BOOLEAN, NEW V, NEW x \in [Wires(n) -> V]
  PROVE  GoesIn(n, k, c, reverse, x, V, Inwards(n, c, reverse, x))
<1> DEFINE last == k - 1
           T == [Wires(n) -> V]
           g == Inwards(n, c, reverse, x)
           R(d, y) == WaksmanRound(n, c, d, TRUE, reverse, y)
           step == [d \in 1 .. last |-> [y \in T |-> R(d, y)]]
<1>0. last \in Nat /\ 0 \in 0 .. last /\ last \in 0 .. last /\ Depth(n) = k
  BY SizeIs
<1>1. ASSUME NEW d \in 0 .. last, NEW y \in T PROVE R(d, y) \in T
  <2>1. Splits(n, Size(n, d), Size(n, d + 1)) BY SizeIs
  <2>2. RowFits(n, d, c[d]) BY <1>0 DEF RowsFit
  <2> QED BY <2>1, <2>2, InwardsType
<1> HIDE DEF R, T
<1>2. R(0, x) \in T BY <1>0, <1>1 DEF T
<1>3. step \in Steps(last, T)
  <2>1. \A d \in 1 .. last : d \in 0 .. last BY <1>0
  <2> QED BY <1>1, <2>1 DEF Steps
<1>4. PICK h \in [0 .. last -> T] :
        h[0] = R(0, x) /\ \A d \in 1 .. last : h[d] = step[d][h[d - 1]]
  <2> HIDE DEF step, last
  <2>1. \E h : h \in Runs(last, T, R(0, x), step) BY <1>0, <1>2, <1>3, Recursion, Zenon
  <2> QED BY <2>1 DEF Runs
<1>5. \A d \in 1 .. last : h[d] = R(d, h[d - 1])
  <2> TAKE d \in 1 .. last
  <2>1. d - 1 \in 0 .. last BY <1>0
  <2>2. h[d - 1] \in T BY <2>1
  <2> QED BY <1>4, <2>2
<1> HIDE DEF step
<1>6. h = [d \in 0 .. last |-> R(d, IF d = 0 THEN x ELSE h[d - 1])]
  <2>1. \A d \in 0 .. last : d = 0 \/ d \in 1 .. last BY <1>0
  <2>2. \A d \in 0 .. last : h[d] = R(d, IF d = 0 THEN x ELSE h[d - 1])
    BY <1>4, <1>5, <2>1
  <2> QED BY <2>2
<1>7. g = CHOOSE f : f = [d \in 0 .. Depth(n) - 1 |-> R(d, IF d = 0 THEN x ELSE f[d - 1])]
  BY DEF Inwards, R
<1> HIDE DEF g
<1>8. h = [d \in 0 .. Depth(n) - 1 |-> R(d, IF d = 0 THEN x ELSE h[d - 1])]
  BY <1>0, <1>6
<1>9. g = [d \in 0 .. Depth(n) - 1 |-> R(d, IF d = 0 THEN x ELSE g[d - 1])]
  BY <1>7, <1>8
<1>10. g = [d \in 0 .. last |-> R(d, IF d = 0 THEN x ELSE g[d - 1])]
  BY <1>0, <1>9
<1>11. g[0] = R(0, x) /\ \A d \in 1 .. last : g[d] = R(d, g[d - 1])
  <2>1. \A d \in 1 .. last : d \in 0 .. last /\ d # 0 BY <1>0
  <2>2. \A d \in 0 .. last : g[d] = R(d, IF d = 0 THEN x ELSE g[d - 1]) BY <1>10
  <2> HIDE DEF last
  <2> QED BY <1>0, <2>1, <2>2
<1>12. g[last] \in T
  <2> DEFINE S == {d \in 0 .. last : g[d] \in T}
  <2>1. 0 \in S BY <1>0, <1>2, <1>11
  <2>2. \A d \in 1 .. last : d - 1 \in S => d \in S
    BY <1>1, <1>11
  <2>3. \A d \in 0 .. last : d \in S
    <3> HIDE DEF S, last
    <3> QED BY <1>0, <2>1, <2>2, IntervalInduction
  <2> QED BY <1>0, <2>3
<1>13. GoesIn(n, k, c, reverse, x, V, g) BY <1>11, <1>12 DEF R, T, GoesIn
<1> QED BY <1>13 DEF g

LEMMA OutwardsIs ==
  ASSUME NEW k \in Nat \ {0}, k # 1, NEW n, n = 2 ^ k, NEW c, RowsFit(n, k, c),
         NEW reverse \in BOOLEAN, NEW V, NEW y, y[k - 1] \in [Wires(n) -> V]
  PROVE  GoesOut(n, k, c, reverse, y, V, Outwards(n, c, reverse, y))
<1> DEFINE last == k - 2
           T == [Wires(n) -> V]
           z == y[k - 1]
           g == Outwards(n, c, reverse, y)
           R(d, u) == WaksmanRound(n, c, d, FALSE, reverse, u)
           step == [i \in 1 .. last |-> [u \in T |-> R(last - i, u)]]
<1>0. last \in Nat /\ 0 \in 0 .. last /\ last \in 0 .. last /\ Depth(n) = k
      /\ Depth(n) - 1 - 1 = last /\ Depth(n) - 1 = k - 1
  <2>1. Depth(n) = k BY SizeIs
  <2> QED BY <2>1
<1>1. ASSUME NEW d \in 0 .. last, NEW u \in T PROVE R(d, u) \in T
  <2>1. Splits(n, Size(n, d), Size(n, d + 1)) BY SizeIs
  <2>2. RowFits(n, d, c[d]) BY <1>0 DEF RowsFit
  <2> QED BY <2>1, <2>2, OutwardsType
<1> HIDE DEF R, T
<1>2. R(last, z) \in T BY <1>0, <1>1 DEF T
<1>3. step \in Steps(last, T)
  <2>1. \A i \in 1 .. last : last - i \in 0 .. last BY <1>0
  <2> QED BY <1>1, <2>1 DEF Steps
<1>4. PICK f \in [0 .. last -> T] :
        f[0] = R(last, z) /\ \A i \in 1 .. last : f[i] = step[i][f[i - 1]]
  <2> HIDE DEF step, last, z
  <2>1. \E f : f \in Runs(last, T, R(last, z), step) BY <1>0, <1>2, <1>3, Recursion, Zenon
  <2> QED BY <2>1 DEF Runs
<1> DEFINE h == [d \in 0 .. last |-> f[last - d]]
<1>5. h[last] = R(last, z)
  <2>1. last - last = 0 BY <1>0
  <2> QED BY <1>0, <1>4, <2>1
<1>6. \A d \in 0 .. last - 1 : h[d] = R(d, h[d + 1])
  <2> TAKE d \in 0 .. last - 1
  <2> DEFINE i == last - d
  <2>1. i \in 1 .. last /\ i - 1 \in 0 .. last /\ last - i = d /\ last - (d + 1) = i - 1
    BY <1>0
  <2>2. d \in 0 .. last /\ d + 1 \in 0 .. last BY <1>0
  <2>3. h[d] = f[i] /\ h[d + 1] = f[i - 1] BY <2>1, <2>2
  <2> HIDE DEF h, i
  <2>4. f[i - 1] \in T BY <2>1
  <2>5. step[i][f[i - 1]] = R(last - i, f[i - 1]) BY <2>1, <2>4
  <2> HIDE DEF step
  <2>6. f[i] = R(d, f[i - 1]) BY <1>4, <2>1, <2>5
  <2> QED BY <2>3, <2>6
<1> HIDE DEF step
<1>7. h = [d \in 0 .. last |-> R(d, IF d = last THEN z ELSE h[d + 1])]
  <2>1. \A d \in 0 .. last : d = last \/ d \in 0 .. last - 1 BY <1>0
  <2>2. h = [d \in 0 .. last |-> h[d]] OBVIOUS
  <2> HIDE DEF h
  <2>3. \A d \in 0 .. last : h[d] = R(d, IF d = last THEN z ELSE h[d + 1])
    BY <1>5, <1>6, <2>1
  <2> QED BY <2>2, <2>3
<1> HIDE DEF h
<1>8. g = CHOOSE e : e = [d \in 0 .. Depth(n) - 1 - 1 |->
              R(d, IF d = Depth(n) - 1 - 1 THEN y[Depth(n) - 1] ELSE e[d + 1])]
  BY DEF Outwards, R
<1> HIDE DEF g
<1>9. h = [d \in 0 .. Depth(n) - 1 - 1 |->
              R(d, IF d = Depth(n) - 1 - 1 THEN y[Depth(n) - 1] ELSE h[d + 1])]
  BY <1>0, <1>7
<1>10. g = [d \in 0 .. Depth(n) - 1 - 1 |->
              R(d, IF d = Depth(n) - 1 - 1 THEN y[Depth(n) - 1] ELSE g[d + 1])]
  BY <1>8, <1>9
<1>11. g = [d \in 0 .. last |-> R(d, IF d = last THEN z ELSE g[d + 1])]
  BY <1>0, <1>10
<1>12. g[last] = R(last, z) /\ \A d \in 0 .. last - 1 : g[d] = R(d, g[d + 1])
  <2>1. \A d \in 0 .. last - 1 : d \in 0 .. last /\ d # last BY <1>0
  <2>2. \A d \in 0 .. last : g[d] = R(d, IF d = last THEN z ELSE g[d + 1]) BY <1>11
  <2> HIDE DEF last, z
  <2> QED BY <1>0, <2>1, <2>2
<1>13. g[0] \in T
  <2> DEFINE S == {d \in 0 .. last : g[d] \in T}
  <2>1. last \in S BY <1>0, <1>2, <1>12
  <2>2. \A d \in 0 .. last - 1 : d + 1 \in S => d \in S
    BY <1>0, <1>1, <1>12
  <2>3. \A d \in 0 .. last : d \in S
    <3> HIDE DEF S, last
    <3> QED BY <1>0, <2>1, <2>2, DownInduction
  <2> QED BY <1>0, <2>3
<1>14. \A d \in 0 .. k - 3 : d \in 0 .. last - 1 BY <1>0
<1>15. GoesOut(n, k, c, reverse, y, V, g) BY <1>12, <1>13, <1>14 DEF R, T, GoesOut
<1> QED BY <1>15 DEF g

\* IterWaksman passes every level twice, the last one once.
RunIs(n, k, c, reverse, x, V) ==
  /\ IterWaksman(n, c, reverse, x) \in [Wires(n) -> V]
  /\ \E X, Y : Passes(n, k, c, reverse, x, X, Y) /\ IterWaksman(n, c, reverse, x) = Y[0]

LEMMA IterPasses ==
  ASSUME NEW k \in Nat \ {0}, NEW n, n = 2 ^ k, NEW c, RowsFit(n, k, c),
         NEW reverse \in BOOLEAN, NEW V, NEW x \in [Wires(n) -> V]
  PROVE  RunIs(n, k, c, reverse, x, V)
<1> DEFINE g == Inwards(n, c, reverse, x)
           h == Outwards(n, c, reverse, g)
<1>1. n # 1 /\ Depth(n) = k
  <2>1. Depth(n) = k BY SizeIs
  <2>2. Depth(2 ^ 0) = 0 BY DepthIs
  <2> QED BY <2>1, <2>2, PowerOfTwo
<1>2. IterWaksman(n, c, reverse, x) = IF Depth(n) - 1 = 0 THEN g[0] ELSE h[0]
  BY <1>1 DEF IterWaksman, Inwards, Outwards
<1>3. /\ g[0] = WaksmanRound(n, c, 0, TRUE, reverse, x)
      /\ \A d \in 1 .. k - 1 : g[d] = WaksmanRound(n, c, d, TRUE, reverse, g[d - 1])
      /\ g[k - 1] \in [Wires(n) -> V]
  <2>1. GoesIn(n, k, c, reverse, x, V, g) BY InwardsIs
  <2> HIDE DEF g
  <2> QED BY <2>1 DEF GoesIn
<1> HIDE DEF g
<1>4. k # 1 =>
        /\ h[k - 2] = WaksmanRound(n, c, k - 2, FALSE, reverse, g[k - 1])
        /\ \A d \in 0 .. k - 3 : h[d] = WaksmanRound(n, c, d, FALSE, reverse, h[d + 1])
        /\ h[0] \in [Wires(n) -> V]
  <2>1. k # 1 => GoesOut(n, k, c, reverse, g, V, h) BY <1>3, OutwardsIs
  <2> HIDE DEF h
  <2> QED BY <2>1 DEF GoesOut
<1> HIDE DEF h
<1> DEFINE X == [d \in 0 .. k - 1 |-> IF d = 0 THEN x ELSE g[d - 1]]
           Y == [d \in 0 .. k - 1 |-> IF d = k - 1 THEN g[d] ELSE h[d]]
<1>5. IterWaksman(n, c, reverse, x) = Y[0] /\ Y[0] \in [Wires(n) -> V]
  <2>1. 0 \in 0 .. k - 1 OBVIOUS
  <2>2. CASE k = 1
    <3>1. k - 1 = 0 BY <2>2
    <3> QED BY <1>1, <1>2, <1>3, <2>1, <2>2, <3>1
  <2>3. CASE k # 1
    <3>1. k - 1 # 0 BY <2>3
    <3> QED BY <1>1, <1>2, <1>4, <2>1, <2>3, <3>1
  <2> QED BY <2>2, <2>3
<1>6. X[0] = x OBVIOUS
<1>7. ASSUME NEW d \in 0 .. k - 1 PROVE g[d] = WaksmanRound(n, c, d, TRUE, reverse, X[d])
  <2>1. CASE d = 0 BY <1>3, <1>6, <2>1
  <2>2. CASE d # 0
    <3>1. d \in 1 .. k - 1 BY <2>2
    <3>2. X[d] = g[d - 1] BY <2>2
    <3> QED BY <1>3, <3>1, <3>2
  <2> QED BY <2>1, <2>2
<1>8. ASSUME NEW d \in 0 .. k - 2
      PROVE  X[d + 1] = WaksmanRound(n, c, d, TRUE, reverse, X[d])
  <2>1. d \in 0 .. k - 1 /\ d + 1 \in 0 .. k - 1 /\ d + 1 # 0 /\ (d + 1) - 1 = d OBVIOUS
  <2>2. X[d + 1] = g[d] BY <2>1
  <2> QED BY <1>7, <2>1, <2>2
<1>9. Y[k - 1] = WaksmanRound(n, c, k - 1, TRUE, reverse, X[k - 1])
  <2>1. k - 1 \in 0 .. k - 1 OBVIOUS
  <2>2. Y[k - 1] = g[k - 1] BY <2>1
  <2> QED BY <1>7, <2>1, <2>2
<1>10. ASSUME NEW d \in 0 .. k - 2
       PROVE  Y[d] = WaksmanRound(n, c, d, FALSE, reverse, Y[d + 1])
  <2>1. d \in 0 .. k - 1 /\ d # k - 1 /\ d + 1 \in 0 .. k - 1 /\ k # 1 OBVIOUS
  <2>2. Y[d] = h[d] BY <2>1
  <2>3. CASE d = k - 2
    <3>1. d + 1 = k - 1 BY <2>3
    <3>2. Y[d + 1] = g[k - 1] BY <2>1, <3>1
    <3> QED BY <1>4, <2>1, <2>2, <2>3, <3>2
  <2>4. CASE d # k - 2
    <3>1. d + 1 # k - 1 /\ d \in 0 .. k - 3 BY <2>4
    <3>2. Y[d + 1] = h[d + 1] BY <2>1, <3>1
    <3> QED BY <1>4, <2>1, <2>2, <3>1, <3>2
  <2> QED BY <2>3, <2>4
<1> HIDE DEF X, Y
<1>11. Passes(n, k, c, reverse, x, X, Y) BY <1>6, <1>8, <1>9, <1>10 DEF Passes
<1> QED BY <1>5, <1>11 DEF RunIs

-----------------------------------------------------------------------------
(* What the network does.                                                  *)

\* What comes out of a level of the reversed network went in where the level's source
\* says; forwards it is the other way round.
Fetched(n, f, x, y) == \A v \in Wires(n) : y[v] = x[f[v]]

Brought(n, f, x, y) == \A v \in Wires(n) : y[f[v]] = x[v]

\* A block of wires around its halves, in reverse
LEMMA FetchBlock ==
  ASSUME NEW n, NEW d, Splits(n, Size(n, d), Size(n, d + 1)), NEW c, RowFits(n, d, c[d]),
         NEW inner \in Blockwise(n, Size(n, d + 1)), NEW x, NEW y,
         Fetched(n, inner, WaksmanRound(n, c, d, TRUE, TRUE, x), y)
  PROVE  Fetched(n, BlockSource(n, Size(n, d), c[d], inner), x,
                 WaksmanRound(n, c, d, FALSE, TRUE, y))
<1> DEFINE m == Size(n, d)
           h == Size(n, d + 1)
           row == c[d]
           f == BlockSource(n, m, row, inner)
           in == WaksmanRound(n, c, d, TRUE, TRUE, x)
           out == WaksmanRound(n, c, d, FALSE, TRUE, y)
<1>1. Splits(n, m, h) /\ row \in [Wires(n) -> {0, 1}] /\ inner \in Blockwise(n, h)
  BY DEF RowFits
<1>2. \A v \in Wires(n) : y[v] = in[inner[v]] BY DEF Fetched
<1>3. ASSUME NEW v \in Wires(n) PROVE out[v] = x[f[v]]
  <2>1. PICK s \in Starts(n, m), j \in 0 .. h - 1, e \in {0, 1} : v = Pin(s, j, e)
    <3> HIDE DEF m, h
    <3> QED BY <1>1, Outer
  <2>2. \E half \in {0, 1}, i \in 0 .. h - 1 :
          /\ half = Xor(e, row[Pos(h, s, 0, j)])
          /\ inner[Pos(h, s, half, j)] = Pos(h, s, half, i)
          /\ Xor(half, row[Pos(h, s, 1, i)]) \in {0, 1}
          /\ f[Pin(s, j, e)] = Pin(s, i, Xor(half, row[Pos(h, s, 1, i)]))
    <3> HIDE DEF m, h, row
    <3> QED BY <1>1, BlockSourceAt
  <2>3. PICK half \in {0, 1}, i \in 0 .. h - 1 :
          /\ half = Xor(e, row[Pos(h, s, 0, j)])
          /\ inner[Pos(h, s, half, j)] = Pos(h, s, half, i)
          /\ Xor(half, row[Pos(h, s, 1, i)]) \in {0, 1}
          /\ f[Pin(s, j, e)] = Pin(s, i, Xor(half, row[Pos(h, s, 1, i)]))
    <3> HIDE DEF m, h, row, f
    <3> QED BY <2>2
  <2>4. out[Pin(s, j, e)] = y[Pos(h, s, half, j)]
    <3>1. BringsOut(n, d, c, TRUE, y, s, j, e) BY OutwardsRound
    <3>2. Side(FALSE, TRUE) = 0 BY DEF Side
    <3>3. out[Pin(s, j, e)] = y[Pos(h, s, Xor(e, row[Pos(h, s, 0, j)]), j)]
      BY <3>1, <3>2 DEF BringsOut
    <3> HIDE DEF m, h, row, out
    <3> QED BY <2>3, <3>3
  <2>5. in[Pos(h, s, half, i)] = x[Pin(s, i, Xor(half, row[Pos(h, s, 1, i)]))]
    <3>1. TakesIn(n, d, c, TRUE, x, s, i, half) BY InwardsRound
    <3>2. Side(TRUE, TRUE) = 1 BY DEF Side
    <3> QED BY <3>1, <3>2 DEF TakesIn
  <2> HIDE DEF m, h, row, f, in, out
  <2>6. Pos(h, s, half, j) \in Wires(n) BY <1>1, InnerWire
  <2>7. y[Pos(h, s, half, j)] = in[Pos(h, s, half, i)] BY <1>2, <2>3, <2>6
  <2> QED BY <2>1, <2>3, <2>4, <2>5, <2>7
<1> HIDE DEF f, out
<1>4. Fetched(n, f, x, out) BY <1>3 DEF Fetched
<1> QED BY <1>4 DEF f, out

\* and forwards
LEMMA BringBlock ==
  ASSUME NEW n, NEW d, Splits(n, Size(n, d), Size(n, d + 1)), NEW c, RowFits(n, d, c[d]),
         NEW inner \in Blockwise(n, Size(n, d + 1)), NEW x, NEW y,
         Brought(n, inner, WaksmanRound(n, c, d, TRUE, FALSE, x), y)
  PROVE  Brought(n, BlockSource(n, Size(n, d), c[d], inner), x,
                 WaksmanRound(n, c, d, FALSE, FALSE, y))
<1> DEFINE m == Size(n, d)
           h == Size(n, d + 1)
           row == c[d]
           f == BlockSource(n, m, row, inner)
           in == WaksmanRound(n, c, d, TRUE, FALSE, x)
           out == WaksmanRound(n, c, d, FALSE, FALSE, y)
<1>1. Splits(n, m, h) /\ row \in [Wires(n) -> {0, 1}] /\ inner \in Blockwise(n, h)
  BY DEF RowFits
<1>2. \A v \in Wires(n) : y[inner[v]] = in[v] BY DEF Brought
<1>3. ASSUME NEW v \in Wires(n) PROVE out[f[v]] = x[v]
  <2>1. PICK s \in Starts(n, m), j \in 0 .. h - 1, e \in {0, 1} : v = Pin(s, j, e)
    <3> HIDE DEF m, h
    <3> QED BY <1>1, Outer
  <2>2. \E half \in {0, 1}, i \in 0 .. h - 1 :
          /\ half = Xor(e, row[Pos(h, s, 0, j)])
          /\ inner[Pos(h, s, half, j)] = Pos(h, s, half, i)
          /\ Xor(half, row[Pos(h, s, 1, i)]) \in {0, 1}
          /\ f[Pin(s, j, e)] = Pin(s, i, Xor(half, row[Pos(h, s, 1, i)]))
    <3> HIDE DEF m, h, row
    <3> QED BY <1>1, BlockSourceAt
  <2>3. PICK half \in {0, 1}, i \in 0 .. h - 1 :
          /\ half = Xor(e, row[Pos(h, s, 0, j)])
          /\ inner[Pos(h, s, half, j)] = Pos(h, s, half, i)
          /\ Xor(half, row[Pos(h, s, 1, i)]) \in {0, 1}
          /\ f[Pin(s, j, e)] = Pin(s, i, Xor(half, row[Pos(h, s, 1, i)]))
    <3> HIDE DEF m, h, row, f
    <3> QED BY <2>2
  <2> DEFINE a == row[Pos(h, s, 0, j)]
             b == row[Pos(h, s, 1, i)]
             g == Xor(half, b)
  <2>4. a \in {0, 1} /\ b \in {0, 1}
    <3> HIDE DEF m, h, row
    <3>1. Pos(h, s, 0, j) \in Wires(n) BY <1>1, InnerWire
    <3>2. Pos(h, s, 1, i) \in Wires(n) BY <1>1, InnerWire
    <3> QED BY <1>1, <3>1, <3>2
  <2>5. Xor(half, a) = e /\ Xor(g, b) = half /\ g \in {0, 1}
    <3> HIDE DEF a, b
    <3>1. half = IF e = a THEN 0 ELSE 1
      <4>1. half = Xor(e, a) BY <2>3 DEF a
      <4> QED BY <2>4, <4>1, XorBits
    <3>2. g = IF half = b THEN 0 ELSE 1 BY <2>4, XorBits
    <3>3. g \in {0, 1} BY <3>2
    <3>4. Xor(half, a) = IF half = a THEN 0 ELSE 1 BY <2>4, XorBits
    <3> HIDE DEF g
    <3>5. Xor(g, b) = IF g = b THEN 0 ELSE 1 BY <2>4, <3>3, XorBits
    <3> QED BY <2>4, <3>1, <3>2, <3>3, <3>4, <3>5
  <2>6. out[Pin(s, i, g)] = y[Pos(h, s, half, i)]
    <3> HIDE DEF g
    <3>1. BringsOut(n, d, c, FALSE, y, s, i, g) BY <2>5, OutwardsRound
    <3>2. Side(FALSE, FALSE) = 1 BY DEF Side
    <3>3. out[Pin(s, i, g)] = y[Pos(h, s, Xor(g, row[Pos(h, s, 1, i)]), i)]
      BY <3>1, <3>2 DEF BringsOut
    <3> HIDE DEF m, h, row, out
    <3> QED BY <2>5, <3>3
  <2>7. in[Pos(h, s, half, j)] = x[Pin(s, j, e)]
    <3>1. TakesIn(n, d, c, FALSE, x, s, j, half) BY InwardsRound
    <3>2. Side(TRUE, FALSE) = 0 BY DEF Side
    <3>3. in[Pos(h, s, half, j)] = x[Pin(s, j, Xor(half, row[Pos(h, s, 0, j)]))]
      BY <3>1, <3>2 DEF TakesIn
    <3> HIDE DEF m, h, row, in, g
    <3> QED BY <2>5, <3>3
  <2> HIDE DEF m, h, row, f, in, out
  <2>8. Pos(h, s, half, j) \in Wires(n) BY <1>1, InnerWire
  <2>9. y[Pos(h, s, half, i)] = in[Pos(h, s, half, j)] BY <1>2, <2>3, <2>8
  <2>10. f[v] = Pin(s, i, g) BY <2>1, <2>3
  <2> HIDE DEF g
  <2> QED BY <2>1, <2>6, <2>7, <2>9, <2>10
<1> HIDE DEF f, out
<1>4. Brought(n, f, x, out) BY <1>3 DEF Brought
<1> QED BY <1>4 DEF f, out

\* The last level is one round.
LEMMA PairRound ==
  ASSUME NEW k \in Nat \ {0}, NEW n, n = 2 ^ k, NEW c, RowFits(n, k - 1, c[k - 1]), NEW x
  PROVE  /\ Fetched(n, PairSource(n, c[k - 1]), x, WaksmanRound(n, c, k - 1, TRUE, TRUE, x))
         /\ Brought(n, PairSource(n, c[k - 1]), x, WaksmanRound(n, c, k - 1, TRUE, FALSE, x))
<1> DEFINE d == k - 1
           row == c[d]
           f == PairSource(n, row)
           back == WaksmanRound(n, c, d, TRUE, TRUE, x)
           on == WaksmanRound(n, c, d, TRUE, FALSE, x)
<1>1. d \in 0 .. k - 1 /\ d + 1 = k OBVIOUS
<1>2. Size(n, d) = 2 /\ Size(n, d + 1) = 1 /\ Depth(n) = k
  <2>1. Size(n, k - 1) = 2 /\ Size(n, k) = 1 /\ Depth(n) = k BY SizeIs
  <2> QED BY <1>1, <2>1
<1>3. Splits(n, Size(n, d), Size(n, d + 1))
  <2> HIDE DEF d
  <2> QED BY <1>1, SizeIs
<1>4. Splits(n, 2, 1) BY <1>2, <1>3
<1>5. RowFits(n, d, c[d]) /\ row \in [Wires(n) -> {0, 1}] BY DEF RowFits
<1> HIDE DEF d
<1>6. ASSUME NEW s \in Starts(n, 2)
      PROVE  /\ s \in Nat /\ s \in Wires(n) /\ s + 1 \in Wires(n)
             /\ row[s] \in {0, 1} /\ row[s + 1] = row[s]
  <2>1. s \in Nat /\ s \in Wires(n) /\ s % 2 = 0 BY DEF Starts, Wires
  <2>2. s + 1 \in Wires(n) BY <1>4, PairIs
  <2>3. IsDouble(n, d, s + 1)
    <3>1. (s + 1) % 2 = 1 BY <2>1
    <3> QED BY <1>1, <1>2, <3>1 DEF IsDouble
  <2>4. \A j \in Wires(n) : IsDouble(n, d, j) => row[j] = row[j - 1] BY <1>5 DEF RowFits
  <2> DEFINE v == s + 1
  <2>5. row[v] = row[s]
    <3>1. v - 1 = s BY <2>1
    <3>2. v \in Wires(n) /\ IsDouble(n, d, v) BY <2>2, <2>3
    <3> HIDE DEF v, row
    <3> QED BY <2>4, <3>1, <3>2
  <2> QED BY <1>5, <2>1, <2>2, <2>4, <2>5
<1>7. ASSUME NEW s \in Starts(n, 2), NEW e \in {0, 1}, NEW reverse \in BOOLEAN
      PROVE  WaksmanRound(n, c, d, TRUE, reverse, x)[s + e] = x[s + Xor(e, row[s])]
  <2>1. TakesIn(n, d, c, reverse, x, s, 0, e)
    <3>1. 0 \in 0 .. Size(n, d + 1) - 1 BY <1>2
    <3>2. s \in Starts(n, Size(n, d)) BY <1>2
    <3> QED BY <1>3, <1>5, <3>1, <3>2, InwardsRound
  <2> DEFINE side == Side(TRUE, reverse)
  <2>2. side \in {0, 1} BY DEF Side
  <2>3. WaksmanRound(n, c, d, TRUE, reverse, x)[Pos(1, s, e, 0)]
          = x[Pin(s, 0, Xor(e, row[Pos(1, s, side, 0)]))]
    BY <1>2, <2>1 DEF TakesIn
  <2> HIDE DEF side, row
  <2>4. Pos(1, s, e, 0) = s + e BY <1>4, PairIs
  <2>5. Pos(1, s, side, 0) = s + side BY <1>4, <2>2, PairIs
  <2>6. row[s + side] = row[s]
    <3>1. CASE side = 0
      <4>1. s + 0 = s BY <1>6
      <4> QED BY <3>1, <4>1
    <3>2. CASE side = 1 BY <1>6, <3>2
    <3> QED BY <2>2, <3>1, <3>2
  <2> DEFINE g == Xor(e, row[s])
  <2>7. g \in {0, 1} BY <1>6, XorBits
  <2> HIDE DEF g
  <2>8. Pin(s, 0, g) = s + g BY <1>4, <2>7, PairIs
  <2>9. WaksmanRound(n, c, d, TRUE, reverse, x)[s + e] = x[Pin(s, 0, g)]
    BY <2>3, <2>4, <2>5, <2>6 DEF g
  <2> QED BY <2>8, <2>9 DEF g
<1>8. \A s \in Starts(n, 2), e \in {0, 1} : f[s + e] = s + Xor(e, row[s]) /\ Xor(e, row[s]) \in {0, 1}
  <2>1. row \in [Wires(n) -> {0, 1}] BY <1>5
  <2> HIDE DEF row
  <2>2. PairTakes(n, row) BY <1>4, <2>1, PairSourceIs
  <2> QED BY <2>2 DEF PairTakes
<1>9. ASSUME NEW v \in Wires(n) PROVE back[v] = x[f[v]] /\ on[f[v]] = x[v]
  <2>1. PICK s \in Starts(n, 2), e \in {0, 1} : v = Pin(s, 0, e) /\ Start(2, v) = s
    BY <1>4, Pairs
  <2>2. v = s + e BY <1>4, <2>1, PairIs
  <2> DEFINE g == Xor(e, row[s])
  <2>3. g \in {0, 1} /\ f[v] = s + g BY <1>8, <2>2
  <2>4. back[v] = x[s + g] BY <1>7, <2>2
  <2>5. \A t \in {0, 1} : on[s + t] = x[s + Xor(t, row[s])] BY <1>7
  <2>6. Xor(g, row[s]) = e
    <3> DEFINE b == row[s]
    <3>1. b \in {0, 1} BY <1>6
    <3> HIDE DEF b
    <3>2. g = IF e = b THEN 0 ELSE 1
      <4>1. Xor(e, b) = IF e = b THEN 0 ELSE 1 BY <3>1, XorBits
      <4> QED BY <4>1 DEF b
    <3> HIDE DEF g
    <3>3. Xor(g, b) = IF g = b THEN 0 ELSE 1 BY <2>3, <3>1, XorBits
    <3>4. Xor(g, b) = e BY <3>1, <3>2, <3>3
    <3> QED BY <3>4 DEF b
  <2> HIDE DEF g, f, back, on
  <2>7. on[s + g] = x[s + Xor(g, row[s])] BY <2>3, <2>5
  <2>8. on[s + g] = x[s + e] BY <2>6, <2>7
  <2> QED BY <2>2, <2>3, <2>4, <2>8
<1> HIDE DEF f, back, on
<1>10. Fetched(n, f, x, back) /\ Brought(n, f, x, on) BY <1>9 DEF Fetched, Brought
<1> QED BY <1>10 DEF f, back, on, d, row


\* In reverse every wire takes what went in at its source.
LEMMA ReverseRun ==
  ASSUME NEW k \in Nat \ {0}, NEW n, n = 2 ^ k, NEW c, NEW fr, Levels(n, k, 0, c, fr),
         NEW x, NEW X, NEW Y, Passes(n, k, c, TRUE, x, X, Y)
  PROVE  Fetched(n, fr[0], x, Y[0])
<1> DEFINE last == k - 1
           S == {d \in 0 .. last : Fetched(n, fr[d], X[d], Y[d])}
<1>0. last \in Nat /\ last \in 0 .. last /\ 0 \in 0 .. last OBVIOUS
<1>1. last \in S
  <2>1. RowFits(n, k - 1, c[k - 1]) BY <1>0 DEF Levels
  <2>2. fr[k - 1] = PairSource(n, c[k - 1]) BY DEF Levels
  <2>3. Y[k - 1] = WaksmanRound(n, c, k - 1, TRUE, TRUE, X[k - 1]) BY DEF Passes
  <2>4. Fetched(n, PairSource(n, c[k - 1]), X[k - 1],
                WaksmanRound(n, c, k - 1, TRUE, TRUE, X[k - 1]))
    BY <2>1, PairRound
  <2> QED BY <1>0, <2>2, <2>3, <2>4
<1>2. \A d \in 0 .. last - 1 : d + 1 \in S => d \in S
  <2> SUFFICES ASSUME NEW d \in 0 .. last - 1, d + 1 \in S PROVE d \in S
    OBVIOUS
  <2>0. /\ d \in 0 .. k - 1 /\ d \in 0 .. k - 2 /\ d \in 0 .. last /\ d + 1 \in 0 .. k - 1
    BY <1>0
  <2>1. Splits(n, Size(n, d), Size(n, d + 1)) BY <2>0, SizeIs
  <2>2. RowFits(n, d, c[d]) /\ fr[d + 1] \in Blockwise(n, Size(n, d + 1)) BY <2>0 DEF Levels
  <2>3. fr[d] = BlockSource(n, Size(n, d), c[d], fr[d + 1]) BY <2>0 DEF Levels
  <2>4. /\ X[d + 1] = WaksmanRound(n, c, d, TRUE, TRUE, X[d])
        /\ Y[d] = WaksmanRound(n, c, d, FALSE, TRUE, Y[d + 1])
    BY <2>0 DEF Passes
  <2>5. Fetched(n, fr[d + 1], X[d + 1], Y[d + 1]) OBVIOUS
  <2>6. Fetched(n, fr[d + 1], WaksmanRound(n, c, d, TRUE, TRUE, X[d]), Y[d + 1])
    BY <2>4, <2>5
  <2>7. Fetched(n, BlockSource(n, Size(n, d), c[d], fr[d + 1]), X[d],
                WaksmanRound(n, c, d, FALSE, TRUE, Y[d + 1]))
    BY <2>1, <2>2, <2>6, FetchBlock
  <2>8. Fetched(n, fr[d], X[d], Y[d]) BY <2>3, <2>4, <2>7
  <2> QED BY <2>0, <2>8
<1>3. \A d \in 0 .. last : d \in S
  <2> HIDE DEF S, last
  <2> QED BY <1>0, <1>1, <1>2, DownInduction
<1>4. Fetched(n, fr[0], X[0], Y[0]) BY <1>0, <1>3
<1> QED BY <1>4 DEF Passes

\* Forwards it is brought there.
LEMMA ForwardRun ==
  ASSUME NEW k \in Nat \ {0}, NEW n, n = 2 ^ k, NEW c, NEW fr, Levels(n, k, 0, c, fr),
         NEW x, NEW X, NEW Y, Passes(n, k, c, FALSE, x, X, Y)
  PROVE  Brought(n, fr[0], x, Y[0])
<1> DEFINE last == k - 1
           S == {d \in 0 .. last : Brought(n, fr[d], X[d], Y[d])}
<1>0. last \in Nat /\ last \in 0 .. last /\ 0 \in 0 .. last OBVIOUS
<1>1. last \in S
  <2>1. RowFits(n, k - 1, c[k - 1]) BY <1>0 DEF Levels
  <2>2. fr[k - 1] = PairSource(n, c[k - 1]) BY DEF Levels
  <2>3. Y[k - 1] = WaksmanRound(n, c, k - 1, TRUE, FALSE, X[k - 1]) BY DEF Passes
  <2>4. Brought(n, PairSource(n, c[k - 1]), X[k - 1],
                WaksmanRound(n, c, k - 1, TRUE, FALSE, X[k - 1]))
    BY <2>1, PairRound
  <2> QED BY <1>0, <2>2, <2>3, <2>4
<1>2. \A d \in 0 .. last - 1 : d + 1 \in S => d \in S
  <2> SUFFICES ASSUME NEW d \in 0 .. last - 1, d + 1 \in S PROVE d \in S
    OBVIOUS
  <2>0. /\ d \in 0 .. k - 1 /\ d \in 0 .. k - 2 /\ d \in 0 .. last /\ d + 1 \in 0 .. k - 1
    BY <1>0
  <2>1. Splits(n, Size(n, d), Size(n, d + 1)) BY <2>0, SizeIs
  <2>2. RowFits(n, d, c[d]) /\ fr[d + 1] \in Blockwise(n, Size(n, d + 1)) BY <2>0 DEF Levels
  <2>3. fr[d] = BlockSource(n, Size(n, d), c[d], fr[d + 1]) BY <2>0 DEF Levels
  <2>4. /\ X[d + 1] = WaksmanRound(n, c, d, TRUE, FALSE, X[d])
        /\ Y[d] = WaksmanRound(n, c, d, FALSE, FALSE, Y[d + 1])
    BY <2>0 DEF Passes
  <2>5. Brought(n, fr[d + 1], X[d + 1], Y[d + 1]) OBVIOUS
  <2>6. Brought(n, fr[d + 1], WaksmanRound(n, c, d, TRUE, FALSE, X[d]), Y[d + 1])
    BY <2>4, <2>5
  <2>7. Brought(n, BlockSource(n, Size(n, d), c[d], fr[d + 1]), X[d],
                WaksmanRound(n, c, d, FALSE, FALSE, Y[d + 1]))
    BY <2>1, <2>2, <2>6, BringBlock
  <2>8. Brought(n, fr[d], X[d], Y[d]) BY <2>3, <2>4, <2>7
  <2> QED BY <2>0, <2>8
<1>3. \A d \in 0 .. last : d \in S
  <2> HIDE DEF S, last
  <2> QED BY <1>0, <1>1, <1>2, DownInduction
<1>4. Brought(n, fr[0], X[0], Y[0]) BY <1>0, <1>3
<1> QED BY <1>4 DEF Passes

\* The network as it is run, round by round, does what its configuration says: in
\* reverse it takes output w from input Source[w], and forwards it undoes that.
THEOREM NetworkCorrect ==
  ASSUME NEW k \in Nat, NEW n, n = 2 ^ k, NEW c \in Configs(n), NEW V, NEW x \in [Wires(n) -> V]
  PROVE  /\ Source(n, c) \in [Wires(n) -> Wires(n)]
         /\ IterWaksman(n, c, TRUE, x) \in [Wires(n) -> V]
         /\ IterWaksman(n, c, FALSE, x) \in [Wires(n) -> V]
         /\ Fetched(n, Source(n, c), x, IterWaksman(n, c, TRUE, x))
         /\ Brought(n, Source(n, c), x, IterWaksman(n, c, FALSE, x))
<1>1. CASE k = 0
  <2>1. n = 1 BY <1>1, PowerOfTwo
  <2>2. Wires(n) = {0} /\ 0 .. 0 = {0} BY <2>1 DEF Wires
  <2>3. Source(n, c) = [w \in 0 .. 0 |-> 0] BY <2>1 DEF Source
  <2>4. IterWaksman(n, c, TRUE, x) = x /\ IterWaksman(n, c, FALSE, x) = x
    BY <2>1 DEF IterWaksman
  <2>5. Source(n, c) \in [Wires(n) -> Wires(n)] /\ \A w \in Wires(n) : Source(n, c)[w] = w
    BY <2>2, <2>3
  <2> QED BY <2>4, <2>5 DEF Fetched, Brought
<1>2. CASE k # 0
  <2>0. k \in Nat \ {0} BY <1>2
  <2>1. PICK fr : Levels(n, k, 0, c, fr) BY <2>0, ConfigLevels
  <2>2. Source(n, c) = fr[0] BY <2>0, <2>1, SourceIs
  <2>3. RowsFit(n, k, c) BY <2>1 DEF Levels, RowsFit
  <2>4. fr[0] \in [Wires(n) -> Wires(n)]
    <3>1. 0 \in 0 .. k - 1 BY <2>0
    <3> QED BY <2>1, <3>1 DEF Levels, Blockwise
  <2>5. /\ IterWaksman(n, c, TRUE, x) \in [Wires(n) -> V]
        /\ \E X, Y : Passes(n, k, c, TRUE, x, X, Y) /\ IterWaksman(n, c, TRUE, x) = Y[0]
    <3>1. \A r \in BOOLEAN : RunIs(n, k, c, r, x, V) BY <2>0, <2>3, IterPasses
    <3>2. RunIs(n, k, c, TRUE, x, V) BY <3>1
    <3> QED BY <3>2 DEF RunIs
  <2>6. /\ IterWaksman(n, c, FALSE, x) \in [Wires(n) -> V]
        /\ \E X, Y : Passes(n, k, c, FALSE, x, X, Y) /\ IterWaksman(n, c, FALSE, x) = Y[0]
    <3>1. \A r \in BOOLEAN : RunIs(n, k, c, r, x, V) BY <2>0, <2>3, IterPasses
    <3>2. RunIs(n, k, c, FALSE, x, V) BY <3>1
    <3> QED BY <3>2 DEF RunIs
  <2>7. Fetched(n, fr[0], x, IterWaksman(n, c, TRUE, x))
    <3>1. PICK X, Y : Passes(n, k, c, TRUE, x, X, Y) /\ IterWaksman(n, c, TRUE, x) = Y[0]
      BY <2>5
    <3>2. Fetched(n, fr[0], x, Y[0]) BY <2>0, <2>1, <3>1, ReverseRun
    <3> QED BY <3>1, <3>2
  <2>8. Brought(n, fr[0], x, IterWaksman(n, c, FALSE, x))
    <3>1. PICK X, Y : Passes(n, k, c, FALSE, x, X, Y) /\ IterWaksman(n, c, FALSE, x) = Y[0]
      BY <2>6
    <3>2. Brought(n, fr[0], x, Y[0]) BY <2>0, <2>1, <3>1, ForwardRun
    <3> QED BY <3>1, <3>2
  <2> QED BY <2>2, <2>4, <2>5, <2>6, <2>7, <2>8
<1> QED BY <1>1, <1>2

-----------------------------------------------------------------------------
(* Permutations of units.                                                  *)

\* The permutations of the wires that n units need which leave the padding alone
UnitPerms(n) ==
  {p \in [Wires(Pow2(n)) -> Wires(Pow2(n))] :
     /\ \E q : Bijective(Pow2(n), p, q)
     /\ \A v \in n .. Pow2(n) - 1 : p[v] = v}

Swap(p, a, b) == [p EXCEPT ![a] = p[b], ![b] = p[a]]

LEMMA UnitWires ==
  ASSUME NEW n \in Nat \ {0}
  PROVE  /\ Pow2(n) \in Nat \ {0} /\ n <= Pow2(n) /\ \E k \in Nat : Pow2(n) = 2 ^ k
         /\ \A v \in 0 .. n - 1 : v \in Wires(Pow2(n))
         /\ \A v \in n .. Pow2(n) - 1 : v \in Wires(Pow2(n))
         /\ \A v \in Wires(Pow2(n)) : v \in 0 .. n - 1 \/ v \in n .. Pow2(n) - 1
<1>1. Pow2(n) \in n .. 2 * n - 1 /\ \E k \in Nat : Pow2(n) = 2 ^ k BY Pow2Is
<1>2. Pow2(n) \in Nat \ {0} /\ n <= Pow2(n) BY <1>1
<1> QED BY <1>1, <1>2 DEF Wires

\* Units are among the units.
LEMMA UnitPlace ==
  ASSUME NEW n \in Nat \ {0}, NEW p \in UnitPerms(n)
  PROVE  /\ \A u, v \in Wires(Pow2(n)) : p[u] = p[v] => u = v
         /\ \A v \in 0 .. n - 1 : p[v] \in 0 .. n - 1
         /\ \A x \in 0 .. n - 1 : \E v \in 0 .. n - 1 : p[v] = x
<1> DEFINE W == Wires(Pow2(n))
<1>1. /\ \A v \in 0 .. n - 1 : v \in W
      /\ \A v \in W : v \in 0 .. n - 1 \/ v \in n .. Pow2(n) - 1
      /\ \A v \in n .. Pow2(n) - 1 : v \in W /\ v \notin 0 .. n - 1
  <2>1. \A v \in n .. Pow2(n) - 1 : v \notin 0 .. n - 1 BY UnitWires
  <2> QED BY <2>1, UnitWires
<1>2. p \in [W -> W] /\ \A v \in n .. Pow2(n) - 1 : p[v] = v BY DEF UnitPerms
<1>3. PICK q : q \in [W -> W] /\ \A v \in W : q[p[v]] = v /\ p[q[v]] = v
  BY DEF UnitPerms, Bijective, Inverses
<1> HIDE DEF W
<1>4. \A u, v \in W : p[u] = p[v] => u = v
  <2> SUFFICES ASSUME NEW u \in W, NEW v \in W, p[u] = p[v] PROVE u = v
    OBVIOUS
  <2>1. q[p[u]] = u /\ q[p[v]] = v BY <1>3
  <2> QED BY <2>1
<1>5. ASSUME NEW v \in 0 .. n - 1 PROVE p[v] \in 0 .. n - 1
  <2>1. v \in W /\ p[v] \in W BY <1>1, <1>2
  <2>2. CASE p[v] \in n .. Pow2(n) - 1
    <3>1. p[p[v]] = p[v] BY <1>2, <2>2
    <3>2. p[v] = v BY <1>4, <2>1, <3>1
    <3> QED BY <1>1, <2>2, <3>2
  <2> QED BY <1>1, <2>1, <2>2
<1>6. ASSUME NEW x \in 0 .. n - 1 PROVE \E v \in 0 .. n - 1 : p[v] = x
  <2>1. x \in W /\ q[x] \in W /\ p[q[x]] = x BY <1>1, <1>3
  <2>2. CASE q[x] \in n .. Pow2(n) - 1
    <3>1. p[q[x]] = q[x] BY <1>2, <2>2
    <3> QED BY <1>1, <2>1, <2>2, <3>1
  <2> QED BY <1>1, <2>1, <2>2
<1> QED BY <1>4, <1>5, <1>6 DEF W

\* Two units change places.
LEMMA SwapIsPerm ==
  ASSUME NEW n \in Nat \ {0}, NEW p \in UnitPerms(n), NEW a \in 0 .. n - 1, NEW b \in 0 .. n - 1
  PROVE  /\ Swap(p, a, b) \in UnitPerms(n)
         /\ Swap(p, a, b)[a] = p[b]
         /\ \A v \in Wires(Pow2(n)) : v # a /\ v # b => Swap(p, a, b)[v] = p[v]
<1> DEFINE W == Wires(Pow2(n))
           f == Swap(p, a, b)
<1>1. a \in W /\ b \in W /\ \A v \in n .. Pow2(n) - 1 : v \in W /\ v # a /\ v # b
  BY UnitWires
<1>2. p \in [W -> W] /\ \A v \in n .. Pow2(n) - 1 : p[v] = v BY DEF UnitPerms
<1>3. PICK q : q \in [W -> W] /\ \A v \in W : q[p[v]] = v /\ p[q[v]] = v
  BY DEF UnitPerms, Bijective, Inverses
<1> HIDE DEF W
<1>4. /\ f \in [W -> W] /\ f[a] = p[b] /\ f[b] = p[a]
      /\ \A v \in W : v # a /\ v # b => f[v] = p[v]
  BY <1>1, <1>2 DEF Swap
<1> DEFINE Turn(v) == IF v = a THEN b ELSE IF v = b THEN a ELSE v
           g == [x \in W |-> Turn(q[x])]
<1>5. \A v \in W : Turn(v) \in W /\ Turn(Turn(v)) = v /\ f[v] = p[Turn(v)]
  BY <1>1, <1>4
<1> HIDE DEF Turn, f
<1>6. g \in [W -> W] BY <1>3, <1>5
<1>7. ASSUME NEW v \in W PROVE g[f[v]] = v /\ f[g[v]] = v
  <2>1. f[v] = p[Turn(v)] /\ f[v] \in W /\ Turn(v) \in W BY <1>4, <1>5
  <2>2. q[f[v]] = Turn(v) BY <1>3, <2>1
  <2>3. g[f[v]] = v BY <1>5, <2>1, <2>2
  <2>4. g[v] = Turn(q[v]) /\ q[v] \in W /\ p[q[v]] = v BY <1>3
  <2>5. Turn(q[v]) \in W /\ Turn(Turn(q[v])) = q[v] BY <1>5, <2>4
  <2>6. f[Turn(q[v])] = p[q[v]] BY <1>5, <2>5
  <2> QED BY <2>3, <2>4, <2>6
<1> HIDE DEF g
<1>8. \A v \in n .. Pow2(n) - 1 : f[v] = v BY <1>1, <1>2, <1>4
<1>9. f \in UnitPerms(n)
  <2>1. Bijective(Pow2(n), f, g) BY <1>4, <1>6, <1>7 DEF W, Bijective, Inverses
  <2> QED BY <1>4, <1>8, <2>1 DEF UnitPerms, W
<1> QED BY <1>4, <1>9 DEF f, W

LEMMA UnitsPerm ==
  ASSUME NEW n \in Nat \ {0}
  PROVE  Units(Pow2(n)) \in UnitPerms(n)
<1> DEFINE W == Wires(Pow2(n))
           p == Units(Pow2(n))
<1>1. p \in [W -> W] /\ \A v \in W : p[v] = v BY DEF Units, Wires
<1>2. \A v \in n .. Pow2(n) - 1 : v \in W BY UnitWires
<1> HIDE DEF W, p
<1>3. Bijective(Pow2(n), p, p) BY <1>1 DEF Bijective, Inverses, W
<1>4. p \in UnitPerms(n) BY <1>1, <1>2, <1>3 DEF UnitPerms, W
<1> QED BY <1>4 DEF p

\* generate_random_permutation, swap by swap
Swaps(n, js, g) ==
  /\ g[0] = Units(Pow2(n))
  /\ \A i \in 1 .. n : g[i] = Swap(g[i - 1], i - 1, i - 1 + js[i - 1])

LEMMA RandomIs ==
  ASSUME NEW n \in Nat \ {0}, NEW js, NEW g, Swaps(n, js, g)
  PROVE  RandomPermutation(n, js) = g[n]
<1> DEFINE Body(s, i) == IF i = 0 THEN Units(Pow2(n))
                         ELSE Swap(s[i - 1], i - 1, i - 1 + js[i - 1])
           h == [i \in 0 .. n |-> g[i]]
           swapped == CHOOSE s : s = [i \in 0 .. n |-> Body(s, i)]
<1>1. RandomPermutation(n, js) = swapped[n]
  BY DEF RandomPermutation, ShuffleSize, Swap
<1>2. ASSUME NEW i \in 0 .. n PROVE h[i] = Body(h, i)
  <2>1. CASE i = 0 BY <2>1 DEF Swaps
  <2>2. CASE i # 0
    <3>1. i \in 1 .. n /\ i - 1 \in 0 .. n BY <2>2
    <3>2. h[i - 1] = g[i - 1] BY <3>1
    <3>3. g[i] = Swap(g[i - 1], i - 1, i - 1 + js[i - 1]) BY <3>1 DEF Swaps
    <3>4. h[i] = g[i] OBVIOUS
    <3> HIDE DEF h
    <3> QED BY <2>2, <3>2, <3>3, <3>4
  <2> QED BY <2>1, <2>2
<1>3. h = [i \in 0 .. n |-> Body(h, i)]
  <2>1. h = [i \in 0 .. n |-> h[i]] OBVIOUS
  <2> HIDE DEF h, Body
  <2> QED BY <1>2, <2>1
<1>4. swapped = [i \in 0 .. n |-> Body(swapped, i)]
  <2> HIDE DEF h, Body
  <2> QED BY <1>3
<1> DEFINE S == {i \in 0 .. n : swapped[i] = h[i]}
<1> HIDE DEF h, swapped
<1>5. 0 \in S
  <2>1. 0 \in 0 .. n OBVIOUS
  <2>2. swapped[0] = Body(swapped, 0) /\ h[0] = Body(h, 0)
    <3> HIDE DEF Body
    <3> QED BY <1>3, <1>4, <2>1
  <2> QED BY <2>1, <2>2
<1>6. \A i \in 1 .. n : i - 1 \in S => i \in S
  <2> SUFFICES ASSUME NEW i \in 1 .. n, i - 1 \in S PROVE i \in S
    OBVIOUS
  <2>1. i \in 0 .. n /\ i # 0 OBVIOUS
  <2>2. swapped[i] = Body(swapped, i) /\ h[i] = Body(h, i)
    <3> HIDE DEF Body
    <3> QED BY <1>3, <1>4, <2>1
  <2> QED BY <2>1, <2>2
<1>7. \A i \in 0 .. n : i \in S
  <2> HIDE DEF S
  <2> QED BY <1>5, <1>6, IntervalInduction
<1>8. swapped[n] = h[n] /\ n \in 0 .. n BY <1>7
<1>9. h[n] = g[n] BY <1>8 DEF h
<1> QED BY <1>1, <1>8, <1>9

\* What is made at random is a permutation of the units.
LEMMA PermsType ==
  ASSUME NEW n \in Nat \ {0}, NEW js \in Randoms(n)
  PROVE  RandomPermutation(n, js) \in UnitPerms(n)
<1> DEFINE T == UnitPerms(n)
           step == [i \in 1 .. n |-> [p \in T |-> Swap(p, i - 1, i - 1 + js[i - 1])]]
<1>1. \A i \in 1 .. n : i - 1 \in 0 .. n - 1 /\ i - 1 + js[i - 1] \in 0 .. n - 1
  <2> TAKE i \in 1 .. n
  <2> DEFINE j == i - 1
  <2>1. j \in 0 .. n - 1 OBVIOUS
  <2> HIDE DEF j
  <2>2. js[j] \in 0 .. n - 1 /\ js[j] < n - j BY <2>1 DEF Randoms, ShuffleSize
  <2>3. j + js[j] \in 0 .. n - 1 BY <2>1, <2>2
  <2> QED BY <2>1, <2>3 DEF j
<1>2. step \in Steps(n, T)
  <2>1. \A i \in 1 .. n, p \in T : Swap(p, i - 1, i - 1 + js[i - 1]) \in T
    BY <1>1, SwapIsPerm
  <2> QED BY <2>1 DEF Steps
<1>3. PICK g \in [0 .. n -> T] :
        g[0] = Units(Pow2(n)) /\ \A i \in 1 .. n : g[i] = step[i][g[i - 1]]
  <2> HIDE DEF step, T
  <2>1. Units(Pow2(n)) \in T BY UnitsPerm DEF T
  <2>2. n \in Nat OBVIOUS
  <2>3. \E g : g \in Runs(n, T, Units(Pow2(n)), step) BY <1>2, <2>1, <2>2, Recursion, Zenon
  <2> QED BY <2>3 DEF Runs
<1>4. \A i \in 1 .. n : g[i] = Swap(g[i - 1], i - 1, i - 1 + js[i - 1])
  <2> TAKE i \in 1 .. n
  <2>1. i - 1 \in 0 .. n OBVIOUS
  <2>2. g[i - 1] \in T BY <2>1
  <2> QED BY <1>3, <2>2
<1>5. RandomPermutation(n, js) = g[n] BY <1>3, <1>4, RandomIs DEF Swaps
<1> QED BY <1>5

\* Every permutation of the units can be made.
LEMMA PermsAll ==
  ASSUME NEW n \in Nat \ {0}, NEW p \in UnitPerms(n)
  PROVE  \E js \in Randoms(n) : RandomPermutation(n, js) = p
<1> DEFINE T == UnitPerms(n)
           At(f, x) == CHOOSE k \in 0 .. n - 1 : f[k] = x
           step == [i \in 1 .. n |-> [f \in T |-> Swap(f, i - 1, At(f, p[i - 1]))]]
<1>1. \A v \in 0 .. n - 1 : p[v] \in 0 .. n - 1 BY UnitPlace
<1>2. ASSUME NEW f \in T, NEW x \in 0 .. n - 1 PROVE At(f, x) \in 0 .. n - 1 /\ f[At(f, x)] = x
  <2>1. \E v \in 0 .. n - 1 : f[v] = x BY UnitPlace
  <2> QED BY <2>1
<1> HIDE DEF At
<1>3. step \in Steps(n, T)
  <2>1. ASSUME NEW i \in 1 .. n, NEW f \in T PROVE Swap(f, i - 1, At(f, p[i - 1])) \in T
    <3>1. i - 1 \in 0 .. n - 1 OBVIOUS
    <3>2. At(f, p[i - 1]) \in 0 .. n - 1 BY <1>1, <1>2, <3>1
    <3> QED BY <3>1, <3>2, SwapIsPerm
  <2> QED BY <2>1 DEF Steps
<1>4. PICK g \in [0 .. n -> T] :
        g[0] = Units(Pow2(n)) /\ \A i \in 1 .. n : g[i] = step[i][g[i - 1]]
  <2> HIDE DEF step, T
  <2>1. Units(Pow2(n)) \in T BY UnitsPerm DEF T
  <2>2. n \in Nat OBVIOUS
  <2>3. \E g : g \in Runs(n, T, Units(Pow2(n)), step) BY <1>3, <2>1, <2>2, Recursion, Zenon
  <2> QED BY <2>3 DEF Runs
<1>5. \A i \in 1 .. n : g[i - 1] \in T /\ g[i] = Swap(g[i - 1], i - 1, At(g[i - 1], p[i - 1]))
  <2> TAKE i \in 1 .. n
  <2>1. i - 1 \in 0 .. n OBVIOUS
  <2>2. g[i - 1] \in T BY <2>1
  <2> QED BY <1>4, <2>2
<1> HIDE DEF step, T
<1> DEFINE S == {i \in 0 .. n : \A v \in 0 .. i - 1 : g[i][v] = p[v]}
<1>6. ASSUME NEW i \in 1 .. n, i - 1 \in S
      PROVE  /\ At(g[i - 1], p[i - 1]) \in i - 1 .. n - 1
             /\ i \in S
  <2> DEFINE f == g[i - 1]
             a == i - 1
             k == At(f, p[a])
  <2>1. f \in T /\ a \in 0 .. n - 1 /\ g[i] = Swap(f, a, k) BY <1>5
  <2>2. \A v \in 0 .. a - 1 : f[v] = p[v] BY <1>6
  <2> HIDE DEF f
  <2>3. k \in 0 .. n - 1 /\ f[k] = p[a] BY <1>1, <1>2, <2>1
  <2>4. i = a + 1 /\ a \in Nat OBVIOUS
  <2> HIDE DEF k, a
  <2>5. k >= a
    <3>1. ASSUME k < a PROVE FALSE
      <4>1. k \in 0 .. a - 1 BY <2>3, <2>4, <3>1
      <4>2. p[k] = p[a] BY <2>2, <2>3, <4>1
      <4>3. k \in Wires(Pow2(n)) /\ a \in Wires(Pow2(n)) BY <2>1, <2>3, UnitWires
      <4>4. k = a BY <4>2, <4>3, UnitPlace
      <4> QED BY <2>4, <3>1, <4>4
    <3> QED BY <2>3, <2>4, <3>1
  <2>6. /\ Swap(f, a, k)[a] = f[k]
        /\ \A v \in Wires(Pow2(n)) : v # a /\ v # k => Swap(f, a, k)[v] = f[v]
    BY <2>1, <2>3, SwapIsPerm DEF T
  <2>7. ASSUME NEW v \in 0 .. i - 1 PROVE g[i][v] = p[v]
    <3>1. CASE v = a BY <2>1, <2>3, <2>6, <3>1
    <3>2. CASE v # a
      <4>1. v \in 0 .. a - 1 /\ v # k /\ v \in 0 .. n - 1 BY <2>1, <2>3, <2>4, <2>5, <3>2
      <4>2. v \in Wires(Pow2(n)) BY <4>1, UnitWires
      <4> QED BY <2>1, <2>2, <2>6, <3>2, <4>1, <4>2
    <3> QED BY <3>1, <3>2
  <2>8. k \in a .. n - 1 BY <2>3, <2>4, <2>5
  <2> QED BY <2>7, <2>8 DEF k, f, a
<1>7. 0 \in S OBVIOUS
<1>8. \A i \in 0 .. n : i \in S
  <2> HIDE DEF S
  <2> QED BY <1>6, <1>7, IntervalInduction
<1> DEFINE js == [j \in 0 .. n - 1 |-> At(g[j], p[j]) - j]
<1>9. ASSUME NEW j \in 0 .. n - 1
      PROVE  js[j] \in 0 .. n - 1 /\ js[j] < n - j /\ j + js[j] = At(g[j], p[j])
  <2> DEFINE i == j + 1
             k == At(g[j], p[j])
  <2>1. i \in 1 .. n /\ i - 1 = j /\ i - 1 \in 0 .. n OBVIOUS
  <2>2. i - 1 \in S BY <1>8, <2>1
  <2> HIDE DEF i, S
  <2>3. At(g[i - 1], p[i - 1]) \in i - 1 .. n - 1 BY <1>6, <2>1, <2>2
  <2>4. k \in j .. n - 1 BY <2>1, <2>3
  <2> HIDE DEF k
  <2>5. k - j \in 0 .. n - 1 /\ k - j < n - j /\ j + (k - j) = k BY <2>4
  <2>6. js[j] = k - j BY DEF k
  <2> QED BY <2>5, <2>6 DEF k
<1>10. js \in Randoms(n)
  <2>1. js = [j \in 0 .. n - 1 |-> js[j]] OBVIOUS
  <2> HIDE DEF js
  <2>2. js \in [0 .. n - 1 -> 0 .. n - 1] BY <1>9, <2>1
  <2> QED BY <1>9, <2>2 DEF Randoms, ShuffleSize
<1> HIDE DEF js
<1>11. Swaps(n, js, g)
  <2>1. ASSUME NEW i \in 1 .. n PROVE g[i] = Swap(g[i - 1], i - 1, i - 1 + js[i - 1])
    <3> DEFINE j == i - 1
    <3>1. j \in 0 .. n - 1 OBVIOUS
    <3>2. g[i] = Swap(g[j], j, At(g[j], p[j])) BY <1>5
    <3> HIDE DEF j
    <3>3. j + js[j] = At(g[j], p[j]) BY <1>9, <3>1
    <3>4. g[i] = Swap(g[j], j, j + js[j]) BY <3>2, <3>3
    <3> QED BY <3>4 DEF j
  <2> QED BY <1>4, <2>1 DEF Swaps
<1>12. RandomPermutation(n, js) = g[n] BY <1>11, RandomIs
<1>13. g[n] = p
  <2>1. n \in 0 .. n OBVIOUS
  <2>2. g[n] \in UnitPerms(n) BY <2>1 DEF T
  <2>3. \A v \in 0 .. n - 1 : g[n][v] = p[v] BY <1>8, <2>1
  <2>4. /\ g[n] \in [Wires(Pow2(n)) -> Wires(Pow2(n))] /\ p \in [Wires(Pow2(n)) -> Wires(Pow2(n))]
        /\ \A v \in n .. Pow2(n) - 1 : g[n][v] = v /\ p[v] = v
    BY <2>2 DEF UnitPerms
  <2>5. \A v \in Wires(Pow2(n)) : v \in 0 .. n - 1 \/ v \in n .. Pow2(n) - 1 BY UnitWires
  <2>6. \A v \in Wires(Pow2(n)) : g[n][v] = p[v] BY <2>3, <2>4, <2>5
  <2> QED BY <2>4, <2>6
<1> QED BY <1>10, <1>12, <1>13

\* generate_random_permutation can make all permutations of the units, and only these.
THEOREM RandomPermutations ==
  ASSUME NEW n \in Nat \ {0}
  PROVE  Perms(n) = UnitPerms(n)
<1>1. ASSUME NEW p \in Perms(n) PROVE p \in UnitPerms(n)
  <2>1. PICK js \in Randoms(n) : p = RandomPermutation(n, js) BY DEF Perms
  <2> QED BY <2>1, PermsType
<1>2. ASSUME NEW p \in UnitPerms(n) PROVE p \in Perms(n)
  <2>1. PICK js \in Randoms(n) : RandomPermutation(n, js) = p BY PermsAll
  <2> QED BY <2>1 DEF Perms
<1> QED BY <1>1, <1>2

-----------------------------------------------------------------------------
(* What a network makes of units.                                          *)

\* c is a configuration for the permutation p of n units.
Configured(n, c, p) ==
  p \in UnitPerms(n) /\ c \in Configs(Pow2(n)) /\ Source(Pow2(n), c) = p

\* Every permutation that is drawn has its configuration.
LEMMA ConfigOfIs ==
  ASSUME NEW n \in Sizes, NEW perm \in Perms(n)
  PROVE  n \in Nat \ {0} /\ Configured(n, ConfigOf[n][perm], perm)
<1>1. n \in Nat \ {0} BY ConstantsAssumption
<1>2. perm \in UnitPerms(n) BY <1>1, RandomPermutations
<1>3. PICK q : Bijective(Pow2(n), perm, q) BY <1>2 DEF UnitPerms
<1>4. PICK k \in Nat : Pow2(n) = 2 ^ k BY <1>1, Pow2Is
<1>5. \E c \in Configs(Pow2(n)) : Source(Pow2(n), c) = perm
  <2> DEFINE N == Pow2(n)
  <2>1. N = 2 ^ k /\ Bijective(N, perm, q) BY <1>3, <1>4
  <2> HIDE DEF N
  <2>2. \E c \in Configs(N) : Source(N, c) = perm BY <2>1, ConfigExists
  <2> QED BY <2>2 DEF N
<1>6. ConfigOf[n][perm] = Configure(Pow2(n), perm) BY DEF ConfigOf
<1>7. /\ Configure(Pow2(n), perm) \in Configs(Pow2(n))
      /\ Source(Pow2(n), Configure(Pow2(n), perm)) = perm
  BY <1>5 DEF Configure
<1> QED BY <1>1, <1>2, <1>6, <1>7 DEF Configured

\* Vectors of n units of U, and the unit-wise work of a network: backwards it takes unit
\* v from place p[v], and forwards it gives unit v to place p[v].
Vectors(n, U) == [0 .. n - 1 -> U]

Take(n, a, p) == [v \in 0 .. n - 1 |-> a[p[v]]]

Give(n, a, p) == [v \in 0 .. n - 1 |-> a[CHOOSE u \in 0 .. n - 1 : p[u] = v]]

LEMMA GiveIs ==
  ASSUME NEW n \in Nat \ {0}, NEW p \in UnitPerms(n), NEW U, NEW a \in Vectors(n, U)
  PROVE  /\ Give(n, a, p) \in Vectors(n, U) /\ Take(n, a, p) \in Vectors(n, U)
         /\ \A v \in 0 .. n - 1 : p[v] \in 0 .. n - 1 /\ Give(n, a, p)[p[v]] = a[v]
         /\ Take(n, Give(n, a, p), p) = a
<1> DEFINE D == 0 .. n - 1
           From(v) == CHOOSE u \in D : p[u] = v
<1>1. \A v \in D : p[v] \in D /\ \E u \in D : p[u] = v BY UnitPlace
<1>2. \A u, v \in D : p[u] = p[v] => u = v
  <2>1. \A v \in D : v \in Wires(Pow2(n)) BY UnitWires
  <2> QED BY <2>1, UnitPlace
<1>3. a \in [D -> U] BY DEF Vectors
<1>4. Give(n, a, p) = [v \in D |-> a[From(v)]] /\ Take(n, a, p) = [v \in D |-> a[p[v]]]
  BY DEF Give, Take
<1> HIDE DEF D
<1>5. \A v \in D : From(v) \in D /\ p[From(v)] = v BY <1>1
<1>6. \A v \in D : From(p[v]) = v BY <1>1, <1>2, <1>5
<1> HIDE DEF From
<1>7. Give(n, a, p) \in [D -> U] /\ Take(n, a, p) \in [D -> U] BY <1>1, <1>3, <1>4, <1>5
<1>8. \A v \in D : Give(n, a, p)[p[v]] = a[v] BY <1>1, <1>4, <1>6
<1>9. Take(n, Give(n, a, p), p) = a
  <2> DEFINE b == Give(n, a, p)
  <2>1. \A v \in D : b[p[v]] = a[v] BY <1>8
  <2> HIDE DEF b
  <2>2. Take(n, b, p) = [v \in D |-> b[p[v]]] BY DEF Take, D
  <2>3. Take(n, b, p) = [v \in D |-> a[v]] BY <2>1, <2>2
  <2> QED BY <1>3, <2>3 DEF b
<1> QED BY <1>1, <1>7, <1>8, <1>9 DEF Vectors, D

\* What pre makes of units
Padded(U) == [unit : U \cup {None}, bit : {0, 1}]

LEMMA PreIs ==
  ASSUME NEW n \in Nat \ {0}, NEW U, NEW a \in Vectors(n, U)
  PROVE  /\ Pre(a, n) \in [Wires(Pow2(n)) -> Padded(U)]
         /\ \A v \in 0 .. n - 1 : Pre(a, n)[v] = [unit |-> a[v], bit |-> 1]
         /\ \A v \in n .. Pow2(n) - 1 : Pre(a, n)[v] = [unit |-> None, bit |-> 0]
<1> DEFINE Unit(v) == [unit |-> IF v < n THEN a[v] ELSE None, bit |-> IF v < n THEN 1 ELSE 0]
<1>1. Pre(a, n) = [v \in Wires(Pow2(n)) |-> Unit(v)] BY DEF Pre, Wires
<1>2. \A v \in 0 .. n - 1 : v \in Wires(Pow2(n)) /\ v < n
  <2>1. \A v \in 0 .. n - 1 : v \in Wires(Pow2(n)) BY UnitWires
  <2> QED BY <2>1
<1>3. \A v \in n .. Pow2(n) - 1 : v \in Wires(Pow2(n)) /\ ~ (v < n)
  <2>1. \A v \in n .. Pow2(n) - 1 : v \in Wires(Pow2(n)) BY UnitWires
  <2> QED BY <2>1
<1>4. \A v \in 0 .. n - 1 : Unit(v) = [unit |-> a[v], bit |-> 1] BY <1>2
<1>5. \A v \in n .. Pow2(n) - 1 : Unit(v) = [unit |-> None, bit |-> 0] BY <1>3
<1>6. ASSUME NEW v \in Wires(Pow2(n)) PROVE Unit(v) \in Padded(U)
  <2>1. CASE v \in 0 .. n - 1
    <3>1. a[v] \in U BY <2>1 DEF Vectors
    <3>2. Unit(v) = [unit |-> a[v], bit |-> 1] BY <1>4, <2>1
    <3> HIDE DEF Unit
    <3> QED BY <3>1, <3>2 DEF Padded
  <2>2. CASE v \in n .. Pow2(n) - 1
    <3>2. Unit(v) = [unit |-> None, bit |-> 0] BY <1>5, <2>2
    <3> HIDE DEF Unit
    <3> QED BY <3>2 DEF Padded
  <2>3. v \in 0 .. n - 1 \/ v \in n .. Pow2(n) - 1 BY UnitWires
  <2> QED BY <2>1, <2>2, <2>3
<1> HIDE DEF Unit
<1> QED BY <1>1, <1>2, <1>3, <1>4, <1>5, <1>6

\* post takes the units out again, and never throws.
LEMMA PostPre ==
  ASSUME NEW n \in Nat \ {0}, NEW U, NEW a \in Vectors(n, U)
  PROVE  Post(Pre(a, n), n) = a
<1> DEFINE x == Pre(a, n)
<1>1. \A v \in 0 .. n - 1 : x[v] = [unit |-> a[v], bit |-> 1] BY PreIs
<1> HIDE DEF x
<1>2. ASSUME NEW v \in 0 .. n - 1 PROVE x[v].bit = 1 /\ x[v].unit = a[v]
  <2>1. x[v] = [unit |-> a[v], bit |-> 1] BY <1>1
  <2> QED BY <2>1
<1>3. Post(x, n) = [v \in 0 .. n - 1 |-> x[v].unit] BY <1>2 DEF Post
<1>4. Post(x, n) = [v \in 0 .. n - 1 |-> a[v]] BY <1>2, <1>3
<1> QED BY <1>4 DEF x, Vectors

\* Two padded vectors with the same units are the same.
LEMMA SamePre ==
  ASSUME NEW n \in Nat \ {0}, NEW U, NEW a \in Vectors(n, U),
         NEW y \in [Wires(Pow2(n)) -> Padded(U)],
         \A v \in 0 .. n - 1 : y[v] = [unit |-> a[v], bit |-> 1],
         \A v \in n .. Pow2(n) - 1 : y[v] = [unit |-> None, bit |-> 0]
  PROVE  y = Pre(a, n)
<1> DEFINE x == Pre(a, n)
<1>1. /\ x \in [Wires(Pow2(n)) -> Padded(U)]
      /\ \A v \in 0 .. n - 1 : x[v] = [unit |-> a[v], bit |-> 1]
      /\ \A v \in n .. Pow2(n) - 1 : x[v] = [unit |-> None, bit |-> 0]
  BY PreIs
<1> HIDE DEF x
<1>2. \A v \in Wires(Pow2(n)) : v \in 0 .. n - 1 \/ v \in n .. Pow2(n) - 1 BY UnitWires
<1>3. \A v \in Wires(Pow2(n)) : x[v] = y[v] BY <1>1, <1>2
<1> QED BY <1>1, <1>3 DEF x

LEMMA NetworkOfUnits ==
  ASSUME NEW n \in Nat \ {0}, NEW p, NEW c, Configured(n, c, p), NEW U, NEW a \in Vectors(n, U)
  PROVE  /\ IterWaksman(Pow2(n), c, TRUE, Pre(a, n)) = Pre(Take(n, a, p), n)
         /\ IterWaksman(Pow2(n), c, FALSE, Pre(a, n)) = Pre(Give(n, a, p), n)
<1> DEFINE N == Pow2(n)
           x == Pre(a, n)
           back == IterWaksman(N, c, TRUE, x)
           forth == IterWaksman(N, c, FALSE, x)
<1>1. PICK k \in Nat : N = 2 ^ k BY Pow2Is
<1>2. p \in UnitPerms(n) /\ c \in Configs(N) /\ Source(N, c) = p BY DEF Configured
<1>3. /\ x \in [Wires(N) -> Padded(U)]
      /\ \A v \in 0 .. n - 1 : x[v] = [unit |-> a[v], bit |-> 1]
      /\ \A v \in n .. N - 1 : x[v] = [unit |-> None, bit |-> 0]
  BY PreIs
<1>4. /\ back \in [Wires(N) -> Padded(U)] /\ forth \in [Wires(N) -> Padded(U)]
      /\ Fetched(N, p, x, back) /\ Brought(N, p, x, forth)
  <2> HIDE DEF N, x
  <2> DEFINE V == Padded(U)
  <2> HIDE DEF V
  <2>1. x \in [Wires(N) -> V] BY <1>3 DEF V
  <2>2. /\ IterWaksman(N, c, TRUE, x) \in [Wires(N) -> V]
        /\ IterWaksman(N, c, FALSE, x) \in [Wires(N) -> V]
        /\ Fetched(N, Source(N, c), x, IterWaksman(N, c, TRUE, x))
        /\ Brought(N, Source(N, c), x, IterWaksman(N, c, FALSE, x))
    BY <1>1, <1>2, <2>1, NetworkCorrect
  <2> QED BY <1>2, <2>2 DEF V
<1>5. /\ \A v \in 0 .. n - 1 : v \in Wires(N) /\ p[v] \in 0 .. n - 1
      /\ \A v \in n .. N - 1 : v \in Wires(N) /\ p[v] = v
  BY <1>2, UnitWires, UnitPlace DEF UnitPerms
<1>6. \A v \in 0 .. n - 1 : \E u \in 0 .. n - 1 : p[u] = v BY <1>2, UnitPlace
<1>7. /\ Give(n, a, p) \in Vectors(n, U) /\ Take(n, a, p) \in Vectors(n, U)
      /\ \A v \in 0 .. n - 1 : Give(n, a, p)[p[v]] = a[v]
  BY <1>2, GiveIs
<1>8. \A v \in 0 .. n - 1 : Take(n, a, p)[v] = a[p[v]] BY DEF Take
<1> HIDE DEF x, back, forth, N
<1>9. back = Pre(Take(n, a, p), n)
  <2> DEFINE b == Take(n, a, p)
  <2> HIDE DEF b
  <2>1. b \in Vectors(n, U) /\ \A v \in 0 .. n - 1 : b[v] = a[p[v]] BY <1>7, <1>8 DEF b
  <2>2. \A v \in 0 .. n - 1 : back[v] = [unit |-> b[v], bit |-> 1]
    BY <1>3, <1>4, <1>5, <2>1 DEF Fetched
  <2>3. \A v \in n .. N - 1 : back[v] = [unit |-> None, bit |-> 0]
    BY <1>3, <1>4, <1>5 DEF Fetched
  <2>4. back = Pre(b, n) BY <1>4, <2>1, <2>2, <2>3, SamePre DEF N
  <2> QED BY <2>4 DEF b
<1>10. forth = Pre(Give(n, a, p), n)
  <2> DEFINE b == Give(n, a, p)
  <2> HIDE DEF b
  <2>1. b \in Vectors(n, U) /\ \A v \in 0 .. n - 1 : b[p[v]] = a[v] BY <1>7 DEF b
  <2>2. ASSUME NEW v \in 0 .. n - 1 PROVE forth[v] = [unit |-> b[v], bit |-> 1]
    <3>1. PICK u \in 0 .. n - 1 : p[u] = v BY <1>6
    <3>2. forth[p[u]] = x[u] /\ x[u] = [unit |-> a[u], bit |-> 1] /\ b[p[u]] = a[u]
      BY <1>3, <1>4, <1>5, <2>1 DEF Brought
    <3> QED BY <3>1, <3>2
  <2>3. ASSUME NEW v \in n .. N - 1 PROVE forth[v] = [unit |-> None, bit |-> 0]
    <3>1. forth[p[v]] = x[v] /\ p[v] = v BY <1>4, <1>5 DEF Brought
    <3> QED BY <1>3, <3>1
  <2>4. forth = Pre(b, n) BY <1>4, <2>1, <2>2, <2>3, SamePre DEF N
  <2> QED BY <2>4 DEF b
<1> QED BY <1>9, <1>10 DEF back, forth, x, N

-----------------------------------------------------------------------------
(* Shuffles: one network after the other.                                  *)

\* What a shuffle by the permutations ds must have stored.
ConfigsOf(ds, config) == [k \in DOMAIN ds |-> config[ds[k]]]

\* g has the vector on its way through the networks of a shuffle.
Passing(n, a, shuffle, reverse, last, g) ==
  /\ last \in Nat /\ Len(InOrder(shuffle, reverse)) = last /\ g[0] = Pre(a, n)
  /\ \A k \in 1 .. last :
        g[k] = IterWaksman(Pow2(n), InOrder(shuffle, reverse)[k], reverse, g[k - 1])

LEMMA ApplyIs ==
  ASSUME NEW n \in Nat \ {0}, NEW a, NEW shuffle, NEW reverse, NEW last, NEW g,
         Passing(n, a, shuffle, reverse, last, g)
  PROVE  Apply(a, n, shuffle, reverse) = Post(g[last], n)
<1> DEFINE cs == InOrder(shuffle, reverse)
           Body(s, k) == IF k = 0 THEN Pre(a, n)
                         ELSE IterWaksman(Pow2(n), cs[k], reverse, s[k - 1])
           h == [k \in 0 .. last |-> g[k]]
           x == CHOOSE s : s = [k \in 0 .. last |-> Body(s, k)]
<1>0. /\ last \in Nat /\ last = Len(cs) /\ g[0] = Pre(a, n)
      /\ \A k \in 1 .. last : g[k] = IterWaksman(Pow2(n), cs[k], reverse, g[k - 1])
  BY DEF Passing
<1>1. Apply(a, n, shuffle, reverse) = Post(x[last], n)
  <2> DEFINE y == CHOOSE s : s = [k \in 0 .. Len(cs) |-> Body(s, k)]
  <2>1. Apply(a, n, shuffle, reverse) = Post(y[Len(cs)], n) BY DEF Apply
  <2>2. y = x BY <1>0
  <2> HIDE DEF x, y, cs
  <2> QED BY <1>0, <2>1, <2>2
<1> HIDE DEF cs
<1>2. ASSUME NEW k \in 0 .. last PROVE h[k] = Body(h, k)
  <2>1. CASE k = 0 BY <1>0, <2>1
  <2>2. CASE k # 0
    <3>1. k \in 1 .. last /\ k - 1 \in 0 .. last BY <1>0, <2>2
    <3>2. h[k - 1] = g[k - 1] BY <3>1
    <3>3. g[k] = IterWaksman(Pow2(n), cs[k], reverse, g[k - 1]) BY <1>0, <3>1
    <3>4. h[k] = g[k] OBVIOUS
    <3> HIDE DEF h
    <3> QED BY <2>2, <3>2, <3>3, <3>4
  <2> QED BY <2>1, <2>2
<1>3. h = [k \in 0 .. last |-> Body(h, k)]
  <2>1. h = [k \in 0 .. last |-> h[k]] OBVIOUS
  <2> HIDE DEF h, Body
  <2> QED BY <1>2, <2>1
<1>4. x = [k \in 0 .. last |-> Body(x, k)]
  <2> HIDE DEF h, Body
  <2> QED BY <1>3
<1> DEFINE S == {k \in 0 .. last : x[k] = h[k]}
<1> HIDE DEF h, x
<1>5. 0 \in S
  <2>1. 0 \in 0 .. last BY <1>0
  <2>2. x[0] = Body(x, 0) /\ h[0] = Body(h, 0)
    <3> HIDE DEF Body
    <3> QED BY <1>3, <1>4, <2>1
  <2> QED BY <2>1, <2>2
<1>6. \A k \in 1 .. last : k - 1 \in S => k \in S
  <2> SUFFICES ASSUME NEW k \in 1 .. last, k - 1 \in S PROVE k \in S
    OBVIOUS
  <2>1. k \in 0 .. last /\ k # 0 BY <1>0
  <2>2. x[k] = Body(x, k) /\ h[k] = Body(h, k)
    <3> HIDE DEF Body
    <3> QED BY <1>3, <1>4, <2>1
  <2> QED BY <2>1, <2>2
<1>7. \A k \in 0 .. last : k \in S
  <2> HIDE DEF S
  <2> QED BY <1>0, <1>5, <1>6, IntervalInduction
<1>8. last \in 0 .. last /\ x[last] = h[last] BY <1>0, <1>7
<1>9. h[last] = g[last] BY <1>8 DEF h
<1> QED BY <1>1, <1>8, <1>9

LEMMA ConfigsIs ==
  ASSUME NEW n \in Sizes, NEW ds \in Seq(Perms(n))
  PROVE  /\ Len(ds) \in Nat /\ DOMAIN ds = 1 .. Len(ds)
         /\ Len(ConfigsOf(ds, ConfigOf[n])) = Len(ds)
         /\ Len(Reverse(ConfigsOf(ds, ConfigOf[n]))) = Len(ds)
         /\ \A k \in 1 .. Len(ds) :
               /\ ds[k] \in Perms(n)
               /\ ConfigsOf(ds, ConfigOf[n])[k] = ConfigOf[n][ds[k]]
               /\ Reverse(ConfigsOf(ds, ConfigOf[n]))[k] = ConfigOf[n][ds[Len(ds) - k + 1]]
<1> DEFINE L == Len(ds)
           cs == ConfigsOf(ds, ConfigOf[n])
           C == {ConfigOf[n][p] : p \in Perms(n)}
<1>1. L \in Nat /\ DOMAIN ds = 1 .. L /\ \A k \in 1 .. L : ds[k] \in Perms(n)
  BY LenProperties, ElementOfSeq
<1>2. cs = [k \in 1 .. L |-> ConfigOf[n][ds[k]]] BY <1>1 DEF ConfigsOf
<1> HIDE DEF L, cs
<1>3. cs \in Seq(C) BY <1>1, <1>2, IsASeq
<1>4. Len(cs) = L BY <1>1, <1>2, <1>3, LenProperties
<1>5. Reverse(cs) = [k \in 1 .. L |-> cs[L - k + 1]] BY <1>4 DEF Reverse
<1>6. \A k \in 1 .. L : L - k + 1 \in 1 .. L BY <1>1
<1>7. \A k \in 1 .. L : cs[L - k + 1] = ConfigOf[n][ds[L - k + 1]] BY <1>2, <1>6
<1>8. \A k \in 1 .. L : cs[L - k + 1] \in C BY <1>1, <1>6, <1>7
<1>9. Reverse(cs) \in Seq(C)
  <2>1. Reverse(cs) \in Seq(C) BY <1>1, <1>5, <1>8, IsASeq
  <2> QED BY <2>1
<1>10. Len(Reverse(cs)) = L
  <2> DEFINE r == Reverse(cs)
  <2>1. r \in Seq(C) /\ DOMAIN r = 1 .. L BY <1>5, <1>9
  <2> HIDE DEF r
  <2>2. Len(r) = L BY <1>1, <2>1, LenProperties
  <2> QED BY <2>2 DEF r
<1> QED BY <1>1, <1>2, <1>4, <1>5, <1>7, <1>10 DEF L, cs

\* A vector of units, player by player
Courses(n, U, ds, a) ==
  {f \in [0 .. Len(ds) -> Vectors(n, U)] :
     /\ f[0] = a
     /\ \A k \in 1 .. Len(ds) : f[k] = Give(n, f[k - 1], ds[k])}

LEMMA CourseExists ==
  ASSUME NEW n \in Sizes, NEW ds \in Seq(Perms(n)), NEW U, NEW a \in Vectors(n, U)
  PROVE  \E f : f \in Courses(n, U, ds, a)
<1> DEFINE T == Vectors(n, U)
           L == Len(ds)
           step == [k \in 1 .. L |-> [b \in T |-> Give(n, b, ds[k])]]
<1>1. n \in Nat \ {0} BY ConstantsAssumption
<1>2. L \in Nat /\ \A k \in 1 .. L : ds[k] \in UnitPerms(n)
  BY <1>1, ConfigsIs, RandomPermutations
<1>3. \A k \in 1 .. L, b \in T : Give(n, b, ds[k]) \in T BY <1>1, <1>2, GiveIs
<1>4. step \in Steps(L, T) BY <1>3 DEF Steps
<1>5. \E f : f \in Runs(L, T, a, step)
  <2> HIDE DEF step, T, L
  <2>1. a \in T BY DEF T
  <2> QED BY <1>2, <1>4, <2>1, Recursion, Zenon
<1>6. PICK f \in [0 .. L -> T] : f[0] = a /\ \A k \in 1 .. L : f[k] = step[k][f[k - 1]]
  BY <1>5 DEF Runs
<1>7. ASSUME NEW k \in 1 .. L PROVE f[k] = Give(n, f[k - 1], ds[k])
  <2>1. k - 1 \in 0 .. L BY <1>2
  <2>2. f[k - 1] \in T BY <1>6, <2>1
  <2> QED BY <1>6, <2>2
<1>8. f \in Courses(n, U, ds, a) BY <1>6, <1>7 DEF Courses
<1> QED BY <1>8

\* Forwards the networks give the units from player to player.
LEMMA ForwardIs ==
  ASSUME NEW n \in Sizes, NEW ds \in Seq(Perms(n)), NEW U, NEW a \in Vectors(n, U),
         NEW f \in Courses(n, U, ds, a)
  PROVE  /\ Apply(a, n, ConfigsOf(ds, ConfigOf[n]), FALSE) = f[Len(ds)]
         /\ f[Len(ds)] \in Vectors(n, U)
<1> DEFINE L == Len(ds)
           cs == ConfigsOf(ds, ConfigOf[n])
           g == [k \in 0 .. L |-> Pre(f[k], n)]
<1>1. n \in Nat \ {0} BY ConstantsAssumption
<1>2. /\ L \in Nat /\ Len(cs) = L
      /\ \A k \in 1 .. L : ds[k] \in Perms(n) /\ cs[k] = ConfigOf[n][ds[k]]
  BY ConfigsIs
<1>3. /\ f \in [0 .. L -> Vectors(n, U)] /\ f[0] = a
      /\ \A k \in 1 .. L : f[k] = Give(n, f[k - 1], ds[k])
  BY DEF Courses
<1>4. InOrder(cs, FALSE) = cs BY DEF InOrder
<1> HIDE DEF L, cs
<1>5. ASSUME NEW k \in 1 .. L
      PROVE  g[k] = IterWaksman(Pow2(n), cs[k], FALSE, g[k - 1])
  <2>1. k \in 0 .. L /\ k - 1 \in 0 .. L BY <1>2
  <2>2. g[k] = Pre(f[k], n) /\ g[k - 1] = Pre(f[k - 1], n) BY <2>1
  <2> HIDE DEF g
  <2> DEFINE b == f[k - 1]
             c == cs[k]
             p == ds[k]
  <2>3. b \in Vectors(n, U) /\ p \in Perms(n) /\ c = ConfigOf[n][p] BY <1>2, <1>3, <2>1
  <2>4. f[k] = Give(n, b, p) /\ g[k - 1] = Pre(b, n) BY <1>3, <2>2
  <2> HIDE DEF b, c, p
  <2>5. Configured(n, c, p) BY <2>3, ConfigOfIs
  <2>6. IterWaksman(Pow2(n), c, FALSE, Pre(b, n)) = Pre(Give(n, b, p), n)
    BY <1>1, <2>3, <2>5, NetworkOfUnits
  <2>7. g[k] = IterWaksman(Pow2(n), c, FALSE, g[k - 1]) BY <2>2, <2>4, <2>6
  <2> QED BY <2>7 DEF c
<1>6. 0 \in 0 .. L /\ L \in 0 .. L BY <1>2
<1>7. g[0] = Pre(a, n) /\ g[L] = Pre(f[L], n) BY <1>3, <1>6
<1> HIDE DEF g
<1>8. Passing(n, a, cs, FALSE, L, g) BY <1>2, <1>4, <1>5, <1>7 DEF Passing
<1>9. Apply(a, n, cs, FALSE) = Post(g[L], n) BY <1>1, <1>8, ApplyIs, Zenon
<1>10. f[L] \in Vectors(n, U) BY <1>3, <1>6
<1>11. Post(Pre(f[L], n), n) = f[L] BY <1>1, <1>10, PostPre
<1> QED BY <1>7, <1>9, <1>10, <1>11 DEF L, cs

\* Backwards they take them home.
LEMMA ReverseIs ==
  ASSUME NEW n \in Sizes, NEW ds \in Seq(Perms(n)), NEW U, NEW a \in Vectors(n, U),
         NEW f \in Courses(n, U, ds, a)
  PROVE  Apply(f[Len(ds)], n, ConfigsOf(ds, ConfigOf[n]), TRUE) = a
<1> DEFINE L == Len(ds)
           cs == ConfigsOf(ds, ConfigOf[n])
           rs == Reverse(cs)
           g == [k \in 0 .. L |-> Pre(f[L - k], n)]
<1>1. n \in Nat \ {0} BY ConstantsAssumption
<1>2. /\ L \in Nat /\ Len(rs) = L
      /\ \A k \in 1 .. L : ds[k] \in Perms(n) /\ rs[k] = ConfigOf[n][ds[L - k + 1]]
  BY ConfigsIs
<1>3. /\ f \in [0 .. L -> Vectors(n, U)] /\ f[0] = a
      /\ \A k \in 1 .. L : f[k] = Give(n, f[k - 1], ds[k])
  BY DEF Courses
<1>4. InOrder(cs, TRUE) = rs BY DEF InOrder
<1> HIDE DEF L, cs, rs
<1>5. ASSUME NEW k \in 1 .. L
      PROVE  g[k] = IterWaksman(Pow2(n), rs[k], TRUE, g[k - 1])
  <2> DEFINE j == L - k + 1
  <2>1. /\ k \in 0 .. L /\ k - 1 \in 0 .. L /\ j \in 1 .. L /\ j - 1 \in 0 .. L
        /\ L - k = j - 1 /\ L - (k - 1) = j
    BY <1>2
  <2>2. g[k] = Pre(f[L - k], n) /\ g[k - 1] = Pre(f[L - (k - 1)], n) BY <2>1
  <2> HIDE DEF g
  <2>3. g[k] = Pre(f[j - 1], n) /\ g[k - 1] = Pre(f[j], n) BY <2>1, <2>2
  <2>4. rs[k] = ConfigOf[n][ds[j]] BY <1>2
  <2> HIDE DEF j
  <2> DEFINE b == f[j - 1]
             e == f[j]
             c == rs[k]
             p == ds[j]
  <2>5. b \in Vectors(n, U) /\ e \in Vectors(n, U) /\ p \in Perms(n) /\ c = ConfigOf[n][p]
    BY <1>2, <1>3, <2>1, <2>4
  <2>6. e = Give(n, b, p) /\ g[k] = Pre(b, n) /\ g[k - 1] = Pre(e, n) BY <1>3, <2>1, <2>3
  <2> HIDE DEF b, c, e, p
  <2>7. Configured(n, c, p) /\ p \in UnitPerms(n) BY <2>5, ConfigOfIs DEF Configured
  <2>8. IterWaksman(Pow2(n), c, TRUE, Pre(e, n)) = Pre(Take(n, e, p), n)
    BY <1>1, <2>5, <2>7, NetworkOfUnits
  <2>9. Take(n, e, p) = b
    <3>1. Take(n, Give(n, b, p), p) = b BY <1>1, <2>5, <2>7, GiveIs
    <3> QED BY <2>6, <3>1
  <2>10. g[k] = IterWaksman(Pow2(n), c, TRUE, g[k - 1]) BY <2>6, <2>8, <2>9
  <2> QED BY <2>10 DEF c
<1>6. 0 \in 0 .. L /\ L \in 0 .. L /\ L - 0 = L /\ L - L = 0 BY <1>2
<1>7. g[0] = Pre(f[L], n) /\ g[L] = Pre(a, n)
  <2>1. g[0] = Pre(f[L - 0], n) /\ g[L] = Pre(f[L - L], n) BY <1>6
  <2> HIDE DEF g
  <2> QED BY <1>3, <1>6, <2>1
<1> HIDE DEF g
<1>8. Passing(n, f[L], cs, TRUE, L, g) BY <1>2, <1>4, <1>5, <1>7 DEF Passing
<1>9. Apply(f[L], n, cs, TRUE) = Post(g[L], n) BY <1>1, <1>8, ApplyIs, Zenon
<1>11. Post(Pre(a, n), n) = a BY <1>1, PostPre
<1> QED BY <1>7, <1>9, <1>11 DEF L, cs

-----------------------------------------------------------------------------
(* Destinations.                                                           *)

\* Where Destination leads, the networks brought the unit.
Arrived(f, t, a, i) == f[Len(drawn[t])][Destination(t, i)] = a[i]

LEMMA DestinationIs ==
  ASSUME NEW n \in Sizes, NEW t \in Thread, drawn[t] \in Seq(Perms(n)),
         NEW U, NEW a \in Vectors(n, U), NEW f \in Courses(n, U, drawn[t], a),
         NEW i \in 0 .. n - 1
  PROVE  Arrived(f, t, a, i)
<1> DEFINE ds == drawn[t]
           L == Len(ds)
           T == 0 .. n - 1
           step == [k \in 1 .. L |-> [v \in T |-> ds[k][v]]]
           Body(s, k) == IF k = 0 THEN i ELSE ds[k][s[k - 1]]
           to == CHOOSE s : s = [k \in 0 .. L |-> Body(s, k)]
<1>1. Destination(t, i) = to[L] BY DEF Destination
<1>2. n \in Nat \ {0} BY ConstantsAssumption
<1>3. L \in Nat /\ \A k \in 1 .. L : ds[k] \in UnitPerms(n)
  BY <1>2, ConfigsIs, RandomPermutations
<1>4. /\ f \in [0 .. L -> Vectors(n, U)] /\ f[0] = a
      /\ \A k \in 1 .. L : f[k] = Give(n, f[k - 1], ds[k])
  BY DEF Courses
<1> HIDE DEF ds, L
<1>5. \A k \in 1 .. L, v \in T : ds[k][v] \in T BY <1>2, <1>3, UnitPlace
<1>6. step \in Steps(L, T) BY <1>5 DEF Steps
<1>7. \E g : g \in Runs(L, T, i, step)
  <2> HIDE DEF step
  <2>1. i \in T OBVIOUS
  <2> HIDE DEF T
  <2> QED BY <1>3, <1>6, <2>1, Recursion, Zenon
<1>8. PICK g \in [0 .. L -> T] : g[0] = i /\ \A k \in 1 .. L : g[k] = step[k][g[k - 1]]
  BY <1>7 DEF Runs
<1>9. ASSUME NEW k \in 1 .. L PROVE k - 1 \in 0 .. L /\ g[k - 1] \in T /\ g[k] = ds[k][g[k - 1]]
  <2>1. k - 1 \in 0 .. L BY <1>3
  <2>2. g[k - 1] \in T BY <1>8, <2>1
  <2> QED BY <1>8, <2>1, <2>2
<1>10. g = [k \in 0 .. L |-> Body(g, k)]
  <2>1. ASSUME NEW k \in 0 .. L PROVE g[k] = Body(g, k)
    <3>1. CASE k = 0 BY <1>8, <3>1
    <3>2. CASE k # 0
      <4>1. k \in 1 .. L BY <1>3, <3>2
      <4> QED BY <1>9, <3>2, <4>1
    <3> QED BY <3>1, <3>2
  <2>2. g = [k \in 0 .. L |-> g[k]] BY <1>8
  <2> HIDE DEF Body
  <2> QED BY <2>1, <2>2
<1>11. to = [k \in 0 .. L |-> Body(to, k)]
  <2> HIDE DEF Body
  <2> QED BY <1>10
<1> DEFINE S == {k \in 0 .. L : to[k] = g[k] /\ f[k][g[k]] = a[i]}
<1> HIDE DEF to
<1>12. 0 \in S
  <2>1. 0 \in 0 .. L BY <1>3
  <2>2. to[0] = Body(to, 0)
    <3> HIDE DEF Body
    <3> QED BY <1>11, <2>1
  <2> QED BY <1>4, <1>8, <2>1, <2>2
<1>13. ASSUME NEW k \in 1 .. L, k - 1 \in S PROVE k \in S
  <2>1. k \in 0 .. L /\ k # 0 BY <1>3
  <2>2. to[k] = Body(to, k)
    <3> HIDE DEF Body
    <3> QED BY <1>11, <2>1
  <2>3. to[k - 1] = g[k - 1] /\ f[k - 1][g[k - 1]] = a[i] BY <1>13
  <2>4. to[k] = g[k] BY <1>9, <2>1, <2>2, <2>3
  <2> DEFINE b == f[k - 1]
             v == g[k - 1]
             p == ds[k]
  <2>5. b \in Vectors(n, U) /\ p \in UnitPerms(n) /\ v \in T /\ b[v] = a[i]
    BY <1>3, <1>4, <1>9, <2>3
  <2>6. f[k] = Give(n, b, p) /\ g[k] = p[v] BY <1>4, <1>9
  <2> HIDE DEF b, v, p
  <2>7. Give(n, b, p)[p[v]] = b[v] BY <1>2, <2>5, GiveIs
  <2> QED BY <2>1, <2>4, <2>5, <2>6, <2>7
<1>14. \A k \in 0 .. L : k \in S
  <2> HIDE DEF S
  <2> QED BY <1>3, <1>12, <1>13, IntervalInduction
<1>15. L \in 0 .. L /\ to[L] = g[L] /\ f[L][g[L]] = a[i]
  <2>1. L \in 0 .. L BY <1>3
  <2> QED BY <1>14, <2>1
<1> QED BY <1>1, <1>15 DEF L, ds, Arrived

-----------------------------------------------------------------------------
(* The inverse of a permutation.                                           *)

\* A network masks a permutation by another.
LEMMA MaskedIs ==
  ASSUME NEW n \in Sizes, NEW p \in Perms(n), NEW a,
         \A i \in 0 .. n - 1 : a[i] \in 0 .. n - 1
  PROVE  /\ Masked(a, n, p) = [v \in 0 .. n - 1 |-> a[p[v]]]
         /\ \A v \in 0 .. n - 1 : p[v] \in 0 .. n - 1
<1> DEFINE U == 0 .. n - 1
           b == [i \in 0 .. n - 1 |-> a[i]]
           c == ConfigOf[n][p]
<1>1. n \in Nat \ {0} /\ Configured(n, c, p) /\ p \in UnitPerms(n)
  BY ConfigOfIs DEF Configured
<1>2. b \in Vectors(n, U) BY DEF Vectors
<1>3. Pre(a, n) = Pre(b, n)
  <2>1. \A i \in 0 .. Pow2(n) - 1 : i < n => b[i] = a[i] BY <1>1
  <2> HIDE DEF b
  <2> QED BY <2>1 DEF Pre
<1>4. \A v \in 0 .. n - 1 : p[v] \in 0 .. n - 1 BY <1>1, UnitPlace
<1>5. Take(n, b, p) = [v \in 0 .. n - 1 |-> a[p[v]]] BY <1>4 DEF Take
<1> HIDE DEF U, b, c
<1>6. IterWaksman(Pow2(n), c, TRUE, Pre(b, n)) = Pre(Take(n, b, p), n)
  BY <1>1, <1>2, NetworkOfUnits
<1>7. Take(n, b, p) \in Vectors(n, U) BY <1>1, <1>2, GiveIs
<1>8. Post(Pre(Take(n, b, p), n), n) = Take(n, b, p) BY <1>1, <1>7, PostPre
<1> QED BY <1>3, <1>4, <1>5, <1>6, <1>8 DEF Masked, c

\* Bob's inverse is a permutation that he can configure.
LEMMA InverseOfPerm ==
  ASSUME NEW n \in Nat \ {0}, NEW b \in [0 .. n - 1 -> 0 .. n - 1],
         \A i, j \in 0 .. n - 1 : b[i] = b[j] => i = j,
         \A i \in 0 .. n - 1 : \E k \in 0 .. n - 1 : b[k] = i
  PROVE  /\ InverseOf(b, n) \in Perms(n)
         /\ \A i \in 0 .. n - 1 : InverseOf(b, n)[i] \in 0 .. n - 1 /\ b[InverseOf(b, n)[i]] = i
<1> DEFINE N == Pow2(n)
           W == Wires(N)
           D == 0 .. n - 1
           E == n .. N - 1
           From(i) == CHOOSE k \in D : b[k] = i
           f == InverseOf(b, n)
           g == [v \in W |-> IF v \in D THEN b[v] ELSE v]
<1>1. /\ \A v \in D : v \in W /\ v \notin E
      /\ \A v \in E : v \in W /\ v \notin D
      /\ \A v \in W : v \in D \/ v \in E
  <2>1. /\ \A v \in D : v \in W /\ v \notin E
        /\ \A v \in E : v \notin D
    <3>1. \A v \in D : v \in W BY UnitWires
    <3>2. \A v \in D : v \notin E
      <4> HIDE DEF N
      <4> QED OBVIOUS
    <3>3. \A v \in E : v \notin D
      <4> HIDE DEF N
      <4> QED OBVIOUS
    <3> HIDE DEF D, E, W
    <3> QED BY <3>1, <3>2, <3>3
  <2>2. \A v \in E : v \in W BY UnitWires
  <2>3. \A v \in W : v \in D \/ v \in E BY UnitWires
  <2> QED BY <2>1, <2>2, <2>3
<1>2. \A v \in W : f[v] = IF v \in D THEN From(v) ELSE v
  <2>1. f = [v \in W |-> IF v < n THEN From(v) ELSE v] BY DEF InverseOf, Wires
  <2>2. \A v \in W : v < n <=> v \in D
    <3>1. \A v \in D : v < n OBVIOUS
    <3>2. \A v \in E : ~(v < n) OBVIOUS
    <3> QED BY <1>1, <3>1, <3>2
  <2> HIDE DEF From, f, W, D, E
  <2> QED BY <2>1, <2>2
<1>3. f = [v \in W |-> f[v]] BY DEF InverseOf, Wires
<1>4. b \in [D -> D] /\ \A i, j \in D : b[i] = b[j] => i = j OBVIOUS
<1>5. \A v \in D : From(v) \in D /\ b[From(v)] = v OBVIOUS
<1>6. ASSUME NEW v \in D PROVE From(b[v]) = v
  <2> HIDE DEF From, D
  <2>1. b[v] \in D BY <1>4
  <2>2. From(b[v]) \in D /\ b[From(b[v])] = b[v] BY <1>5, <2>1
  <2> QED BY <1>4, <2>2
<1> HIDE DEF From, f, W, D, E
<1>7. ASSUME NEW v \in W PROVE f[v] \in W
  <2>1. CASE v \in D
    <3>1. f[v] = From(v) /\ From(v) \in D BY <1>2, <1>5, <2>1
    <3> QED BY <1>1, <3>1
  <2>2. CASE v \notin D BY <1>2, <2>2
  <2> QED BY <2>1, <2>2
<1>8. f \in [W -> W] BY <1>3, <1>7
<1>9. g \in [W -> W] BY <1>1, <1>4
<1>10. ASSUME NEW v \in W PROVE g[f[v]] = v /\ f[g[v]] = v
  <2>1. CASE v \in D
    <3>1. f[v] = From(v) /\ From(v) \in D /\ b[From(v)] = v BY <1>2, <1>5, <2>1
    <3>2. g[f[v]] = v BY <1>1, <3>1
    <3>3. g[v] = b[v] /\ b[v] \in D /\ b[v] \in W BY <1>1, <1>4, <2>1
    <3>4. f[b[v]] = From(b[v]) BY <1>2, <3>3
    <3>5. From(b[v]) = v BY <1>6, <2>1
    <3> QED BY <3>2, <3>3, <3>4, <3>5
  <2>2. CASE v \notin D BY <1>2, <2>2
  <2> QED BY <2>1, <2>2
<1> HIDE DEF g
<1>11. \A v \in E : f[v] = v BY <1>1, <1>2
<1>12. f \in UnitPerms(n)
  <2>1. Bijective(N, f, g) BY <1>8, <1>9, <1>10 DEF W, Bijective, Inverses
  <2>2. f \in [W -> W] /\ (\E q : Bijective(N, f, q)) /\ \A v \in E : f[v] = v
    BY <1>8, <1>11, <2>1
  <2> HIDE DEF f
  <2> QED BY <2>2 DEF UnitPerms, W, E
<1>13. f \in Perms(n) BY <1>12, RandomPermutations
<1>14. \A i \in D : f[i] \in D /\ b[f[i]] = i BY <1>1, <1>2, <1>5
<1> QED BY <1>13, <1>14 DEF f, D

\* What Alice gets is the inverse of the permutation that she masked.
LEMMA InverseMade ==
  ASSUME NEW n \in Sizes, NEW stack \in Perms(n), NEW permAlice \in Perms(n), NEW permBob,
         permBob = Masked(stack, n, permAlice), NEW i \in 0 .. n - 1
  PROVE  Masked(permAlice, n, InverseOf(permBob, n))[stack[i]] = i
<1> DEFINE D == 0 .. n - 1
           f == InverseOf(permBob, n)
<1>1. n \in Nat \ {0} BY ConstantsAssumption
<1>2. stack \in UnitPerms(n) /\ permAlice \in UnitPerms(n) BY <1>1, RandomPermutations
<1>3. ASSUME NEW p \in UnitPerms(n)
      PROVE  /\ \A u, v \in D : p[u] = p[v] => u = v
             /\ \A v \in D : p[v] \in D /\ \E u \in D : p[u] = v
  <2>1. \A v \in D : v \in Wires(Pow2(n)) BY <1>1, UnitWires
  <2> QED BY <1>1, <2>1, UnitPlace
<1>4. /\ \A u, v \in D : stack[u] = stack[v] => u = v
      /\ \A v \in D : stack[v] \in D /\ \E u \in D : stack[u] = v
  BY <1>2, <1>3
<1>5. /\ \A u, v \in D : permAlice[u] = permAlice[v] => u = v
      /\ \A v \in D : permAlice[v] \in D /\ \E u \in D : permAlice[u] = v
  BY <1>2, <1>3
<1>6. permBob = [v \in D |-> stack[permAlice[v]]]
  <2>1. \A v \in 0 .. n - 1 : stack[v] \in 0 .. n - 1 BY <1>4
  <2>2. Masked(stack, n, permAlice) = [v \in 0 .. n - 1 |-> stack[permAlice[v]]]
    BY <2>1, MaskedIs
  <2> QED BY <2>2
<1> HIDE DEF D
<1>7. permBob \in [D -> D] BY <1>4, <1>5, <1>6
<1>8. ASSUME NEW u \in D, NEW v \in D, permBob[u] = permBob[v] PROVE u = v
  <2>1. stack[permAlice[u]] = stack[permAlice[v]] BY <1>6, <1>8
  <2>2. permAlice[u] = permAlice[v] BY <1>4, <1>5, <2>1
  <2> QED BY <1>5, <2>2
<1>9. ASSUME NEW v \in D PROVE \E u \in D : permBob[u] = v
  <2>1. PICK w \in D : stack[w] = v BY <1>4
  <2>2. PICK u \in D : permAlice[u] = w BY <1>5
  <2> QED BY <1>6, <2>1, <2>2
<1>10. f \in Perms(n) /\ \A v \in D : f[v] \in D /\ permBob[f[v]] = v
  BY <1>1, <1>7, <1>8, <1>9, InverseOfPerm DEF D
<1> HIDE DEF f
<1>11. Masked(permAlice, n, f) = [v \in D |-> permAlice[f[v]]]
  <2>1. \A v \in 0 .. n - 1 : permAlice[v] \in 0 .. n - 1 BY <1>5 DEF D
  <2>2. Masked(permAlice, n, f) = [v \in 0 .. n - 1 |-> permAlice[f[v]]]
    BY <1>10, <2>1, MaskedIs
  <2> QED BY <2>2 DEF D
<1>12. i \in D /\ stack[i] \in D BY <1>4 DEF D
<1>13. Masked(permAlice, n, f)[stack[i]] = permAlice[f[stack[i]]] BY <1>11, <1>12
<1>14. f[stack[i]] \in D /\ stack[permAlice[f[stack[i]]]] = stack[i] BY <1>6, <1>10, <1>12
<1>15. permAlice[f[stack[i]]] = i BY <1>4, <1>5, <1>12, <1>14
<1> QED BY <1>13, <1>15 DEF f

-----------------------------------------------------------------------------
(* The inductive invariant.                                                *)

\* The places of a thread that has an entry in its party's store.
Holding == {"generate", "shuffle", "unshuffle", "delete"}

Config == {ConfigOf[size][perm] : perm \in Perms(size)}

Typed ==
  /\ malicious \in BOOLEAN /\ size \in Sizes
  /\ pc \in [Party -> [Thread -> Places]]
  /\ handle \in [Party -> [Thread -> Nat \cup {None}]]
  /\ store \in [Party -> Seq(Seq(Config))]
  /\ drawn \in [Thread -> Seq(Perms(size))]
  /\ \A t \in Thread : Len(drawn[t]) <= Cardinality(Party)

\* Handles are places of the store that no two threads share, and a thread that has not
\* begun at a party has no handle there, and its shuffle no network yet.
HandleInv ==
  \A p \in Party, t \in Thread :
     /\ handle[p][t] # None => handle[p][t] < Len(store[p])
     /\ pc[p][t] \in Holding => handle[p][t] # None
     /\ pc[p][t] = "begin" => handle[p][t] = None /\ drawn[t] = <<>>
     /\ \A u \in Thread : u # t /\ handle[p][t] # None => handle[p][u] # handle[p][t]

\* The threads that added an entry to the store of p.
Added(hs) == {t \in Thread : hs[t] # None}

\* A store has an entry for each of them.
CountInv == \A p \in Party : Len(store[p]) = Cardinality(Added(handle[p]))

\* From generate to delete an entry has the networks that were drawn for its thread.
OwnShuffle ==
  \A p \in Party, t \in Thread :
     pc[p][t] \in Holding => Shuffle(p, t) = ConfigsOf(drawn[t], ConfigOf[size])

Inv == Typed /\ HandleInv /\ CountInv /\ OwnShuffle

-----------------------------------------------------------------------------
(* Lemmas about sequences.                                                 *)

\* One more permutation is one more network.
LEMMA AppendConfig ==
  ASSUME NEW S, NEW ds \in Seq(S), NEW e \in S, NEW config
  PROVE  Append(ConfigsOf(ds, config), config[e]) = ConfigsOf(Append(ds, e), config)
<1>1. Append(ds, e) \in Seq(S) /\ Len(Append(ds, e)) = Len(ds) + 1
  BY AppendProperties
<1>2. DOMAIN Append(ds, e) = 1 .. Len(ds) + 1 /\ DOMAIN ds = 1 .. Len(ds)
  BY <1>1, LenProperties
<1>3. Len(ds) \in Nat
  BY LenProperties
<1>4. ConfigsOf(ds, config) \in Seq({config[s] : s \in S})
  <2>1. \A k \in 1 .. Len(ds) : ds[k] \in S
    BY ElementOfSeq
  <2> QED BY <1>2, <1>3, <2>1, IsASeq DEF ConfigsOf
<1>5. Len(ConfigsOf(ds, config)) = Len(ds)
  BY <1>2, <1>3, <1>4, LenProperties DEF ConfigsOf
<1>6. ConfigsOf(Append(ds, e), config) \in Seq({config[s] : s \in S})
  <2>1. \A k \in 1 .. Len(ds) + 1 : Append(ds, e)[k] \in S
    BY <1>1, ElementOfSeq
  <2> QED BY <1>2, <1>3, <2>1, IsASeq DEF ConfigsOf
<1>7. Len(ConfigsOf(Append(ds, e), config)) = Len(ds) + 1
  BY <1>2, <1>3, <1>6, LenProperties DEF ConfigsOf
<1>8. /\ Append(ConfigsOf(ds, config), config[e]) \in Seq({config[s] : s \in S})
      /\ Len(Append(ConfigsOf(ds, config), config[e])) = Len(ds) + 1
  BY <1>4, <1>5, AppendProperties
<1>9. ASSUME NEW k \in 1 .. Len(ds) + 1
      PROVE  Append(ConfigsOf(ds, config), config[e])[k] = ConfigsOf(Append(ds, e), config)[k]
  <2>1. CASE k = Len(ds) + 1
    BY <2>1, <1>2, <1>4, <1>5, AppendProperties DEF ConfigsOf
  <2>2. CASE k \in 1 .. Len(ds)
    BY <2>2, <1>2, <1>4, <1>5, AppendProperties DEF ConfigsOf
  <2>3. k = Len(ds) + 1 \/ k \in 1 .. Len(ds)
    BY <1>3
  <2> QED BY <2>1, <2>2, <2>3
<1> QED BY <1>6, <1>7, <1>8, <1>9, SeqEqual

-----------------------------------------------------------------------------

\* Cardinality(Party) is a number and a store that is empty fits.
LEMMA PartyCard == Cardinality(Party) \in Nat /\ Cardinality(Party) >= 1
<1>1. Cardinality(Party) \in Nat /\ Cardinality(Party) # 0
  BY ConstantsAssumption, FS_CardinalityType, FS_EmptySet
<1> QED BY <1>1

LEMMA InitInv == Init => Inv
<1> SUFFICES ASSUME Init PROVE Inv
  OBVIOUS
<1>1. Typed
  BY PartyCard, EmptySeq DEF Init, Typed, Places
<1>2. HandleInv
  BY DEF Init, HandleInv, Holding
<1>3. CountInv
  <2>1. ASSUME NEW p \in Party PROVE Added(handle[p]) = {}
    BY DEF Init, Added
  <2>2. ASSUME NEW p \in Party PROVE Len(store[p]) = 0
    BY DEF Init
  <2> QED BY <2>1, <2>2, FS_EmptySet DEF CountInv
<1>4. OwnShuffle
  BY DEF Init, OwnShuffle, Holding
<1> QED BY <1>1, <1>2, <1>3, <1>4 DEF Inv

\* What a lookup needs of the types.
LEMMA Lookup ==
  ASSUME Inv, NEW p \in Party, NEW t \in Thread
  PROVE  /\ store[p] \in Seq(Seq(Config)) /\ Len(store[p]) \in Nat
         /\ DOMAIN store[p] = 1 .. Len(store[p])
         /\ handle[p][t] \in Nat \cup {None}
         /\ handle[p][t] # None
              => handle[p][t] \in Nat /\ handle[p][t] + 1 \in 1 .. Len(store[p])
         /\ drawn[t] \in Seq(Perms(size)) /\ Len(drawn[t]) \in Nat
<1>1. store[p] \in Seq(Seq(Config)) /\ drawn[t] \in Seq(Perms(size))
  BY DEF Inv, Typed
<1>2. Len(store[p]) \in Nat /\ Len(drawn[t]) \in Nat /\ DOMAIN store[p] = 1 .. Len(store[p])
  BY <1>1, LenProperties
<1>3. handle[p][t] \in Nat \cup {None}
  BY DEF Inv, Typed
<1>4. handle[p][t] # None => handle[p][t] < Len(store[p])
  BY DEF Inv, HandleInv
<1> QED BY <1>1, <1>2, <1>3, <1>4

\* A thread that is given a handle gets the next place of the store.
LEMMA AddStep ==
  ASSUME Inv, NEW p \in Party, NEW t \in Thread, Add(p, t)
  PROVE  Inv'
<1>1. /\ pc[p][t] = "begin" /\ handle' = [handle EXCEPT ![p][t] = Len(store[p])]
      /\ store' = [store EXCEPT ![p] = Append(@, <<>>)]
      /\ pc' = [pc EXCEPT ![p][t] = "generate"]
      /\ UNCHANGED <<malicious, size, drawn>>
  BY DEF Add, NewHandle
<1>2. Typed /\ HandleInv /\ CountInv /\ OwnShuffle
  BY DEF Inv
<1>3. handle[p][t] = None /\ drawn[t] = <<>>
  BY <1>1, <1>2 DEF HandleInv
<1>4. /\ store'[p] \in Seq(Seq(Config)) /\ Len(store'[p]) = Len(store[p]) + 1
      /\ store'[p][Len(store[p]) + 1] = <<>>
      /\ \A k \in 1 .. Len(store[p]) : store'[p][k] = store[p][k]
  <2>1. store'[p] = Append(store[p], <<>>)
    BY <1>1, <1>2 DEF Typed
  <2>2. store[p] \in Seq(Seq(Config)) /\ <<>> \in Seq(Config)
    BY Lookup, EmptySeq
  <2> QED BY <2>1, <2>2, AppendProperties
<1>5. \A q \in Party : q # p => store'[q] = store[q] /\ handle'[q] = handle[q]
  BY <1>1, <1>2 DEF Typed
<1>6. /\ handle'[p][t] = Len(store[p])
      /\ \A q \in Party, u \in Thread : q # p \/ u # t => handle'[q][u] = handle[q][u]
  BY <1>1, <1>2 DEF Typed
<1>7. /\ pc'[p][t] = "generate"
      /\ \A q \in Party, u \in Thread : q # p \/ u # t => pc'[q][u] = pc[q][u]
  BY <1>1, <1>2 DEF Typed
<1>8. Len(store[p]) \in Nat /\ Len(store[p]) # None
  BY Lookup, ConstantsAssumption
<1>9. Config' = Config
  BY <1>1 DEF Config
<1>10. Typed'
  <2>1. handle' \in [Party -> [Thread -> Nat \cup {None}]]
    BY <1>1, <1>2, <1>8 DEF Typed
  <2>2. store' \in [Party -> Seq(Seq(Config))]
    BY <1>1, <1>2, <1>4, <1>5 DEF Typed
  <2>3. pc' \in [Party -> [Thread -> Places]]
    BY <1>1, <1>2 DEF Typed, Places
  <2> QED BY <1>1, <1>2, <1>9, <2>1, <2>2, <2>3 DEF Typed
<1>11. HandleInv'
  <2> SUFFICES ASSUME NEW q \in Party, NEW u \in Thread
               PROVE  /\ handle'[q][u] # None => handle'[q][u] < Len(store'[q])
                      /\ pc'[q][u] \in Holding => handle'[q][u] # None
                      /\ pc'[q][u] = "begin" => handle'[q][u] = None /\ drawn'[u] = <<>>
                      /\ \A v \in Thread : v # u /\ handle'[q][u] # None
                                             => handle'[q][v] # handle'[q][u]
    BY DEF HandleInv
  <2>1. CASE q # p
    BY <2>1, <1>1, <1>2, <1>5, <1>6, <1>7 DEF HandleInv
  <2>2. CASE q = p /\ u = t
    <3>1. \A v \in Thread : v # u => handle'[q][v] = handle[q][v]
      BY <2>2, <1>6
    <3>2. ASSUME NEW v \in Thread PROVE handle[p][v] # Len(store[p])
      BY <1>8, Lookup
    <3> QED BY <2>2, <3>1, <3>2, <1>4, <1>6, <1>7, <1>8
  <2>3. CASE q = p /\ u # t
    <3>1. handle[p][u] # None => handle[p][u] < Len(store[p]) /\ handle[p][u] \in Nat
      BY Lookup, <1>2 DEF HandleInv
    <3>2. handle'[q][u] = handle[p][u] /\ pc'[q][u] = pc[p][u]
      BY <2>3, <1>6, <1>7
    <3>3. handle'[q][u] # None => handle'[q][u] < Len(store'[q])
      BY <2>3, <3>1, <3>2, <1>4, <1>8
    <3>4. ASSUME NEW v \in Thread, v # u, handle'[q][u] # None
          PROVE  handle'[q][v] # handle'[q][u]
      <4>1. CASE v = t
        BY <4>1, <2>3, <3>1, <3>2, <3>4, <1>6, <1>8
      <4>2. CASE v # t
        BY <4>2, <2>3, <3>2, <3>4, <1>2, <1>6 DEF HandleInv
      <4> QED BY <4>1, <4>2
    <3> QED BY <2>3, <3>2, <3>3, <3>4, <1>1, <1>2 DEF HandleInv
  <2> QED BY <2>1, <2>2, <2>3
<1>12. CountInv'
  <2> SUFFICES ASSUME NEW q \in Party
               PROVE  Len(store'[q]) = Cardinality(Added(handle'[q]))
    BY DEF CountInv
  <2>1. CASE q # p
    BY <2>1, <1>2, <1>5 DEF CountInv
  <2>2. CASE q = p
    <3>1. Added(handle'[p]) = Added(handle[p]) \cup {t} /\ t \notin Added(handle[p])
      BY <1>3, <1>6, <1>8 DEF Added
    <3>2. IsFiniteSet(Added(handle[p]))
      BY ConstantsAssumption, FS_Subset DEF Added
    <3>3. Cardinality(Added(handle'[p])) = Cardinality(Added(handle[p])) + 1
      BY <3>1, <3>2, FS_AddElement
    <3>4. Cardinality(Added(handle[p])) = Len(store[p])
      BY <1>2 DEF CountInv
    <3> QED BY <2>2, <3>3, <3>4, <1>4
  <2> QED BY <2>1, <2>2
<1>13. OwnShuffle'
  <2> SUFFICES ASSUME NEW q \in Party, NEW u \in Thread, pc'[q][u] \in Holding
               PROVE  store'[q][handle'[q][u] + 1] = ConfigsOf(drawn[u], ConfigOf[size])
    BY <1>1 DEF OwnShuffle, Shuffle
  <2>1. CASE q = p /\ u = t
    BY <2>1, <1>3, <1>4, <1>6 DEF ConfigsOf
  <2>2. CASE q # p \/ u # t
    <3>1. pc[q][u] \in Holding /\ handle'[q][u] = handle[q][u]
      BY <2>2, <1>6, <1>7
    <3>2. handle[q][u] + 1 \in 1 .. Len(store[q])
      BY <3>1, <1>2, Lookup DEF HandleInv
    <3>3. store'[q][handle[q][u] + 1] = store[q][handle[q][u] + 1]
      BY <3>2, <1>4, <1>5
    <3> QED BY <3>1, <3>3, <1>2 DEF OwnShuffle, Shuffle
  <2> QED BY <2>1, <2>2
<1> QED BY <1>10, <1>11, <1>12, <1>13 DEF Inv

Put(es, k, e) == [es EXCEPT ![k] = e]

\* Storing into the entry of thread t at a party moves no other entry.
LEMMA PutEntry ==
  ASSUME Inv, NEW p \in Party, NEW t \in Thread, handle[p][t] # None, NEW e \in Seq(Config)
  PROVE  LET s == Put(store[p], handle[p][t] + 1, e)
         IN  /\ s \in Seq(Seq(Config)) /\ Len(s) = Len(store[p])
             /\ s[handle[p][t] + 1] = e
             /\ \A u \in Thread : u # t /\ handle[p][u] # None
                  => s[handle[p][u] + 1] = store[p][handle[p][u] + 1]
<1> DEFINE s == Put(store[p], handle[p][t] + 1, e)
<1> USE DEF Put
<1>1. store[p] \in Seq(Seq(Config)) /\ handle[p][t] + 1 \in 1 .. Len(store[p])
  BY Lookup
<1>2. s \in Seq(Seq(Config)) /\ Len(s) = Len(store[p])
  BY <1>1, ExceptSeq
<1>3. s[handle[p][t] + 1] = e
  BY <1>1, Lookup
<1>4. ASSUME NEW u \in Thread, u # t, handle[p][u] # None
      PROVE  s[handle[p][u] + 1] = store[p][handle[p][u] + 1]
  <2>1. handle[p][u] # handle[p][t]
    BY <1>4 DEF Inv, HandleInv
  <2>2. handle[p][u] \in Nat /\ handle[p][t] \in Nat /\ handle[p][u] + 1 \in DOMAIN store[p]
    BY <1>4, Lookup
  <2> QED BY <2>1, <2>2
<1> QED BY <1>2, <1>3, <1>4

\* What a party deletes is the thread's own entry, which then is nobody's.
LEMMA DelStep ==
  ASSUME Inv, NEW p \in Party, NEW t \in Thread, Del(p, t)
  PROVE  Inv'
<1>1. /\ pc[p][t] = "delete" /\ pc' = [pc EXCEPT ![p][t] = "end"]
      /\ store' = [store EXCEPT ![p][handle[p][t] + 1] = <<>>]
      /\ UNCHANGED <<malicious, size, handle, drawn>>
  BY DEF Del
<1>2. Typed /\ HandleInv /\ CountInv /\ OwnShuffle
  BY DEF Inv
<1>3. handle[p][t] # None
  BY <1>1, <1>2 DEF HandleInv, Holding
<1>4. store' = [store EXCEPT ![p] = [store[p] EXCEPT ![handle[p][t] + 1] = <<>>]]
  BY <1>1
<1>5. store'[p] = Put(store[p], handle[p][t] + 1, <<>>)
  BY <1>4, <1>2 DEF Typed, Put
<1>6. \A q \in Party : q # p => store'[q] = store[q]
  BY <1>4, <1>2 DEF Typed
<1>7. /\ store'[p] \in Seq(Seq(Config)) /\ Len(store'[p]) = Len(store[p])
      /\ \A u \in Thread : u # t /\ handle[p][u] # None
           => store'[p][handle[p][u] + 1] = store[p][handle[p][u] + 1]
  <2>1. <<>> \in Seq(Config)
    BY EmptySeq
  <2> DEFINE s == Put(store[p], handle[p][t] + 1, <<>>)
  <2>2. /\ s \in Seq(Seq(Config)) /\ Len(s) = Len(store[p])
        /\ \A u \in Thread : u # t /\ handle[p][u] # None
             => s[handle[p][u] + 1] = store[p][handle[p][u] + 1]
    BY <1>3, <2>1, PutEntry
  <2> HIDE DEF s
  <2> QED BY <1>5, <2>2 DEF s
<1>8. /\ pc'[p][t] = "end"
      /\ \A q \in Party, u \in Thread : q # p \/ u # t => pc'[q][u] = pc[q][u]
  BY <1>1, <1>2 DEF Typed
<1>9. \A q \in Party : Len(store'[q]) = Len(store[q])
  BY <1>6, <1>7
<1>10. Typed'
  <2>1. store' \in [Party -> Seq(Seq(Config))]
    BY <1>4, <1>2, <1>5, <1>6, <1>7 DEF Typed
  <2>2. pc' \in [Party -> [Thread -> Places]]
    BY <1>1, <1>2 DEF Typed, Places
  <2>3. Config' = Config
    BY <1>1 DEF Config
  <2> QED BY <1>1, <1>2, <2>1, <2>2, <2>3 DEF Typed
<1>11. HandleInv'
  <2> SUFFICES ASSUME NEW q \in Party, NEW u \in Thread
               PROVE  /\ handle[q][u] # None => handle[q][u] < Len(store'[q])
                      /\ pc'[q][u] \in Holding => handle[q][u] # None
                      /\ pc'[q][u] = "begin" => handle[q][u] = None /\ drawn[u] = <<>>
                      /\ \A v \in Thread : v # u /\ handle[q][u] # None
                                             => handle[q][v] # handle[q][u]
    BY <1>1 DEF HandleInv
  <2>1. handle[q][u] # None => handle[q][u] < Len(store'[q])
    BY <1>2, <1>9 DEF HandleInv
  <2>2. pc'[q][u] \in Holding \cup {"begin"} => pc[q][u] = pc'[q][u]
    BY <1>8 DEF Holding
  <2> QED BY <1>2, <2>1, <2>2 DEF HandleInv
<1>12. CountInv'
  BY <1>1, <1>2, <1>9 DEF CountInv, Added
<1>13. OwnShuffle'
  <2> SUFFICES ASSUME NEW q \in Party, NEW u \in Thread, pc'[q][u] \in Holding
               PROVE  store'[q][handle[q][u] + 1] = ConfigsOf(drawn[u], ConfigOf[size])
    BY <1>1 DEF OwnShuffle, Shuffle
  <2>1. (q # p \/ u # t) /\ pc[q][u] \in Holding
    BY <1>8 DEF Holding
  <2>2. handle[q][u] # None
    BY <2>1, <1>2 DEF HandleInv
  <2>3. store'[q][handle[q][u] + 1] = store[q][handle[q][u] + 1]
    BY <2>1, <2>2, <1>6, <1>7
  <2> QED BY <2>1, <2>3, <1>2 DEF OwnShuffle, Shuffle
<1> QED BY <1>10, <1>11, <1>12, <1>13 DEF Inv

\* Every party appends the next player's network to the entry of the same thread.
LEMMA GenerateStep ==
  ASSUME Inv, NEW t \in Thread, GeneratePlayer(t)
  PROVE  Inv'
<1>1. PICK perm \in Draws(t, size) :
        /\ drawn' = [drawn EXCEPT ![t] = Append(@, perm)]
        /\ store' = [p \in Party |-> [store[p] EXCEPT
                       ![handle[p][t] + 1] = Append(@, ConfigOf[size][perm])]]
  BY DEF GeneratePlayer
<1>2. /\ \A p \in Party : pc[p][t] = "generate"
      /\ Len(drawn[t]) < Cardinality(Party)
      /\ UNCHANGED <<malicious, size, handle, pc>>
  BY DEF GeneratePlayer, Together
<1>3. Typed /\ HandleInv /\ CountInv /\ OwnShuffle
  BY DEF Inv
<1>4. perm \in Perms(size)
  BY <1>3, DrawsAssumption DEF Typed
<1>5. /\ drawn[t] \in Seq(Perms(size)) /\ drawn'[t] = Append(drawn[t], perm)
      /\ \A u \in Thread : u # t => drawn'[u] = drawn[u]
  BY <1>1, <1>3 DEF Typed
<1>6. drawn'[t] \in Seq(Perms(size)) /\ Len(drawn'[t]) = Len(drawn[t]) + 1
  BY <1>4, <1>5, AppendProperties
<1>7. ASSUME NEW p \in Party
      PROVE  /\ store'[p] \in Seq(Seq(Config)) /\ Len(store'[p]) = Len(store[p])
             /\ store'[p][handle[p][t] + 1] = ConfigsOf(drawn'[t], ConfigOf[size])
             /\ \A u \in Thread : u # t /\ handle[p][u] # None
                  => store'[p][handle[p][u] + 1] = store[p][handle[p][u] + 1]
  <2> DEFINE old == store[p][handle[p][t] + 1]
             new == Append(old, ConfigOf[size][perm])
  <2>1. handle[p][t] # None /\ old = ConfigsOf(drawn[t], ConfigOf[size])
    BY <1>2, <1>3 DEF HandleInv, OwnShuffle, Holding, Shuffle
  <2>2. old \in Seq(Config) /\ handle[p][t] + 1 \in DOMAIN store[p]
    BY <2>1, Lookup, ElementOfSeq
  <2>3. ConfigOf[size][perm] \in Config
    BY <1>4 DEF Config
  <2>4. new \in Seq(Config)
    BY <2>2, <2>3, AppendProperties
  <2>5. store'[p] = Put(store[p], handle[p][t] + 1, new)
    BY <1>1 DEF Put
  <2>6. new = ConfigsOf(drawn'[t], ConfigOf[size])
    BY <2>1, <1>4, <1>5, AppendConfig
  <2> HIDE DEF new
  <2> DEFINE s == Put(store[p], handle[p][t] + 1, new)
  <2>7. /\ s \in Seq(Seq(Config)) /\ Len(s) = Len(store[p]) /\ s[handle[p][t] + 1] = new
        /\ \A u \in Thread : u # t /\ handle[p][u] # None
             => s[handle[p][u] + 1] = store[p][handle[p][u] + 1]
    BY <2>1, <2>4, PutEntry
  <2>8. store'[p] = s
    BY <2>5
  <2> HIDE DEF s
  <2> QED BY <2>6, <2>7, <2>8
<1>8. Typed'
  <2>1. store' \in [Party -> Seq(Seq(Config))]
    <3>1. store' = [p \in Party |-> store'[p]]
      BY <1>1
    <3> QED BY <3>1, <1>7
  <2>2. drawn' \in [Thread -> Seq(Perms(size))]
    BY <1>1, <1>3, <1>5, <1>6 DEF Typed
  <2>3. \A u \in Thread : Len(drawn'[u]) <= Cardinality(Party)
    <3>1. Len(drawn'[t]) <= Cardinality(Party)
      BY <1>2, <1>6, Lookup, PartyCard
    <3> QED BY <3>1, <1>3, <1>5 DEF Typed
  <2>4. Config' = Config
    BY <1>2 DEF Config
  <2> QED BY <1>2, <1>3, <2>1, <2>2, <2>3, <2>4 DEF Typed
<1>9. HandleInv'
  <2> SUFFICES ASSUME NEW q \in Party, NEW u \in Thread
               PROVE  /\ handle[q][u] # None => handle[q][u] < Len(store'[q])
                      /\ pc[q][u] \in Holding => handle[q][u] # None
                      /\ pc[q][u] = "begin" => handle[q][u] = None /\ drawn'[u] = <<>>
                      /\ \A v \in Thread : v # u /\ handle[q][u] # None
                                             => handle[q][v] # handle[q][u]
    BY <1>2 DEF HandleInv
  <2>1. handle[q][u] # None => handle[q][u] < Len(store'[q])
    BY <1>3, <1>7 DEF HandleInv
  <2>2. pc[q][u] = "begin" => u # t
    BY <1>2
  <2> QED BY <1>3, <1>5, <2>1, <2>2 DEF HandleInv
<1>10. CountInv'
  BY <1>2, <1>3, <1>7 DEF CountInv, Added
<1>11. OwnShuffle'
  <2> SUFFICES ASSUME NEW q \in Party, NEW u \in Thread, pc[q][u] \in Holding
               PROVE  store'[q][handle[q][u] + 1] = ConfigsOf(drawn'[u], ConfigOf[size])
    BY <1>2 DEF OwnShuffle, Shuffle
  <2>1. CASE u = t
    BY <2>1, <1>7
  <2>2. CASE u # t
    <3>1. handle[q][u] # None
      BY <1>3 DEF HandleInv
    <3> QED BY <2>2, <3>1, <1>3, <1>5, <1>7 DEF OwnShuffle, Shuffle
  <2> QED BY <2>1, <2>2
<1> QED BY <1>8, <1>9, <1>10, <1>11 DEF Inv

\* Moving on with the store and the handles as they are: no thread goes back to where it
\* has no entry, or gets to where it needs one without one.
LEMMA MoveStep ==
  ASSUME Inv, NEW t \in Thread, NEW place, NEW next \in Places \ {"begin"},
         Together(t, place), AllTo(t, next), next \in Holding => place \in Holding,
         UNCHANGED <<malicious, size, store, handle>>,
         drawn' \in [Thread -> Seq(Perms(size))],
         \A u \in Thread : Len(drawn'[u]) <= Cardinality(Party),
         \A u \in Thread : u # t \/ next \in Holding => drawn'[u] = drawn[u]
  PROVE  Inv'
<1>1. Typed /\ HandleInv /\ CountInv /\ OwnShuffle
  BY DEF Inv
<1>2. /\ \A p \in Party : pc[p][t] = place
      /\ pc' = [p \in Party |-> [pc[p] EXCEPT ![t] = next]]
  BY DEF Together, AllTo
<1>3. \A p \in Party, u \in Thread :
        /\ u = t => pc'[p][u] = next
        /\ u # t => pc'[p][u] = pc[p][u]
  BY <1>1, <1>2 DEF Typed
<1>4. Config' = Config
  BY DEF Config
<1>5. Typed'
  <2>1. pc' \in [Party -> [Thread -> Places]]
    BY <1>1, <1>2 DEF Typed
  <2> QED BY <1>1, <1>4, <2>1 DEF Typed
<1>6. ASSUME NEW p \in Party, NEW u \in Thread, pc'[p][u] \in Holding
      PROVE  pc[p][u] \in Holding /\ drawn'[u] = drawn[u]
  BY <1>2, <1>3, <1>6
<1>7. ASSUME NEW p \in Party, NEW u \in Thread, pc'[p][u] = "begin"
      PROVE  pc[p][u] = "begin" /\ drawn'[u] = drawn[u]
  BY <1>3, <1>7
<1>8. HandleInv'
  BY <1>1, <1>6, <1>7 DEF HandleInv
<1>9. CountInv'
  BY <1>1 DEF CountInv, Added
<1>10. OwnShuffle'
  BY <1>1, <1>6 DEF OwnShuffle, Shuffle
<1> QED BY <1>5, <1>8, <1>9, <1>10 DEF Inv

\* The constructor's thread comes to its end without an entry.
LEMMA OnceStep ==
  ASSUME Inv, NEW t \in Thread, ShuffleOnce(t)
  PROVE  Inv'
<1>1. PICK perms \in [1 .. Cardinality(Party) -> Draws(t, size)] :
        drawn' = [drawn EXCEPT ![t] = perms]
  BY DEF ShuffleOnce
<1>2. Together(t, "begin") /\ AllTo(t, "end") /\ UNCHANGED <<malicious, size, store, handle>>
  BY DEF ShuffleOnce
<1>3. Typed
  BY DEF Inv
<1>4. perms \in [1 .. Cardinality(Party) -> Perms(size)]
  BY <1>3, DrawsAssumption DEF Typed
<1>5. perms \in Seq(Perms(size))
  BY <1>4, PartyCard, SeqDef
<1>6. Len(perms) = Cardinality(Party)
  BY <1>4, <1>5, PartyCard, LenProperties
<1>7. drawn'[t] = perms /\ \A u \in Thread : u # t => drawn'[u] = drawn[u]
  BY <1>1, <1>3 DEF Typed
<1>8. drawn' \in [Thread -> Seq(Perms(size))]
  BY <1>1, <1>3, <1>5 DEF Typed
<1>9. \A u \in Thread : Len(drawn'[u]) <= Cardinality(Party)
  <2>1. Len(drawn'[t]) <= Cardinality(Party)
    BY <1>6, <1>7, PartyCard
  <2> QED BY <2>1, <1>3, <1>7 DEF Typed
<1>10. "end" \in Places \ {"begin"} /\ "end" \notin Holding
  BY DEF Places, Holding
<1> QED BY <1>2, <1>7, <1>8, <1>9, <1>10, MoveStep

\* The other steps in which all parties' threads move on together.
LEMMA TogetherStep ==
  ASSUME Inv, NEW t \in Thread,
         Generated(t) \/ ApplyForward(t) \/ ApplyReverse(t) \/ InversePermutation(t)
  PROVE  Inv'
<1>1. /\ drawn \in [Thread -> Seq(Perms(size))]
      /\ \A u \in Thread : Len(drawn[u]) <= Cardinality(Party)
  BY DEF Inv, Typed
<1>2. {"shuffle", "unshuffle", "delete", "end"} \subseteq Places \ {"begin"}
  BY DEF Places
<1>3. /\ {"generate", "shuffle", "unshuffle", "delete"} \subseteq Holding
      /\ "end" \notin Holding
  BY DEF Holding
<1>4. CASE Generated(t)
  <2>1. /\ Together(t, "generate") /\ AllTo(t, "shuffle")
        /\ UNCHANGED <<malicious, size, store, handle, drawn>>
    BY <1>4 DEF Generated
  <2> QED BY <2>1, <1>1, <1>2, <1>3, MoveStep
<1>5. CASE ApplyForward(t)
  <2>1. /\ Together(t, "shuffle") /\ AllTo(t, "unshuffle")
        /\ UNCHANGED <<malicious, size, store, handle, drawn>>
    BY <1>5 DEF ApplyForward, ApplyShuffle
  <2> QED BY <2>1, <1>1, <1>2, <1>3, MoveStep
<1>6. CASE ApplyReverse(t)
  <2>1. /\ Together(t, "unshuffle") /\ AllTo(t, "delete")
        /\ UNCHANGED <<malicious, size, store, handle, drawn>>
    BY <1>6 DEF ApplyReverse, ApplyShuffle
  <2> QED BY <2>1, <1>1, <1>2, <1>3, MoveStep
<1>7. CASE InversePermutation(t)
  <2>1. /\ Together(t, "begin") /\ AllTo(t, "end")
        /\ UNCHANGED <<malicious, size, store, handle, drawn>>
    BY <1>7 DEF InversePermutation
  <2> QED BY <2>1, <1>1, <1>2, <1>3, MoveStep
<1> QED BY <1>4, <1>5, <1>6, <1>7

LEMMA StepInv ==
  ASSUME Inv, [Next]_vars
  PROVE  Inv'
<1>1. CASE UNCHANGED vars
  <2>1. Config' = Config
    BY <1>1 DEF vars, Config
  <2> QED BY <1>1, <2>1
          DEF vars, Inv, Typed, HandleInv, CountInv, Added, OwnShuffle, Shuffle
<1>2. ASSUME NEW p \in Party, NEW t \in Thread, Add(p, t)
      PROVE  Inv'
  BY <1>2, AddStep
<1>3. ASSUME NEW p \in Party, NEW t \in Thread, Del(p, t)
      PROVE  Inv'
  BY <1>3, DelStep
<1>4. ASSUME NEW t \in Thread, GeneratePlayer(t)
      PROVE  Inv'
  BY <1>4, GenerateStep
<1>5. ASSUME NEW t \in Thread, ShuffleOnce(t)
      PROVE  Inv'
  BY <1>5, OnceStep
<1>6. ASSUME NEW t \in Thread,
             Generated(t) \/ ApplyForward(t) \/ ApplyReverse(t) \/ InversePermutation(t)
      PROVE  Inv'
  BY <1>6, TogetherStep
<1> QED BY <1>1, <1>2, <1>3, <1>4, <1>5, <1>6 DEF Next, Done

LEMMA AlwaysInv == Spec => []Inv
<1>1. Init => Inv
  BY InitInv
<1>2. Inv /\ [Next]_vars => Inv'
  BY StepInv
<1> QED BY <1>1, <1>2, PTL DEF Spec

-----------------------------------------------------------------------------
(* The vectors.                                                            *)

\* A vector is as it was at first before the shuffle and after it was undone, and in
\* between it is where the permutations of the thread's own players bring it.
Original(t) == vector[t] = Units(size)

Course(n, ds) == Courses(n, 0 .. n - 1, ds, Units(n))

Moved(t) == \E f \in Course(size, drawn[t]) : vector[t] = f[Len(drawn[t])]

Stage(t) ==
  \/ (\A p \in Party : pc[p][t] \in {"begin", "generate"}) /\ Original(t)
  \/ Together(t, "shuffle") /\ Original(t)
  \/ Together(t, "unshuffle") /\ Moved(t)
  \/ (\A p \in Party : pc[p][t] \in {"delete", "end"} /\ handle[p][t] # None) /\ Original(t)
  \/ Together(t, "end") /\ (\A p \in Party : handle[p][t] = None)
     /\ (drawn[t] = <<>> \/ Moved(t))

VectorInv ==
  /\ vector = [t \in Thread |-> vector[t]] /\ inverse = [t \in Thread |-> inverse[t]]
  /\ \A t \in Thread : Stage(t)
  /\ InverseIsInverse

\* Steps of one thread leave the others where they are.
LEMMA OtherStages ==
  ASSUME VectorInv, NEW t \in Thread, UNCHANGED size,
         \A p \in Party, u \in Thread \ {t} :
            pc'[p][u] = pc[p][u] /\ handle'[p][u] = handle[p][u],
         \A u \in Thread \ {t} : drawn'[u] = drawn[u] /\ vector'[u] = vector[u],
         NEW u \in Thread \ {t}
  PROVE  Stage(u)'
<1>1. Stage(u) BY DEF VectorInv
<1>2. Original(u)' <=> Original(u) BY DEF Original
<1>3. Moved(u)' <=> Moved(u)
  <2>1. drawn'[u] = drawn[u] /\ vector'[u] = vector[u] /\ size' = size OBVIOUS
  <2> QED BY <2>1 DEF Moved
<1>4. \A p \in Party : pc'[p][u] = pc[p][u] /\ handle'[p][u] = handle[p][u] OBVIOUS
<1>5. drawn'[u] = drawn[u] OBVIOUS
<1> QED BY <1>1, <1>2, <1>3, <1>4, <1>5 DEF Stage, Together

\* A store's steps: no thread's vector changes, and a thread at its first or last places
\* stays there.
LEMMA StoreVectors ==
  ASSUME Inv, VectorInv, NEW p \in Party, NEW t \in Thread, Add(p, t) \/ Del(p, t)
  PROVE  VectorInv'
<1>1. Typed BY DEF Inv
<1>2. UNCHANGED <<size, drawn, vector, inverse>> BY DEF Add, Del
<1>3. \A q \in Party, u \in Thread : (q # p \/ u # t) =>
         pc'[q][u] = pc[q][u] /\ handle'[q][u] = handle[q][u]
  BY <1>1 DEF Typed, Add, Del
<1>4. \A u \in Thread \ {t} : Stage(u)' BY <1>2, <1>3, OtherStages
<1>5. Stage(t) BY DEF VectorInv
<1>6. Original(t)' <=> Original(t) BY <1>2 DEF Original
<1>7. Stage(t)'
  <2>1. CASE Add(p, t)
    <3>1. pc[p][t] = "begin" /\ pc'[p][t] = "generate" BY <1>1, <2>1 DEF Typed, Add
    <3>2. (\A q \in Party : pc[q][t] \in {"begin", "generate"}) /\ Original(t)
      BY <1>5, <3>1 DEF Stage, Together
    <3>3. \A q \in Party : pc'[q][t] \in {"begin", "generate"} BY <1>3, <3>1, <3>2
    <3> QED BY <1>6, <3>2, <3>3 DEF Stage
  <2>2. CASE Del(p, t)
    <3>1. pc[p][t] = "delete" /\ pc'[p][t] = "end" /\ handle' = handle
      BY <1>1, <2>2 DEF Typed, Del
    <3>2. /\ \A q \in Party : pc[q][t] \in {"delete", "end"} /\ handle[q][t] # None
          /\ Original(t)
      BY <1>5, <3>1 DEF Stage, Together
    <3>3. \A q \in Party : pc'[q][t] \in {"delete", "end"} /\ handle'[q][t] # None
      BY <1>3, <3>1, <3>2
    <3> QED BY <1>6, <3>2, <3>3 DEF Stage
  <2> QED BY <2>1, <2>2
<1> QED BY <1>2, <1>4, <1>7 DEF VectorInv, InverseIsInverse

\* What a joint step of a thread does to its place
LEMMA PlaceOf ==
  ASSUME Inv, NEW t \in Thread, NEW next, AllTo(t, next)
  PROVE  /\ Together(t, next)'
         /\ \A p \in Party, u \in Thread \ {t} : pc'[p][u] = pc[p][u]
<1>1. pc \in [Party -> [Thread -> Places]] BY DEF Inv, Typed
<1> QED BY <1>1 DEF AllTo, Together

\* The players draw their networks; the vector is not touched.
LEMMA DrawVectors ==
  ASSUME Inv, VectorInv, NEW t \in Thread, GeneratePlayer(t) \/ Generated(t)
  PROVE  VectorInv'
<1>1. UNCHANGED <<size, handle, vector, inverse>> BY DEF GeneratePlayer, Generated
<1>2. Together(t, "generate") BY DEF GeneratePlayer, Generated
<1>3. Original(t)
  <2>1. PICK p \in Party : TRUE BY ConstantsAssumption
  <2> QED BY <1>2, <2>1 DEF VectorInv, Stage, Together
<1>4. Original(t)' BY <1>1, <1>3 DEF Original
<1>5. Stage(t)' /\ \A p \in Party, u \in Thread \ {t} : pc'[p][u] = pc[p][u]
  <2>1. CASE GeneratePlayer(t)
    <3>1. pc' = pc BY <2>1 DEF GeneratePlayer
    <3>2. \A p \in Party : pc'[p][t] \in {"begin", "generate"} BY <1>2, <3>1 DEF Together
    <3> QED BY <1>4, <3>1, <3>2 DEF Stage
  <2>2. CASE Generated(t)
    <3>1. AllTo(t, "shuffle") BY <2>2 DEF Generated
    <3> QED BY <1>4, <3>1, PlaceOf DEF Stage
  <2> QED BY <2>1, <2>2
<1>6. \A u \in Thread \ {t} : drawn'[u] = drawn[u]
  <2>1. drawn \in [Thread -> Seq(Perms(size))] BY DEF Inv, Typed
  <2> QED BY <2>1 DEF GeneratePlayer, Generated
<1>7. \A u \in Thread \ {t} : Stage(u)' BY <1>1, <1>5, <1>6, OtherStages
<1> QED BY <1>1, <1>5, <1>7 DEF VectorInv, InverseIsInverse

\* The networks of the permutations ds bring a vector along its course, and back.
Carried(n, ds, f) ==
  /\ Apply(Units(n), n, ConfigsOf(ds, ConfigOf[n]), FALSE) = f[Len(ds)]
  /\ Apply(f[Len(ds)], n, ConfigsOf(ds, ConfigOf[n]), TRUE) = Units(n)

LEMMA UnitsCourse ==
  ASSUME NEW n \in Sizes, NEW ds \in Seq(Perms(n))
  PROVE  \E f : f \in Course(n, ds)
<1> DEFINE U == 0 .. n - 1
           a == Units(n)
<1>1. a \in Vectors(n, U) BY DEF Units, Vectors
<1>2. Course(n, ds) = Courses(n, U, ds, a) BY DEF Course
<1> HIDE DEF U, a
<1> QED BY <1>1, <1>2, CourseExists

LEMMA CourseIs ==
  ASSUME NEW n \in Sizes, NEW ds \in Seq(Perms(n)), NEW f \in Course(n, ds)
  PROVE  Carried(n, ds, f)
<1> DEFINE U == 0 .. n - 1
           a == Units(n)
<1>1. a \in Vectors(n, U) BY DEF Units, Vectors
<1>2. f \in Courses(n, U, ds, a) BY DEF Course
<1> HIDE DEF U, a
<1>3. Apply(a, n, ConfigsOf(ds, ConfigOf[n]), FALSE) = f[Len(ds)] BY <1>1, <1>2, ForwardIs
<1>4. Apply(f[Len(ds)], n, ConfigsOf(ds, ConfigOf[n]), TRUE) = a BY <1>1, <1>2, ReverseIs
<1> QED BY <1>3, <1>4 DEF a, Carried

\* Forwards and backwards with the thread's own networks.
LEMMA ApplyVectors ==
  ASSUME Inv, VectorInv, NEW t \in Thread, ApplyForward(t) \/ ApplyReverse(t)
  PROVE  VectorInv'
<1> DEFINE P == CHOOSE q \in Party : TRUE
           cs == ConfigsOf(drawn[t], ConfigOf[size])
<1>1. UNCHANGED <<size, handle, drawn, inverse>>
  BY DEF ApplyForward, ApplyReverse, ApplyShuffle
<1>2. P \in Party BY ConstantsAssumption
<1>3. size \in Sizes /\ drawn[t] \in Seq(Perms(size)) /\ pc \in [Party -> [Thread -> Places]]
  BY DEF Inv, Typed
<1>4. vector = [u \in Thread |-> vector[u]] /\ Stage(t) BY DEF VectorInv
<1> HIDE DEF P
<1>5. Shuffle(P, t) = cs /\ \A p \in Party : handle[p][t] # None
  <2>1. \A p \in Party : pc[p][t] \in Holding
    BY DEF ApplyForward, ApplyReverse, ApplyShuffle, Together, Holding
  <2> QED BY <1>2, <2>1 DEF Inv, HandleInv, OwnShuffle
<1>6. /\ vector' = [u \in Thread |-> vector'[u]]
      /\ \A u \in Thread \ {t} : vector'[u] = vector[u]
      /\ \A p \in Party, u \in Thread \ {t} : pc'[p][u] = pc[p][u]
      /\ Stage(t)'
  <2>1. CASE ApplyForward(t)
    <3>1. /\ Together(t, "shuffle") /\ AllTo(t, "unshuffle")
          /\ vector' = [vector EXCEPT ![t] = Apply(@, size, Shuffle(P, t), FALSE)]
      BY <2>1 DEF ApplyForward, ApplyShuffle, P
    <3>2. Original(t) BY <1>2, <1>4, <3>1 DEF Stage, Together
    <3>3. /\ vector'[t] = Apply(vector[t], size, Shuffle(P, t), FALSE)
          /\ vector' = [u \in Thread |-> vector'[u]]
          /\ \A u \in Thread \ {t} : vector'[u] = vector[u]
      BY <1>4, <3>1
    <3>4. vector'[t] = Apply(Units(size), size, cs, FALSE)
      BY <1>5, <3>2, <3>3 DEF Original
    <3>5. PICK f : f \in Course(size, drawn[t]) /\ vector'[t] = f[Len(drawn[t])]
      <4>1. PICK f : f \in Course(size, drawn[t]) BY <1>3, UnitsCourse
      <4>2. Carried(size, drawn[t], f) BY <1>3, <4>1, CourseIs
      <4>3. vector'[t] = f[Len(drawn[t])] BY <3>4, <4>2 DEF Carried
      <4> QED BY <4>1, <4>3
    <3>6. Moved(t)' BY <1>1, <3>5 DEF Moved
    <3> QED BY <3>1, <3>3, <3>6, PlaceOf DEF Stage
  <2>2. CASE ApplyReverse(t)
    <3>1. /\ Together(t, "unshuffle") /\ AllTo(t, "delete")
          /\ vector' = [vector EXCEPT ![t] = Apply(@, size, Shuffle(P, t), TRUE)]
      BY <2>2 DEF ApplyReverse, ApplyShuffle, P
    <3>2. Moved(t) BY <1>2, <1>4, <3>1 DEF Stage, Together
    <3>3. /\ vector'[t] = Apply(vector[t], size, Shuffle(P, t), TRUE)
          /\ vector' = [u \in Thread |-> vector'[u]]
          /\ \A u \in Thread \ {t} : vector'[u] = vector[u]
      BY <1>4, <3>1
    <3>4. PICK f : f \in Course(size, drawn[t]) /\ vector[t] = f[Len(drawn[t])]
      BY <3>2 DEF Moved
    <3>5. vector'[t] = Apply(f[Len(drawn[t])], size, cs, TRUE) BY <1>5, <3>3, <3>4
    <3>6. vector'[t] = Units(size)
      <4>1. Carried(size, drawn[t], f) BY <1>3, <3>4, CourseIs
      <4> QED BY <3>5, <4>1 DEF Carried
    <3>7. Original(t)' BY <1>1, <3>6 DEF Original
    <3>8. \A p \in Party : pc'[p][t] \in {"delete", "end"} /\ handle'[p][t] # None
      BY <1>1, <1>5, <3>1, PlaceOf DEF Together
    <3> QED BY <3>1, <3>3, <3>7, <3>8, PlaceOf DEF Stage
  <2> QED BY <2>1, <2>2
<1>7. \A u \in Thread \ {t} : Stage(u)' BY <1>1, <1>6, OtherStages
<1> QED BY <1>1, <1>6, <1>7 DEF VectorInv, InverseIsInverse

\* The constructor's shuffle, and the inverse.
LEMMA OnceVectors ==
  ASSUME Inv, VectorInv, NEW t \in Thread, ShuffleOnce(t) \/ InversePermutation(t)
  PROVE  VectorInv'
<1>1. UNCHANGED <<size, handle>> /\ Together(t, "begin") /\ AllTo(t, "end")
  BY DEF ShuffleOnce, InversePermutation
<1>2. /\ size \in Sizes /\ drawn \in [Thread -> Seq(Perms(size))]
      /\ vector = [u \in Thread |-> vector[u]] /\ inverse = [u \in Thread |-> inverse[u]]
  BY DEF Inv, Typed, VectorInv
<1>3. PICK q \in Party : TRUE BY ConstantsAssumption
<1>4. Original(t) /\ drawn[t] = <<>> /\ \A p \in Party : handle[p][t] = None
  <2>1. pc[q][t] = "begin" /\ \A p \in Party : pc[p][t] = "begin" BY <1>1 DEF Together
  <2> QED BY <2>1 DEF Inv, HandleInv, VectorInv, Stage, Together
<1>5. Together(t, "end")' /\ \A p \in Party, u \in Thread \ {t} : pc'[p][u] = pc[p][u]
  BY <1>1, PlaceOf
<1>6. CASE ShuffleOnce(t)
  <2>1. PICK perms \in [1 .. Cardinality(Party) -> Draws(t, size)] :
          /\ drawn' = [drawn EXCEPT ![t] = perms]
          /\ vector' = [vector EXCEPT ![t] =
                Apply(@, size, [k \in DOMAIN perms |-> ConfigOf[size][perms[k]]], FALSE)]
    BY <1>6 DEF ShuffleOnce
  <2>2. drawn'[t] = perms /\ \A u \in Thread \ {t} : drawn'[u] = drawn[u] BY <1>2, <2>1
  <2>3. /\ vector'[t] = Apply(vector[t], size, ConfigsOf(perms, ConfigOf[size]), FALSE)
        /\ vector' = [u \in Thread |-> vector'[u]]
        /\ \A u \in Thread \ {t} : vector'[u] = vector[u]
    BY <1>2, <2>1 DEF ConfigsOf
  <2>4. Moved(t)'
    <3>1. perms \in Seq(Perms(size))
      <4>1. perms \in [1 .. Cardinality(Party) -> Perms(size)] BY <1>2, DrawsAssumption
      <4> QED BY <4>1, PartyCard, SeqDef
    <3>2. PICK f : f \in Course(size, perms) /\ vector'[t] = f[Len(perms)]
      <4>1. PICK f : f \in Course(size, perms) BY <1>2, <3>1, UnitsCourse
      <4>2. Carried(size, perms, f) BY <1>2, <3>1, <4>1, CourseIs
      <4>3. vector'[t] = f[Len(perms)] BY <1>4, <2>3, <4>2 DEF Carried, Original
      <4> QED BY <4>1, <4>3
    <3> QED BY <1>1, <2>2, <3>2 DEF Moved
  <2>5. Stage(t)' BY <1>1, <1>4, <1>5, <2>4 DEF Stage
  <2>6. \A u \in Thread \ {t} : Stage(u)' BY <1>1, <1>5, <2>2, <2>3, OtherStages
  <2>7. inverse' = inverse BY <1>6 DEF ShuffleOnce
  <2> QED BY <1>1, <2>3, <2>5, <2>6, <2>7 DEF VectorInv, InverseIsInverse
<1>7. CASE InversePermutation(t)
  <2>1. UNCHANGED <<drawn, vector>> BY <1>7 DEF InversePermutation
  <2>2. PICK stack \in Draws(t, size), permAlice \in Draws(t, size) :
          inverse' = [inverse EXCEPT ![t] =
            [of |-> stack,
             is |-> Masked(permAlice, size,
                           InverseOf(Masked(stack, size, permAlice), size))]]
    BY <1>7 DEF InversePermutation
  <2>3. stack \in Perms(size) /\ permAlice \in Perms(size) BY <1>2, DrawsAssumption
  <2> DEFINE made == Masked(permAlice, size, InverseOf(Masked(stack, size, permAlice), size))
  <2>4. \A i \in 0 .. size - 1 : made[stack[i]] = i BY <1>2, <2>3, InverseMade
  <2> HIDE DEF made
  <2>5. /\ inverse' = [u \in Thread |-> inverse'[u]]
        /\ inverse'[t] = [of |-> stack, is |-> made]
        /\ \A u \in Thread \ {t} : inverse'[u] = inverse[u]
    BY <1>2, <2>2 DEF made
  <2>6. InverseIsInverse'
    <3> SUFFICES ASSUME NEW u \in Thread, inverse'[u] # None, NEW i \in 0 .. size - 1
                 PROVE  inverse'[u].is[inverse'[u].of[i]] = i
      BY <1>1 DEF InverseIsInverse
    <3>1. CASE u = t
      <4>1. inverse'[u].is = made /\ inverse'[u].of = stack BY <2>5, <3>1
      <4> QED BY <2>4, <4>1
    <3>2. CASE u # t BY <2>5, <3>2 DEF VectorInv, InverseIsInverse
    <3> QED BY <3>1, <3>2
  <2>7. Stage(t)' BY <1>1, <1>4, <1>5, <2>1 DEF Stage
  <2>8. \A u \in Thread \ {t} : Stage(u)' BY <1>1, <1>5, <2>1, OtherStages
  <2> QED BY <1>2, <2>1, <2>5, <2>6, <2>7, <2>8 DEF VectorInv
<1> QED BY <1>6, <1>7

LEMMA AlwaysVectorInv == Spec => []VectorInv
<1>1. Init => VectorInv
  <2> SUFFICES ASSUME Init PROVE VectorInv
    OBVIOUS
  <2>1. vector = [t \in Thread |-> Units(size)] /\ inverse = [t \in Thread |-> None]
    BY DEF Init
  <2>2. \A p \in Party, t \in Thread : pc[p][t] = "begin" BY DEF Init
  <2>3. \A t \in Thread : Stage(t) BY <2>1, <2>2 DEF Stage, Original
  <2> QED BY <2>1, <2>3 DEF VectorInv, InverseIsInverse
<1>2. ASSUME Inv, VectorInv, [Next]_vars PROVE VectorInv'
  <2>1. CASE UNCHANGED vars
    <3>1. \A t \in Thread : Stage(t)'
      BY <1>2, <2>1 DEF vars, VectorInv, Stage, Together, Original, Moved
    <3> QED BY <1>2, <2>1, <3>1 DEF vars, VectorInv, InverseIsInverse
  <2>2. ASSUME NEW p \in Party, NEW t \in Thread, Add(p, t) \/ Del(p, t) PROVE VectorInv'
    BY <1>2, <2>2, StoreVectors
  <2>3. ASSUME NEW t \in Thread, GeneratePlayer(t) \/ Generated(t) PROVE VectorInv'
    BY <1>2, <2>3, DrawVectors
  <2>4. ASSUME NEW t \in Thread, ApplyForward(t) \/ ApplyReverse(t) PROVE VectorInv'
    BY <1>2, <2>4, ApplyVectors
  <2>5. ASSUME NEW t \in Thread, ShuffleOnce(t) \/ InversePermutation(t) PROVE VectorInv'
    BY <1>2, <2>5, OnceVectors
  <2> QED BY <1>2, <2>1, <2>2, <2>3, <2>4, <2>5 DEF Next, Done
<1> QED BY <1>1, <1>2, AlwaysInv, PTL DEF Spec

-----------------------------------------------------------------------------
(* The theorems.                                                           *)

\* Every handle is a place of the party's store, the store has at most one entry for a
\* thread, and a shuffle gets no more networks than there are players.
THEOREM TypeCorrect == Spec => []TypeOK
<1>1. Inv => TypeOK
  <2> SUFFICES ASSUME Inv PROVE TypeOK
    OBVIOUS
  <2>1. Typed /\ HandleInv /\ CountInv
    BY DEF Inv
  <2>2. ASSUME NEW p \in Party, NEW t \in Thread
        PROVE  /\ pc[p][t] \in Places
               /\ handle[p][t] \in {None} \cup 0 .. Len(store[p]) - 1
               /\ pc[p][t] \notin {"begin", "end"} => handle[p][t] # None
    <3>1. pc[p][t] \in Places
      BY <2>1 DEF Typed
    <3>2. handle[p][t] # None => handle[p][t] \in 0 .. Len(store[p]) - 1
      BY <2>1, Lookup DEF HandleInv
    <3>3. pc[p][t] \notin {"begin", "end"} => handle[p][t] # None
      BY <2>1, <3>1 DEF HandleInv, Places, Holding
    <3> QED BY <3>1, <3>2, <3>3
  <2>3. ASSUME NEW p \in Party PROVE Len(store[p]) <= Cardinality(Thread)
    <3>1. Cardinality(Added(handle[p])) <= Cardinality(Thread)
      BY ConstantsAssumption, FS_Subset DEF Added
    <3> QED BY <3>1, <2>1 DEF CountInv
  <2>4. ASSUME NEW t \in Thread
        PROVE  drawn[t] \in BoundedSeq(Perms(size), Cardinality(Party))
    <3>1. drawn[t] \in Seq(Perms(size)) /\ Len(drawn[t]) <= Cardinality(Party)
      BY <2>1 DEF Typed
    <3>2. drawn[t] \in [1 .. Len(drawn[t]) -> Perms(size)] /\ Len(drawn[t]) \in Nat
      BY <3>1, LenProperties
    <3>3. Len(drawn[t]) \in 0 .. Cardinality(Party)
      BY <3>1, <3>2, PartyCard
    <3> QED BY <3>2, <3>3 DEF BoundedSeq, SeqOf
  <2> QED BY <2>1, <2>2, <2>3, <2>4 DEF Typed, TypeOK
<1> QED BY <1>1, AlwaysInv, PTL

\* Whatever other threads of a party add and delete, the entry behind a thread's handle
\* has the networks that were made for it, in the order of the players.
THEOREM OwnNetworks == Spec => []SameShuffle
<1>1. Inv => SameShuffle
  BY DEF Inv, OwnShuffle, SameShuffle, Holding, ConfigsOf
<1> QED BY <1>1, AlwaysInv, PTL

\* Forwards a shuffle sends every unit where the permutations of the players, one after
\* the other, send it, and backwards it brings every unit home: the vector of a thread that
\* undid its shuffle is the one it began with, for any number of players and units.
THEOREM ShufflesApplied == Spec => []ShuffleApplied
<1>1. ASSUME Inv, VectorInv PROVE ShuffleApplied
  <2> SUFFICES ASSUME NEW t \in Thread
               PROVE  /\ Shuffled(t)
                           => \A i \in 0 .. size - 1 : vector[t][Destination(t, i)] = i
                      /\ Together(t, "delete") => vector[t] = Units(size)
    BY DEF ShuffleApplied
  <2>1. Stage(t) BY <1>1 DEF VectorInv
  <2>2. PICK q \in Party : TRUE BY ConstantsAssumption
  <2>3. size \in Sizes /\ drawn[t] \in Seq(Perms(size)) BY <1>1 DEF Inv, Typed
  <2>4. Together(t, "delete") => vector[t] = Units(size)
    BY <2>1, <2>2 DEF Stage, Together, Original
  <2>5. Shuffled(t) => Moved(t)
    BY <2>1, <2>2 DEF Shuffled, Stage, Together
  <2>6. ASSUME Shuffled(t), NEW i \in 0 .. size - 1
        PROVE  vector[t][Destination(t, i)] = i
    <3> DEFINE U == 0 .. size - 1
               a == Units(size)
    <3>1. a \in Vectors(size, U) /\ a[i] = i BY DEF Units, Vectors
    <3>2. PICK f : f \in Courses(size, U, drawn[t], a) /\ vector[t] = f[Len(drawn[t])]
      BY <2>5, <2>6 DEF Moved, Course
    <3> HIDE DEF U, a
    <3>3. Arrived(f, t, a, i) BY <2>3, <3>1, <3>2, DestinationIs
    <3> QED BY <3>1, <3>2, <3>3 DEF Arrived
  <2> QED BY <2>4, <2>6
<1> QED BY <1>1, AlwaysInv, AlwaysVectorInv, PTL

\* What inverse_permutation makes is the inverse of the permutation it was given, for any
\* such permutation, any mask and any number of units.
THEOREM InversesMade == Spec => []InverseIsInverse
<1>1. VectorInv => InverseIsInverse
  BY DEF VectorInv
<1> QED BY <1>1, AlwaysVectorInv, PTL
=============================================================================
