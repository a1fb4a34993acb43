--------------------------- MODULE FssTableProofs ---------------------------
(***************************************************************************)
(* Why a private lookup gives the selected sum, for every PRG, depth,      *)
(* table, query, draw and number of cores.                                 *)
(*                                                                         *)
(* First totals, and the way of the keys over the wire (WireCut).  Then    *)
(* the servers: Inv says of each party that its keys are those that the    *)
(* client has made, and for each stage what is in its arrays already.      *)
(* Every step keeps it, and the properties of FssTable follow from it and  *)
(* from what FssProofs says of the schemes.                                *)
(***************************************************************************)
EXTENDS FssTable, FssProofs

-----------------------------------------------------------------------------
(* Totals.  Total folds in an order that CHOOSE picks; it is the sum all   *)
(* the same: taking any element away takes its number away.                *)

\* The recursion of a fold over the subsets of S.
FoldStep(f, g, s) ==
  IF s = {} THEN 0 ELSE f[CHOOSE x \in s : TRUE] + g[s \ {CHOOSE x \in s : TRUE}]

\* The functions that do it.
FoldsOf(f, S) == {g \in [SUBSET S -> Int] : g = [s \in SUBSET S |-> FoldStep(f, g, s)]}

\* A finite number of numbers.
Summable(f, S) == IsFiniteSet(S) /\ \A x \in S : f[x] \in Int

\* There is such a function.
LEMMA FoldRecursion ==
  ASSUME NEW S, NEW f, Summable(f, S)
  PROVE  \E g : g \in FoldsOf(f, S)
<1>. IsFiniteSet(S) /\ \A x \in S : f[x] \in Int BY DEF Summable
<1> DEFINE P == SUBSET S
           d == Cardinality(S)
           rank == [s \in P |-> Cardinality(s)]
           F == [g \in [P -> Int] |-> [s \in P |-> FoldStep(f, g, s)]]
           a == [s \in P |-> 0]
<1>1. d \in Nat BY FS_CardinalityType
<1>2. \A s \in P : IsFiniteSet(s) /\ Cardinality(s) \in 0 .. d
  <2>. TAKE s \in P
  <2>1. IsFiniteSet(s) /\ Cardinality(s) <= d BY FS_Subset
  <2>2. Cardinality(s) \in Nat BY <2>1, FS_CardinalityType
  <2>. QED BY <1>1, <2>1, <2>2
<1>3. rank \in [P -> 0 .. d] BY <1>2
<1>4. \A s \in P : s # {} => /\ (CHOOSE x \in s : TRUE) \in s
                             /\ s \ {CHOOSE x \in s : TRUE} \in P
                             /\ Cardinality(s \ {CHOOSE x \in s : TRUE}) < Cardinality(s)
  <2>. TAKE s \in P
  <2>. HAVE s # {}
  <2>. DEFINE y == CHOOSE x \in s : TRUE
  <2>1. y \in s OBVIOUS
  <2>. HIDE DEF y
  <2>2. Cardinality(s \ {y}) = Cardinality(s) - 1 BY <1>2, <2>1, FS_RemoveElement
  <2>3. Cardinality(s) \in Int BY <1>2
  <2>. QED BY <2>1, <2>2, <2>3 DEF y
<1>5. a \in [P -> Int] OBVIOUS
<1>6. \A g \in [P -> Int], s \in P : FoldStep(f, g, s) \in Int
  <2>. TAKE g \in [P -> Int], s \in P
  <2>1. CASE s = {} BY <2>1 DEF FoldStep
  <2>2. CASE s # {}
    <3>. DEFINE y == CHOOSE x \in s : TRUE
    <3>1. y \in s /\ s \ {y} \in P BY <1>4, <2>2
    <3>2. FoldStep(f, g, s) = f[y] + g[s \ {y}] BY <2>2 DEF FoldStep
    <3>. HIDE DEF y
    <3>3. f[y] \in Int /\ g[s \ {y}] \in Int BY <3>1
    <3>. QED BY <3>2, <3>3
  <2>. QED BY <2>1, <2>2
<1>7. F \in [[P -> Int] -> [P -> Int]] BY <1>6
<1>8. \A g, h \in [P -> Int] : \A s \in P :
        (\A m \in P : rank[m] < rank[s] => g[m] = h[m]) => F[g][s] = F[h][s]
  <2>. TAKE g, h \in [P -> Int]
  <2>. TAKE s \in P
  <2>. HAVE \A m \in P : rank[m] < rank[s] => g[m] = h[m]
  <2>1. F[g][s] = FoldStep(f, g, s) /\ F[h][s] = FoldStep(f, h, s) OBVIOUS
  <2>2. CASE s = {} BY <2>1, <2>2 DEF FoldStep
  <2>3. CASE s # {}
    <3>. DEFINE y == CHOOSE x \in s : TRUE
    <3>1. s \ {y} \in P /\ rank[s \ {y}] < rank[s] BY <1>4, <2>3
    <3>2. g[s \ {y}] = h[s \ {y}] BY <3>1
    <3>3. FoldStep(f, g, s) = f[y] + g[s \ {y}] /\ FoldStep(f, h, s) = f[y] + h[s \ {y}]
      BY <2>3 DEF FoldStep
    <3>. HIDE DEF y, F
    <3>. QED BY <2>1, <3>2, <3>3
  <2>. QED BY <2>2, <2>3
<1>. HIDE DEF P, d, rank, F, a
<1>9. F \in Lower(P, Int, rank) BY <1>7, <1>8 DEF Lower
<1>10. \E g : g \in Fixed(P, Int, F) BY <1>1, <1>3, <1>5, <1>9, RankRecursion, Zenon
<1>11. PICK g \in [P -> Int] : F[g] = g BY <1>10 DEF Fixed
<1>12. g = [s \in P |-> FoldStep(f, g, s)] BY <1>11 DEF F
<1>. QED BY <1>12 DEF P, FoldsOf

\* Total is that fold.
LEMMA TotalIsFold ==
  ASSUME NEW S, NEW f, Summable(f, S), NEW g \in FoldsOf(f, S)
  PROVE  \A A \in SUBSET S : Total(f, A) = g[A]
<1>. IsFiniteSet(S) /\ \A x \in S : f[x] \in Int BY DEF Summable
<1>. g \in [SUBSET S -> Int] /\ g = [s \in SUBSET S |-> FoldStep(f, g, s)] BY DEF FoldsOf
<1>. TAKE A \in SUBSET S
<1> DEFINE iter == CHOOSE h : h = [s \in SUBSET A |->
             IF s = {} THEN 0
             ELSE LET y == CHOOSE x \in s : TRUE IN f[y] + h[s \ {y}]]
<1>1. Total(f, A) = iter[A]
  BY DEF Total, FoldFunctionOnSet, MapThenFoldSet
<1>2. IsFiniteSet(A) /\ Summable(f, A) BY FS_Subset DEF Summable
<1>3. iter = [s \in SUBSET A |-> FoldStep(f, iter, s)]
  <2>1. \E h : h \in FoldsOf(f, A) BY <1>2, FoldRecursion
  <2>2. \E h : h = [s \in SUBSET A |-> FoldStep(f, h, s)] BY <2>1 DEF FoldsOf
  <2>3. iter = CHOOSE h : h = [s \in SUBSET A |-> FoldStep(f, h, s)] BY DEF FoldStep
  <2>. QED BY <2>2, <2>3
<1>. HIDE DEF iter
<1> DEFINE d == Cardinality(A)
           rank == [s \in SUBSET A |-> Cardinality(s)]
           P == {s \in SUBSET A : iter[s] = g[s]}
<1>4. d \in Nat /\ rank \in [SUBSET A -> 0 .. d]
  <2>1. d \in Nat BY <1>2, FS_CardinalityType
  <2>2. \A s \in SUBSET A : Cardinality(s) \in 0 .. d
    <3>. TAKE s \in SUBSET A
    <3>1. IsFiniteSet(s) /\ Cardinality(s) <= d BY <1>2, FS_Subset
    <3>2. Cardinality(s) \in Nat BY <3>1, FS_CardinalityType
    <3>. QED BY <2>1, <3>1, <3>2
  <2>. QED BY <2>1, <2>2
<1>5. \A s \in SUBSET A : (\A m \in SUBSET A : rank[m] < rank[s] => m \in P) => s \in P
  <2>. TAKE s \in SUBSET A
  <2>. HAVE \A m \in SUBSET A : rank[m] < rank[s] => m \in P
  <2>1. iter[s] = FoldStep(f, iter, s) /\ g[s] = FoldStep(f, g, s) BY <1>3
  <2>2. CASE s = {} BY <2>1, <2>2 DEF FoldStep
  <2>3. CASE s # {}
    <3>. DEFINE y == CHOOSE x \in s : TRUE
    <3>1. y \in s BY <2>3
    <3>2. /\ FoldStep(f, iter, s) = f[y] + iter[s \ {y}]
          /\ FoldStep(f, g, s) = f[y] + g[s \ {y}]
      BY <2>3 DEF FoldStep
    <3>. HIDE DEF y
    <3>3. IsFiniteSet(s) /\ Cardinality(s) \in Nat BY <1>2, FS_Subset, FS_CardinalityType
    <3>4. Cardinality(s \ {y}) = Cardinality(s) - 1 BY <3>1, <3>3, FS_RemoveElement
    <3>5. s \ {y} \in SUBSET A /\ rank[s \ {y}] < rank[s] BY <3>3, <3>4
    <3>6. iter[s \ {y}] = g[s \ {y}] BY <3>5
    <3>. QED BY <2>1, <3>2, <3>6
  <2>. QED BY <2>2, <2>3
<1>6. \A s \in SUBSET A : s \in P
  <2>. HIDE DEF d, rank, P
  <2>. QED BY <1>4, <1>5, RankInduction
<1>. QED BY <1>1, <1>6

\* The total of a finite set of numbers is a number, that of nothing is 0, and any
\* member may be taken out of it.
LEMMA TotalRemove ==
  ASSUME NEW S, NEW f, Summable(f, S)
  PROVE  /\ Total(f, S) \in Int
         /\ S = {} => Total(f, S) = 0
         /\ \A x \in S : Total(f, S) = f[x] + Total(f, S \ {x})
<1>. IsFiniteSet(S) /\ \A x \in S : f[x] \in Int BY DEF Summable
<1>0. PICK g : g \in FoldsOf(f, S) BY FoldRecursion
<1>1. g \in [SUBSET S -> Int] /\ g = [s \in SUBSET S |-> FoldStep(f, g, s)] BY <1>0 DEF FoldsOf
<1>2. \A A \in SUBSET S : Total(f, A) = g[A] BY <1>0, TotalIsFold
<1>3. S \in SUBSET S /\ \A x \in S : S \ {x} \in SUBSET S OBVIOUS
<1>4. S = {} => g[S] = 0
  <2>1. g[S] = FoldStep(f, g, S) BY <1>1, <1>3
  <2>. QED BY <2>1 DEF FoldStep
<1> DEFINE d == Cardinality(S)
           rank == [s \in SUBSET S |-> Cardinality(s)]
           P == {A \in SUBSET S : \A x \in A : g[A] = f[x] + g[A \ {x}]}
<1>5. d \in Nat /\ rank \in [SUBSET S -> 0 .. d]
  <2>1. d \in Nat BY FS_CardinalityType
  <2>2. \A s \in SUBSET S : Cardinality(s) \in 0 .. d
    <3>. TAKE s \in SUBSET S
    <3>1. IsFiniteSet(s) /\ Cardinality(s) <= d BY FS_Subset
    <3>2. Cardinality(s) \in Nat BY <3>1, FS_CardinalityType
    <3>. QED BY <2>1, <3>1, <3>2
  <2>. QED BY <2>1, <2>2
<1>6. \A A \in SUBSET S : (\A m \in SUBSET S : rank[m] < rank[A] => m \in P) => A \in P
  <2>. TAKE A \in SUBSET S
  <2>. HAVE \A m \in SUBSET S : rank[m] < rank[A] => m \in P
  <2>. SUFFICES ASSUME NEW x \in A PROVE g[A] = f[x] + g[A \ {x}]
    OBVIOUS
  <2>. DEFINE y == CHOOSE z \in A : TRUE
  <2>1. y \in A OBVIOUS
  <2>2. g[A] = f[y] + g[A \ {y}] BY <1>1 DEF FoldStep
  <2>. HIDE DEF y
  <2>3. IsFiniteSet(A) /\ Cardinality(A) \in Nat BY FS_Subset, FS_CardinalityType
  <2>4. \A z \in A : A \ {z} \in SUBSET S /\ rank[A \ {z}] < rank[A]
    <3>. TAKE z \in A
    <3>1. Cardinality(A \ {z}) = Cardinality(A) - 1 BY <2>3, FS_RemoveElement
    <3>. QED BY <2>3, <3>1
  <2>5. CASE x = y BY <2>2, <2>5
  <2>6. CASE x # y
    <3>1. A \ {x} \in P /\ A \ {y} \in P BY <2>1, <2>4
    <3>2. y \in A \ {x} /\ x \in A \ {y} BY <2>1, <2>6
    <3>3. g[A \ {x}] = f[y] + g[(A \ {x}) \ {y}] BY <3>1, <3>2
    <3>4. g[A \ {y}] = f[x] + g[(A \ {y}) \ {x}] BY <3>1, <3>2
    <3>5. (A \ {x}) \ {y} = (A \ {y}) \ {x} OBVIOUS
    <3>6. (A \ {x}) \ {y} \in SUBSET S OBVIOUS
    <3>. DEFINE c == g[(A \ {x}) \ {y}]
    <3>7. c \in Int /\ f[x] \in Int /\ f[y] \in Int BY <1>1, <2>1, <3>6
    <3>8. g[A \ {x}] = f[y] + c /\ g[A \ {y}] = f[x] + c BY <3>3, <3>4, <3>5
    <3>. HIDE DEF c
    <3>. QED BY <2>2, <3>7, <3>8
  <2>. QED BY <2>5, <2>6
<1>7. \A A \in SUBSET S : A \in P
  <2>. HIDE DEF d, rank, P
  <2>. QED BY <1>5, <1>6, RankInduction
<1>8. \A x \in S : g[S] = f[x] + g[S \ {x}] BY <1>3, <1>7
<1>9. Total(f, S) = g[S] /\ \A x \in S : Total(f, S \ {x}) = g[S \ {x}] BY <1>2, <1>3
<1>10. g[S] \in Int BY <1>1, <1>3
<1>. QED BY <1>4, <1>8, <1>9, <1>10

-----------------------------------------------------------------------------
(* Totals over intervals, over sums of functions and over chunks.          *)

\* A total over an interval, one number after the other.
LEMMA TotalInterval ==
  ASSUME NEW a \in Int, NEW b \in Int, NEW f, \A x \in a .. b : f[x] \in Int
  PROVE  /\ Total(f, a .. b) \in Int
         /\ b < a => Total(f, a .. b) = 0
         /\ a <= b => Total(f, a .. b) = Total(f, a .. b - 1) + f[b]
<1>1. Summable(f, a .. b) BY FS_Interval DEF Summable
<1>2. b < a => a .. b = {} OBVIOUS
<1>3. a <= b => b \in a .. b /\ (a .. b) \ {b} = a .. b - 1 OBVIOUS
<1>4. /\ Total(f, a .. b) \in Int
      /\ a .. b = {} => Total(f, a .. b) = 0
      /\ \A x \in a .. b : Total(f, a .. b) = f[x] + Total(f, (a .. b) \ {x})
  BY <1>1, TotalRemove
<1>5. ASSUME a <= b PROVE Total(f, a .. b) = Total(f, a .. b - 1) + f[b]
  <2>1. Total(f, a .. b) = f[b] + Total(f, a .. b - 1) BY <1>3, <1>4, <1>5
  <2>2. Summable(f, a .. b - 1) BY FS_Interval DEF Summable
  <2>3. Total(f, a .. b - 1) \in Int BY <2>2, TotalRemove
  <2>4. f[b] \in Int BY <1>5
  <2>. QED BY <2>1, <2>3, <2>4
<1>. QED BY <1>2, <1>4, <1>5

\* Totals over the same interval of functions that agree there.
LEMMA TotalSame ==
  ASSUME NEW a \in Int, NEW n \in Nat, NEW f, NEW g,
         \A x \in a .. a + n - 1 : f[x] \in Int /\ g[x] = f[x]
  PROVE  Total(g, a .. a + n - 1) = Total(f, a .. a + n - 1)
<1> DEFINE H == {i \in 0 .. n : Total(g, a .. a + i - 1) = Total(f, a .. a + i - 1)}
<1>1. 0 \in H
  <2>1. \A x \in a .. a + 0 - 1 : f[x] \in Int /\ g[x] \in Int OBVIOUS
  <2>2. a + 0 - 1 \in Int /\ a + 0 - 1 < a OBVIOUS
  <2>. QED BY <2>1, <2>2, TotalInterval
<1>2. \A i \in 1 .. n : i - 1 \in H => i \in H
  <2>. TAKE i \in 1 .. n
  <2>. HAVE i - 1 \in H
  <2>. DEFINE b == a + i - 1
  <2>1. b \in Int /\ a <= b /\ b - 1 = a + (i - 1) - 1 /\ b \in a .. a + n - 1 OBVIOUS
  <2>2. \A x \in a .. b : f[x] \in Int /\ g[x] \in Int OBVIOUS
  <2>3. Total(g, a .. b - 1) = Total(f, a .. b - 1) BY <2>1
  <2>4. g[b] = f[b] BY <2>1
  <2>. HIDE DEF b
  <2>5. Total(f, a .. b) = Total(f, a .. b - 1) + f[b] BY <2>1, <2>2, TotalInterval
  <2>6. Total(g, a .. b) = Total(g, a .. b - 1) + g[b] BY <2>1, <2>2, TotalInterval
  <2>7. Total(g, a .. b) = Total(f, a .. b) BY <2>3, <2>4, <2>5, <2>6
  <2>. QED BY <2>7 DEF b
<1>3. \A i \in 0 .. n : i \in H
  <2>. HIDE DEF H
  <2>. QED BY <1>1, <1>2, IntervalInduction
<1>4. n \in H BY <1>3
<1>. QED BY <1>4

\* A total is that of the first part and that of the rest.
LEMMA TotalSplit ==
  ASSUME NEW a \in Nat, NEW n \in Nat, NEW f, \A x \in 0 .. a + n - 1 : f[x] \in Int
  PROVE  Total(f, 0 .. a + n - 1) = Total(f, 0 .. a - 1) + Total(f, a .. a + n - 1)
<1> DEFINE Eq(i) == Total(f, 0 .. a + i - 1) = Total(f, 0 .. a - 1) + Total(f, a .. a + i - 1)
           H == {i \in 0 .. n : Eq(i)}
<1>0. Total(f, 0 .. a - 1) \in Int
  <2>1. \A x \in 0 .. a - 1 : f[x] \in Int OBVIOUS
  <2>. QED BY <2>1, TotalInterval
<1>1. 0 \in H
  <2>1. \A x \in a .. a + 0 - 1 : f[x] \in Int OBVIOUS
  <2>2. a + 0 - 1 \in Int /\ a + 0 - 1 < a /\ a + 0 - 1 = a - 1 OBVIOUS
  <2>3. Total(f, a .. a + 0 - 1) = 0 BY <2>1, <2>2, TotalInterval
  <2>. QED BY <1>0, <2>2, <2>3
<1>2. \A i \in 1 .. n : i - 1 \in H => i \in H
  <2>. TAKE i \in 1 .. n
  <2>. HAVE i - 1 \in H
  <2>. DEFINE b == a + i - 1
  <2>1. b \in Int /\ a <= b /\ 0 <= b /\ b - 1 = a + (i - 1) - 1 OBVIOUS
  <2>2. \A x \in 0 .. b : f[x] \in Int OBVIOUS
  <2>3. \A x \in a .. b : f[x] \in Int BY <2>2
  <2>4. Total(f, 0 .. b - 1) = Total(f, 0 .. a - 1) + Total(f, a .. b - 1) BY <2>1
  <2>. HIDE DEF b
  <2>5. Total(f, 0 .. b) = Total(f, 0 .. b - 1) + f[b] BY <2>1, <2>2, TotalInterval
  <2>6. Total(f, a .. b) = Total(f, a .. b - 1) + f[b] BY <2>1, <2>3, TotalInterval
  <2>7. Total(f, a .. b - 1) \in Int
    <3>1. b - 1 \in Int /\ \A x \in a .. b - 1 : f[x] \in Int BY <2>1, <2>3
    <3>. QED BY <3>1, TotalInterval
  <2>8. f[b] \in Int BY <2>1, <2>2
  <2>9. Total(f, 0 .. b) = Total(f, 0 .. a - 1) + Total(f, a .. b)
    BY <1>0, <2>4, <2>5, <2>6, <2>7, <2>8
  <2>. QED BY <2>9 DEF b
<1>3. \A i \in 0 .. n : i \in H
  <2>. HIDE DEF H
  <2>. QED BY <1>1, <1>2, IntervalInduction
<1>4. n \in H BY <1>3
<1>. QED BY <1>4

\* Functions f and g add up to h on 0 .. n - 1, up to multiples of m.
AddTo(m, n, f, g, h) ==
  /\ m \in Nat \ {0} /\ n \in Nat
  /\ \A x \in 0 .. n - 1 : /\ f[x] \in Int /\ g[x] \in Int /\ h[x] \in Int
                           /\ (f[x] + g[x]) % m = h[x] % m

\* Their totals do so as well.
LEMMA TotalSum ==
  ASSUME NEW m, NEW n, NEW f, NEW g, NEW h, AddTo(m, n, f, g, h)
  PROVE  (Total(f, 0 .. n - 1) + Total(g, 0 .. n - 1)) % m = Total(h, 0 .. n - 1) % m
<1>. SUFFICES ASSUME m \in Nat \ {0}, n \in Nat,
                     \A x \in 0 .. n - 1 : /\ f[x] \in Int /\ g[x] \in Int /\ h[x] \in Int
                                          /\ (f[x] + g[x]) % m = h[x] % m
              PROVE  (Total(f, 0 .. n - 1) + Total(g, 0 .. n - 1)) % m = Total(h, 0 .. n - 1) % m
  BY DEF AddTo
<1> DEFINE H == {i \in 0 .. n :
             (Total(f, 0 .. i - 1) + Total(g, 0 .. i - 1)) % m = Total(h, 0 .. i - 1) % m}
<1>1. 0 \in H
  <2>1. \A x \in 0 .. 0 - 1 : f[x] \in Int /\ g[x] \in Int /\ h[x] \in Int OBVIOUS
  <2>2. Total(f, 0 .. 0 - 1) = 0 /\ Total(g, 0 .. 0 - 1) = 0 /\ Total(h, 0 .. 0 - 1) = 0
    BY <2>1, TotalInterval
  <2>3. 0 + 0 = 0 OBVIOUS
  <2>. QED BY <2>2, <2>3
<1>2. \A i \in 1 .. n : i - 1 \in H => i \in H
  <2>. TAKE i \in 1 .. n
  <2>. HAVE i - 1 \in H
  <2>. DEFINE b == i - 1
  <2>1. b \in Int /\ 0 <= b /\ b \in 0 .. n - 1 OBVIOUS
  <2>2. \A x \in 0 .. b : f[x] \in Int /\ g[x] \in Int /\ h[x] \in Int OBVIOUS
  <2>3. (Total(f, 0 .. b - 1) + Total(g, 0 .. b - 1)) % m = Total(h, 0 .. b - 1) % m OBVIOUS
  <2>. HIDE DEF b
  <2>4. /\ Total(f, 0 .. b) = Total(f, 0 .. b - 1) + f[b]
        /\ Total(g, 0 .. b) = Total(g, 0 .. b - 1) + g[b]
        /\ Total(h, 0 .. b) = Total(h, 0 .. b - 1) + h[b]
    BY <2>1, <2>2, TotalInterval
  <2>5. /\ Total(f, 0 .. b - 1) \in Int /\ Total(g, 0 .. b - 1) \in Int
        /\ Total(h, 0 .. b - 1) \in Int
    <3>1. b - 1 \in Int /\ \A x \in 0 .. b - 1 : f[x] \in Int /\ g[x] \in Int /\ h[x] \in Int
      BY <2>1, <2>2
    <3>. QED BY <3>1, TotalInterval
  <2>. DEFINE F == Total(f, 0 .. b - 1)
              G == Total(g, 0 .. b - 1)
              K == Total(h, 0 .. b - 1)
              u == f[b]
              v == g[b]
              w == h[b]
  <2>6. u \in Int /\ v \in Int /\ w \in Int /\ (u + v) % m = w % m BY <2>1
  <2>7. F \in Int /\ G \in Int /\ K \in Int /\ (F + G) % m = K % m BY <2>3, <2>5
  <2>8. Total(f, 0 .. b) = F + u /\ Total(g, 0 .. b) = G + v /\ Total(h, 0 .. b) = K + w
    BY <2>4
  <2>. HIDE DEF F, G, K, u, v, w
  <2>9. ((F + G) + (u + v)) % m = (K + w) % m
    <3>. DEFINE A == F + G
                B == u + v
    <3>1. A \in Int /\ B \in Int /\ A % m = K % m /\ B % m = w % m BY <2>6, <2>7
    <3>. HIDE DEF A, B
    <3>2. ((A % m) + (B % m)) % m = (A + B) % m BY <3>1, ModSum
    <3>3. ((K % m) + (w % m)) % m = (K + w) % m BY <2>6, <2>7, ModSum
    <3>4. (A + B) % m = (K + w) % m BY <3>1, <3>2, <3>3
    <3>. QED BY <3>4 DEF A, B
  <2>10. (F + u) + (G + v) = (F + G) + (u + v) BY <2>6, <2>7
  <2>11. (Total(f, 0 .. b) + Total(g, 0 .. b)) % m = Total(h, 0 .. b) % m
    BY <2>8, <2>9, <2>10
  <2>. QED BY <2>11 DEF b
<1>3. \A i \in 0 .. n : i \in H
  <2>. HIDE DEF H
  <2>. QED BY <1>1, <1>2, IntervalInduction
<1>4. n \in H BY <1>3
<1>. QED BY <1>4

\* The rows of the first j threads are the first j chunks; the last thread has the rest.
LEMMA ChunkBounds ==
  ASSUME NEW n \in Nat, NEW c \in Nat \ {0}
  PROVE  /\ ChunkSize(n, c) \in Nat
         /\ (c - 1) * ChunkSize(n, c) \in 0 .. n
         /\ \A th \in Thread(c) :
              /\ FirstRow(n, c, th) = th * ChunkSize(n, c)
              /\ FirstRow(n, c, th) \in Nat
              /\ th < c - 1 => LastRow(n, c, th) = FirstRow(n, c, th) + ChunkSize(n, c) - 1
              /\ th = c - 1 => LastRow(n, c, th) = n - 1
              /\ Rows(n, c, th) \in SUBSET (0 .. n - 1)
<1> DEFINE s == ChunkSize(n, c)
<1>1. s \in Nat /\ n = s * c + (n % c) /\ n % c \in Nat
  <2>1. n % c \in 0 .. c - 1 /\ n = (n \div c) * c + (n % c) /\ n \div c \in Int BY DivMod
  <2>2. n \div c \in Nat OBVIOUS
  <2>. QED BY <2>1, <2>2 DEF ChunkSize
<1>. HIDE DEF s
<1>2. (c - 1) * s \in Nat /\ s * c = (c - 1) * s + s BY <1>1
<1>3. (c - 1) * s \in 0 .. n BY <1>1, <1>2
<1>4. ASSUME NEW th \in Thread(c)
      PROVE  /\ th * s \in Nat
             /\ th < c - 1 => (th + 1) * s = th * s + s /\ (th + 1) * s <= (c - 1) * s
  <2>1. th \in Nat /\ th <= c - 1 BY DEF Thread
  <2>2. th * s \in Nat /\ (th + 1) * s = th * s + s BY <1>1, <2>1
  <2>3. th < c - 1 => (th + 1) * s <= (c - 1) * s
    <3>. HAVE th < c - 1
    <3>1. th + 1 \in Nat /\ c - 1 \in Nat /\ th + 1 <= c - 1 BY <2>1
    <3>. QED BY <1>1, <3>1, TimesMonotone
  <2>. QED BY <2>2, <2>3
<1>5. ASSUME NEW th \in Thread(c)
      PROVE  /\ FirstRow(n, c, th) = th * s
             /\ FirstRow(n, c, th) \in Nat
             /\ th < c - 1 => LastRow(n, c, th) = FirstRow(n, c, th) + s - 1
             /\ th = c - 1 => LastRow(n, c, th) = n - 1
             /\ Rows(n, c, th) \in SUBSET (0 .. n - 1)
  <2>1. FirstRow(n, c, th) = th * s BY DEF FirstRow, s
  <2>2. th \in Nat /\ th <= c - 1 BY DEF Thread
  <2>3. th < c - 1 => LastRow(n, c, th) = (th + 1) * s - 1 BY <2>2 DEF LastRow, s
  <2>4. th = c - 1 => LastRow(n, c, th) = n - 1 BY DEF LastRow
  <2>5. LastRow(n, c, th) <= n - 1 /\ LastRow(n, c, th) \in Int
    <3>1. CASE th < c - 1
      <4>. DEFINE X == (th + 1) * s
                  M == (c - 1) * s
      <4>1. M \in 0 .. n BY <1>3
      <4>2. X = th * s + s /\ th * s \in Nat /\ X <= M BY <1>4, <3>1
      <4>3. LastRow(n, c, th) = X - 1 BY <2>3, <3>1
      <4>4. X \in Int BY <1>1, <4>2
      <4>. HIDE DEF X, M
      <4>. QED BY <4>1, <4>2, <4>3, <4>4
    <3>2. CASE th = c - 1 BY <2>4, <3>2
    <3>. QED BY <2>2, <3>1, <3>2
  <2>6. FirstRow(n, c, th) \in Nat BY <1>4, <2>1
  <2>7. Rows(n, c, th) \in SUBSET (0 .. n - 1) BY <2>5, <2>6 DEF Rows
  <2>8. th < c - 1 => LastRow(n, c, th) = FirstRow(n, c, th) + s - 1
    <3>. DEFINE X == (th + 1) * s
                Y == th * s
    <3>. HAVE th < c - 1
    <3>1. X = Y + s /\ Y \in Nat BY <1>4
    <3>2. LastRow(n, c, th) = X - 1 /\ FirstRow(n, c, th) = Y BY <2>1, <2>3
    <3>. HIDE DEF X, Y
    <3>. QED BY <1>1, <3>1, <3>2
  <2>. QED BY <2>1, <2>4, <2>6, <2>7, <2>8
<1>. QED BY <1>1, <1>3, <1>5 DEF s

\* The totals of the chunks add up to the total of all rows.
LEMMA TotalChunks ==
  ASSUME NEW m \in Nat \ {0}, NEW n \in Nat, NEW c \in Nat \ {0},
         NEW f, \A x \in 0 .. n - 1 : f[x] \in Int,
         NEW g, \A th \in Thread(c) : g[th] = Total(f, Rows(n, c, th)) % m
  PROVE  Total(g, Thread(c)) % m = Total(f, 0 .. n - 1) % m
<1> DEFINE s == ChunkSize(n, c)
           H == {j \in 0 .. c - 1 : Total(g, 0 .. j - 1) % m = Total(f, 0 .. j * s - 1) % m}
<1>1. s \in Nat /\ (c - 1) * s \in 0 .. n BY ChunkBounds
<1>. HIDE DEF s
<1>2. \A j \in 0 .. c - 1 : j * s \in 0 .. n
  <2>. TAKE j \in 0 .. c - 1
  <2>1. j * s <= (c - 1) * s BY <1>1, TimesMonotone
  <2>2. j * s \in Nat BY <1>1
  <2>. QED BY <1>1, <2>1, <2>2
<1>3. \A th \in Thread(c) : Total(f, Rows(n, c, th)) \in Int /\ g[th] \in Int
  <2>. TAKE th \in Thread(c)
  <2>1. Rows(n, c, th) \in SUBSET (0 .. n - 1) BY ChunkBounds
  <2>2. FirstRow(n, c, th) \in Int /\ LastRow(n, c, th) \in Int
    <3>1. th \in Nat /\ (th < c - 1 \/ th = c - 1) BY DEF Thread
    <3>2. FirstRow(n, c, th) \in Nat BY ChunkBounds
    <3>3. /\ th < c - 1 => LastRow(n, c, th) = FirstRow(n, c, th) + s - 1
          /\ th = c - 1 => LastRow(n, c, th) = n - 1
      BY ChunkBounds DEF s
    <3>. QED BY <1>1, <3>1, <3>2, <3>3
  <2>3. \A x \in FirstRow(n, c, th) .. LastRow(n, c, th) : f[x] \in Int BY <2>1 DEF Rows
  <2>4. Total(f, Rows(n, c, th)) \in Int BY <2>2, <2>3, TotalInterval DEF Rows
  <2>. QED BY <2>4
<1>4. 0 \in H
  <2>1. \A x \in 0 .. 0 - 1 : f[x] \in Int /\ g[x] \in Int OBVIOUS
  <2>2. Total(g, 0 .. 0 - 1) = 0 /\ Total(f, 0 .. 0 - 1) = 0 BY <2>1, TotalInterval
  <2>3. 0 * s = 0 BY <1>1
  <2>. QED BY <2>2, <2>3
\* one more chunk, of rows a .. a + k - 1
<1>5. ASSUME NEW j \in 0 .. c - 1, Total(g, 0 .. j - 1) % m = Total(f, 0 .. j * s - 1) % m,
             NEW k \in Nat, j * s + k <= n, Rows(n, c, j) = j * s .. j * s + k - 1
      PROVE  Total(g, 0 .. j) % m = Total(f, 0 .. j * s + k - 1) % m
  <2>. DEFINE a == j * s
  <2>1. a \in Nat /\ a + k <= n /\ Rows(n, c, j) = a .. a + k - 1 BY <1>2, <1>5
  <2>2. Total(g, 0 .. j - 1) % m = Total(f, 0 .. a - 1) % m BY <1>5
  <2>. HIDE DEF a
  <2>3. Total(f, 0 .. a + k - 1) = Total(f, 0 .. a - 1) + Total(f, a .. a + k - 1)
    <3>1. \A x \in 0 .. a + k - 1 : f[x] \in Int BY <2>1
    <3>. QED BY <2>1, <3>1, TotalSplit
  <2>4. Total(g, 0 .. j) = Total(g, 0 .. j - 1) + g[j]
    <3>1. \A x \in 0 .. j : g[x] \in Int BY <1>3 DEF Thread
    <3>. QED BY <3>1, TotalInterval
  <2>5. j \in Thread(c) BY DEF Thread
  <2>6. g[j] = Total(f, a .. a + k - 1) % m /\ Total(f, a .. a + k - 1) \in Int
    BY <1>3, <2>1, <2>5
  <2>7. Total(g, 0 .. j - 1) \in Int
    <3>1. \A x \in 0 .. j - 1 : g[x] \in Int BY <1>3 DEF Thread
    <3>. QED BY <3>1, TotalInterval
  <2>8. Total(f, 0 .. a - 1) \in Int
    <3>1. \A x \in 0 .. a - 1 : f[x] \in Int BY <2>1
    <3>. QED BY <2>1, <3>1, TotalInterval
  <2>. DEFINE G == Total(g, 0 .. j - 1)
              F == Total(f, 0 .. a - 1)
              K == Total(f, a .. a + k - 1)
  <2>9. G \in Int /\ F \in Int /\ K \in Int /\ G % m = F % m BY <2>2, <2>6, <2>7, <2>8
  <2>10. Total(g, 0 .. j) = G + (K % m) /\ Total(f, 0 .. a + k - 1) = F + K
    BY <2>3, <2>4, <2>6
  <2>. HIDE DEF G, F, K
  <2>11. (G + (K % m)) % m = (F + K) % m
    <3>1. K % m \in Int /\ (K % m) % m = K % m
      <4>1. K % m \in 0 .. m - 1 BY <2>9, DivMod
      <4>2. m = 1 * m OBVIOUS
      <4>. QED BY <2>9, <4>1, <4>2, ModOfMod
    <3>2. ((G % m) + ((K % m) % m)) % m = (G + (K % m)) % m BY <2>9, <3>1, ModSum
    <3>3. ((F % m) + (K % m)) % m = (F + K) % m BY <2>9, ModSum
    <3>. QED BY <2>9, <3>1, <3>2, <3>3
  <2>12. Total(g, 0 .. j) % m = Total(f, 0 .. a + k - 1) % m BY <2>10, <2>11
  <2>. QED BY <2>12 DEF a
<1>6. \A j \in 1 .. c - 1 : j - 1 \in H => j \in H
  <2>. TAKE j \in 1 .. c - 1
  <2>. HAVE j - 1 \in H
  <2>1. j - 1 \in 0 .. c - 1 /\ j - 1 \in Thread(c) /\ j - 1 < c - 1 BY DEF Thread
  <2>2. FirstRow(n, c, j - 1) = (j - 1) * s
        /\ LastRow(n, c, j - 1) = FirstRow(n, c, j - 1) + s - 1
    BY <2>1, ChunkBounds DEF s
  <2>3. Rows(n, c, j - 1) = (j - 1) * s .. (j - 1) * s + s - 1 BY <2>2 DEF Rows
  <2>4. (j - 1) * s + s = j * s BY <1>1
  <2>5. j * s <= n BY <1>2
  <2>6. Total(g, 0 .. (j - 1) - 1) % m = Total(f, 0 .. (j - 1) * s - 1) % m OBVIOUS
  <2>7. Total(g, 0 .. j - 1) % m = Total(f, 0 .. (j - 1) * s + s - 1) % m
    BY <1>1, <1>5, <2>1, <2>3, <2>4, <2>5, <2>6
  <2>8. (j - 1) * s + s - 1 = j * s - 1
    <3>. DEFINE Y == (j - 1) * s
                X == j * s
    <3>1. Y \in Int /\ X \in Int /\ Y + s = X BY <1>1, <2>4
    <3>. HIDE DEF X, Y
    <3>2. Y + s - 1 = X - 1 BY <1>1, <3>1
    <3>. QED BY <3>2 DEF X, Y
  <2>9. Total(g, 0 .. j - 1) % m = Total(f, 0 .. j * s - 1) % m BY <2>7, <2>8, Zenon
  <2>. QED BY <2>9
<1>7. \A j \in 0 .. c - 1 : j \in H
  <2>1. c - 1 \in Nat OBVIOUS
  <2>. HIDE DEF H
  <2>. QED BY <1>4, <1>6, <2>1, IntervalInduction
<1>8. c - 1 \in 0 .. c - 1 /\ c - 1 \in Thread(c) BY DEF Thread
<1>9. Total(g, 0 .. (c - 1) - 1) % m = Total(f, 0 .. (c - 1) * s - 1) % m BY <1>7, <1>8
<1> DEFINE a == (c - 1) * s
           k == n - a
<1>10. a \in Nat /\ k \in Nat /\ a + k = n BY <1>1
<1>11. Rows(n, c, c - 1) = a .. a + k - 1
  <2>1. FirstRow(n, c, c - 1) = a /\ LastRow(n, c, c - 1) = n - 1 BY <1>8, ChunkBounds DEF s
  <2>. HIDE DEF a, k
  <2>2. n - 1 = a + k - 1 BY <1>10
  <2>. QED BY <2>1, <2>2 DEF Rows
<1>12. Total(g, 0 .. c - 1) % m = Total(f, 0 .. a + k - 1) % m
  BY <1>5, <1>8, <1>9, <1>10, <1>11
<1>13. a + k - 1 = n - 1
  <2>. HIDE DEF a, k
  <2>. QED BY <1>10
<1>. QED BY <1>12, <1>13 DEF Thread

-----------------------------------------------------------------------------
(* Sequences inside sequences: what stands where on the wire.              *)

\* The cells of s stand in w behind the first o ones.
Stands(w, o, s) == o + Len(s) <= Len(w) /\ \A i \in 1 .. Len(s) : w[o + i] = s[i]

\* A sequence stands in itself, and in a concatenation where it stood in a part.
LEMMA StandsConcat ==
  ASSUME NEW S, NEW a \in Seq(S), NEW b \in Seq(S), NEW s \in Seq(S), NEW o \in Nat
  PROVE  /\ a \o b \in Seq(S) /\ Len(a \o b) = Len(a) + Len(b)
         /\ Stands(s, 0, s)
         /\ Stands(a, o, s) => Stands(a \o b, o, s)
         /\ Stands(b, o, s) => Stands(a \o b, Len(a) + o, s)
<1>1. Len(a) \in Nat /\ Len(b) \in Nat /\ Len(s) \in Nat BY LenProperties
<1>2. /\ a \o b \in Seq(S) /\ Len(a \o b) = Len(a) + Len(b)
      /\ \A i \in 1 .. Len(a) + Len(b) :
           (a \o b)[i] = IF i <= Len(a) THEN a[i] ELSE b[i - Len(a)]
  BY ConcatProperties
<1>3. Stands(s, 0, s) BY <1>1 DEF Stands
<1> DEFINE l == Len(a)
           m == Len(b)
           n == Len(s)
           ab == a \o b
<1>4. /\ l \in Nat /\ m \in Nat /\ n \in Nat /\ Len(ab) = l + m
      /\ \A i \in 1 .. l + m : ab[i] = IF i <= l THEN a[i] ELSE b[i - l]
  BY <1>1, <1>2
<1>5. Stands(a, o, s) => Stands(ab, o, s)
  <2>. HAVE Stands(a, o, s)
  <2>1. o + n <= l /\ \A i \in 1 .. n : a[o + i] = s[i] BY DEF Stands
  <2>. HIDE DEF l, m, n, ab
  <2>2. o + n <= l + m /\ \A i \in 1 .. n : ab[o + i] = s[i]
    <3>1. \A i \in 1 .. n : o + i \in 1 .. l + m /\ o + i <= l BY <1>4, <2>1
    <3>. QED BY <1>4, <2>1, <3>1
  <2>. QED BY <1>4, <2>2 DEF Stands, n
<1>6. Stands(b, o, s) => Stands(ab, l + o, s)
  <2>. HAVE Stands(b, o, s)
  <2>1. o + n <= m /\ \A i \in 1 .. n : b[o + i] = s[i] BY DEF Stands
  <2>. HIDE DEF l, m, n, ab
  <2>2. (l + o) + n <= l + m /\ \A i \in 1 .. n : ab[(l + o) + i] = s[i]
    <3>1. \A i \in 1 .. n : /\ (l + o) + i \in 1 .. l + m /\ ~((l + o) + i <= l)
                            /\ ((l + o) + i) - l = o + i
      BY <1>4, <2>1
    <3>. QED BY <1>4, <2>1, <3>1
  <2>. QED BY <1>4, <2>2 DEF Stands, n
<1>. QED BY <1>2, <1>3, <1>5, <1>6

\* Where it stands it can be cut out.
LEMMA StandsCut ==
  ASSUME NEW S, NEW w \in Seq(S), NEW s \in Seq(S), NEW o \in Nat, Stands(w, o, s)
  PROVE  SubSeq(w, o + 1, o + Len(s)) = s
<1> DEFINE n == Len(s)
           l == Len(w)
           u == SubSeq(w, o + 1, o + n)
<1>1. n \in Nat /\ l \in Nat /\ w \in [1 .. l -> S] BY LenProperties
<1>2. o + n <= l /\ \A i \in 1 .. n : w[o + i] = s[i] BY DEF Stands
<1>3. u \in Seq(S) /\ Len(u) = n /\ \A i \in 1 .. n : u[i] = w[o + i]
  <2>. HIDE DEF n, l
  <2>1. o + 1 \in Int /\ o + n \in Int BY <1>1
  <2>2. \A i \in o + 1 .. o + n : w[i] \in S BY <1>1, <1>2
  <2>3. /\ u \in Seq(S) /\ Len(u) = IF o + 1 <= o + n THEN (o + n) - (o + 1) + 1 ELSE 0
        /\ \A i \in 1 .. (o + n) - (o + 1) + 1 : u[i] = w[(o + 1) + i - 1]
    BY <2>1, <2>2, SubSeqProperties
  <2>. HIDE DEF u
  <2>4. (o + n) - (o + 1) + 1 = n BY <1>1
  <2>5. \A i \in 1 .. n : (o + 1) + i - 1 = o + i OBVIOUS
  <2>. QED BY <1>1, <2>3, <2>4, <2>5
<1>4. Len(u) = Len(s) /\ \A i \in 1 .. Len(u) : u[i] = s[i]
  <2>. HIDE DEF u
  <2>. QED BY <1>2, <1>3
<1>. HIDE DEF u, n
<1>5. u = s BY <1>3, <1>4, SeqEqual
<1>. QED BY <1>5 DEF u, n

-----------------------------------------------------------------------------
(* The keys that a server can use.                                         *)

\* A key as a server holds it: the walk's blocks and words, and n values.
ServerKey(ky, n) ==
  /\ ky = [k |-> ky.k, v |-> ky.v] /\ WalkKey(ky)
  /\ ky.k \in Seq(Block \cup Correction) /\ Len(ky.k) = Depth + 1
  /\ ky.v \in Seq(Int) /\ Len(ky.v) = n

\* The keys that KeyPair makes of n values.
LEMMA PairServerKey ==
  ASSUME NEW x \in Nat, NEW draw \in RootPair, NEW n, NEW v \in Seq(Int), Len(v) = n,
         NEW p \in Party
  PROVE  ServerKey(KeyPair(Path(x, draw), v)[p], n)
<1> DEFINE ky == KeyPair(Path(x, draw), v)[p]
<1>1. ky = [k |-> ky.k, v |-> ky.v] BY DEF KeyPair
<1>2. WalkKey(ky) BY KeyIsWalkKey
<1>3. ky.k \in Seq(Block \cup Correction) /\ Len(ky.k) = Depth + 1 /\ ky.v = v BY KeyWords
<1>. HIDE DEF ky
<1>4. ServerKey(ky, n) BY <1>1, <1>2, <1>3 DEF ServerKey
<1>. QED BY <1>4 DEF ky

\* The keys of a point function.
LEMMA KeyDPFServer ==
  ASSUME NEW x \in Nat, NEW payload \in Int, NEW draw \in RootPair, NEW p \in Party
  PROVE  ServerKey(KeyGenDPF(x, payload, draw)[p], 1)
<1> DEFINE path == Path(x, draw)
           leaf == path[Depth].b
           c == LeafCorrection(leaf, payload)
<1>1. KeyGenDPF(x, payload, draw) = KeyPair(path, <<c>>) BY DEF KeyGenDPF, KeysDPF
<1>2. Depth \in 0 .. Depth BY FssAssumption
<1>3. leaf \in [Party -> Block] BY <1>2, PathApart, Zenon
<1>4. c \in Int
  <2>. DEFINE n == SignOf(leaf[1].t) * (payload - Convert[leaf[0].s] + Convert[leaf[1].s])
  <2>. HIDE DEF leaf
  <2>1. Convert[leaf[0].s] \in Int /\ Convert[leaf[1].s] \in Int
    BY <1>3, FssAssumption DEF Party, Block, Number
  <2>2. n \in Int BY <2>1 DEF SignOf
  <2>3. c = Reduced(n) BY DEF LeafCorrection
  <2>. HIDE DEF n, c
  <2>. QED BY <2>2, <2>3, CongruentReduced
<1>. HIDE DEF c
<1>5. <<c>> \in Seq(Int) /\ Len(<<c>>) = 1 BY <1>4
<1>6. ServerKey(KeyPair(path, <<c>>)[p], 1)
  <2>. DEFINE v == <<c>>
  <2>1. v \in Seq(Int) /\ Len(v) = 1 BY <1>5
  <2>. HIDE DEF v
  <2>2. ServerKey(KeyPair(path, v)[p], 1) BY <2>1, PairServerKey
  <2>. QED BY <2>2 DEF v
<1>. QED BY <1>1, <1>6

\* The keys of a comparison function.
LEMMA KeyDCFServer ==
  ASSUME NEW x \in Nat, NEW payload \in Int, NEW draw \in RootPair, NEW p \in Party
  PROVE  ServerKey(KeyGenDCF(x, payload, 0, draw)[p], Depth + 1)
<1> DEFINE path == Path(x, draw)
           values == ValuesDCF(path, x, payload, 0)
           leaf == path[Depth].b
           last == LastValue(leaf, values.alpha)
           u == values.v
           v == Append(u, last)
<1>0. Depth \in Nat /\ 0 \in Side BY FssAssumption DEF Side
<1>1. KeyGenDCF(x, payload, 0, draw) = KeyPair(path, v) BY DEF KeyGenDCF, KeysDCF
<1>2. PICK g : g \in ValueLevels(x, payload, 0, draw) /\ values = g[Depth]
  BY <1>0, ValuesDCFLevels
<1>3. u \in Seq(Int) /\ Len(u) = Depth
  <2>1. g[Depth].v \in Seq(Int) /\ Len(g[Depth].v) = Depth BY <1>0, <1>2, KeyValues, Zenon
  <2>. QED BY <1>2, <2>1
<1>4. leaf \in [Party -> Block]
  <2>1. Depth \in 0 .. Depth BY <1>0
  <2>. QED BY <2>1, PathApart, Zenon
<1>5. values.alpha \in Int
  <2>1. g \in [0 .. Depth -> Value] BY <1>2 DEF ValueLevels
  <2>2. g[Depth] \in Value BY <1>0, <2>1
  <2>. QED BY <1>2, <2>2 DEF Value
<1>6. last \in Int
  <2>. DEFINE n == SignOf(leaf[1].t)
                     * (Convert[leaf[1].s] - Convert[leaf[0].s] - values.alpha)
  <2>. HIDE DEF leaf, values
  <2>1. leaf[0].s \in Seed /\ leaf[1].s \in Seed BY <1>4 DEF Party, Block
  <2>2. Convert[leaf[0].s] \in Int /\ Convert[leaf[1].s] \in Int
    BY <2>1, FssAssumption DEF Number
  <2>3. n \in Int BY <1>5, <2>2 DEF SignOf
  <2>4. last = Reduced(n) BY DEF LastValue
  <2>. HIDE DEF n, last
  <2>. QED BY <2>3, <2>4, CongruentReduced
<1>. HIDE DEF last, u
<1>7. v \in Seq(Int) /\ Len(v) = Depth + 1 BY <1>3, <1>6, AppendProperties
<1>. HIDE DEF v
<1>8. ServerKey(KeyPair(path, v)[p], Depth + 1) BY <1>7, PairServerKey
<1>. QED BY <1>1, <1>8

-----------------------------------------------------------------------------
(* Serialisation.                                                          *)

\* What goes over the wire.
Cell == (Block \cup Correction) \cup Int

\* A key as cells.
LEMMA KeyCells ==
  ASSUME NEW ky, NEW n \in Nat, ServerKey(ky, n)
  PROVE  /\ ky.k \in Seq(Cell) /\ Len(ky.k) = Depth + 1
         /\ ky.v \in Seq(Cell) /\ Len(ky.v) = n
         /\ ky.k \o ky.v \in Seq(Cell) /\ Len(ky.k \o ky.v) = Depth + 1 + n
         /\ Stands(ky.k \o ky.v, 0, ky.k) /\ Stands(ky.k \o ky.v, Depth + 1, ky.v)
<1>1. ky.k \in Seq(Cell) /\ ky.v \in Seq(Cell)
  <2>1. ky.k \in Seq(Block \cup Correction) /\ ky.v \in Seq(Int) BY DEF ServerKey
  <2>2. Block \cup Correction \subseteq Cell /\ Int \subseteq Cell BY DEF Cell
  <2>. QED BY <2>1, <2>2, SeqMonotonic
<1>2. Len(ky.k) = Depth + 1 /\ Len(ky.v) = n BY DEF ServerKey
<1> DEFINE a == ky.k
           b == ky.v
<1>. HIDE DEF a, b
<1>3. a \in Seq(Cell) /\ b \in Seq(Cell) /\ Len(a) = Depth + 1 /\ Len(b) = n
  BY <1>1, <1>2 DEF a, b
<1>4. /\ a \o b \in Seq(Cell) /\ Len(a \o b) = Len(a) + Len(b)
      /\ Stands(a, 0, a) /\ Stands(b, 0, b)
      /\ Stands(a, 0, a) => Stands(a \o b, 0, a)
      /\ Stands(b, 0, b) => Stands(a \o b, Len(a) + 0, b)
  BY <1>3, StandsConcat
<1>5. Depth + 1 + 0 = Depth + 1 /\ Depth \in Nat BY FssAssumption
<1>6. /\ a \o b \in Seq(Cell) /\ Len(a \o b) = Depth + 1 + n
      /\ Stands(a \o b, 0, a) /\ Stands(a \o b, Depth + 1, b)
  BY <1>3, <1>4, <1>5
<1>. QED BY <1>1, <1>2, <1>6 DEF a, b

\* The cells of a key pair for a party, with a length of its own and places of its own.
Laid(w, o, pair, p, malicious, n) ==
  /\ w \in Seq(Cell)
  /\ Stands(w, o, pair.key[p].k) /\ Stands(w, o + (Depth + 1), pair.key[p].v)
  /\ malicious => /\ Stands(w, o + (Depth + 1 + n), pair.mac[p].k)
                  /\ Stands(w, o + (Depth + 1 + n + (Depth + 1)), pair.mac[p].v)

\* The keys of a pair that the servers can use.
ServerPair(pair, p, n) == ServerKey(pair.key[p], n) /\ ServerKey(pair.mac[p], n)

\* What clkey::dpf_serialize and dcf_serialize write.
LEMMA SerialLaid ==
  ASSUME NEW pair, NEW p, NEW n \in Nat, ServerPair(pair, p, n), NEW malicious \in BOOLEAN
  PROVE  /\ Laid(Serialize(pair, p, malicious), 0, pair, p, malicious, n)
         /\ Len(Serialize(pair, p, malicious))
              = (IF malicious THEN 2 ELSE 1) * (Depth + 1 + n)
<1> DEFINE k1 == pair.key[p].k
           v1 == pair.key[p].v
           k2 == pair.mac[p].k
           v2 == pair.mac[p].v
           a == k1 \o v1
           b == k2 \o v2
           half == Depth + 1 + n
<1>0. Depth \in Nat /\ half \in Nat BY FssAssumption
<1>1. /\ k1 \in Seq(Cell) /\ v1 \in Seq(Cell) /\ a \in Seq(Cell) /\ Len(a) = half
      /\ Stands(a, 0, k1) /\ Stands(a, Depth + 1, v1)
  BY KeyCells DEF ServerPair
<1>2. /\ k2 \in Seq(Cell) /\ v2 \in Seq(Cell) /\ b \in Seq(Cell) /\ Len(b) = half
      /\ Stands(b, 0, k2) /\ Stands(b, Depth + 1, v2)
  BY KeyCells DEF ServerPair
<1>3. Serialize(pair, p, malicious) = a \o (IF malicious THEN b ELSE <<>>) BY DEF Serialize
<1>4. CASE malicious
  <2>1. Serialize(pair, p, malicious) = a \o b BY <1>3, <1>4
  <2>. HIDE DEF a, b, k1, k2, v1, v2, half
  <2>2. Depth + 1 \in Nat BY <1>0
  <2>3. /\ a \o b \in Seq(Cell) /\ Len(a \o b) = half + half
        /\ Stands(a \o b, 0, k1) /\ Stands(a \o b, Depth + 1, v1)
        /\ Stands(a \o b, half + 0, k2) /\ Stands(a \o b, half + (Depth + 1), v2)
    BY <1>1, <1>2, <2>2, StandsConcat
  <2>4. half + half = 2 * half /\ half + 0 = half BY <1>0
  <2>5. 0 + (Depth + 1) = Depth + 1 /\ 0 + half = half
        /\ 0 + (half + (Depth + 1)) = half + (Depth + 1)
    BY <1>0
  <2>. QED BY <1>4, <2>1, <2>3, <2>4, <2>5 DEF Laid, half, k1, k2, v1, v2
<1>5. CASE ~malicious
  <2>1. Serialize(pair, p, malicious) = a \o <<>> BY <1>3, <1>5
  <2>. HIDE DEF a, b, k1, k2, v1, v2, half
  <2>2. a \o <<>> = a BY <1>1, ConcatEmptySeq
  <2>3. 0 + (Depth + 1) = Depth + 1 /\ 1 * half = half BY <1>0
  <2>. QED BY <1>1, <1>5, <2>1, <2>2, <2>3 DEF Laid, half, k1, v1
<1>. QED BY <1>4, <1>5

\* Behind another pair's cells, or before them.
LEMMA LaidConcat ==
  ASSUME NEW a \in Seq(Cell), NEW b \in Seq(Cell), NEW pair, NEW p, NEW n \in Nat,
         ServerPair(pair, p, n), NEW malicious \in BOOLEAN
  PROVE  /\ Laid(a, 0, pair, p, malicious, n) => Laid(a \o b, 0, pair, p, malicious, n)
         /\ Laid(b, 0, pair, p, malicious, n) => Laid(a \o b, Len(a), pair, p, malicious, n)
<1> DEFINE k1 == pair.key[p].k
           v1 == pair.key[p].v
           k2 == pair.mac[p].k
           v2 == pair.mac[p].v
           half == Depth + 1 + n
           l == Len(a)
<1>0. Depth \in Nat /\ half \in Nat /\ l \in Nat BY FssAssumption, LenProperties
<1>1. k1 \in Seq(Cell) /\ v1 \in Seq(Cell) /\ k2 \in Seq(Cell) /\ v2 \in Seq(Cell)
  BY KeyCells DEF ServerPair
<1>2. a \o b \in Seq(Cell) BY ConcatProperties
<1>3. \A s \in Seq(Cell), o \in Nat :
        /\ Stands(a, o, s) => Stands(a \o b, o, s)
        /\ Stands(b, o, s) => Stands(a \o b, l + o, s)
  BY StandsConcat
<1>4. /\ 0 + (Depth + 1) \in Nat /\ 0 + half \in Nat /\ 0 + (half + (Depth + 1)) \in Nat
      /\ l + 0 = l /\ l + (0 + (Depth + 1)) = l + (Depth + 1)
      /\ l + (0 + half) = l + half
      /\ l + (0 + (half + (Depth + 1))) = l + (half + (Depth + 1))
  BY <1>0
<1>5. ASSUME Laid(a, 0, pair, p, malicious, n) PROVE Laid(a \o b, 0, pair, p, malicious, n)
  <2>1. /\ Stands(a, 0, k1) /\ Stands(a, 0 + (Depth + 1), v1)
        /\ malicious => Stands(a, 0 + half, k2) /\ Stands(a, 0 + (half + (Depth + 1)), v2)
    BY <1>5 DEF Laid
  <2>. HIDE DEF k1, k2, v1, v2, half
  <2>2. /\ Stands(a \o b, 0, k1) /\ Stands(a \o b, 0 + (Depth + 1), v1)
        /\ malicious => /\ Stands(a \o b, 0 + half, k2)
                        /\ Stands(a \o b, 0 + (half + (Depth + 1)), v2)
    BY <1>1, <1>3, <1>4, <2>1
  <2>. QED BY <1>2, <2>2 DEF Laid, k1, k2, v1, v2, half
<1>6. ASSUME Laid(b, 0, pair, p, malicious, n) PROVE Laid(a \o b, l, pair, p, malicious, n)
  <2>1. /\ Stands(b, 0, k1) /\ Stands(b, 0 + (Depth + 1), v1)
        /\ malicious => Stands(b, 0 + half, k2) /\ Stands(b, 0 + (half + (Depth + 1)), v2)
    BY <1>6 DEF Laid
  <2>. HIDE DEF k1, k2, v1, v2, half, l
  <2>2. /\ Stands(a \o b, l, k1) /\ Stands(a \o b, l + (Depth + 1), v1)
        /\ malicious => /\ Stands(a \o b, l + half, k2)
                        /\ Stands(a \o b, l + (half + (Depth + 1)), v2)
    BY <1>1, <1>3, <1>4, <2>1
  <2>. QED BY <1>2, <2>2 DEF Laid, k1, k2, v1, v2, half
<1>. QED BY <1>5, <1>6

-----------------------------------------------------------------------------
(* What a query determines: its keys, their sizes and the wire.            *)

\* What a query determines: number of keys, values of a key, factor, cells of a key.
KeysOf(q) == IF q.kind = "point" THEN 1 ELSE 2
ValuesOf(q) == IF q.kind = "point" THEN 1 ELSE Depth + 1
FactorOf(q) == IF q.alpha # 0 THEN 2 ELSE 1
SizeOf(q) == FactorOf(q) * (Depth + 1 + ValuesOf(q))

\* Key pair i of a query under the draws d, what a party gets of it, and the wire.
PairOf(q, d, i) ==
  IF q.kind = "point" THEN DpfGenerate(q, d)
  ELSE IF i = 1 THEN DcfGenerate(q.left, FALSE, q.alpha, d[1], d[2])
                ELSE DcfGenerate(q.right, TRUE, q.alpha, d[3], d[4])

KeyOf(q, d, p, i) ==
  [key |-> PairOf(q, d, i).key[p],
   mac |-> IF q.alpha # 0 THEN PairOf(q, d, i).mac[p] ELSE <<>>]

PairsOf(q, d) ==
  IF q.kind = "point" THEN <<DpfGenerate(q, d)>>
  ELSE <<DcfGenerate(q.left, FALSE, q.alpha, d[1], d[2]),
         DcfGenerate(q.right, TRUE, q.alpha, d[3], d[4])>>

WireOf(q, d) == SerializeKeys(PairsOf(q, d), q.alpha # 0)

\* What Deserialize cuts out for a query.
CutOf(q, bytes, o) ==
  [key |-> [k |-> SubSeq(bytes, o + 0 + 1, o + 0 + (Depth + 1)),
            v |-> SubSeq(bytes, o + (Depth + 1) + 1, o + (Depth + 1) + ValuesOf(q))],
   mac |-> IF q.alpha # 0
             THEN [k |-> SubSeq(bytes, o + (Depth + 1 + ValuesOf(q)) + 1,
                                o + (Depth + 1 + ValuesOf(q)) + (Depth + 1)),
                   v |-> SubSeq(bytes, o + (Depth + 1 + ValuesOf(q) + (Depth + 1)) + 1,
                                o + (Depth + 1 + ValuesOf(q) + (Depth + 1)) + ValuesOf(q))]
             ELSE <<>>]

AnyQuery == PointQuery \cup RangeQuery

Drawn(d) == \A i \in 1 .. 4 : d[i] \in Block \X Block

\* The parts of a query.
LEMMA QueryParts ==
  ASSUME NEW q \in AnyQuery
  PROVE  /\ q.alpha \in Int /\ ValuesOf(q) \in Nat
         /\ FactorOf(q) \in {1, 2} /\ KeysOf(q) \in {1, 2}
         /\ q.kind = "point" => q.x \in Nat /\ q.x \in 0 .. NumLeaves - 1 /\ KeysOf(q) = 1
         /\ q.kind # "point" => /\ q.left \in 0 .. NumLeaves - 1
                                /\ q.right \in 0 .. NumLeaves - 1
                                /\ q.left \in Nat /\ q.right + 1 \in Nat /\ KeysOf(q) = 2
<1>1. q.alpha \in Int BY DEF AnyQuery, PointQuery, RangeQuery, Number
<1>2. ValuesOf(q) \in Nat BY FssAssumption DEF ValuesOf
<1>3. q.kind = "point" => q.x \in 0 .. NumLeaves - 1 /\ q.x \in Nat
  BY DEF AnyQuery, PointQuery, RangeQuery
<1>4. q.kind # "point" => /\ q.left \in 0 .. NumLeaves - 1 /\ q.right \in 0 .. NumLeaves - 1
  BY DEF AnyQuery, PointQuery, RangeQuery
<1>5. q.kind # "point" => q.left \in Nat /\ q.right + 1 \in Nat BY <1>4
<1>. QED BY <1>1, <1>2, <1>3, <1>4, <1>5 DEF FactorOf, KeysOf

\* Both parties get keys that they can use.
LEMMA PairServes ==
  ASSUME NEW q \in AnyQuery, NEW d, Drawn(d), NEW p \in Party, NEW i \in 1 .. KeysOf(q)
  PROVE  ServerPair(PairOf(q, d, i), p, ValuesOf(q))
<1>1. d[1] \in RootPair /\ d[2] \in RootPair /\ d[3] \in RootPair /\ d[4] \in RootPair
  BY DEF Drawn, RootPair
<1>2. Word \in Nat \ {0} BY FssAssumption
<1>3. \A a \in Int : a % Word \in Int BY <1>2, DivMod
<1>4. CASE q.kind = "point"
  <2>1. q.x \in Nat /\ q.alpha % Word \in Int BY <1>3, <1>4, QueryParts
  <2>2. ServerKey(KeyGenDPF(q.x, 1, d[1])[p], 1) BY <1>1, <2>1, KeyDPFServer
  <2>3. ServerKey(KeyGenDPF(q.x, q.alpha % Word, d[2])[p], 1) BY <1>1, <2>1, KeyDPFServer
  <2>4. PairOf(q, d, i).key = KeyGenDPF(q.x, 1, d[1])
        /\ PairOf(q, d, i).mac = KeyGenDPF(q.x, q.alpha % Word, d[2])
    BY <1>4 DEF PairOf, DpfGenerate
  <2>5. ValuesOf(q) = 1 BY <1>4 DEF ValuesOf
  <2>. QED BY <2>2, <2>3, <2>4, <2>5 DEF ServerPair
<1>5. CASE q.kind # "point"
  <2>1. q.left \in Nat /\ q.right + 1 \in Nat /\ q.alpha \in Int BY <1>5, QueryParts
  <2>2. ValuesOf(q) = Depth + 1 BY <1>5 DEF ValuesOf
  <2>3. ASSUME NEW at \in Nat, NEW payload \in Int, NEW d1 \in RootPair, NEW d2 \in RootPair
        PROVE  /\ ServerKey(KeyGenDCF(at, payload, 0, d1)[p], Depth + 1)
               /\ ServerKey(KeyGenDCF(at, (payload * q.alpha) % Word, 0, d2)[p], Depth + 1)
    <3>1. payload * q.alpha \in Int BY <2>1
    <3>2. (payload * q.alpha) % Word \in Int BY <1>3, <3>1
    <3>. QED BY <3>2, KeyDCFServer
  <2>4. CASE i = 1
    <3>1. PairOf(q, d, i) = DcfGenerate(q.left, FALSE, q.alpha, d[1], d[2])
      BY <1>5, <2>4 DEF PairOf
    <3>2. /\ DcfGenerate(q.left, FALSE, q.alpha, d[1], d[2]).key = KeyGenDCF(q.left, 1, 0, d[1])
          /\ DcfGenerate(q.left, FALSE, q.alpha, d[1], d[2]).mac
               = KeyGenDCF(q.left, (1 * q.alpha) % Word, 0, d[2])
      BY DEF DcfGenerate
    <3>3. /\ ServerKey(KeyGenDCF(q.left, 1, 0, d[1])[p], Depth + 1)
          /\ ServerKey(KeyGenDCF(q.left, (1 * q.alpha) % Word, 0, d[2])[p], Depth + 1)
      <4>. DEFINE one == 1
      <4>1. one \in Int OBVIOUS
      <4>. HIDE DEF one
      <4>2. /\ ServerKey(KeyGenDCF(q.left, one, 0, d[1])[p], Depth + 1)
            /\ ServerKey(KeyGenDCF(q.left, (one * q.alpha) % Word, 0, d[2])[p], Depth + 1)
        BY <1>1, <2>1, <2>3, <4>1
      <4>. QED BY <4>2 DEF one
    <3>. QED BY <2>2, <3>1, <3>2, <3>3 DEF ServerPair
  <2>5. CASE i # 1
    <3>1. PairOf(q, d, i) = DcfGenerate(q.right, TRUE, q.alpha, d[3], d[4])
      BY <1>5, <2>5 DEF PairOf
    <3>2. /\ DcfGenerate(q.right, TRUE, q.alpha, d[3], d[4]).key
               = KeyGenDCF(q.right + 1, Word - 1, 0, d[3])
          /\ DcfGenerate(q.right, TRUE, q.alpha, d[3], d[4]).mac
               = KeyGenDCF(q.right + 1, ((Word - 1) * q.alpha) % Word, 0, d[4])
      BY DEF DcfGenerate
    <3>3. Word - 1 \in Int BY <1>2
    <3>4. /\ ServerKey(KeyGenDCF(q.right + 1, Word - 1, 0, d[3])[p], Depth + 1)
          /\ ServerKey(KeyGenDCF(q.right + 1, ((Word - 1) * q.alpha) % Word, 0, d[4])[p],
                       Depth + 1)
      BY <1>1, <2>1, <2>3, <3>3
    <3>. QED BY <2>2, <3>1, <3>2, <3>4 DEF ServerPair
  <2>. QED BY <2>4, <2>5
<1>. QED BY <1>4, <1>5

\* Cut out at its place, a key pair is what the client made for the party.
LEMMA LaidCut ==
  ASSUME NEW w, NEW o \in Nat, NEW pair, NEW p, NEW q \in AnyQuery,
         ServerPair(pair, p, ValuesOf(q)), Laid(w, o, pair, p, q.alpha # 0, ValuesOf(q))
  PROVE  CutOf(q, w, o)
           = [key |-> pair.key[p], mac |-> IF q.alpha # 0 THEN pair.mac[p] ELSE <<>>]
<1> DEFINE n == ValuesOf(q)
           d1 == Depth + 1
           half == Depth + 1 + n
           k1 == pair.key[p].k
           v1 == pair.key[p].v
           k2 == pair.mac[p].k
           v2 == pair.mac[p].v
<1>0. n \in Nat /\ Depth \in Nat /\ d1 \in Nat /\ half \in Nat BY QueryParts, FssAssumption
<1>1. /\ k1 \in Seq(Cell) /\ v1 \in Seq(Cell) /\ k2 \in Seq(Cell) /\ v2 \in Seq(Cell)
      /\ Len(k1) = d1 /\ Len(v1) = n /\ Len(k2) = d1 /\ Len(v2) = n
  BY <1>0, KeyCells DEF ServerPair
<1>2. /\ w \in Seq(Cell)
      /\ Stands(w, o, k1) /\ Stands(w, o + d1, v1)
      /\ q.alpha # 0 => Stands(w, o + half, k2) /\ Stands(w, o + (half + d1), v2)
  BY DEF Laid
<1>3. pair.key[p] = [k |-> k1, v |-> v1] /\ pair.mac[p] = [k |-> k2, v |-> v2]
  BY DEF ServerPair, ServerKey
<1>4. CutOf(q, w, o)
        = [key |-> [k |-> SubSeq(w, o + 0 + 1, o + 0 + d1),
                    v |-> SubSeq(w, o + d1 + 1, o + d1 + n)],
           mac |-> IF q.alpha # 0
                     THEN [k |-> SubSeq(w, o + half + 1, o + half + d1),
                           v |-> SubSeq(w, o + (half + d1) + 1, o + (half + d1) + n)]
                     ELSE <<>>]
  BY DEF CutOf
<1>. HIDE DEF n, d1, half, k1, v1, k2, v2
<1>5. /\ o + 0 = o /\ o + d1 \in Nat /\ o + half \in Nat /\ o + (half + d1) \in Nat
  BY <1>0
<1>6. SubSeq(w, o + 0 + 1, o + 0 + d1) = k1 BY <1>1, <1>2, <1>5, StandsCut
<1>7. SubSeq(w, o + d1 + 1, o + d1 + n) = v1
  <2>. DEFINE a == o + d1
  <2>1. a \in Nat /\ Stands(w, a, v1) BY <1>2, <1>5
  <2>. HIDE DEF a
  <2>2. SubSeq(w, a + 1, a + n) = v1 BY <1>1, <1>2, <2>1, StandsCut
  <2>. QED BY <2>2 DEF a
<1>8. q.alpha # 0 => SubSeq(w, o + half + 1, o + half + d1) = k2
  <2>. HAVE q.alpha # 0
  <2>. DEFINE a == o + half
  <2>1. a \in Nat /\ Stands(w, a, k2) BY <1>2, <1>5
  <2>. HIDE DEF a
  <2>2. SubSeq(w, a + 1, a + d1) = k2 BY <1>1, <1>2, <2>1, StandsCut
  <2>. QED BY <2>2 DEF a
<1>9. q.alpha # 0 => SubSeq(w, o + (half + d1) + 1, o + (half + d1) + n) = v2
  <2>. HAVE q.alpha # 0
  <2>. DEFINE a == o + (half + d1)
  <2>1. a \in Nat /\ Stands(w, a, v2) BY <1>2, <1>5
  <2>. HIDE DEF a
  <2>2. SubSeq(w, a + 1, a + n) = v2 BY <1>1, <1>2, <2>1, StandsCut
  <2>. QED BY <2>2 DEF a
<1>. QED BY <1>3, <1>4, <1>6, <1>7, <1>8, <1>9

\* What a server cuts out of its wire is what the client made for it.
LEMMA WireCut ==
  ASSUME NEW q \in AnyQuery, NEW d, Drawn(d), NEW p \in Party, NEW i \in 1 .. KeysOf(q)
  PROVE  CutOf(q, WireOf(q, d)[p], (i - 1) * SizeOf(q)) = KeyOf(q, d, p, i)
<1> DEFINE mal == q.alpha # 0
           n == ValuesOf(q)
           w == WireOf(q, d)[p]
           P(j) == PairOf(q, d, j)
           o == (i - 1) * SizeOf(q)
<1>0. mal \in BOOLEAN /\ n \in Nat /\ i \in Nat BY QueryParts
<1>1. SizeOf(q) = (IF mal THEN 2 ELSE 1) * (Depth + 1 + n) /\ SizeOf(q) \in Nat
  BY <1>0, FssAssumption DEF SizeOf, FactorOf
<1>2. \A j \in 1 .. KeysOf(q) :
        /\ ServerPair(P(j), p, n)
        /\ Laid(Serialize(P(j), p, mal), 0, P(j), p, mal, n)
        /\ Len(Serialize(P(j), p, mal)) = SizeOf(q)
        /\ Serialize(P(j), p, mal) \in Seq(Cell)
  <2>. TAKE j \in 1 .. KeysOf(q)
  <2>1. ServerPair(P(j), p, n) BY PairServes
  <2>. HIDE DEF mal, P, n
  <2>2. Laid(Serialize(P(j), p, mal), 0, P(j), p, mal, n)
        /\ Len(Serialize(P(j), p, mal)) = (IF mal THEN 2 ELSE 1) * (Depth + 1 + n)
    BY <1>0, <2>1, SerialLaid
  <2>. QED BY <1>1, <2>1, <2>2 DEF Laid
<1>3. Laid(w, o, P(i), p, mal, n) /\ o \in Nat
  <2>1. CASE q.kind = "point"
    <3>1. i = 1 /\ o = 0 BY <1>1, <2>1 DEF KeysOf
    <3>2. PairsOf(q, d) = <<P(1)>> BY <2>1 DEF PairsOf, PairOf
    <3>3. w = Serialize(P(1), p, mal) \o <<>> BY <3>2 DEF WireOf, SerializeKeys
    <3>4. 1 \in 1 .. KeysOf(q) BY <2>1 DEF KeysOf
    <3>. HIDE DEF w, P, mal, n, o
    <3>5. w = Serialize(P(1), p, mal) BY <1>2, <3>3, <3>4, ConcatEmptySeq
    <3>. QED BY <1>2, <3>1, <3>4, <3>5
  <2>2. CASE q.kind # "point"
    <3>1. KeysOf(q) = 2 BY <2>2 DEF KeysOf
    <3>2. PairsOf(q, d) = <<P(1), P(2)>>
      <4>1. P(1) = DcfGenerate(q.left, FALSE, q.alpha, d[1], d[2]) BY <2>2 DEF PairOf
      <4>2. 2 # 1 OBVIOUS
      <4>3. P(2) = DcfGenerate(q.right, TRUE, q.alpha, d[3], d[4]) BY <2>2, <4>2 DEF PairOf
      <4>. HIDE DEF P
      <4>. QED BY <2>2, <4>1, <4>3, Zenon DEF PairsOf
    <3>3. w = Serialize(P(1), p, mal) \o Serialize(P(2), p, mal)
      BY <3>2 DEF WireOf, SerializeKeys
    <3>. DEFINE a == Serialize(P(1), p, mal)
                b == Serialize(P(2), p, mal)
    <3>. HIDE DEF P, mal, n, w
    <3>4. 1 \in 1 .. KeysOf(q) /\ 2 \in 1 .. KeysOf(q) BY <3>1
    <3>5. /\ a \in Seq(Cell) /\ b \in Seq(Cell) /\ Len(a) = SizeOf(q)
          /\ Laid(a, 0, P(1), p, mal, n) /\ Laid(b, 0, P(2), p, mal, n)
          /\ ServerPair(P(1), p, n) /\ ServerPair(P(2), p, n)
      BY <1>2, <3>4
    <3>6. w = a \o b BY <3>3
    <3>. HIDE DEF a, b
    <3>7. Laid(w, 0, P(1), p, mal, n) /\ Laid(w, SizeOf(q), P(2), p, mal, n)
      BY <1>0, <3>5, <3>6, LaidConcat
    <3>8. (i = 1 /\ o = 0) \/ (i = 2 /\ o = SizeOf(q))
      <4>. DEFINE z == SizeOf(q)
      <4>1. (i = 1 \/ i = 2) /\ z \in Nat /\ o = (i - 1) * z BY <1>1, <3>1
      <4>. HIDE DEF z, o
      <4>2. CASE i = 1
        <5>1. i - 1 = 0 /\ 0 * z = 0 BY <4>1, <4>2
        <5>2. o = 0 BY <4>1, <5>1
        <5>. QED BY <4>2, <5>2
      <4>3. CASE i = 2 BY <4>1, <4>3 DEF z
      <4>. QED BY <4>1, <4>2, <4>3
    <3>. HIDE DEF o
    <3>. QED BY <1>1, <3>7, <3>8
  <2>. QED BY <2>1, <2>2
<1>4. ServerPair(P(i), p, n) BY <1>2
<1>. HIDE DEF w, o, P
<1>5. CutOf(q, w, o) = [key |-> P(i).key[p], mac |-> IF mal THEN P(i).mac[p] ELSE <<>>]
  BY <1>3, <1>4, LaidCut
<1>. QED BY <1>5 DEF w, o, P, KeyOf

-----------------------------------------------------------------------------
(* Evaluation, for the kind of the query.                                  *)

\* Evaluation at a row, and of a block of rows, for the kind of the query.
EvalOf(q, ky, p, r) ==
  IF q.kind = "point" THEN EvalOneDPF(r, ky, p) ELSE EvalOneDCF(r, ky, p)

ContigOf(q, ky, p, start, range) ==
  IF q.kind = "point" THEN ContigEvalDPF(ky, p, start, range)
                      ELSE ContigEvalDCF(ky, p, start, range)

\* The values of a key are numbers at their places.
LEMMA ServerValues ==
  ASSUME NEW ky, NEW n \in Nat, ServerKey(ky, n)
  PROVE  WalkKey(ky) /\ \A i \in 1 .. n : ky.v[i] \in Int
<1>1. ky.v \in Seq(Int) /\ Len(ky.v) = n /\ WalkKey(ky) BY DEF ServerKey
<1>. QED BY <1>1, LenProperties

\* A share is a number that fits.
LEMMA EvalOfNumber ==
  ASSUME NEW q \in AnyQuery, NEW ky, ServerKey(ky, ValuesOf(q)), NEW p \in Party,
         NEW r \in 0 .. NumLeaves - 1
  PROVE  EvalOf(q, ky, p, r) \in Number
<1>1. ValuesOf(q) \in Nat /\ Depth \in Nat /\ Depth \in 0 .. Depth BY QueryParts, FssAssumption
<1>2. WalkKey(ky) /\ \A i \in 1 .. ValuesOf(q) : ky.v[i] \in Int BY <1>1, ServerValues
<1>3. CASE q.kind = "point"
  <2>1. PICK w : w \in Walks(r, ky) /\ EvalOneDPF(r, ky, p) = LeafDPF(w[Depth], ky.v, p)
    BY <1>2, EvalOneDPFWalks
  <2>2. w[Depth] \in Block BY <1>1, <2>1 DEF Walks
  <2>3. ky.v[1] \in Int BY <1>2, <1>3 DEF ValuesOf
  <2>4. LeafDPF(w[Depth], ky.v, p) \in Number BY <2>2, <2>3, LeafDPFType
  <2>. QED BY <1>3, <2>1, <2>4 DEF EvalOf
<1>4. CASE q.kind # "point"
  <2>1. \A i \in 1 .. Depth + 1 : ky.v[i] \in Int BY <1>2, <1>4 DEF ValuesOf
  <2>2. \A i \in 1 .. Depth : ky.v[i] \in Int BY <1>1, <2>1
  <2>3. PICK w : w \in WalksDCF(r, ky, p)
                 /\ EvalOneDCF(r, ky, p) = AddLeaf(w[Depth].acc, w[Depth].b, ky.v, p)
    BY <1>2, <2>2, EvalOneDCFWalks
  <2>4. w[Depth] \in Node BY <1>1, <2>3 DEF WalksDCF
  <2>5. w[Depth].acc \in Int /\ w[Depth].b \in Block BY <2>4 DEF Node
  <2>6. ky.v[Depth + 1] \in Int BY <1>1, <2>1
  <2>7. AddLeaf(w[Depth].acc, w[Depth].b, ky.v, p) \in Number BY <2>5, <2>6, AddLeafType
  <2>. QED BY <1>4, <2>3, <2>7 DEF EvalOf
<1>. QED BY <1>3, <1>4

\* An aligned block of rows is evaluated row by row.
LEMMA ContigOfPointwise ==
  ASSUME NEW q \in AnyQuery, NEW ky, ServerKey(ky, ValuesOf(q)), NEW p \in Party,
         NEW e \in 0 .. Depth, NEW k \in Nat, (k + 1) * 2 ^ e <= NumLeaves
  PROVE  ContigOf(q, ky, p, k * 2 ^ e, 2 ^ e)
           = [i \in 0 .. 2 ^ e - 1 |-> EvalOf(q, ky, p, k * 2 ^ e + i)]
<1>1. ValuesOf(q) \in Nat BY QueryParts
<1>2. WalkKey(ky) /\ \A i \in 1 .. ValuesOf(q) : ky.v[i] \in Int BY <1>1, ServerValues
<1>3. CASE q.kind = "point"
  <2>1. ky.v[1] \in Int BY <1>2, <1>3 DEF ValuesOf
  <2>2. ContigEvalDPF(ky, p, k * 2 ^ e, 2 ^ e)
          = [i \in 0 .. 2 ^ e - 1 |-> EvalOneDPF(k * 2 ^ e + i, ky, p)]
    BY <1>2, <2>1, ContigPointwiseDPF
  <2>3. ContigOf(q, ky, p, k * 2 ^ e, 2 ^ e) = ContigEvalDPF(ky, p, k * 2 ^ e, 2 ^ e)
    BY <1>3 DEF ContigOf
  <2>4. \A r : EvalOf(q, ky, p, r) = EvalOneDPF(r, ky, p) BY <1>3 DEF EvalOf
  <2>. QED BY <2>2, <2>3, <2>4
<1>4. CASE q.kind # "point"
  <2>1. \A i \in 1 .. Depth + 1 : ky.v[i] \in Int BY <1>2, <1>4 DEF ValuesOf
  <2>2. ContigEvalDCF(ky, p, k * 2 ^ e, 2 ^ e)
          = [i \in 0 .. 2 ^ e - 1 |-> EvalOneDCF(k * 2 ^ e + i, ky, p)]
    BY <1>2, <2>1, ContigPointwiseDCF
  <2>3. ContigOf(q, ky, p, k * 2 ^ e, 2 ^ e) = ContigEvalDCF(ky, p, k * 2 ^ e, 2 ^ e)
    BY <1>4 DEF ContigOf
  <2>4. \A r : EvalOf(q, ky, p, r) = EvalOneDCF(r, ky, p) BY <1>4 DEF EvalOf
  <2>. QED BY <2>2, <2>3, <2>4
<1>. QED BY <1>3, <1>4

\* A chunk whose size is a power of two begins at a multiple of it, also the last one.
LEMMA ChunkAligned ==
  ASSUME NEW c \in Nat \ {0}, NEW th \in Thread(c), NEW e \in 0 .. Depth,
         LastRow(NumLeaves, c, th) - FirstRow(NumLeaves, c, th) + 1 = 2 ^ e
  PROVE  \E k \in Nat : /\ FirstRow(NumLeaves, c, th) = k * 2 ^ e
                        /\ (k + 1) * 2 ^ e <= NumLeaves
<1> DEFINE n == NumLeaves
           s == ChunkSize(n, c)
           m == 2 ^ e
           l == 2 ^ (Depth - e)
           a == FirstRow(n, c, th)
           z == LastRow(n, c, th)
<1>1. Depth \in Nat /\ e \in Nat /\ Depth - e \in Nat BY FssAssumption
<1>2. n \in Nat \ {0} /\ m \in Nat \ {0} /\ l \in Nat \ {0} BY <1>1, PowerOfTwo DEF NumLeaves
<1>3. n = l * m
  <2>1. \A x, y \in Nat : 2 ^ (x + y) = 2 ^ x * 2 ^ y BY PowerSum
  <2>2. 2 ^ ((Depth - e) + e) = l * m BY <1>1, <2>1
  <2>3. (Depth - e) + e = Depth BY <1>1
  <2>. QED BY <2>2, <2>3 DEF NumLeaves
<1>4. /\ s \in Nat /\ (c - 1) * s \in 0 .. n /\ a = th * s /\ a \in Nat
      /\ th < c - 1 => z = a + s - 1
      /\ th = c - 1 => z = n - 1
  BY <1>2, ChunkBounds
<1>5. z - a + 1 = m OBVIOUS
<1>6. th \in Nat /\ (th < c - 1 \/ th = c - 1) BY DEF Thread
<1>7. CASE th < c - 1
  <2>1. (th + 1) * s <= (c - 1) * s
    <3>1. th + 1 \in Nat /\ c - 1 \in Nat /\ th + 1 <= c - 1 BY <1>6, <1>7
    <3>. QED BY <1>4, <3>1, TimesMonotone
  <2>2. (th + 1) * s \in Int /\ (c - 1) * s \in Int BY <1>4, <1>6
  <2>3. (th + 1) * s <= n
    <3>. DEFINE X == (th + 1) * s
                Y == (c - 1) * s
    <3>1. X \in Int /\ Y \in 0 .. n /\ X <= Y BY <1>4, <2>1, <2>2
    <3>. HIDE DEF X, Y, n
    <3>2. X <= n BY <1>2, <3>1
    <3>. QED BY <3>2 DEF X
  <2>4. s = m
    <3>1. z = a + s - 1 BY <1>4, <1>7
    <3>. HIDE DEF z, a, s, m
    <3>. QED BY <1>2, <1>4, <1>5, <3>1
  <2>5. a = th * m /\ (th + 1) * m <= n
    <3>. HIDE DEF a, m, n, s
    <3>. QED BY <1>4, <2>3, <2>4
  <2>. QED BY <1>6, <2>5
<1>8. CASE th = c - 1
  <2>1. a + m = n
    <3>1. z = n - 1 BY <1>4, <1>8
    <3>. HIDE DEF z, a, m, n
    <3>. QED BY <1>2, <1>4, <1>5, <3>1
  <2>2. l - 1 \in Nat BY <1>2
  <2>3. a = (l - 1) * m /\ ((l - 1) + 1) * m <= n
    <3>. HIDE DEF a, m, n, l
    <3>1. (l - 1) * m = l * m - m /\ (l - 1) + 1 = l /\ l * m \in Nat BY <1>2
    <3>2. l * m = n BY <1>3
    <3>. QED BY <1>2, <1>4, <2>1, <3>1, <3>2
  <2>. QED BY <2>2, <2>3
<1>. QED BY <1>6, <1>7, <1>8

-----------------------------------------------------------------------------
(* The array of outcomes and what a worker writes into it.                 *)

\* The places of an outcome, and the outcome of key i on all of them.
PlacesOf(q) == 0 .. FactorOf(q) * NumLeaves - 1

OutOf(q, d, p, i) ==
  [x \in PlacesOf(q) |-> IF x < NumLeaves THEN EvalOf(q, KeyOf(q, d, p, i).key, p, x)
                         ELSE EvalOf(q, KeyOf(q, d, p, i).mac, p, x - NumLeaves)]

\* What thread th of c leaves of the array old when it has written its chunk.
WriteOf(q, ky, p, c, th, old) ==
  LET start == FirstRow(NumLeaves, c, th)
      range == LastRow(NumLeaves, c, th) - FirstRow(NumLeaves, c, th) + 1
  IN  Over(IF q.alpha # 0 THEN At(NumLeaves + start, ContigOf(q, ky.mac, p, start, range))
           ELSE <<>>,
           Over(At(start, ContigOf(q, ky.key, p, start, range)), old))

\* The keys of a query, under its draws.
Given(q, d, p, i) == q \in AnyQuery /\ Drawn(d) /\ p \in Party /\ i \in 1 .. KeysOf(q)

\* Both keys can be used; the MAC key when there is one.
LEMMA KeyOfServes ==
  ASSUME NEW q, NEW d, NEW p, NEW i, Given(q, d, p, i)
  PROVE  /\ ServerKey(KeyOf(q, d, p, i).key, ValuesOf(q))
         /\ q.alpha # 0 => ServerKey(KeyOf(q, d, p, i).mac, ValuesOf(q))
<1>1. ServerPair(PairOf(q, d, i), p, ValuesOf(q)) BY PairServes DEF Given
<1>. QED BY <1>1 DEF ServerPair, KeyOf

\* The places: rows, and behind them the MACs of the rows.
LEMMA Places ==
  ASSUME NEW q \in AnyQuery
  PROVE  /\ NumLeaves \in Nat \ {0}
         /\ \A r \in 0 .. NumLeaves - 1 : r \in PlacesOf(q)
         /\ q.alpha # 0 => \A r \in 0 .. NumLeaves - 1 : NumLeaves + r \in PlacesOf(q)
         /\ \A x \in PlacesOf(q) :
              \/ x \in 0 .. NumLeaves - 1 /\ x < NumLeaves
              \/ q.alpha # 0 /\ x - NumLeaves \in 0 .. NumLeaves - 1 /\ ~(x < NumLeaves)
<1>1. NumLeaves \in Nat \ {0} BY FssAssumption, PowerOfTwo DEF NumLeaves
<1> DEFINE n == NumLeaves
<1>2. CASE q.alpha # 0
  <2>1. PlacesOf(q) = 0 .. 2 * n - 1 BY <1>2 DEF PlacesOf, FactorOf
  <2>. HIDE DEF n
  <2>. QED BY <1>1, <1>2, <2>1 DEF n
<1>3. CASE q.alpha = 0
  <2>1. PlacesOf(q) = 0 .. 1 * n - 1 BY <1>3 DEF PlacesOf, FactorOf
  <2>. HIDE DEF n
  <2>. QED BY <1>1, <1>3, <2>1 DEF n
<1>. QED BY <1>2, <1>3

\* Outcomes are numbers that wrap.
LEMMA OutOfType ==
  ASSUME NEW q, NEW d, NEW p, NEW i, Given(q, d, p, i)
  PROVE  OutOf(q, d, p, i) \in [PlacesOf(q) -> Number]
<1>1. q \in AnyQuery /\ p \in Party BY DEF Given
<1> DEFINE k1 == KeyOf(q, d, p, i).key
           k2 == KeyOf(q, d, p, i).mac
<1>2. ServerKey(k1, ValuesOf(q)) /\ (q.alpha # 0 => ServerKey(k2, ValuesOf(q)))
  BY KeyOfServes
<1>3. OutOf(q, d, p, i) = [x \in PlacesOf(q) |-> IF x < NumLeaves THEN EvalOf(q, k1, p, x)
                                               ELSE EvalOf(q, k2, p, x - NumLeaves)]
  BY DEF OutOf
<1>. HIDE DEF k1, k2
<1>4. \A r \in 0 .. NumLeaves - 1 :
        /\ EvalOf(q, k1, p, r) \in Number
        /\ q.alpha # 0 => EvalOf(q, k2, p, r) \in Number
  BY <1>1, <1>2, EvalOfNumber
<1>5. \A x \in PlacesOf(q) :
        \/ x \in 0 .. NumLeaves - 1 /\ x < NumLeaves
        \/ q.alpha # 0 /\ x - NumLeaves \in 0 .. NumLeaves - 1 /\ ~(x < NumLeaves)
  BY <1>1, Places
<1>6. \A x \in PlacesOf(q) : (IF x < NumLeaves THEN EvalOf(q, k1, p, x)
                              ELSE EvalOf(q, k2, p, x - NumLeaves)) \in Number
  BY <1>4, <1>5
<1>. QED BY <1>3, <1>6

\* The outcomes of a block, put at their rows.
LEMMA AtBlock ==
  ASSUME NEW start \in Nat, NEW n \in Nat, NEW o,
         DOMAIN o = 0 .. n - 1
  PROVE  /\ DOMAIN At(start, o) = start .. start + n - 1
         /\ \A r \in start .. start + n - 1 : At(start, o)[r] = o[r - start]
<1> DEFINE D == {start + i : i \in DOMAIN o}
<1>1. D = start .. start + n - 1
  <2>1. \A x \in D : x \in start .. start + n - 1 OBVIOUS
  <2>2. \A x \in start .. start + n - 1 : x \in D
    <3>. TAKE x \in start .. start + n - 1
    <3>1. x - start \in DOMAIN o /\ start + (x - start) = x OBVIOUS
    <3>. QED BY <3>1
  <2>. HIDE DEF D
  <2>. QED BY <2>1, <2>2
<1>2. At(start, o) = [r \in D |-> o[r - start]] BY DEF At
<1>. HIDE DEF D
<1>. QED BY <1>1, <1>2

\* A worker writes the outcomes of its chunk, at their places, and nothing else.
LEMMA WriteChunk ==
  ASSUME NEW q, NEW d, NEW p, NEW i, Given(q, d, p, i),
         NEW c \in Nat \ {0}, NEW th \in Thread(c),
         Balanced(LastRow(NumLeaves, c, th) - FirstRow(NumLeaves, c, th) + 1),
         NEW old \in [PlacesOf(q) -> Number]
  PROVE  /\ WriteOf(q, KeyOf(q, d, p, i), p, c, th, old) \in [PlacesOf(q) -> Number]
         /\ \A x \in PlacesOf(q) :
              \/ WriteOf(q, KeyOf(q, d, p, i), p, c, th, old)[x] = OutOf(q, d, p, i)[x]
              \/ WriteOf(q, KeyOf(q, d, p, i), p, c, th, old)[x] = old[x]
         /\ \A r \in Rows(NumLeaves, c, th) :
              /\ WriteOf(q, KeyOf(q, d, p, i), p, c, th, old)[r] = OutOf(q, d, p, i)[r]
              /\ q.alpha # 0 =>
                   WriteOf(q, KeyOf(q, d, p, i), p, c, th, old)[NumLeaves + r]
                     = OutOf(q, d, p, i)[NumLeaves + r]
<1> DEFINE n == NumLeaves
           k1 == KeyOf(q, d, p, i).key
           k2 == KeyOf(q, d, p, i).mac
           a == FirstRow(n, c, th)
           z == LastRow(n, c, th)
           out == OutOf(q, d, p, i)
           new == WriteOf(q, KeyOf(q, d, p, i), p, c, th, old)
           o1 == ContigOf(q, k1, p, a, z - a + 1)
           o2 == ContigOf(q, k2, p, a, z - a + 1)
<1>0. q \in AnyQuery /\ p \in Party BY DEF Given
<1>1. PICK e \in 0 .. Depth : z - a + 1 = 2 ^ e BY DEF Balanced
<1>2. PICK k \in Nat : a = k * 2 ^ e /\ (k + 1) * 2 ^ e <= n BY <1>1, ChunkAligned
<1>3. ServerKey(k1, ValuesOf(q)) /\ (q.alpha # 0 => ServerKey(k2, ValuesOf(q)))
  BY KeyOfServes
<1>4. /\ ContigOf(q, k1, p, k * 2 ^ e, 2 ^ e)
           = [j \in 0 .. 2 ^ e - 1 |-> EvalOf(q, k1, p, k * 2 ^ e + j)]
      /\ q.alpha # 0 => ContigOf(q, k2, p, k * 2 ^ e, 2 ^ e)
                          = [j \in 0 .. 2 ^ e - 1 |-> EvalOf(q, k2, p, k * 2 ^ e + j)]
  BY <1>0, <1>2, <1>3, ContigOfPointwise
<1> DEFINE m == 2 ^ e
<1>5. m \in Nat \ {0} BY FssAssumption, PowerOfTwo
<1>6. z - a + 1 = m /\ a = k * m BY <1>1, <1>2
<1>7. /\ o1 = [j \in 0 .. m - 1 |-> EvalOf(q, k1, p, a + j)]
      /\ q.alpha # 0 => o2 = [j \in 0 .. m - 1 |-> EvalOf(q, k2, p, a + j)]
  BY <1>4, <1>6
<1>8. new = Over(IF q.alpha # 0 THEN At(n + a, o2) ELSE <<>>, Over(At(a, o1), old))
  BY DEF WriteOf
<1>9. out = [x \in PlacesOf(q) |-> IF x < n THEN EvalOf(q, k1, p, x)
                                   ELSE EvalOf(q, k2, p, x - n)]
  BY DEF OutOf
<1>10. out \in [PlacesOf(q) -> Number] BY OutOfType
<1>11. a \in Nat /\ z \in Int /\ n \in Nat \ {0} /\ Rows(n, c, th) = a .. z
       /\ Rows(n, c, th) \in SUBSET (0 .. n - 1)
  <2>1. n \in Nat \ {0} BY <1>0, Places
  <2>2. a \in Nat /\ Rows(n, c, th) \in SUBSET (0 .. n - 1) BY <2>1, ChunkBounds
  <2>3. z \in Int
    <3>1. ChunkSize(n, c) \in Nat /\ th \in Nat /\ c \in Nat BY <2>1, ChunkBounds DEF Thread
    <3>. QED BY <2>1, <3>1 DEF LastRow
  <2>. QED BY <2>1, <2>2, <2>3 DEF Rows
<1>12. a + m - 1 = z /\ (n + a) + m - 1 = n + z
  <2>. HIDE DEF a, z, m, n
  <2>. QED BY <1>5, <1>6, <1>11
<1>. HIDE DEF n, a, z, m, out, new, o1, o2, k1, k2
<1>13. \A r \in a .. z : r \in 0 .. n - 1 BY <1>11
<1>14. /\ DOMAIN At(a, o1) = a .. z
       /\ \A r \in a .. z : At(a, o1)[r] = EvalOf(q, k1, p, r)
  <2>1. DOMAIN o1 = 0 .. m - 1 /\ \A j \in 0 .. m - 1 : o1[j] = EvalOf(q, k1, p, a + j)
    BY <1>7
  <2>2. /\ DOMAIN At(a, o1) = a .. a + m - 1
        /\ \A r \in a .. a + m - 1 : At(a, o1)[r] = o1[r - a]
    BY <1>5, <1>11, <2>1, AtBlock
  <2>3. \A r \in a .. z : r - a \in 0 .. m - 1 /\ a + (r - a) = r BY <1>5, <1>11, <1>12
  <2>4. \A r \in a .. z : At(a, o1)[r] = o1[r - a] BY <1>12, <2>2
  <2>. QED BY <1>12, <2>1, <2>2, <2>3, <2>4
<1>15. q.alpha # 0 => /\ DOMAIN At(n + a, o2) = n + a .. n + z
                      /\ \A r \in a .. z : At(n + a, o2)[n + r] = EvalOf(q, k2, p, r)
  <2>. HAVE q.alpha # 0
  <2>1. DOMAIN o2 = 0 .. m - 1 /\ \A j \in 0 .. m - 1 : o2[j] = EvalOf(q, k2, p, a + j)
    BY <1>7
  <2>2. /\ DOMAIN At(n + a, o2) = n + a .. (n + a) + m - 1
        /\ \A r \in n + a .. (n + a) + m - 1 : At(n + a, o2)[r] = o2[r - (n + a)]
    <3>. DEFINE b == n + a
    <3>1. b \in Nat BY <1>11
    <3>. HIDE DEF b
    <3>2. /\ DOMAIN At(b, o2) = b .. b + m - 1
          /\ \A r \in b .. b + m - 1 : At(b, o2)[r] = o2[r - b]
      BY <1>5, <2>1, <3>1, AtBlock
    <3>3. b + m - 1 = (b + m) - 1 BY <1>5, <3>1
    <3>. QED BY <3>2, <3>3 DEF b
  <2>3. \A r \in a .. z : /\ n + r \in n + a .. n + z
                          /\ (n + r) - (n + a) \in 0 .. m - 1 /\ a + ((n + r) - (n + a)) = r
    BY <1>5, <1>11, <1>12
  <2>4. \A r \in a .. z : At(n + a, o2)[n + r] = o2[(n + r) - (n + a)]
    BY <1>12, <2>2, <2>3
  <2>. QED BY <1>12, <2>1, <2>2, <2>3, <2>4
<1>16. /\ \A r \in 0 .. n - 1 : out[r] = EvalOf(q, k1, p, r)
       /\ q.alpha # 0 => \A r \in 0 .. n - 1 : out[n + r] = EvalOf(q, k2, p, r)
  <2>1. /\ \A r \in 0 .. n - 1 : r \in PlacesOf(q)
        /\ q.alpha # 0 => \A r \in 0 .. n - 1 : n + r \in PlacesOf(q)
    BY <1>0, Places DEF n
  <2>2. \A r \in 0 .. n - 1 : r < n /\ ~(n + r < n) /\ (n + r) - n = r BY <1>11
  <2>. QED BY <1>9, <2>1, <2>2
<1>17. \A r \in 0 .. n - 1 : r \in PlacesOf(q) /\ (q.alpha # 0 => n + r \in PlacesOf(q))
  BY <1>0, Places DEF n
\* the array after the chunk of the key
<1> DEFINE mid == Over(At(a, o1), old)
<1>18. /\ DOMAIN mid = PlacesOf(q)
       /\ \A x \in PlacesOf(q) : mid[x] = IF x \in a .. z THEN out[x] ELSE old[x]
  <2>1. a .. z \subseteq PlacesOf(q) BY <1>13, <1>17
  <2>2. (a .. z) \cup PlacesOf(q) = PlacesOf(q) BY <2>1
  <2>3. mid = [x \in (a .. z) \cup PlacesOf(q) |-> IF x \in a .. z THEN At(a, o1)[x] ELSE old[x]]
    BY <1>14 DEF Over
  <2>4. \A x \in a .. z : At(a, o1)[x] = out[x] BY <1>13, <1>14, <1>16
  <2>. HIDE DEF mid
  <2>. QED BY <2>2, <2>3, <2>4
<1>. HIDE DEF mid
\* and after that of the MAC key
<1>19. CASE q.alpha # 0
  <2>1. new = Over(At(n + a, o2), mid) BY <1>8, <1>19 DEF mid
  <2>2. \A x \in n + a .. n + z : x - n \in a .. z /\ n + (x - n) = x BY <1>11
  <2>3. \A x \in n + a .. n + z : x \in PlacesOf(q) /\ At(n + a, o2)[x] = out[x]
    <3>. TAKE x \in n + a .. n + z
    <3>1. x - n \in a .. z /\ n + (x - n) = x BY <2>2
    <3>2. x - n \in 0 .. n - 1 BY <1>13, <3>1
    <3>3. At(n + a, o2)[n + (x - n)] = EvalOf(q, k2, p, x - n) BY <1>15, <1>19, <3>1
    <3>4. out[n + (x - n)] = EvalOf(q, k2, p, x - n) BY <1>16, <1>19, <3>2
    <3>5. n + (x - n) \in PlacesOf(q) BY <1>17, <1>19, <3>2
    <3>. QED BY <3>1, <3>3, <3>4, <3>5
  <2>4. (n + a .. n + z) \cup PlacesOf(q) = PlacesOf(q) BY <2>3
  <2>5. new = [x \in (n + a .. n + z) \cup PlacesOf(q) |->
                 IF x \in n + a .. n + z THEN At(n + a, o2)[x] ELSE mid[x]]
    BY <1>15, <1>18, <1>19, <2>1 DEF Over
  <2>6. /\ DOMAIN new = PlacesOf(q) /\ new = [x \in PlacesOf(q) |-> new[x]]
        /\ \A x \in PlacesOf(q) : new[x] = IF x \in n + a .. n + z THEN out[x] ELSE mid[x]
    BY <2>3, <2>4, <2>5
  <2>7. \A x \in PlacesOf(q) : new[x] = out[x] \/ new[x] = old[x] BY <1>18, <2>6
  <2>8. \A r \in a .. z : new[r] = out[r] /\ new[n + r] = out[n + r]
    <3>. TAKE r \in a .. z
    <3>1. r \in 0 .. n - 1 BY <1>13
    <3>2. r \in PlacesOf(q) /\ n + r \in PlacesOf(q) BY <1>17, <1>19, <3>1
    <3>3. n + r \in n + a .. n + z BY <1>11
    <3>. QED BY <1>18, <2>6, <3>2, <3>3
  <2>9. \A x \in PlacesOf(q) : new[x] \in Number BY <1>10, <2>7
  <2>10. new \in [PlacesOf(q) -> Number] BY <2>6, <2>9
  <2>. QED BY <1>11, <2>7, <2>8, <2>10 DEF n, new, out
<1>20. CASE q.alpha = 0
  <2>1. new = Over(<<>>, mid) BY <1>8, <1>20 DEF mid
  <2>2. DOMAIN <<>> = {} OBVIOUS
  <2>3. new = [x \in {} \cup PlacesOf(q) |-> IF x \in {} THEN <<>>[x] ELSE mid[x]]
    BY <1>18, <2>1, <2>2 DEF Over
  <2>4. {} \cup PlacesOf(q) = PlacesOf(q) OBVIOUS
  <2>5. new = [x \in PlacesOf(q) |-> mid[x]] BY <2>3, <2>4
  <2>6. \A x \in PlacesOf(q) : new[x] = out[x] \/ new[x] = old[x] BY <1>18, <2>5
  <2>7. \A r \in a .. z : new[r] = out[r]
    <3>. TAKE r \in a .. z
    <3>1. r \in PlacesOf(q) BY <1>13, <1>17
    <3>. QED BY <1>18, <2>5, <3>1
  <2>8. \A x \in PlacesOf(q) : new[x] \in Number BY <1>10, <2>6
  <2>9. new \in [PlacesOf(q) -> Number] BY <2>5, <2>8
  <2>. QED BY <1>11, <1>20, <2>6, <2>7, <2>9 DEF n, new, out
<1>. QED BY <1>19, <1>20

-----------------------------------------------------------------------------
(* The inductive invariant.                                                *)

\* The columns of a result, and the products of a set of rows with the table t.
ColumnsOf(q) == 1 .. FactorOf(q) * WindowSize

TermsOf(t, f, rows, j) ==
  [r \in rows |-> f[(IF j > WindowSize THEN NumLeaves ELSE 0) + r]
                    * t[r][((j - 1) % WindowSize) + 1]]

ProductsOf(q, t, f, rows) ==
  [j \in ColumnsOf(q) |-> Total(TermsOf(t, f, rows, j), rows) % Word]

\* The outcome that is multiplied with the table.
CombinedOf(q, d, p) ==
  IF KeysOf(q) = 2
    THEN [x \in PlacesOf(q) |-> (OutOf(q, d, p, 1)[x] + OutOf(q, d, p, 2)[x]) % Word]
    ELSE OutOf(q, d, p, 1)

ResultOf(q, t, d, p) == ProductsOf(q, t, CombinedOf(q, d, p), 0 .. NumLeaves - 1)

\* The rows of the threads that are done have their outcomes.
Filled(q, f, out, c, run) ==
  \A th \in Thread(c) \ run : \A r \in Rows(NumLeaves, c, th) :
    f[r] = out[r] /\ (q.alpha # 0 => f[NumLeaves + r] = out[NumLeaves + r])

\* A server with a query q under the draws d: party p of c cores, of which e evaluate,
\* at stage st with keys k, outcomes f, workers run, sums tr and results rs.
Server(q, t, c, e, d, p, st, k, f, run, tr, rs) ==
  /\ k = [i \in 1 .. KeysOf(q) |-> KeyOf(q, d, p, i)]
  /\ f \in [1 .. KeysOf(q) -> [PlacesOf(q) -> Number]]
  /\ \A th \in DOMAIN tr : tr[th] \in [ColumnsOf(q) -> Number]
  /\ st = "eval1" => run \subseteq Thread(e) /\ Filled(q, f[1], OutOf(q, d, p, 1), e, run)
  /\ st = "eval2" => /\ KeysOf(q) = 2 /\ f[1] = OutOf(q, d, p, 1)
                     /\ run \subseteq Thread(e) /\ Filled(q, f[2], OutOf(q, d, p, 2), e, run)
  /\ st \in {"multiply", "done"} => f[1] = CombinedOf(q, d, p)
  /\ st = "multiply" => /\ DOMAIN tr = Thread(c)
                        /\ \A th \in Thread(c) \ run :
                             tr[th] = ProductsOf(q, t, f[1], Rows(NumLeaves, c, th))
  /\ st = "done" => run = {} /\ rs = ResultOf(q, t, d, p)

Stages == {"nokey", "eval1", "eval2", "multiply", "done", "aborted"}

Typing ==
  /\ table \in Tables /\ <<cores, threaded>> \in Settings /\ query \in Queries \cup {NoQuery}
  /\ stage \in [Party -> Stages] /\ running \in [Party -> SUBSET Thread(cores)]
  /\ wire = [p \in Party |-> wire[p]] /\ key = [p \in Party |-> key[p]]
  /\ fss = [p \in Party |-> fss[p]] /\ thRes = [p \in Party |-> thRes[p]]
  /\ res = [p \in Party |-> res[p]]

Resting ==
  \A p \in Party :
    stage[p] = "nokey" => fss[p] = <<>> /\ thRes[p] = <<>> /\ res[p] = <<>> /\ running[p] = {}

Idle == query = NoQuery => \A p \in Party : stage[p] = "nokey" /\ wire[p] = <<>>

Serving(d) ==
  /\ wire = WireOf(query, d)
  /\ \A p \in Party : stage[p] # "nokey" =>
       Server(query, table, cores, EvalCores, d, p, stage[p], key[p], fss[p], running[p],
              thRes[p], res[p])

Busy == query # NoQuery => \E d \in Draws : Serving(d)

\* The inductive invariant.
Inv == Typing /\ Resting /\ Idle /\ Busy

-----------------------------------------------------------------------------
(* Products with the table.                                                *)

\* When every worker is done the array holds the outcome.
LEMMA FilledAll ==
  ASSUME NEW q \in AnyQuery, NEW f \in [PlacesOf(q) -> Number],
         NEW out \in [PlacesOf(q) -> Number], NEW c \in Nat \ {0}, Filled(q, f, out, c, {})
  PROVE  f = out
<1>1. NumLeaves \in Nat BY Places
<1>2. \A r \in 0 .. NumLeaves - 1 : \E th \in Thread(c) : r \in Rows(NumLeaves, c, th)
  BY <1>1, ChunksCover
<1>3. \A r \in 0 .. NumLeaves - 1 :
        f[r] = out[r] /\ (q.alpha # 0 => f[NumLeaves + r] = out[NumLeaves + r])
  BY <1>2 DEF Filled
<1>4. \A x \in PlacesOf(q) : f[x] = out[x]
  <2>. TAKE x \in PlacesOf(q)
  <2>1. \/ x \in 0 .. NumLeaves - 1
        \/ q.alpha # 0 /\ x - NumLeaves \in 0 .. NumLeaves - 1
    BY Places
  <2>2. NumLeaves + (x - NumLeaves) = x
    <3>1. x \in Int BY DEF PlacesOf
    <3>. DEFINE n == NumLeaves
    <3>2. n \in Int BY <1>1
    <3>. HIDE DEF n
    <3>3. n + (x - n) = x BY <3>1, <3>2
    <3>. QED BY <3>3 DEF n
  <2>3. CASE x \in 0 .. NumLeaves - 1 BY <1>3, <2>3
  <2>4. CASE q.alpha # 0 /\ x - NumLeaves \in 0 .. NumLeaves - 1
    <3>1. f[NumLeaves + (x - NumLeaves)] = out[NumLeaves + (x - NumLeaves)] BY <1>3, <2>4
    <3>. QED BY <2>2, <3>1
  <2>. QED BY <2>1, <2>3, <2>4
<1>. QED BY <1>4

\* A residue of Word is a number.
LEMMA WrapType == \A n \in Int : n % Word \in Number
<1>1. Word \in Nat \ {0} BY FssAssumption
<1>. QED BY <1>1, DivMod DEF Number

\* The outcome of a server is an array of numbers.
LEMMA CombinedOfType ==
  ASSUME NEW q \in AnyQuery, NEW d, Drawn(d), NEW p \in Party
  PROVE  CombinedOf(q, d, p) \in [PlacesOf(q) -> Number]
<1>1. \A i \in 1 .. KeysOf(q) : OutOf(q, d, p, i) \in [PlacesOf(q) -> Number]
  BY OutOfType DEF Given
<1>2. CASE KeysOf(q) = 2
  <2>. DEFINE f == OutOf(q, d, p, 1)
              g == OutOf(q, d, p, 2)
  <2>1. f \in [PlacesOf(q) -> Number] /\ g \in [PlacesOf(q) -> Number]
    <3>1. 1 \in 1 .. KeysOf(q) /\ 2 \in 1 .. KeysOf(q) BY <1>2
    <3>. QED BY <1>1, <3>1
  <2>2. CombinedOf(q, d, p) = [x \in PlacesOf(q) |-> (f[x] + g[x]) % Word]
    BY <1>2 DEF CombinedOf
  <2>. HIDE DEF f, g
  <2>3. \A x \in PlacesOf(q) : (f[x] + g[x]) % Word \in Number
    <3>. TAKE x \in PlacesOf(q)
    <3>1. f[x] \in Int /\ g[x] \in Int BY <2>1, NumbersAreInts
    <3>2. f[x] + g[x] \in Int BY <3>1
    <3>. QED BY <3>2, WrapType
  <2>. QED BY <2>2, <2>3
<1>3. CASE KeysOf(q) # 2
  <2>1. KeysOf(q) = 1 BY <1>3 DEF KeysOf
  <2>2. CombinedOf(q, d, p) = OutOf(q, d, p, 1) BY <1>3 DEF CombinedOf
  <2>3. 1 \in 1 .. KeysOf(q) BY <2>1
  <2>. QED BY <1>1, <2>2, <2>3
<1>. QED BY <1>2, <1>3

\* The columns: those of the table, and behind them those of the MACs.
LEMMA Columns ==
  ASSUME NEW q \in AnyQuery
  PROVE  /\ WindowSize \in Nat \ {0}
         /\ \A j \in 1 .. WindowSize :
              /\ j \in ColumnsOf(q) /\ ~(j > WindowSize) /\ ((j - 1) % WindowSize) + 1 = j
              /\ q.alpha # 0 => /\ WindowSize + j \in ColumnsOf(q) /\ WindowSize + j > WindowSize
                                /\ ((WindowSize + j - 1) % WindowSize) + 1 = j
         /\ \A j \in ColumnsOf(q) : /\ j \in Int /\ ((j - 1) % WindowSize) + 1 \in 1 .. WindowSize
                                    /\ j > WindowSize => q.alpha # 0
<1> DEFINE w == WindowSize
<1>1. w \in Nat \ {0} BY TableAssumption
<1>2. ColumnsOf(q) = IF q.alpha # 0 THEN 1 .. 2 * w ELSE 1 .. 1 * w
  BY DEF ColumnsOf, FactorOf
<1>. HIDE DEF w
<1>3. \A j \in 1 .. w : (j - 1) % w = j - 1 /\ (w + j - 1) % w = j - 1
  <2>. TAKE j \in 1 .. w
  <2>1. j - 1 \in 0 .. w - 1 BY <1>1
  <2>2. j - 1 = 0 * w + (j - 1) /\ w + j - 1 = 1 * w + (j - 1) BY <1>1
  <2>3. j - 1 \in Int /\ w + j - 1 \in Int BY <1>1
  <2>4. (j - 1) % w = j - 1 BY <1>1, <2>1, <2>2, <2>3, ModUnique
  <2>5. (w + j - 1) % w = j - 1 BY <1>1, <2>1, <2>2, <2>3, ModUnique
  <2>. QED BY <2>4, <2>5
<1>4. \A j \in 1 .. w : /\ j \in ColumnsOf(q) /\ ~(j > w) /\ ((j - 1) % w) + 1 = j
                        /\ q.alpha # 0 => /\ w + j \in ColumnsOf(q) /\ w + j > w
                                          /\ ((w + j - 1) % w) + 1 = j
  <2>. TAKE j \in 1 .. w
  <2>1. (j - 1) + 1 = j OBVIOUS
  <2>2. j \in ColumnsOf(q) /\ ~(j > w) BY <1>1, <1>2
  <2>3. q.alpha # 0 => w + j \in ColumnsOf(q) /\ w + j > w BY <1>1, <1>2
  <2>. QED BY <1>3, <2>1, <2>2, <2>3
<1>5. \A j \in ColumnsOf(q) : /\ j \in Int /\ ((j - 1) % w) + 1 \in 1 .. w
                              /\ j > w => q.alpha # 0
  <2>. TAKE j \in ColumnsOf(q)
  <2>1. j \in Int BY <1>1, <1>2
  <2>2. (j - 1) % w \in 0 .. w - 1 BY <1>1, <2>1, DivMod
  <2>3. j > w => q.alpha # 0 BY <1>1, <1>2
  <2>. DEFINE y == (j - 1) % w
  <2>4. y \in 0 .. w - 1 BY <2>2
  <2>. HIDE DEF y
  <2>5. y + 1 \in 1 .. w BY <1>1, <2>4
  <2>. QED BY <2>1, <2>3, <2>5 DEF y
<1>. QED BY <1>1, <1>4, <1>5 DEF w

\* The products of rows are numbers, and so are their totals.
LEMMA ProductsType ==
  ASSUME NEW q \in AnyQuery, NEW t \in [0 .. NumLeaves - 1 -> [1 .. WindowSize -> Number]],
         NEW f \in [PlacesOf(q) -> Number], NEW a \in Int, NEW b \in Int,
         a .. b \subseteq 0 .. NumLeaves - 1
  PROVE  /\ \A j \in ColumnsOf(q), r \in 0 .. NumLeaves - 1 :
              f[(IF j > WindowSize THEN NumLeaves ELSE 0) + r]
                * t[r][((j - 1) % WindowSize) + 1] \in Int
         /\ \A j \in ColumnsOf(q) : Total(TermsOf(t, f, a .. b, j), a .. b) \in Int
         /\ ProductsOf(q, t, f, a .. b) \in [ColumnsOf(q) -> Number]
<1>0. NumLeaves \in Nat BY Places
<1>1. \A j \in ColumnsOf(q), r \in 0 .. NumLeaves - 1 :
        f[(IF j > WindowSize THEN NumLeaves ELSE 0) + r]
          * t[r][((j - 1) % WindowSize) + 1] \in Int
  <2>. TAKE j \in ColumnsOf(q), r \in 0 .. NumLeaves - 1
  <2>. DEFINE x == (IF j > WindowSize THEN NumLeaves ELSE 0) + r
              y == ((j - 1) % WindowSize) + 1
  <2>1. y \in 1 .. WindowSize /\ (j > WindowSize => q.alpha # 0) BY Columns
  <2>2. x \in PlacesOf(q)
    <3>1. CASE j > WindowSize
      <4>1. NumLeaves + r \in PlacesOf(q) BY <2>1, <3>1, Places
      <4>. QED BY <3>1, <4>1
    <3>2. CASE ~(j > WindowSize)
      <4>1. r \in PlacesOf(q) /\ 0 + r = r BY Places
      <4>. QED BY <3>2, <4>1
    <3>. QED BY <3>1, <3>2
  <2>. HIDE DEF x, y
  <2>3. f[x] \in Number /\ t[r][y] \in Number BY <2>1, <2>2
  <2>4. f[x] \in Int /\ t[r][y] \in Int BY <2>3, NumbersAreInts
  <2>. DEFINE u == f[x]
              v == t[r][y]
  <2>5. u \in Int /\ v \in Int BY <2>4
  <2>. HIDE DEF u, v
  <2>6. u * v \in Int BY <2>5
  <2>. QED BY <2>6 DEF u, v, x, y
<1>2. \A j \in ColumnsOf(q) : Total(TermsOf(t, f, a .. b, j), a .. b) \in Int
  <2>. TAKE j \in ColumnsOf(q)
  <2>. DEFINE g == TermsOf(t, f, a .. b, j)
  <2>1. \A r \in a .. b : g[r] = f[(IF j > WindowSize THEN NumLeaves ELSE 0) + r]
                                   * t[r][((j - 1) % WindowSize) + 1]
    BY DEF TermsOf
  <2>. HIDE DEF g
  <2>2. \A r \in a .. b : g[r] \in Int BY <1>1, <2>1
  <2>3. Total(g, a .. b) \in Int BY <2>2, TotalInterval
  <2>. QED BY <2>3 DEF g
<1>3. \A j \in ColumnsOf(q) : Total(TermsOf(t, f, a .. b, j), a .. b) % Word \in Number
  BY <1>2, WrapType
<1>4. ProductsOf(q, t, f, a .. b) \in [ColumnsOf(q) -> Number]
  BY <1>3 DEF ProductsOf
<1>. QED BY <1>1, <1>2, <1>4

\* The totals g of the chunks of n rows, wrapped, for c threads.
AddsUp(n, c, f, g) ==
  /\ n \in Nat /\ c \in Nat \ {0} /\ \A x \in 0 .. n - 1 : f[x] \in Int
  /\ \A th \in Thread(c) : g[th] = Total(f, Rows(n, c, th)) % Word

\* They add up to the total of all rows.
LEMMA TotalChunksWord ==
  ASSUME NEW n, NEW c, NEW f, NEW g, AddsUp(n, c, f, g)
  PROVE  Total(g, Thread(c)) % Word = Total(f, 0 .. n - 1) % Word
<1>1. Word \in Nat \ {0} BY FssAssumption
<1>2. /\ n \in Nat /\ c \in Nat \ {0} /\ \A x \in 0 .. n - 1 : f[x] \in Int
      /\ \A th \in Thread(c) : g[th] = Total(f, Rows(n, c, th)) % Word
  BY DEF AddsUp
<1>. QED BY <1>1, <1>2, TotalChunks

\* The sums of the workers add up to the products of all rows.
LEMMA JoinProducts ==
  ASSUME NEW q \in AnyQuery, NEW t \in [0 .. NumLeaves - 1 -> [1 .. WindowSize -> Number]],
         NEW f \in [PlacesOf(q) -> Number], NEW c \in Nat \ {0},
         NEW tr, \A th \in Thread(c) : tr[th] = ProductsOf(q, t, f, Rows(NumLeaves, c, th))
  PROVE  [j \in ColumnsOf(q) |-> Total([th \in Thread(c) |-> tr[th][j]], Thread(c)) % Word]
           = ProductsOf(q, t, f, 0 .. NumLeaves - 1)
<1> DEFINE n == NumLeaves
<1>1. n \in Nat /\ Word \in Nat \ {0} BY Places, FssAssumption
<1>2. \A j \in ColumnsOf(q) :
        Total([th \in Thread(c) |-> tr[th][j]], Thread(c)) % Word
          = Total(TermsOf(t, f, 0 .. n - 1, j), 0 .. n - 1) % Word
  <2>. TAKE j \in ColumnsOf(q)
  <2>. DEFINE g == [th \in Thread(c) |-> tr[th][j]]
              h == TermsOf(t, f, 0 .. n - 1, j)
              Term(r) == f[(IF j > WindowSize THEN NumLeaves ELSE 0) + r]
                           * t[r][((j - 1) % WindowSize) + 1]
  <2>1. \A r \in 0 .. n - 1 : Term(r) \in Int
    <3>1. 0 \in Int /\ -1 \in Int /\ 0 .. -1 \subseteq 0 .. NumLeaves - 1 OBVIOUS
    <3>. QED BY <3>1, ProductsType
  <2>2. \A r \in 0 .. n - 1 : h[r] = Term(r) BY DEF TermsOf
  <2>3. \A r \in 0 .. n - 1 : h[r] \in Int
    <3>. HIDE DEF h, Term
    <3>. QED BY <2>1, <2>2
  <2>4. \A th \in Thread(c) : g[th] = Total(h, Rows(n, c, th)) % Word
    <3>. TAKE th \in Thread(c)
    <3>. DEFINE R == Rows(n, c, th)
                u == TermsOf(t, f, R, j)
    <3>1. g[th] = Total(u, R) % Word BY DEF ProductsOf
    <3>2. R \subseteq 0 .. n - 1 BY <1>1, ChunkBounds
    <3>3. \A r \in R : u[r] = Term(r) BY DEF TermsOf
    <3>4. \A r \in R : h[r] \in Int /\ u[r] = h[r]
      <4>. HIDE DEF h, u, Term, R
      <4>. QED BY <2>2, <2>3, <3>2, <3>3
    <3>5. Total(u, R) = Total(h, R)
      <4>. DEFINE a == FirstRow(n, c, th)
                  z == LastRow(n, c, th)
      <4>1. R = a .. z BY DEF Rows
      <4>2. a \in Nat /\ z \in Int
        <5>1. ChunkSize(n, c) \in Nat /\ th \in Nat /\ c \in Nat BY <1>1, ChunkBounds DEF Thread
        <5>2. a \in Nat BY <1>1, ChunkBounds
        <5>3. z \in Int
          <6>. HIDE DEF n, a
          <6>. QED BY <1>1, <5>1 DEF LastRow
        <5>. QED BY <5>2, <5>3
      <4>. HIDE DEF a, z, u, h, R
      <4>3. CASE a <= z
        <5>. DEFINE m == z - a + 1
        <5>1. m \in Nat /\ a + m - 1 = z BY <4>2, <4>3
        <5>. HIDE DEF m
        <5>2. \A r \in a .. a + m - 1 : h[r] \in Int /\ u[r] = h[r] BY <3>4, <4>1, <5>1
        <5>3. Total(u, a .. a + m - 1) = Total(h, a .. a + m - 1)
          <6>1. a \in Int BY <4>2
          <6>. QED BY <5>1, <5>2, <6>1, TotalSame, Zenon
        <5>. QED BY <4>1, <5>1, <5>3
      <4>4. CASE z < a
        <5>1. \A r \in a .. z : h[r] \in Int /\ u[r] \in Int BY <3>4, <4>1
        <5>2. Total(u, a .. z) = 0 /\ Total(h, a .. z) = 0
          BY <4>2, <4>4, <5>1, TotalInterval
        <5>. QED BY <4>1, <5>2
      <4>. QED BY <4>2, <4>3, <4>4
    <3>. HIDE DEF g, u, h, R
    <3>6. g[th] = Total(h, R) % Word BY <3>1, <3>5
    <3>. QED BY <3>6 DEF R
  <2>. HIDE DEF g, h, n
  <2>5. AddsUp(n, c, h, g) BY <1>1, <2>3, <2>4 DEF AddsUp
  <2>6. Total(g, Thread(c)) % Word = Total(h, 0 .. n - 1) % Word BY <2>5, TotalChunksWord
  <2>. QED BY <2>6 DEF g, h
<1>. QED BY <1>2 DEF ProductsOf

-----------------------------------------------------------------------------
(* The state, and what a move of one server leaves alone.                  *)

\* What the assumptions say of the state.
LEMMA StateParts ==
  ASSUME Typing
  PROVE  /\ query # NoQuery => query \in AnyQuery
         /\ \A d \in Draws : Drawn(d)
         /\ table \in [0 .. NumLeaves - 1 -> [1 .. WindowSize -> Number]]
         /\ cores \in Nat \ {0} /\ EvalCores \in Nat \ {0}
         /\ Thread(EvalCores) \subseteq Thread(cores)
<1>1. query # NoQuery => query \in AnyQuery BY TableAssumption DEF Typing, AnyQuery
<1>2. \A d \in Draws : Drawn(d) BY TableAssumption DEF Drawn
<1>3. table \in [0 .. NumLeaves - 1 -> [1 .. WindowSize -> Number]]
  BY TableAssumption DEF Typing
<1>4. <<cores, threaded>> \in (Nat \ {0}) \X BOOLEAN BY TableAssumption DEF Typing
<1>5. cores \in Nat \ {0} /\ threaded \in BOOLEAN BY <1>4
<1>6. EvalCores \in Nat \ {0} /\ EvalCores <= cores BY <1>5 DEF EvalCores
<1>7. Thread(EvalCores) \subseteq Thread(cores) BY <1>5, <1>6 DEF Thread
<1>. QED BY <1>1, <1>2, <1>3, <1>5, <1>6, <1>7

\* The model's abbreviations for the query at hand.
LEMMA QueryTerms ==
  /\ Malicious <=> query.alpha # 0
  /\ NumKeys = KeysOf(query) /\ Factor = FactorOf(query) /\ KeySize = SizeOf(query)
  /\ \A bytes, o : Deserialize(bytes, o) = CutOf(query, bytes, o)
  /\ \A k, p, start, range : ContigEval(k, p, start, range) = ContigOf(query, k, p, start, range)
  /\ 0 .. Factor * NumLeaves - 1 = PlacesOf(query)
  /\ 1 .. Factor * WindowSize = ColumnsOf(query)
<1>1. (Malicious <=> query.alpha # 0) /\ NumValues = ValuesOf(query) /\ NumKeys = KeysOf(query)
  BY DEF Malicious, NumValues, ValuesOf, NumKeys, KeysOf
<1>2. Factor = FactorOf(query) BY DEF Factor, FactorOf, Malicious
<1>3. KeySize = SizeOf(query)
  BY DEF KeySize, SizeOf, FactorOf, Malicious, NumValues, ValuesOf
<1>4. \A bytes, o : Deserialize(bytes, o) = CutOf(query, bytes, o)
  <2>. DEFINE n == NumValues
              half == Depth + 1 + n
              a == half + Depth + 1
              b == half + (Depth + 1)
  <2>1. n = ValuesOf(query) BY <1>1
  <2>2. Depth \in Nat /\ n \in Nat BY FssAssumption DEF NumValues
  <2>3. a = b
    <3>. HIDE DEF n
    <3>. QED BY <2>2
  <2>4. \A bytes, o : Deserialize(bytes, o)
          = [key |-> [k |-> SubSeq(bytes, o + 0 + 1, o + 0 + (Depth + 1)),
                      v |-> SubSeq(bytes, o + (Depth + 1) + 1, o + (Depth + 1) + n)],
             mac |-> IF Malicious
                       THEN [k |-> SubSeq(bytes, o + half + 1, o + half + (Depth + 1)),
                             v |-> SubSeq(bytes, o + a + 1, o + a + n)]
                       ELSE <<>>]
    BY DEF Deserialize
  <2>5. \A bytes, o : CutOf(query, bytes, o)
          = [key |-> [k |-> SubSeq(bytes, o + 0 + 1, o + 0 + (Depth + 1)),
                      v |-> SubSeq(bytes, o + (Depth + 1) + 1, o + (Depth + 1) + n)],
             mac |-> IF Malicious
                       THEN [k |-> SubSeq(bytes, o + half + 1, o + half + (Depth + 1)),
                             v |-> SubSeq(bytes, o + b + 1, o + b + n)]
                       ELSE <<>>]
    BY <2>1, Zenon DEF CutOf, Malicious
  <2>. HIDE DEF a, b, half, n
  <2>. QED BY <2>3, <2>4, <2>5, Zenon
<1>5. \A k, p, start, range : ContigEval(k, p, start, range) = ContigOf(query, k, p, start, range)
  BY DEF ContigEval, ContigOf
<1>6. 0 .. Factor * NumLeaves - 1 = PlacesOf(query) BY <1>2 DEF PlacesOf
<1>7. 1 .. Factor * WindowSize = ColumnsOf(query) BY <1>2 DEF ColumnsOf
<1>. QED BY <1>1, <1>2, <1>3, <1>4, <1>5, <1>6, <1>7

\* Server p moves; the others and the client do not.
Moves(p) ==
  /\ UNCHANGED <<table, cores, threaded, query, wire>>
  /\ \A o \in Party \ {p} :
       /\ stage'[o] = stage[o] /\ key'[o] = key[o] /\ fss'[o] = fss[o]
       /\ running'[o] = running[o] /\ thRes'[o] = thRes[o] /\ res'[o] = res[o]

\* Such a move keeps the invariant when the server keeps its part of it.
LEMMA MoveKeepsInv ==
  ASSUME Inv, NEW p \in Party, Moves(p), Typing', query # NoQuery, stage'[p] # "nokey",
         \A d \in Draws : Serving(d) =>
           Server(query, table, cores, EvalCores, d, p, stage'[p], key'[p], fss'[p],
                  running'[p], thRes'[p], res'[p])
  PROVE  Inv'
<1>1. Resting'
  <2>. SUFFICES ASSUME NEW o \in Party, stage'[o] = "nokey"
                PROVE  /\ fss'[o] = <<>> /\ thRes'[o] = <<>> /\ res'[o] = <<>>
                       /\ running'[o] = {}
    BY DEF Resting
  <2>1. o \in Party \ {p} OBVIOUS
  <2>. QED BY <2>1 DEF Inv, Resting, Moves
<1>2. Idle' BY DEF Idle, Moves
<1>3. Busy'
  <2>1. PICK d \in Draws : Serving(d) BY DEF Inv, Busy
  <2>2. wire' = WireOf(query', d) BY <2>1 DEF Serving, Moves
  <2>3. query' = query /\ table' = table /\ cores' = cores /\ EvalCores' = EvalCores
    BY DEF Moves, EvalCores
  <2>4. \A o \in Party : stage'[o] # "nokey" =>
          Server(query, table, cores, EvalCores, d, o, stage'[o], key'[o], fss'[o],
                 running'[o], thRes'[o], res'[o])
    <3>. TAKE o \in Party
    <3>1. CASE o = p BY <2>1, <3>1
    <3>2. CASE o # p
      <4>1. /\ stage'[o] = stage[o] /\ key'[o] = key[o] /\ fss'[o] = fss[o]
            /\ running'[o] = running[o] /\ thRes'[o] = thRes[o] /\ res'[o] = res[o]
        BY <3>2 DEF Moves
      <4>2. stage[o] # "nokey" =>
              Server(query, table, cores, EvalCores, d, o, stage[o], key[o], fss[o],
                     running[o], thRes[o], res[o])
        BY <2>1 DEF Serving
      <4>. QED BY <4>1, <4>2
    <3>. QED BY <3>1, <3>2
  <2>5. \A o \in Party : stage'[o] # "nokey" =>
          Server(query', table', cores', EvalCores', d, o, stage'[o], key'[o], fss'[o],
                 running'[o], thRes'[o], res'[o])
    BY <2>3, <2>4
  <2>6. Serving(d)' BY <2>2, <2>5 DEF Serving
  <2>. QED BY <2>6 DEF Busy
<1>. QED BY <1>1, <1>2, <1>3 DEF Inv

\* The server part of the invariant as it is.
LEMMA ServerNow ==
  ASSUME Inv, NEW p \in Party, stage[p] # "nokey"
  PROVE  /\ query # NoQuery /\ query \in AnyQuery
         /\ \A d \in Draws : Serving(d) =>
              /\ Drawn(d)
              /\ Server(query, table, cores, EvalCores, d, p, stage[p], key[p], fss[p],
                        running[p], thRes[p], res[p])
<1>1. query # NoQuery BY DEF Inv, Idle
<1>2. query \in AnyQuery BY <1>1, StateParts DEF Inv
<1>3. \A d \in Draws : Drawn(d) BY StateParts DEF Inv
<1>. QED BY <1>1, <1>2, <1>3 DEF Serving

-----------------------------------------------------------------------------
(* Every step keeps the invariant.  First the deserialisation.             *)

\* Server p goes to stage a, with workers r, keys k, outcomes f, sums t and results v.
MovesTo(p, a, r, k, f, t, v) ==
  /\ UNCHANGED <<table, cores, threaded, query, wire>>
  /\ a \in Stages /\ r \subseteq Thread(cores)
  /\ stage' = [stage EXCEPT ![p] = a] /\ running' = [running EXCEPT ![p] = r]
  /\ key' = [key EXCEPT ![p] = k] /\ fss' = [fss EXCEPT ![p] = f]
  /\ thRes' = [thRes EXCEPT ![p] = t] /\ res' = [res EXCEPT ![p] = v]

\* The types after that.
LEMMA MoveTyping ==
  ASSUME Typing, NEW p \in Party, NEW a, NEW r, NEW k, NEW f, NEW t, NEW v,
         MovesTo(p, a, r, k, f, t, v)
  PROVE  /\ Typing' /\ Moves(p)
         /\ stage'[p] = a /\ running'[p] = r /\ key'[p] = k /\ fss'[p] = f /\ thRes'[p] = t
         /\ res'[p] = v
<1>0. /\ UNCHANGED <<table, cores, threaded, query, wire>>
      /\ a \in Stages /\ r \subseteq Thread(cores)
      /\ stage' = [stage EXCEPT ![p] = a] /\ running' = [running EXCEPT ![p] = r]
      /\ key' = [key EXCEPT ![p] = k] /\ fss' = [fss EXCEPT ![p] = f]
      /\ thRes' = [thRes EXCEPT ![p] = t] /\ res' = [res EXCEPT ![p] = v]
  BY DEF MovesTo
<1>1. /\ stage \in [Party -> Stages] /\ running \in [Party -> SUBSET Thread(cores)]
      /\ wire = [o \in Party |-> wire[o]] /\ key = [o \in Party |-> key[o]]
      /\ fss = [o \in Party |-> fss[o]] /\ thRes = [o \in Party |-> thRes[o]]
      /\ res = [o \in Party |-> res[o]]
  BY DEF Typing
<1>2. stage' \in [Party -> Stages] /\ stage'[p] = a
      /\ \A o \in Party \ {p} : stage'[o] = stage[o]
  BY <1>0, <1>1
<1>3. running' \in [Party -> SUBSET Thread(cores)] /\ running'[p] = r
      /\ \A o \in Party \ {p} : running'[o] = running[o]
  BY <1>0, <1>1
<1>4. /\ key' = [o \in Party |-> key'[o]] /\ key'[p] = k
      /\ \A o \in Party \ {p} : key'[o] = key[o]
  BY <1>0, <1>1
<1>5. /\ fss' = [o \in Party |-> fss'[o]] /\ fss'[p] = f
      /\ \A o \in Party \ {p} : fss'[o] = fss[o]
  BY <1>0, <1>1
<1>6. /\ thRes' = [o \in Party |-> thRes'[o]] /\ thRes'[p] = t
      /\ \A o \in Party \ {p} : thRes'[o] = thRes[o]
  BY <1>0, <1>1
<1>7. /\ res' = [o \in Party |-> res'[o]] /\ res'[p] = v
      /\ \A o \in Party \ {p} : res'[o] = res[o]
  BY <1>0, <1>1
<1>8. Moves(p) BY <1>0, <1>2, <1>3, <1>4, <1>5, <1>6, <1>7 DEF Moves
<1>9. Typing' BY <1>0, <1>1, <1>2, <1>3, <1>4, <1>5, <1>6, <1>7 DEF Typing
<1>. QED BY <1>2, <1>3, <1>4, <1>5, <1>6, <1>7, <1>8, <1>9

\* Unchanged variables, as moves.
LEMMA SameMove ==
  ASSUME Typing, NEW p \in Party
  PROVE  /\ stage[p] \in Stages /\ running[p] \subseteq Thread(cores)
         /\ stage = [stage EXCEPT ![p] = stage[p]] /\ running = [running EXCEPT ![p] = running[p]]
         /\ key = [key EXCEPT ![p] = key[p]] /\ fss = [fss EXCEPT ![p] = fss[p]]
         /\ thRes = [thRes EXCEPT ![p] = thRes[p]] /\ res = [res EXCEPT ![p] = res[p]]
BY DEF Typing

\* An assertion fails, or a worker runs out of the table: the server is gone.
LEMMA AbortKeepsInv ==
  ASSUME Inv, NEW p \in Party, stage[p] # "nokey", stage' = [stage EXCEPT ![p] = "aborted"],
         UNCHANGED <<table, cores, threaded, query, wire, key, fss, running, thRes, res>>
  PROVE  Inv'
<1>0. Typing BY DEF Inv
<1>1. /\ Typing' /\ Moves(p) /\ stage'[p] = "aborted" /\ running'[p] = running[p]
      /\ key'[p] = key[p] /\ fss'[p] = fss[p] /\ thRes'[p] = thRes[p] /\ res'[p] = res[p]
  <2>1. "aborted" \in Stages BY DEF Stages
  <2>2. /\ running[p] \subseteq Thread(cores)
        /\ running' = [running EXCEPT ![p] = running[p]]
        /\ key' = [key EXCEPT ![p] = key[p]] /\ fss' = [fss EXCEPT ![p] = fss[p]]
        /\ thRes' = [thRes EXCEPT ![p] = thRes[p]] /\ res' = [res EXCEPT ![p] = res[p]]
    BY <1>0, SameMove
  <2>3. UNCHANGED <<table, cores, threaded, query, wire>> OBVIOUS
  <2>4. MovesTo(p, "aborted", running[p], key[p], fss[p], thRes[p], res[p])
    BY <2>1, <2>2, <2>3 DEF MovesTo
  <2>. QED BY <1>0, <2>4, MoveTyping
<1>2. query # NoQuery BY ServerNow
<1>3. ASSUME NEW d \in Draws, Serving(d)
      PROVE  Server(query, table, cores, EvalCores, d, p, stage'[p], key'[p], fss'[p],
                    running'[p], thRes'[p], res'[p])
  <2>1. Server(query, table, cores, EvalCores, d, p, stage[p], key[p], fss[p],
               running[p], thRes[p], res[p])
    BY <1>3, ServerNow
  <2>. QED BY <1>1, <2>1 DEF Server
<1>. QED BY <1>1, <1>2, <1>3, MoveKeepsInv

\* A server has its keys: they are those that the client has made.
LEMMA DeserializeKeeps ==
  ASSUME Inv, NEW p \in Party, DeserializeKey(p)
  PROVE  Inv'
<1>0. Typing BY DEF Inv
<1> DEFINE k == [i \in 1 .. KeysOf(query) |-> CutOf(query, wire[p], (i - 1) * SizeOf(query))]
           f == [i \in 1 .. KeysOf(query) |-> [x \in PlacesOf(query) |-> 0]]
<1>1. /\ key' = [key EXCEPT ![p] = k] /\ fss' = [fss EXCEPT ![p] = f]
      /\ stage' = [stage EXCEPT ![p] = "eval1"]
      /\ running' = [running EXCEPT ![p] = Thread(EvalCores)]
      /\ stage[p] = "nokey" /\ wire[p] # <<>>
      /\ UNCHANGED <<table, cores, threaded, query, wire, thRes, res>>
  BY QueryTerms DEF DeserializeKey
<1>. HIDE DEF k, f
<1>2. /\ Typing' /\ Moves(p) /\ stage'[p] = "eval1" /\ running'[p] = Thread(EvalCores)
      /\ key'[p] = k /\ fss'[p] = f /\ thRes'[p] = thRes[p] /\ res'[p] = res[p]
  <2>1. "eval1" \in Stages BY DEF Stages
  <2>2. /\ Thread(EvalCores) \subseteq Thread(cores)
        /\ thRes' = [thRes EXCEPT ![p] = thRes[p]] /\ res' = [res EXCEPT ![p] = res[p]]
    BY <1>0, <1>1, SameMove, StateParts
  <2>3. UNCHANGED <<table, cores, threaded, query, wire>> BY <1>1
  <2>4. MovesTo(p, "eval1", Thread(EvalCores), k, f, thRes[p], res[p])
    BY <1>1, <2>1, <2>2, <2>3 DEF MovesTo
  <2>. QED BY <1>0, <2>4, MoveTyping
<1>3. query # NoQuery BY <1>1 DEF Inv, Idle
<1>4. ASSUME NEW d \in Draws, Serving(d)
      PROVE  Server(query, table, cores, EvalCores, d, p, "eval1", k, f, Thread(EvalCores),
                    thRes[p], res[p])
  <2>1. query \in AnyQuery /\ Drawn(d) BY <1>0, <1>3, StateParts
  <2>2. \A i \in 1 .. KeysOf(query) :
          CutOf(query, WireOf(query, d)[p], (i - 1) * SizeOf(query)) = KeyOf(query, d, p, i)
    BY <2>1, WireCut
  <2>3. wire[p] = WireOf(query, d)[p] BY <1>4 DEF Serving
  <2>4. k = [i \in 1 .. KeysOf(query) |-> KeyOf(query, d, p, i)] BY <2>2, <2>3 DEF k
  <2>5. f \in [1 .. KeysOf(query) -> [PlacesOf(query) -> Number]]
    <3>1. 0 \in Number BY FssAssumption DEF Number
    <3>. QED BY <3>1 DEF f
  <2>6. thRes[p] = <<>> BY <1>1 DEF Inv, Resting
  <2>7. \A th \in DOMAIN thRes[p] : thRes[p][th] \in [ColumnsOf(query) -> Number]
    <3>1. DOMAIN <<>> = {} OBVIOUS
    <3>. QED BY <2>6, <3>1
  <2>8. Filled(query, f[1], OutOf(query, d, p, 1), EvalCores, Thread(EvalCores)) BY DEF Filled
  <2>. QED BY <2>4, <2>5, <2>7, <2>8 DEF Server
<1>5. \A d \in Draws : Serving(d) =>
        Server(query, table, cores, EvalCores, d, p, stage'[p], key'[p], fss'[p],
               running'[p], thRes'[p], res'[p])
  BY <1>2, <1>4
<1>6. stage'[p] # "nokey" BY <1>2
<1>. QED BY <1>2, <1>3, <1>5, <1>6, MoveKeepsInv

-----------------------------------------------------------------------------
(* The workers of an evaluation.                                           *)

\* What a worker of an evaluation writes.
LEMMA EvalWrites ==
  ASSUME NEW p \in Party, NEW th, EvalRoutine(p, th)
  PROVE  /\ stage[p] \in {"eval1", "eval2"} /\ th \in running[p]
         /\ Balanced(LastRow(NumLeaves, EvalCores, th) - FirstRow(NumLeaves, EvalCores, th) + 1)
         /\ fss' = [fss EXCEPT ![p] = [fss[p] EXCEPT ![Current(p)] =
                      WriteOf(query, key[p][Current(p)], p, EvalCores, th, fss[p][Current(p)])]]
         /\ running' = [running EXCEPT ![p] = running[p] \ {th}]
         /\ UNCHANGED <<table, cores, threaded, query, wire, stage, key, thRes, res>>
<1> DEFINE start == FirstRow(NumLeaves, EvalCores, th)
           range == LastRow(NumLeaves, EvalCores, th) - FirstRow(NumLeaves, EvalCores, th) + 1
           cur   == Current(p)
           ky    == key[p][cur]
           rows1 == At(start, ContigEval(ky.key, p, start, range))
           macs1 == IF Malicious THEN At(NumLeaves + start, ContigEval(ky.mac, p, start, range))
                    ELSE <<>>
           rows2 == At(start, ContigOf(query, ky.key, p, start, range))
           macs2 == IF query.alpha # 0
                      THEN At(NumLeaves + start, ContigOf(query, ky.mac, p, start, range))
                    ELSE <<>>
           new1  == Over(macs1, Over(rows1, fss[p][cur]))
           new2  == Over(macs2, Over(rows2, fss[p][cur]))
<1>1. /\ stage[p] \in {"eval1", "eval2"} /\ th \in running[p] /\ Balanced(range)
      /\ fss' = [fss EXCEPT ![p][cur] = new1]
      /\ running' = [running EXCEPT ![p] = running[p] \ {th}]
      /\ UNCHANGED <<table, cores, threaded, query, wire, stage, key, thRes, res>>
  BY DEF EvalRoutine, ChunkRange
<1>2. rows1 = rows2 /\ macs1 = macs2
  <2>1. \A k : ContigEval(k, p, start, range) = ContigOf(query, k, p, start, range)
    BY QueryTerms
  <2>2. Malicious <=> query.alpha # 0 BY QueryTerms
  <2>. HIDE DEF start, range, ky
  <2>. QED BY <2>1, <2>2
<1>3. new1 = new2
  <2>. HIDE DEF rows1, rows2, macs1, macs2
  <2>. QED BY <1>2
<1>4. WriteOf(query, key[p][Current(p)], p, EvalCores, th, fss[p][Current(p)]) = new2
  BY DEF WriteOf
<1>. HIDE DEF new1, new2, cur
<1>5. fss' = [fss EXCEPT ![p] = [fss[p] EXCEPT ![cur] = new2]] BY <1>1, <1>3
<1>. QED BY <1>1, <1>4, <1>5 DEF cur

\* A worker has evaluated its chunk.
LEMMA EvalKeeps ==
  ASSUME Inv, NEW p \in Party, NEW th \in running[p], EvalRoutine(p, th)
  PROVE  Inv'
<1>0. Typing BY DEF Inv
<1> DEFINE cur == Current(p)
           c == EvalCores
           old == fss[p][cur]
           new == WriteOf(query, key[p][cur], p, c, th, old)
           f == [fss[p] EXCEPT ![cur] = new]
           run == running[p] \ {th}
           range == LastRow(NumLeaves, c, th) - FirstRow(NumLeaves, c, th) + 1
<1>1. /\ stage[p] \in {"eval1", "eval2"} /\ Balanced(range)
      /\ fss' = [fss EXCEPT ![p] = f] /\ running' = [running EXCEPT ![p] = run]
      /\ UNCHANGED <<table, cores, threaded, query, wire, stage, key, thRes, res>>
  BY EvalWrites
<1>2. query # NoQuery /\ query \in AnyQuery BY <1>1, ServerNow
<1>3. c \in Nat \ {0} BY <1>0, StateParts
<1>. HIDE DEF f, run, new
<1>4. /\ Typing' /\ Moves(p) /\ stage'[p] = stage[p] /\ running'[p] = run
      /\ key'[p] = key[p] /\ fss'[p] = f /\ thRes'[p] = thRes[p] /\ res'[p] = res[p]
  <2>1. /\ stage[p] \in Stages /\ running[p] \subseteq Thread(cores)
        /\ stage' = [stage EXCEPT ![p] = stage[p]] /\ key' = [key EXCEPT ![p] = key[p]]
        /\ thRes' = [thRes EXCEPT ![p] = thRes[p]] /\ res' = [res EXCEPT ![p] = res[p]]
    BY <1>0, <1>1, SameMove
  <2>2. run \subseteq Thread(cores) BY <2>1 DEF run
  <2>3. UNCHANGED <<table, cores, threaded, query, wire>> BY <1>1
  <2>4. MovesTo(p, stage[p], run, key[p], f, thRes[p], res[p])
    BY <1>1, <2>1, <2>2, <2>3 DEF MovesTo
  <2>. QED BY <1>0, <2>4, MoveTyping
<1>5. ASSUME NEW d \in Draws, Serving(d)
      PROVE  Server(query, table, cores, c, d, p, stage[p], key[p], f, run, thRes[p], res[p])
  <2>. DEFINE out == OutOf(query, d, p, cur)
  <2>1. /\ Drawn(d)
        /\ Server(query, table, cores, c, d, p, stage[p], key[p], fss[p], running[p],
                  thRes[p], res[p])
    BY <1>1, <1>5, ServerNow
  <2>2. /\ key[p] = [i \in 1 .. KeysOf(query) |-> KeyOf(query, d, p, i)]
        /\ fss[p] \in [1 .. KeysOf(query) -> [PlacesOf(query) -> Number]]
    BY <2>1 DEF Server
  <2>3. cur \in 1 .. KeysOf(query) /\ running[p] \subseteq Thread(c)
        /\ Filled(query, old, out, c, running[p])
    <3>1. CASE stage[p] = "eval1"
      <4>1. cur = 1 BY <3>1 DEF Current
      <4>2. running[p] \subseteq Thread(c)
            /\ Filled(query, fss[p][1], OutOf(query, d, p, 1), c, running[p])
        BY <2>1, <3>1 DEF Server
      <4>3. 1 \in 1 .. KeysOf(query) BY DEF KeysOf
      <4>. QED BY <4>1, <4>2, <4>3
    <3>2. CASE stage[p] = "eval2"
      <4>1. cur = 2 BY <3>2 DEF Current
      <4>2. running[p] \subseteq Thread(c) /\ KeysOf(query) = 2
            /\ Filled(query, fss[p][2], OutOf(query, d, p, 2), c, running[p])
        BY <2>1, <3>2 DEF Server
      <4>3. 2 \in 1 .. KeysOf(query) BY <4>2
      <4>. QED BY <4>1, <4>2, <4>3
    <3>. QED BY <1>1, <3>1, <3>2
  <2>4. key[p][cur] = KeyOf(query, d, p, cur) /\ old \in [PlacesOf(query) -> Number]
    <3>. HIDE DEF cur
    <3>. QED BY <2>2, <2>3
  <2>5. Given(query, d, p, cur) BY <1>2, <2>1, <2>3 DEF Given
  <2>6. th \in Thread(c) BY <2>3
  <2>. HIDE DEF cur, c, old
  <2>7. /\ new \in [PlacesOf(query) -> Number]
        /\ \A x \in PlacesOf(query) : new[x] = OutOf(query, d, p, cur)[x] \/ new[x] = old[x]
        /\ \A r \in Rows(NumLeaves, c, th) :
             /\ new[r] = OutOf(query, d, p, cur)[r]
             /\ query.alpha # 0 => new[NumLeaves + r] = OutOf(query, d, p, cur)[NumLeaves + r]
    <3>1. new = WriteOf(query, KeyOf(query, d, p, cur), p, c, th, old) BY <2>4 DEF new
    <3>. QED BY <1>1, <1>3, <2>4, <2>5, <2>6, <3>1, WriteChunk
  <2>8. Filled(query, new, out, c, run)
    <3>. SUFFICES ASSUME NEW u \in Thread(c) \ run, NEW r \in Rows(NumLeaves, c, u)
                  PROVE  new[r] = out[r]
                         /\ (query.alpha # 0 => new[NumLeaves + r] = out[NumLeaves + r])
      BY DEF Filled
    <3>1. CASE u = th BY <2>7, <3>1
    <3>2. CASE u # th
      <4>1. u \in Thread(c) \ running[p] BY <3>2 DEF run
      <4>2. old[r] = out[r] /\ (query.alpha # 0 => old[NumLeaves + r] = out[NumLeaves + r])
        BY <2>3, <4>1 DEF Filled
      <4>3. r \in 0 .. NumLeaves - 1
        <5>1. NumLeaves \in Nat /\ u \in Thread(c) BY <1>2, Places
        <5>2. Rows(NumLeaves, c, u) \in SUBSET (0 .. NumLeaves - 1) BY <1>3, <5>1, ChunkBounds
        <5>. QED BY <5>2
      <4>4. r \in PlacesOf(query) /\ (query.alpha # 0 => NumLeaves + r \in PlacesOf(query))
        BY <1>2, <4>3, Places
      <4>. QED BY <2>7, <4>2, <4>4
    <3>. QED BY <3>1, <3>2
  <2>9. f \in [1 .. KeysOf(query) -> [PlacesOf(query) -> Number]] /\ f[cur] = new
        /\ \A i \in 1 .. KeysOf(query) : i # cur => f[i] = fss[p][i]
    BY <2>2, <2>3, <2>7 DEF f
  <2>10. stage[p] = "eval1" => run \subseteq Thread(c)
                               /\ Filled(query, f[1], OutOf(query, d, p, 1), c, run)
    <3>. HAVE stage[p] = "eval1"
    <3>1. cur = 1 BY DEF cur, Current
    <3>. QED BY <2>3, <2>8, <2>9, <3>1 DEF run
  <2>11. stage[p] = "eval2" =>
           /\ KeysOf(query) = 2 /\ f[1] = OutOf(query, d, p, 1) /\ run \subseteq Thread(c)
           /\ Filled(query, f[2], OutOf(query, d, p, 2), c, run)
    <3>. HAVE stage[p] = "eval2"
    <3>1. cur = 2 BY DEF cur, Current
    <3>2. KeysOf(query) = 2 /\ fss[p][1] = OutOf(query, d, p, 1) BY <2>1 DEF Server
    <3>3. f[1] = fss[p][1] BY <2>9, <3>1, <3>2
    <3>. QED BY <2>3, <2>8, <2>9, <3>1, <3>2, <3>3 DEF run
  <2>12. \A u \in DOMAIN thRes[p] : thRes[p][u] \in [ColumnsOf(query) -> Number]
    BY <2>1 DEF Server
  <2>. QED BY <1>1, <2>2, <2>9, <2>10, <2>11, <2>12 DEF Server
<1>6. \A d \in Draws : Serving(d) =>
        Server(query, table, cores, EvalCores, d, p, stage'[p], key'[p], fss'[p],
               running'[p], thRes'[p], res'[p])
  BY <1>4, <1>5
<1>7. stage'[p] # "nokey" BY <1>1, <1>4
<1>. QED BY <1>2, <1>4, <1>6, <1>7, MoveKeepsInv

-----------------------------------------------------------------------------
(* The workers of an evaluation are joined.                                *)

\* The workers of the left key are joined: those of the right one start.
LEMMA NextKeyKeeps ==
  ASSUME Inv, NEW p \in Party, EvalJoin(p), Current(p) < NumKeys
  PROVE  Inv'
<1>0. Typing BY DEF Inv
<1> DEFINE c == EvalCores
<1>1. /\ stage[p] \in {"eval1", "eval2"} /\ running[p] = {}
      /\ stage' = [stage EXCEPT ![p] = "eval2"]
      /\ running' = [running EXCEPT ![p] = Thread(c)]
      /\ UNCHANGED <<table, cores, threaded, query, wire, key, fss, thRes, res>>
  BY DEF EvalJoin
<1>2. query # NoQuery /\ query \in AnyQuery BY <1>1, ServerNow
<1>3. c \in Nat \ {0} /\ Thread(c) \subseteq Thread(cores) BY <1>0, StateParts
<1>4. stage[p] = "eval1" /\ KeysOf(query) = 2
  <2>1. NumKeys \in {1, 2} /\ NumKeys = KeysOf(query) BY QueryTerms DEF NumKeys
  <2>2. CASE stage[p] = "eval1"
    <3>1. Current(p) = 1 BY <2>2 DEF Current
    <3>. QED BY <2>1, <2>2, <3>1
  <2>3. CASE stage[p] = "eval2"
    <3>1. Current(p) = 2 BY <2>3 DEF Current
    <3>. QED BY <2>1, <2>3, <3>1
  <2>. QED BY <1>1, <2>2, <2>3
<1>5. /\ Typing' /\ Moves(p) /\ stage'[p] = "eval2" /\ running'[p] = Thread(c)
      /\ key'[p] = key[p] /\ fss'[p] = fss[p] /\ thRes'[p] = thRes[p] /\ res'[p] = res[p]
  <2>1. "eval2" \in Stages BY DEF Stages
  <2>2. /\ key' = [key EXCEPT ![p] = key[p]] /\ fss' = [fss EXCEPT ![p] = fss[p]]
        /\ thRes' = [thRes EXCEPT ![p] = thRes[p]] /\ res' = [res EXCEPT ![p] = res[p]]
    BY <1>0, <1>1, SameMove
  <2>3. MovesTo(p, "eval2", Thread(c), key[p], fss[p], thRes[p], res[p])
    BY <1>1, <1>3, <2>1, <2>2 DEF MovesTo
  <2>. QED BY <1>0, <2>3, MoveTyping
<1>6. ASSUME NEW d \in Draws, Serving(d)
      PROVE  Server(query, table, cores, c, d, p, "eval2", key[p], fss[p], Thread(c),
                    thRes[p], res[p])
  <2>1. /\ Drawn(d)
        /\ Server(query, table, cores, c, d, p, stage[p], key[p], fss[p], running[p],
                  thRes[p], res[p])
    BY <1>1, <1>6, ServerNow
  <2>2. /\ fss[p] \in [1 .. KeysOf(query) -> [PlacesOf(query) -> Number]]
        /\ Filled(query, fss[p][1], OutOf(query, d, p, 1), c, {})
    BY <1>1, <1>4, <2>1 DEF Server
  <2>3. 1 \in 1 .. KeysOf(query) BY <1>4
  <2>4. fss[p][1] \in [PlacesOf(query) -> Number]
        /\ OutOf(query, d, p, 1) \in [PlacesOf(query) -> Number]
    BY <1>2, <2>1, <2>2, <2>3, OutOfType DEF Given
  <2>5. fss[p][1] = OutOf(query, d, p, 1)
    <3>. HIDE DEF c
    <3>. QED BY <1>2, <1>3, <2>2, <2>4, FilledAll
  <2>6. Filled(query, fss[p][2], OutOf(query, d, p, 2), c, Thread(c)) BY DEF Filled
  <2>. QED BY <1>4, <2>1, <2>5, <2>6 DEF Server
<1>7. \A d \in Draws : Serving(d) =>
        Server(query, table, cores, EvalCores, d, p, stage'[p], key'[p], fss'[p],
               running'[p], thRes'[p], res'[p])
  BY <1>5, <1>6
<1>8. stage'[p] # "nokey" BY <1>5
<1>. QED BY <1>2, <1>5, <1>7, <1>8, MoveKeepsInv

\* The workers of the last key are joined: the multiplication starts.
LEMMA LastKeyKeeps ==
  ASSUME Inv, NEW p \in Party, EvalJoin(p), ~(Current(p) < NumKeys)
  PROVE  Inv'
<1>0. Typing BY DEF Inv
<1> DEFINE c == EvalCores
           f == IF KeysOf(query) = 2 THEN [fss[p] EXCEPT ![1] = Combine(fss[p])] ELSE fss[p]
           t == [th \in Thread(cores) |-> [j \in ColumnsOf(query) |-> 0]]
<1>1. /\ stage[p] \in {"eval1", "eval2"} /\ running[p] = {}
      /\ stage' = [stage EXCEPT ![p] = "multiply"]
      /\ running' = [running EXCEPT ![p] = Thread(cores)]
      /\ thRes' = [thRes EXCEPT ![p] = t]
      /\ fss' = IF KeysOf(query) = 2 THEN [fss EXCEPT ![p][1] = Combine(fss[p])] ELSE fss
      /\ UNCHANGED <<table, cores, threaded, query, wire, key, res>>
  BY QueryTerms DEF EvalJoin
<1>2. query # NoQuery /\ query \in AnyQuery BY <1>1, ServerNow
<1>3. c \in Nat \ {0} BY <1>0, StateParts
<1>4. stage[p] = (IF KeysOf(query) = 2 THEN "eval2" ELSE "eval1")
  <2>1. NumKeys \in {1, 2} /\ NumKeys = KeysOf(query) BY QueryTerms DEF NumKeys
  <2>2. CASE stage[p] = "eval1"
    <3>1. Current(p) = 1 BY <2>2 DEF Current
    <3>. QED BY <2>1, <2>2, <3>1
  <2>3. CASE stage[p] = "eval2"
    <3>1. PICK d \in Draws : Serving(d) BY <1>2 DEF Inv, Busy
    <3>2. Server(query, table, cores, c, d, p, stage[p], key[p], fss[p], running[p],
                 thRes[p], res[p])
      BY <1>1, <3>1, ServerNow
    <3>3. KeysOf(query) = 2 BY <2>3, <3>2 DEF Server
    <3>. QED BY <2>3, <3>3
  <2>. QED BY <1>1, <2>2, <2>3
<1>5. fss' = [fss EXCEPT ![p] = f]
  <2>1. CASE KeysOf(query) = 2 BY <1>1, <2>1
  <2>2. CASE KeysOf(query) # 2
    <3>1. fss = [fss EXCEPT ![p] = fss[p]] BY <1>0, SameMove
    <3>. QED BY <1>1, <2>2, <3>1
  <2>. QED BY <2>1, <2>2
<1>6. /\ Typing' /\ Moves(p) /\ stage'[p] = "multiply" /\ running'[p] = Thread(cores)
      /\ key'[p] = key[p] /\ fss'[p] = f /\ thRes'[p] = t /\ res'[p] = res[p]
  <2>. HIDE DEF f, t
  <2>1. "multiply" \in Stages BY DEF Stages
  <2>2. key' = [key EXCEPT ![p] = key[p]] /\ res' = [res EXCEPT ![p] = res[p]]
    BY <1>0, <1>1, SameMove
  <2>3. Thread(cores) \subseteq Thread(cores) OBVIOUS
  <2>4. MovesTo(p, "multiply", Thread(cores), key[p], f, t, res[p])
    BY <1>1, <1>5, <2>1, <2>2, <2>3 DEF MovesTo
  <2>. QED BY <1>0, <2>4, MoveTyping
<1>7. ASSUME NEW d \in Draws, Serving(d)
      PROVE  Server(query, table, cores, c, d, p, "multiply", key[p], f, Thread(cores),
                    t, res[p])
  <2>1. /\ Drawn(d)
        /\ Server(query, table, cores, c, d, p, stage[p], key[p], fss[p], running[p],
                  thRes[p], res[p])
    BY <1>1, <1>7, ServerNow
  <2>2. /\ fss[p] \in [1 .. KeysOf(query) -> [PlacesOf(query) -> Number]]
        /\ key[p] = [i \in 1 .. KeysOf(query) |-> KeyOf(query, d, p, i)]
    BY <2>1 DEF Server
  <2>3. \A i \in 1 .. KeysOf(query) : /\ fss[p][i] \in [PlacesOf(query) -> Number]
                                     /\ OutOf(query, d, p, i) \in [PlacesOf(query) -> Number]
    BY <1>2, <2>1, <2>2, OutOfType DEF Given
  <2>4. CombinedOf(query, d, p) \in [PlacesOf(query) -> Number]
    BY <1>2, <2>1, CombinedOfType
  <2>5. f \in [1 .. KeysOf(query) -> [PlacesOf(query) -> Number]]
        /\ f[1] = CombinedOf(query, d, p)
    <3>1. CASE KeysOf(query) = 2
      <4>1. 1 \in 1 .. KeysOf(query) /\ 2 \in 1 .. KeysOf(query) BY <3>1
      <4>2. /\ fss[p][1] = OutOf(query, d, p, 1)
            /\ Filled(query, fss[p][2], OutOf(query, d, p, 2), c, {})
        <5>1. stage[p] = "eval2" BY <1>4, <3>1
        <5>. QED BY <1>1, <2>1, <5>1 DEF Server
      <4>3. fss[p][2] = OutOf(query, d, p, 2)
        <5>. HIDE DEF c
        <5>. QED BY <1>2, <1>3, <2>3, <4>1, <4>2, FilledAll
      <4>4. Combine(fss[p]) = CombinedOf(query, d, p)
        <5>1. DOMAIN fss[p][1] = PlacesOf(query) BY <2>3, <4>1
        <5>. QED BY <3>1, <4>2, <4>3, <5>1 DEF Combine, CombinedOf
      <4>5. f = [fss[p] EXCEPT ![1] = CombinedOf(query, d, p)] BY <3>1, <4>4
      <4>. HIDE DEF f
      <4>. QED BY <2>2, <2>4, <4>1, <4>5
    <3>2. CASE KeysOf(query) # 2
      <4>1. KeysOf(query) = 1 /\ 1 \in 1 .. KeysOf(query) BY <3>2 DEF KeysOf
      <4>2. Filled(query, fss[p][1], OutOf(query, d, p, 1), c, {})
        <5>1. stage[p] = "eval1" BY <1>4, <3>2
        <5>. QED BY <1>1, <2>1, <5>1 DEF Server
      <4>3. fss[p][1] = OutOf(query, d, p, 1)
        <5>. HIDE DEF c
        <5>. QED BY <1>2, <1>3, <2>3, <4>1, <4>2, FilledAll
      <4>4. f = fss[p] /\ CombinedOf(query, d, p) = OutOf(query, d, p, 1)
        BY <3>2 DEF CombinedOf
      <4>. QED BY <2>2, <4>3, <4>4
    <3>. QED BY <3>1, <3>2
  <2>6. 0 \in Number BY FssAssumption DEF Number
  <2>7. DOMAIN t = Thread(cores) /\ \A th \in DOMAIN t : t[th] \in [ColumnsOf(query) -> Number]
    BY <2>6
  <2>8. Thread(cores) \ Thread(cores) = {} OBVIOUS
  <2>. HIDE DEF f, t
  <2>. QED BY <2>2, <2>5, <2>7, <2>8 DEF Server
<1>. HIDE DEF f, t
<1>8. \A d \in Draws : Serving(d) =>
        Server(query, table, cores, EvalCores, d, p, stage'[p], key'[p], fss'[p],
               running'[p], thRes'[p], res'[p])
  BY <1>6, <1>7
<1>9. stage'[p] # "nokey" BY <1>6
<1>. QED BY <1>2, <1>6, <1>8, <1>9, MoveKeepsInv

-----------------------------------------------------------------------------
(* The multiplication with the table.                                      *)

\* A worker has multiplied its chunk of the rows.
LEMMA MultiplyKeeps ==
  ASSUME Inv, NEW p \in Party, NEW th \in running[p], MultiplyRoutine(p, th)
  PROVE  Inv'
<1>0. Typing BY DEF Inv
<1> DEFINE rows == Rows(NumLeaves, cores, th)
           prod == ProductsOf(query, table, fss[p][1], rows)
           t == [thRes[p] EXCEPT ![th] = prod]
           run == running[p] \ {th}
<1>1. Products(fss[p][1], rows) = prod
  BY QueryTerms DEF Products, ProductsOf, TermsOf
<1>. HIDE DEF rows, prod
<1>2. /\ stage[p] = "multiply"
      /\ thRes' = [thRes EXCEPT ![p] = t] /\ running' = [running EXCEPT ![p] = run]
      /\ UNCHANGED <<table, cores, threaded, query, wire, stage, key, fss, res>>
  BY <1>1 DEF MultiplyRoutine, rows
<1>3. query # NoQuery /\ query \in AnyQuery BY <1>2, ServerNow
<1>4. cores \in Nat \ {0} /\ table \in [0 .. NumLeaves - 1 -> [1 .. WindowSize -> Number]]
  BY <1>0, StateParts
<1>. HIDE DEF t, run
<1>5. /\ Typing' /\ Moves(p) /\ stage'[p] = "multiply" /\ running'[p] = run
      /\ key'[p] = key[p] /\ fss'[p] = fss[p] /\ thRes'[p] = t /\ res'[p] = res[p]
  <2>1. "multiply" \in Stages BY DEF Stages
  <2>2. /\ running[p] \subseteq Thread(cores)
        /\ stage' = [stage EXCEPT ![p] = stage[p]]
        /\ key' = [key EXCEPT ![p] = key[p]] /\ fss' = [fss EXCEPT ![p] = fss[p]]
        /\ res' = [res EXCEPT ![p] = res[p]]
    BY <1>0, <1>2, SameMove
  <2>3. UNCHANGED <<table, cores, threaded, query, wire>> /\ run \subseteq Thread(cores)
    BY <1>2, <2>2 DEF run
  <2>4. MovesTo(p, "multiply", run, key[p], fss[p], t, res[p])
    BY <1>2, <2>1, <2>2, <2>3 DEF MovesTo
  <2>. QED BY <1>0, <2>4, MoveTyping
<1>6. ASSUME NEW d \in Draws, Serving(d)
      PROVE  Server(query, table, cores, EvalCores, d, p, "multiply", key[p], fss[p], run,
                    t, res[p])
  <2>1. Server(query, table, cores, EvalCores, d, p, stage[p], key[p], fss[p], running[p],
               thRes[p], res[p])
    BY <1>2, <1>6, ServerNow
  <2>2. /\ key[p] = [i \in 1 .. KeysOf(query) |-> KeyOf(query, d, p, i)]
        /\ fss[p] \in [1 .. KeysOf(query) -> [PlacesOf(query) -> Number]]
        /\ \A u \in DOMAIN thRes[p] : thRes[p][u] \in [ColumnsOf(query) -> Number]
        /\ fss[p][1] = CombinedOf(query, d, p)
        /\ DOMAIN thRes[p] = Thread(cores)
        /\ \A u \in Thread(cores) \ running[p] :
             thRes[p][u] = ProductsOf(query, table, fss[p][1], Rows(NumLeaves, cores, u))
    BY <1>2, <2>1 DEF Server
  <2>3. 1 \in 1 .. KeysOf(query) BY DEF KeysOf
  <2>4. fss[p][1] \in [PlacesOf(query) -> Number] BY <2>2, <2>3
  <2>5. th \in Thread(cores) BY DEF Typing, Inv
  <2>6. prod \in [ColumnsOf(query) -> Number]
    <3>. DEFINE a == FirstRow(NumLeaves, cores, th)
                z == LastRow(NumLeaves, cores, th)
    <3>1. NumLeaves \in Nat BY <1>3, Places
    <3>2. a \in Nat /\ rows \in SUBSET (0 .. NumLeaves - 1)
          /\ ChunkSize(NumLeaves, cores) \in Nat
      BY <1>4, <2>5, <3>1, ChunkBounds DEF rows
    <3>3. z \in Int
      <4>. DEFINE n == NumLeaves
                  s == ChunkSize(NumLeaves, cores)
      <4>1. n \in Nat /\ s \in Nat /\ th \in Nat /\ cores \in Nat
        BY <1>4, <2>5, <3>1, <3>2 DEF Thread
      <4>2. z = IF th = cores - 1 THEN n - 1 ELSE (th + 1) * s - 1
        BY DEF LastRow
      <4>. HIDE DEF n, s, z
      <4>. QED BY <4>1, <4>2
    <3>4. rows = a .. z BY DEF rows, Rows
    <3>. HIDE DEF a, z
    <3>5. a \in Int /\ a .. z \subseteq 0 .. NumLeaves - 1 BY <3>2, <3>4
    <3>6. ProductsOf(query, table, fss[p][1], a .. z) \in [ColumnsOf(query) -> Number]
      BY <1>3, <1>4, <2>4, <3>3, <3>5, ProductsType
    <3>. QED BY <3>4, <3>6 DEF prod
  <2>7. DOMAIN t = Thread(cores) /\ t[th] = prod
        /\ \A u \in Thread(cores) \ {th} : t[u] = thRes[p][u]
    BY <2>2, <2>5 DEF t
  <2>8. \A u \in DOMAIN t : t[u] \in [ColumnsOf(query) -> Number]
    BY <2>2, <2>6, <2>7
  <2>9. \A u \in Thread(cores) \ run :
          t[u] = ProductsOf(query, table, fss[p][1], Rows(NumLeaves, cores, u))
    BY <2>2, <2>7 DEF run, prod, rows
  <2>. QED BY <2>2, <2>7, <2>8, <2>9 DEF Server
<1>7. \A d \in Draws : Serving(d) =>
        Server(query, table, cores, EvalCores, d, p, stage'[p], key'[p], fss'[p],
               running'[p], thRes'[p], res'[p])
  BY <1>5, <1>6
<1>8. stage'[p] # "nokey" BY <1>5
<1>. QED BY <1>3, <1>5, <1>7, <1>8, MoveKeepsInv

\* The workers are joined and their sums added up.
LEMMA MultiplyJoinKeeps ==
  ASSUME Inv, NEW p \in Party, MultiplyJoin(p)
  PROVE  Inv'
<1>0. Typing BY DEF Inv
<1> DEFINE v == [j \in ColumnsOf(query) |->
                   Total([th \in Thread(cores) |-> thRes[p][th][j]], Thread(cores)) % Word]
<1>1. /\ stage[p] = "multiply" /\ running[p] = {}
      /\ res' = [res EXCEPT ![p] = v] /\ stage' = [stage EXCEPT ![p] = "done"]
      /\ UNCHANGED <<table, cores, threaded, query, wire, key, fss, running, thRes>>
  BY QueryTerms DEF MultiplyJoin
<1>3. query # NoQuery /\ query \in AnyQuery BY <1>1, ServerNow
<1>4. cores \in Nat \ {0} /\ table \in [0 .. NumLeaves - 1 -> [1 .. WindowSize -> Number]]
  BY <1>0, StateParts
<1>. HIDE DEF v
<1>5. /\ Typing' /\ Moves(p) /\ stage'[p] = "done" /\ running'[p] = running[p]
      /\ key'[p] = key[p] /\ fss'[p] = fss[p] /\ thRes'[p] = thRes[p] /\ res'[p] = v
  <2>1. "done" \in Stages BY DEF Stages
  <2>2. /\ running[p] \subseteq Thread(cores)
        /\ running' = [running EXCEPT ![p] = running[p]]
        /\ key' = [key EXCEPT ![p] = key[p]] /\ fss' = [fss EXCEPT ![p] = fss[p]]
        /\ thRes' = [thRes EXCEPT ![p] = thRes[p]]
    BY <1>0, <1>1, SameMove
  <2>3. UNCHANGED <<table, cores, threaded, query, wire>> BY <1>1
  <2>4. MovesTo(p, "done", running[p], key[p], fss[p], thRes[p], v)
    BY <1>1, <2>1, <2>2, <2>3 DEF MovesTo
  <2>. QED BY <1>0, <2>4, MoveTyping
<1>6. ASSUME NEW d \in Draws, Serving(d)
      PROVE  Server(query, table, cores, EvalCores, d, p, "done", key[p], fss[p], running[p],
                    thRes[p], v)
  <2>1. /\ Drawn(d)
        /\ Server(query, table, cores, EvalCores, d, p, stage[p], key[p], fss[p], running[p],
                  thRes[p], res[p])
    BY <1>1, <1>6, ServerNow
  <2>2. /\ key[p] = [i \in 1 .. KeysOf(query) |-> KeyOf(query, d, p, i)]
        /\ fss[p] \in [1 .. KeysOf(query) -> [PlacesOf(query) -> Number]]
        /\ \A u \in DOMAIN thRes[p] : thRes[p][u] \in [ColumnsOf(query) -> Number]
        /\ fss[p][1] = CombinedOf(query, d, p)
        /\ \A u \in Thread(cores) :
             thRes[p][u] = ProductsOf(query, table, CombinedOf(query, d, p),
                                      Rows(NumLeaves, cores, u))
    <3>1. Thread(cores) \ {} = Thread(cores) OBVIOUS
    <3>. QED BY <1>1, <2>1, <3>1 DEF Server
  <2>3. CombinedOf(query, d, p) \in [PlacesOf(query) -> Number]
    BY <1>3, <2>1, CombinedOfType
  <2>. DEFINE f == CombinedOf(query, d, p)
              tr == thRes[p]
  <2>4. f \in [PlacesOf(query) -> Number] BY <2>3
  <2>5. \A u \in Thread(cores) : tr[u] = ProductsOf(query, table, f, Rows(NumLeaves, cores, u))
    BY <2>2
  <2>6. v = [j \in ColumnsOf(query) |->
               Total([th \in Thread(cores) |-> tr[th][j]], Thread(cores)) % Word]
    BY DEF v
  <2>. HIDE DEF f, tr
  <2>7. v = ProductsOf(query, table, f, 0 .. NumLeaves - 1)
    BY <1>3, <1>4, <2>4, <2>5, <2>6, JoinProducts
  <2>8. v = ResultOf(query, table, d, p) BY <2>7 DEF ResultOf, f
  <2>. QED BY <1>1, <2>2, <2>8 DEF Server
<1>7. \A d \in Draws : Serving(d) =>
        Server(query, table, cores, EvalCores, d, p, stage'[p], key'[p], fss'[p],
               running'[p], thRes'[p], res'[p])
  BY <1>5, <1>6
<1>8. stage'[p] # "nokey" BY <1>5
<1>. QED BY <1>3, <1>5, <1>7, <1>8, MoveKeepsInv

-----------------------------------------------------------------------------
(* The client, and the invariant in every state.                           *)

\* The client has asked: the wire holds the cells of its keys.
LEMMA GenerateKeeps ==
  ASSUME Inv, NEW q \in Queries, NEW d \in Draws, Generate(q, d)
  PROVE  Inv'
<1>0. Typing /\ Resting BY DEF Inv
<1>1. /\ \A p \in Party : stage[p] = "nokey"
      /\ wire' = WireOf(q, d) /\ query' = q
      /\ UNCHANGED <<table, cores, threaded, stage, key, fss, running, thRes, res>>
  <2>1. /\ \A p \in Party : stage[p] = "nokey" /\ wire[p] = <<>>
        /\ wire' = SerializeKeys(
             IF q.kind = "point" THEN <<DpfGenerate(q, d)>>
             ELSE <<DcfGenerate(q.left, FALSE, q.alpha, d[1], d[2]),
                    DcfGenerate(q.right, TRUE, q.alpha, d[3], d[4])>>, q.alpha # 0)
        /\ query' = q
        /\ UNCHANGED <<table, cores, threaded, stage, key, fss, running, thRes, res>>
    BY DEF Generate
  <2>2. WireOf(q, d) = SerializeKeys(
             IF q.kind = "point" THEN <<DpfGenerate(q, d)>>
             ELSE <<DcfGenerate(q.left, FALSE, q.alpha, d[1], d[2]),
                    DcfGenerate(q.right, TRUE, q.alpha, d[3], d[4])>>, q.alpha # 0)
    BY DEF WireOf, PairsOf
  <2>. QED BY <2>1, <2>2
<1>2. wire' = [p \in Party |-> wire'[p]]
  <2>1. \A pairs, m : SerializeKeys(pairs, m) = [p \in Party |-> SerializeKeys(pairs, m)[p]]
    BY DEF SerializeKeys
  <2>. QED BY <1>1, <2>1 DEF WireOf
<1>3. Typing' BY <1>0, <1>1, <1>2 DEF Typing
<1>4. Resting' BY <1>0, <1>1 DEF Resting
<1>5. query' # NoQuery
  <2>1. q \in AnyQuery BY TableAssumption DEF AnyQuery
  <2>2. q.kind \in {"point", "range"} BY <2>1 DEF AnyQuery, PointQuery, RangeQuery
  <2>3. NoQuery.kind = "none" BY DEF NoQuery
  <2>. QED BY <1>1, <2>2, <2>3
<1>6. Idle' BY <1>5 DEF Idle
<1>7. Busy'
  <2>1. \A p \in Party : stage'[p] = "nokey" BY <1>1
  <2>2. wire' = WireOf(query', d) BY <1>1
  <2>3. Serving(d)' BY <2>1, <2>2 DEF Serving
  <2>. QED BY <2>3 DEF Busy
<1>. QED BY <1>3, <1>4, <1>6, <1>7 DEF Inv

\* The client has both results: everything starts again.
LEMMA AnswerKeeps ==
  ASSUME Inv, Answer
  PROVE  Inv'
<1>0. Typing BY DEF Inv
<1>1. /\ \A p \in Party : stage[p] = "done"
      /\ query' = NoQuery
      /\ wire' = [p \in Party |-> <<>>] /\ key' = [p \in Party |-> <<>>]
      /\ stage' = [p \in Party |-> "nokey"]
      /\ fss' = [p \in Party |-> <<>>] /\ thRes' = [p \in Party |-> <<>>]
      /\ res' = [p \in Party |-> <<>>]
      /\ UNCHANGED <<table, cores, threaded, running>>
  BY DEF Answer
<1>2. \A p \in Party : running[p] = {}
  <2>. TAKE p \in Party
  <2>1. stage[p] # "nokey" BY <1>1
  <2>2. PICK d \in Draws : Serving(d) BY <2>1, ServerNow DEF Inv, Busy
  <2>3. Server(query, table, cores, EvalCores, d, p, stage[p], key[p], fss[p], running[p],
               thRes[p], res[p])
    BY <2>1, <2>2, ServerNow
  <2>. QED BY <1>1, <2>3 DEF Server
<1>3. Typing'
  <2>1. "nokey" \in Stages BY DEF Stages
  <2>2. stage' \in [Party -> Stages] BY <1>1, <2>1
  <2>3. /\ wire' = [p \in Party |-> wire'[p]] /\ key' = [p \in Party |-> key'[p]]
        /\ fss' = [p \in Party |-> fss'[p]] /\ thRes' = [p \in Party |-> thRes'[p]]
        /\ res' = [p \in Party |-> res'[p]]
    BY <1>1
  <2>4. running' \in [Party -> SUBSET Thread(cores')] /\ table' \in Tables
        /\ <<cores', threaded'>> \in Settings /\ query' \in Queries \cup {NoQuery}
    BY <1>0, <1>1 DEF Typing
  <2>. QED BY <2>2, <2>3, <2>4 DEF Typing
<1>4. Resting' BY <1>1, <1>2 DEF Resting
<1>5. Idle' BY <1>1 DEF Idle
<1>6. Busy' BY <1>1 DEF Busy
<1>. QED BY <1>3, <1>4, <1>5, <1>6 DEF Inv

\* It holds at the start.
LEMMA InitInv == Init => Inv
<1>. SUFFICES ASSUME Init PROVE Inv OBVIOUS
<1>1. Typing
  <2>1. "nokey" \in Stages BY DEF Stages
  <2>2. stage \in [Party -> Stages] /\ running \in [Party -> SUBSET Thread(cores)]
    BY <2>1 DEF Init
  <2>3. /\ wire = [p \in Party |-> wire[p]] /\ key = [p \in Party |-> key[p]]
        /\ fss = [p \in Party |-> fss[p]] /\ thRes = [p \in Party |-> thRes[p]]
        /\ res = [p \in Party |-> res[p]]
    BY DEF Init
  <2>4. <<cores, threaded>> \in Settings
    <3>1. PICK s \in Settings : cores = s[1] /\ threaded = s[2] BY DEF Init
    <3>2. s \in (Nat \ {0}) \X BOOLEAN BY TableAssumption
    <3>3. s = <<s[1], s[2]>> BY <3>2
    <3>. QED BY <3>1, <3>3
  <2>. QED BY <2>2, <2>3, <2>4 DEF Init, Typing
<1>2. Resting /\ Idle /\ Busy BY DEF Init, Resting, Idle, Busy
<1>. QED BY <1>1, <1>2 DEF Inv

\* Every step keeps the invariant.
LEMMA NextInv == Inv /\ [Next]_vars => Inv'
<1>. SUFFICES ASSUME Inv, [Next]_vars PROVE Inv' OBVIOUS
<1>1. ASSUME NEW q \in Queries, NEW d \in Draws, Generate(q, d) PROVE Inv'
  BY <1>1, GenerateKeeps
<1>2. ASSUME NEW p \in Party, DeserializeKey(p) PROVE Inv' BY <1>2, DeserializeKeeps
<1>3. ASSUME NEW p \in Party, NEW th \in running[p], EvalRoutine(p, th) PROVE Inv'
  BY <1>3, EvalKeeps
<1>4. ASSUME NEW p \in Party, NEW th \in running[p], EvalAbort(p, th) PROVE Inv'
  <2>1. stage[p] # "nokey" BY <1>4 DEF EvalAbort
  <2>. QED BY <1>4, <2>1, AbortKeepsInv DEF EvalAbort
<1>5. ASSUME NEW p \in Party, EvalJoin(p) PROVE Inv' BY <1>5, NextKeyKeeps, LastKeyKeeps
<1>6. ASSUME NEW p \in Party, NEW th \in running[p], MultiplyRoutine(p, th) PROVE Inv'
  BY <1>6, MultiplyKeeps
<1>7. ASSUME NEW p \in Party, NEW th \in running[p], MultiplyPastTable(p, th) PROVE Inv'
  <2>1. stage[p] # "nokey" BY <1>7 DEF MultiplyPastTable
  <2>. QED BY <1>7, <2>1, AbortKeepsInv DEF MultiplyPastTable
<1>8. ASSUME NEW p \in Party, MultiplyJoin(p) PROVE Inv' BY <1>8, MultiplyJoinKeeps
<1>9. CASE Answer BY <1>9, AnswerKeeps
<1>10. CASE UNCHANGED vars
  <2>1. UNCHANGED <<table, cores, threaded, query, wire, stage, key, fss, running, thRes, res>>
    BY <1>10 DEF vars
  <2>2. Typing' BY <2>1 DEF Inv, Typing
  <2>3. Resting' BY <2>1 DEF Inv, Resting
  <2>4. Idle' BY <2>1 DEF Inv, Idle
  <2>5. EvalCores' = EvalCores BY <2>1 DEF EvalCores
  <2>6. Busy' BY <2>1, <2>5 DEF Inv, Busy, Serving
  <2>. QED BY <2>2, <2>3, <2>4, <2>6 DEF Inv
<1>. QED BY <1>1, <1>2, <1>3, <1>4, <1>5, <1>6, <1>7, <1>8, <1>9, <1>10 DEF Next

\* The invariant holds in every reachable state, for all tables, queries, draws and cores.
THEOREM InvAlways == Spec => []Inv
<1>1. Inv /\ [Next]_vars => Inv' BY NextInv
<1>. QED BY InitInv, <1>1, PTL DEF Spec

-----------------------------------------------------------------------------
(* Types; the chunks give what the walk to each row gives.                 *)

\* The server part, for the draws the client has made.
LEMMA ServerOf ==
  ASSUME Inv, NEW p \in Party, stage[p] # "nokey"
  PROVE  \E d \in Draws :
           /\ query # NoQuery /\ query \in AnyQuery /\ Drawn(d) /\ Serving(d)
           /\ Server(query, table, cores, EvalCores, d, p, stage[p], key[p], fss[p],
                     running[p], thRes[p], res[p])
<1>1. query # NoQuery /\ query \in AnyQuery BY ServerNow
<1>2. PICK d \in Draws : Serving(d) BY <1>1 DEF Inv, Busy
<1>3. /\ Drawn(d)
      /\ Server(query, table, cores, EvalCores, d, p, stage[p], key[p], fss[p], running[p],
                thRes[p], res[p])
  BY <1>2, ServerNow
<1>. QED BY <1>1, <1>2, <1>3

\* The result has its type.
LEMMA ResultType ==
  ASSUME NEW q \in AnyQuery, NEW t \in [0 .. NumLeaves - 1 -> [1 .. WindowSize -> Number]],
         NEW d, Drawn(d), NEW p \in Party
  PROVE  ResultOf(q, t, d, p) \in [ColumnsOf(q) -> Number]
<1>1. CombinedOf(q, d, p) \in [PlacesOf(q) -> Number] BY CombinedOfType
<1>2. NumLeaves \in Nat BY Places
<1> DEFINE f == CombinedOf(q, d, p)
           n == NumLeaves
<1>3. f \in [PlacesOf(q) -> Number] BY <1>1
<1>4. 0 \in Int /\ n - 1 \in Int /\ 0 .. n - 1 \subseteq 0 .. NumLeaves - 1 BY <1>2
<1>. HIDE DEF f
<1>5. ProductsOf(q, t, f, 0 .. n - 1) \in [ColumnsOf(q) -> Number]
  BY <1>3, <1>4, ProductsType
<1>. QED BY <1>5 DEF ResultOf, f

\* The invariant gives the types.
LEMMA InvTypeOK == Inv => TypeOK
<1>. SUFFICES ASSUME Inv PROVE TypeOK OBVIOUS
<1>0. Typing BY DEF Inv
<1>1. /\ table \in Tables /\ <<cores, threaded>> \in Settings
      /\ query \in Queries \cup {NoQuery}
      /\ stage \in [Party -> {"nokey", "eval1", "eval2", "multiply", "done", "aborted"}]
  BY <1>0 DEF Typing, Stages
<1>2. \A p \in Party :
        /\ running[p] \subseteq Thread(cores)
        /\ stage[p] = "nokey" => fss[p] = <<>> /\ res[p] = <<>>
  BY <1>0 DEF Inv, Resting, Typing
<1>3. ASSUME NEW p \in Party
      PROVE  /\ \A i \in DOMAIN fss[p] : fss[p][i] \in [0 .. Factor * NumLeaves - 1 -> Number]
             /\ \A th \in DOMAIN thRes[p] : thRes[p][th] \in [1 .. Factor * WindowSize -> Number]
             /\ stage[p] = "done" => res[p] \in [1 .. Factor * WindowSize -> Number]
  <2>1. CASE stage[p] = "nokey"
    <3>1. fss[p] = <<>> /\ thRes[p] = <<>> BY <2>1 DEF Inv, Resting
    <3>2. DOMAIN <<>> = {} OBVIOUS
    <3>. QED BY <2>1, <3>1, <3>2
  <2>2. CASE stage[p] # "nokey"
    <3>1. PICK d \in Draws :
            /\ query # NoQuery /\ query \in AnyQuery /\ Drawn(d) /\ Serving(d)
            /\ Server(query, table, cores, EvalCores, d, p, stage[p], key[p], fss[p],
                      running[p], thRes[p], res[p])
      BY <2>2, ServerOf
    <3>2. /\ fss[p] \in [1 .. KeysOf(query) -> [PlacesOf(query) -> Number]]
          /\ \A th \in DOMAIN thRes[p] : thRes[p][th] \in [ColumnsOf(query) -> Number]
          /\ stage[p] = "done" => res[p] = ResultOf(query, table, d, p)
      BY <3>1 DEF Server
    <3>3. table \in [0 .. NumLeaves - 1 -> [1 .. WindowSize -> Number]] BY <1>0, StateParts
    <3>4. ResultOf(query, table, d, p) \in [ColumnsOf(query) -> Number]
      BY <3>1, <3>3, ResultType
    <3>5. /\ 0 .. Factor * NumLeaves - 1 = PlacesOf(query)
          /\ 1 .. Factor * WindowSize = ColumnsOf(query)
      BY QueryTerms
    <3>6. \A i \in DOMAIN fss[p] : fss[p][i] \in [PlacesOf(query) -> Number] BY <3>2
    <3>. QED BY <3>2, <3>4, <3>5, <3>6
  <2>. QED BY <2>1, <2>2
<1>. QED BY <1>1, <1>2, <1>3 DEF TypeOK

\* Every array has its place and its numbers wrap, and the workers of a phase are among
\* the cores: the type invariant of the lookup.
THEOREM TypesAlways == Spec => []TypeOK
BY InvAlways, InvTypeOK, PTL

\* When its workers are done the outcome of a key is there.
LEMMA EvaluatedKey ==
  ASSUME Inv, NEW p \in Party, stage[p] \in {"eval1", "eval2"}, running[p] = {}
  PROVE  \E d \in Draws :
           /\ query \in AnyQuery /\ Given(query, d, p, Current(p))
           /\ key[p][Current(p)] = KeyOf(query, d, p, Current(p))
           /\ fss[p][Current(p)] = OutOf(query, d, p, Current(p))
<1>0. Typing BY DEF Inv
<1>1. PICK d \in Draws :
        /\ query # NoQuery /\ query \in AnyQuery /\ Drawn(d) /\ Serving(d)
        /\ Server(query, table, cores, EvalCores, d, p, stage[p], key[p], fss[p],
                  running[p], thRes[p], res[p])
  BY ServerOf
<1> DEFINE c == EvalCores
           cur == Current(p)
<1>2. c \in Nat \ {0} BY <1>0, StateParts
<1>3. /\ key[p] = [i \in 1 .. KeysOf(query) |-> KeyOf(query, d, p, i)]
      /\ fss[p] \in [1 .. KeysOf(query) -> [PlacesOf(query) -> Number]]
  BY <1>1 DEF Server
<1>4. cur \in 1 .. KeysOf(query) /\ Filled(query, fss[p][cur], OutOf(query, d, p, cur), c, {})
  <2>1. CASE stage[p] = "eval1"
    <3>1. cur = 1 BY <2>1 DEF Current
    <3>2. Filled(query, fss[p][1], OutOf(query, d, p, 1), c, {}) BY <1>1, <2>1 DEF Server
    <3>3. 1 \in 1 .. KeysOf(query) BY DEF KeysOf
    <3>. QED BY <3>1, <3>2, <3>3
  <2>2. CASE stage[p] = "eval2"
    <3>1. cur = 2 BY <2>2 DEF Current
    <3>2. Filled(query, fss[p][2], OutOf(query, d, p, 2), c, {}) /\ KeysOf(query) = 2
      BY <1>1, <2>2 DEF Server
    <3>. QED BY <3>1, <3>2
  <2>. QED BY <2>1, <2>2
<1>. HIDE DEF c, cur
<1>5. key[p][cur] = KeyOf(query, d, p, cur) /\ fss[p][cur] \in [PlacesOf(query) -> Number]
  BY <1>3, <1>4
<1>6. Given(query, d, p, cur) BY <1>1, <1>4 DEF Given
<1>7. OutOf(query, d, p, cur) \in [PlacesOf(query) -> Number] BY <1>6, OutOfType
<1>8. fss[p][cur] = OutOf(query, d, p, cur) BY <1>1, <1>2, <1>4, <1>5, <1>7, FilledAll
<1>. QED BY <1>1, <1>5, <1>6, <1>8 DEF cur

\* The chunks of the workers are the evaluation row by row.
LEMMA InvPointwise == Inv => ContigIsPointwise
<1>. SUFFICES ASSUME Inv, NEW p \in Party, stage[p] \in {"eval1", "eval2"}, running[p] = {},
                     NEW r \in 0 .. NumLeaves - 1
              PROVE  fss[p][Current(p)][r] = PointwiseOutcome(key[p][Current(p)].key, p)[r]
  BY DEF ContigIsPointwise
<1> DEFINE cur == Current(p)
<1>1. PICK d \in Draws :
        /\ query \in AnyQuery /\ Given(query, d, p, cur)
        /\ key[p][cur] = KeyOf(query, d, p, cur)
        /\ fss[p][cur] = OutOf(query, d, p, cur)
  BY EvaluatedKey
<1>. HIDE DEF cur
<1>2. r \in PlacesOf(query) /\ r < NumLeaves BY <1>1, Places
<1>3. fss[p][cur][r] = EvalOf(query, KeyOf(query, d, p, cur).key, p, r)
  BY <1>1, <1>2 DEF OutOf
<1> DEFINE k == key[p][cur].key
<1>4. fss[p][cur][r] = EvalOf(query, k, p, r) BY <1>1, <1>3
<1>. HIDE DEF k
<1>5. PointwiseOutcome(k, p)[r] = EvalOf(query, k, p, r)
  BY DEF PointwiseOutcome, FullDomainDCF, EvalOf
<1>. QED BY <1>4, <1>5 DEF k, cur

-----------------------------------------------------------------------------
(* The variant that multiplies the outcomes of each key by itself.         *)

\* The whole table evaluated at once, as it stands in the variant that does not
\* combine, is the outcome of the key.
WholeOf(q, ky, p) ==
  Over(IF q.alpha # 0 THEN At(NumLeaves, ContigOf(q, ky.mac, p, 0, NumLeaves)) ELSE <<>>,
       ContigOf(q, ky.key, p, 0, NumLeaves))

\* It is.
LEMMA WholeIsOut ==
  ASSUME NEW q, NEW d, NEW p, NEW i, Given(q, d, p, i)
  PROVE  WholeOf(q, KeyOf(q, d, p, i), p) = OutOf(q, d, p, i)
<1> DEFINE n == NumLeaves
           k1 == KeyOf(q, d, p, i).key
           k2 == KeyOf(q, d, p, i).mac
           o1 == ContigOf(q, k1, p, 0, n)
           o2 == ContigOf(q, k2, p, 0, n)
           whole == WholeOf(q, KeyOf(q, d, p, i), p)
           out == OutOf(q, d, p, i)
<1>0. q \in AnyQuery /\ p \in Party BY DEF Given
<1>1. ServerKey(k1, ValuesOf(q)) /\ (q.alpha # 0 => ServerKey(k2, ValuesOf(q)))
  BY KeyOfServes
<1>2. n \in Nat \ {0} /\ n = 2 ^ Depth BY <1>0, Places DEF NumLeaves
<1>3. \A ky : ServerKey(ky, ValuesOf(q)) =>
        ContigOf(q, ky, p, 0, n) = [x \in 0 .. n - 1 |-> EvalOf(q, ky, p, x)]
  <2>. SUFFICES ASSUME NEW ky, ServerKey(ky, ValuesOf(q))
                PROVE  ContigOf(q, ky, p, 0, n) = [x \in 0 .. n - 1 |-> EvalOf(q, ky, p, x)]
    OBVIOUS
  <2>. DEFINE e == Depth
              k == 0
              m == 2 ^ e
  <2>1. e \in 0 .. Depth /\ k \in Nat BY FssAssumption
  <2>2. (k + 1) * 2 ^ e <= NumLeaves
    <3>1. m = n /\ m \in Nat /\ n \in Nat BY <1>2
    <3>. HIDE DEF m, n
    <3>2. (k + 1) * m <= n BY <3>1
    <3>. QED BY <3>2 DEF m, n
  <2>. HIDE DEF e, k
  <2>3. ContigOf(q, ky, p, k * 2 ^ e, 2 ^ e)
          = [x \in 0 .. 2 ^ e - 1 |-> EvalOf(q, ky, p, k * 2 ^ e + x)]
    BY <1>0, <2>1, <2>2, ContigOfPointwise
  <2>4. m = n /\ k * m = 0
    <3>1. m = n BY <1>2 DEF e
    <3>2. n \in Nat BY <1>2
    <3>. HIDE DEF m, n
    <3>. QED BY <3>1, <3>2 DEF k
  <2>5. ContigOf(q, ky, p, 0, n) = [x \in 0 .. n - 1 |-> EvalOf(q, ky, p, 0 + x)]
    BY <2>3, <2>4
  <2>6. \A x \in 0 .. n - 1 : 0 + x = x OBVIOUS
  <2>. HIDE DEF n
  <2>. QED BY <2>5, <2>6
<1>4. /\ o1 = [x \in 0 .. n - 1 |-> EvalOf(q, k1, p, x)]
      /\ q.alpha # 0 => o2 = [x \in 0 .. n - 1 |-> EvalOf(q, k2, p, x)]
  BY <1>1, <1>3
<1>5. whole = Over(IF q.alpha # 0 THEN At(n, o2) ELSE <<>>, o1) BY DEF WholeOf
<1>6. out = [x \in PlacesOf(q) |-> IF x < n THEN EvalOf(q, k1, p, x)
                                   ELSE EvalOf(q, k2, p, x - n)]
  BY DEF OutOf
<1>7. PlacesOf(q) = IF q.alpha # 0 THEN 0 .. 2 * n - 1 ELSE 0 .. 1 * n - 1
  BY DEF PlacesOf, FactorOf
<1>. HIDE DEF n, k1, k2, o1, o2, whole, out
<1>8. CASE q.alpha = 0
  <2>1. PlacesOf(q) = 0 .. n - 1 BY <1>2, <1>7, <1>8
  <2>2. DOMAIN <<>> = {} OBVIOUS
  <2>3. whole = Over(<<>>, o1) BY <1>5, <1>8
  <2>4. whole = [x \in {} \cup (0 .. n - 1) |-> IF x \in {} THEN <<>>[x] ELSE o1[x]]
    BY <1>4, <2>2, <2>3 DEF Over
  <2>5. {} \cup (0 .. n - 1) = 0 .. n - 1 OBVIOUS
  <2>6. whole = [x \in 0 .. n - 1 |-> o1[x]] BY <2>4, <2>5
  <2>7. \A x \in 0 .. n - 1 : x < n BY <1>2
  <2>8. \A x \in 0 .. n - 1 : whole[x] = EvalOf(q, k1, p, x) /\ out[x] = EvalOf(q, k1, p, x)
    BY <1>4, <1>6, <2>1, <2>6, <2>7
  <2>9. whole = [x \in 0 .. n - 1 |-> EvalOf(q, k1, p, x)] BY <2>6, <2>8
  <2>10. out = [x \in 0 .. n - 1 |-> EvalOf(q, k1, p, x)] BY <1>6, <2>1, <2>8
  <2>. QED BY <2>9, <2>10 DEF whole, out
<1>9. CASE q.alpha # 0
  <2>. DEFINE a == At(n, o2)
  <2>1. PlacesOf(q) = 0 .. 2 * n - 1 BY <1>7, <1>9
  <2>2. n .. n + n - 1 = n .. 2 * n - 1 BY <1>2
  <2>3. DOMAIN o2 = 0 .. n - 1 /\ \A x \in 0 .. n - 1 : o2[x] = EvalOf(q, k2, p, x)
    BY <1>4, <1>9
  <2>4. DOMAIN a = n .. n + n - 1 /\ \A r \in n .. n + n - 1 : a[r] = o2[r - n]
    BY <1>2, <2>3, AtBlock
  <2>. HIDE DEF a
  <2>5. \A r \in n .. 2 * n - 1 : r - n \in 0 .. n - 1 /\ ~(r < n) BY <1>2
  <2>6. \A r \in n .. 2 * n - 1 : a[r] = EvalOf(q, k2, p, r - n) BY <2>2, <2>3, <2>4, <2>5
  <2>7. whole = Over(a, o1) BY <1>5, <1>9 DEF a
  <2>8. whole = [x \in (n .. 2 * n - 1) \cup (0 .. n - 1) |->
                   IF x \in n .. 2 * n - 1 THEN a[x] ELSE o1[x]]
    BY <1>4, <2>2, <2>4, <2>7 DEF Over
  <2>9. (n .. 2 * n - 1) \cup (0 .. n - 1) = 0 .. 2 * n - 1 BY <1>2
  <2>10. whole = [x \in 0 .. 2 * n - 1 |-> IF x \in n .. 2 * n - 1 THEN a[x] ELSE o1[x]]
    BY <2>8, <2>9
  <2>11. \A x \in 0 .. 2 * n - 1 : whole[x] = out[x]
    <3>. TAKE x \in 0 .. 2 * n - 1
    <3>1. CASE x \in n .. 2 * n - 1
      <4>1. whole[x] = EvalOf(q, k2, p, x - n) BY <2>6, <2>10, <3>1
      <4>2. out[x] = EvalOf(q, k2, p, x - n) BY <1>6, <2>1, <2>5, <3>1
      <4>. QED BY <4>1, <4>2
    <3>2. CASE x \notin n .. 2 * n - 1
      <4>1. x \in 0 .. n - 1 /\ x < n BY <1>2, <3>2
      <4>2. whole[x] = EvalOf(q, k1, p, x) BY <1>4, <2>10, <3>2, <4>1
      <4>3. out[x] = EvalOf(q, k1, p, x) BY <1>6, <2>1, <4>1
      <4>. QED BY <4>2, <4>3
    <3>. QED BY <3>1, <3>2
  <2>12. whole = [x \in 0 .. 2 * n - 1 |-> whole[x]] BY <2>10
  <2>13. out = [x \in 0 .. 2 * n - 1 |-> out[x]] BY <1>6, <2>1
  <2>. QED BY <2>11, <2>12, <2>13 DEF whole, out
<1>. QED BY <1>8, <1>9

\* Two outcomes multiplied with the table by themselves add up to their sum
\* multiplied with it.
LEMMA ProductsAdd ==
  ASSUME NEW q \in AnyQuery, NEW t \in [0 .. NumLeaves - 1 -> [1 .. WindowSize -> Number]],
         NEW f \in [PlacesOf(q) -> Number], NEW g \in [PlacesOf(q) -> Number],
         NEW j \in ColumnsOf(q)
  PROVE  LET all == 0 .. NumLeaves - 1
             h   == [x \in PlacesOf(q) |-> (f[x] + g[x]) % Word]
         IN  (ProductsOf(q, t, f, all)[j] + ProductsOf(q, t, g, all)[j]) % Word
               = ProductsOf(q, t, h, all)[j]
<1> DEFINE n == NumLeaves
           all == 0 .. n - 1
           h == [x \in PlacesOf(q) |-> (f[x] + g[x]) % Word]
           F == TermsOf(t, f, all, j)
           G == TermsOf(t, g, all, j)
           H == TermsOf(t, h, all, j)
           O == IF j > WindowSize THEN NumLeaves ELSE 0
           C == ((j - 1) % WindowSize) + 1
<1>0. n \in Nat /\ Word \in Nat \ {0} BY Places, FssAssumption
<1>1. h \in [PlacesOf(q) -> Number]
  <2>1. \A x \in PlacesOf(q) : (f[x] + g[x]) % Word \in Number
    <3>. TAKE x \in PlacesOf(q)
    <3>1. f[x] \in Int /\ g[x] \in Int BY NumbersAreInts
    <3>2. f[x] + g[x] \in Int BY <3>1
    <3>. QED BY <3>2, WrapType
  <2>. QED BY <2>1
<1>2. \A r \in all : O + r \in PlacesOf(q)
  <2>. TAKE r \in all
  <2>1. j > WindowSize => q.alpha # 0 BY Columns
  <2>2. CASE j > WindowSize
    <3>1. NumLeaves + r \in PlacesOf(q) BY <2>1, <2>2, Places
    <3>. QED BY <2>2, <3>1
  <2>3. CASE ~(j > WindowSize)
    <3>1. r \in PlacesOf(q) /\ 0 + r = r BY Places
    <3>. QED BY <2>3, <3>1
  <2>. QED BY <2>2, <2>3
<1>3. \A r \in all : t[r][C] \in Number
  <2>1. C \in 1 .. WindowSize BY Columns
  <2>. HIDE DEF C
  <2>. QED BY <2>1
<1>4. \A r \in all : /\ F[r] = f[O + r] * t[r][C] /\ G[r] = g[O + r] * t[r][C]
                     /\ H[r] = h[O + r] * t[r][C]
  BY DEF TermsOf
<1>. HIDE DEF O, C, F, G, H
<1>5. \A r \in all : /\ F[r] \in Int /\ G[r] \in Int /\ H[r] \in Int
                     /\ (F[r] + G[r]) % Word = H[r] % Word
  <2>. TAKE r \in all
  <2>. DEFINE x == O + r
              a == f[x]
              b == g[x]
              s == (a + b) % Word
              y == t[r][C]
  <2>1. x \in PlacesOf(q) BY <1>2
  <2>2. h[x] = s BY <2>1
  <2>3. a \in Int /\ b \in Int /\ y \in Int BY <1>3, <2>1, NumbersAreInts
  <2>4. F[r] = a * y /\ G[r] = b * y /\ H[r] = s * y BY <1>4, <2>2
  <2>. HIDE DEF x, a, b, y
  <2>5. a + b \in Int BY <2>3
  <2>6. s \in Int BY <1>0, <2>5, DivMod
  <2>7. PICK k \in Int : s = (a + b) + k * Word
    <3>. DEFINE u == a + b
    <3>1. u \in Int BY <2>3
    <3>. HIDE DEF u
    <3>2. \E k \in Int : u % Word = u + k * Word BY <1>0, <3>1, ModWitness
    <3>. QED BY <3>2 DEF u
  <2>. HIDE DEF s
  <2>8. /\ a * y \in Int /\ b * y \in Int /\ s * y \in Int
    BY <2>3, <2>6
  <2>9. s * y = (a * y + b * y) + (k * y) * Word /\ k * y \in Int BY <1>0, <2>3, <2>7
  <2>10. (s * y) % Word = (a * y + b * y) % Word
    <3>. DEFINE u == a * y + b * y
                v == k * y
    <3>1. u \in Int /\ v \in Int /\ s * y = u + v * Word BY <2>8, <2>9
    <3>. HIDE DEF u, v
    <3>2. (u + v * Word) % Word = u % Word BY <1>0, <3>1, ModShift
    <3>. QED BY <3>1, <3>2 DEF u
  <2>. QED BY <2>4, <2>8, <2>10
<1> DEFINE TF == Total(F, all)
           TG == Total(G, all)
           TH == Total(H, all)
<1>6. (TF + TG) % Word = TH % Word
  <2>. DEFINE m == Word
  <2>1. m \in Nat \ {0} BY <1>0
  <2>. HIDE DEF n, m
  <2>2. \A x \in 0 .. n - 1 : /\ F[x] \in Int /\ G[x] \in Int /\ H[x] \in Int
                             /\ (F[x] + G[x]) % m = H[x] % m
    BY <1>5 DEF m
  <2>3. AddTo(m, n, F, G, H) BY <1>0, <2>1, <2>2 DEF AddTo
  <2>4. (Total(F, 0 .. n - 1) + Total(G, 0 .. n - 1)) % m = Total(H, 0 .. n - 1) % m
    BY <2>3, TotalSum
  <2>. QED BY <2>4 DEF m
<1>7. TF \in Int /\ TG \in Int
  <2>1. 0 \in Int /\ n - 1 \in Int BY <1>0
  <2>2. (\A r \in all : F[r] \in Int) /\ (\A r \in all : G[r] \in Int) BY <1>5
  <2>. HIDE DEF n
  <2>3. Total(F, 0 .. n - 1) \in Int BY <2>1, <2>2, TotalInterval
  <2>4. Total(G, 0 .. n - 1) \in Int BY <2>1, <2>2, TotalInterval
  <2>. QED BY <2>3, <2>4
<1>8. /\ ProductsOf(q, t, f, all)[j] = TF % Word /\ ProductsOf(q, t, g, all)[j] = TG % Word
      /\ ProductsOf(q, t, h, all)[j] = TH % Word
  BY DEF ProductsOf, F, G, H
<1>. HIDE DEF TF, TG, TH, h, all
<1>9. ((TF % Word) + (TG % Word)) % Word = (TF + TG) % Word BY <1>0, <1>7, ModSum
<1>10. (ProductsOf(q, t, f, all)[j] + ProductsOf(q, t, g, all)[j]) % Word
         = ProductsOf(q, t, h, all)[j]
  BY <1>6, <1>8, <1>9
<1>. QED BY <1>10 DEF all, h, n

\* A product alone, wrapped again, is itself.
LEMMA ProductsAlone ==
  ASSUME NEW q \in AnyQuery, NEW t \in [0 .. NumLeaves - 1 -> [1 .. WindowSize -> Number]],
         NEW f \in [PlacesOf(q) -> Number], NEW j \in ColumnsOf(q)
  PROVE  (ProductsOf(q, t, f, 0 .. NumLeaves - 1)[j] + 0) % Word
           = ProductsOf(q, t, f, 0 .. NumLeaves - 1)[j]
<1> DEFINE n == NumLeaves
           a == ProductsOf(q, t, f, 0 .. n - 1)[j]
<1>0. n \in Nat /\ Word \in Nat \ {0} BY Places, FssAssumption
<1>1. 0 \in Int /\ n - 1 \in Int /\ 0 .. n - 1 \subseteq 0 .. NumLeaves - 1 BY <1>0
<1>2. ProductsOf(q, t, f, 0 .. n - 1) \in [ColumnsOf(q) -> Number] BY <1>1, ProductsType
<1>3. a \in Number BY <1>2
<1>. HIDE DEF a
<1>4. a \in 0 .. Word - 1 BY <1>3 DEF Number
<1>5. a + 0 = 0 * Word + a /\ a + 0 \in Int /\ 0 \in Int BY <1>0, <1>4
<1>6. (a + 0) % Word = a BY <1>0, <1>4, <1>5, ModUnique
<1>. QED BY <1>6 DEF a, n

\* Multiplying the outcomes of the keys by themselves gives the result of a server.
LEMMA InvUnopt == Inv => UnoptAgrees
<1>. SUFFICES ASSUME Inv, NEW p \in Party, stage[p] = "done"
              PROVE  res[p] = UnoptResult(p)
  BY DEF UnoptAgrees
<1>0. Typing BY DEF Inv
<1>1. PICK d \in Draws :
        /\ query # NoQuery /\ query \in AnyQuery /\ Drawn(d) /\ Serving(d)
        /\ Server(query, table, cores, EvalCores, d, p, stage[p], key[p], fss[p],
                  running[p], thRes[p], res[p])
  BY ServerOf
<1> DEFINE all == 0 .. NumLeaves - 1
           out(i) == OutOf(query, d, p, i)
           part(i) == ProductsOf(query, table, out(i), all)
           two == KeysOf(query) = 2
<1>2. /\ key[p] = [i \in 1 .. KeysOf(query) |-> KeyOf(query, d, p, i)]
      /\ res[p] = ResultOf(query, table, d, p)
  BY <1>1 DEF Server
<1>3. table \in [0 .. NumLeaves - 1 -> [1 .. WindowSize -> Number]] BY <1>0, StateParts
<1>4. \A i \in 1 .. KeysOf(query) :
        /\ key[p][i] = KeyOf(query, d, p, i) /\ Given(query, d, p, i)
        /\ out(i) \in [PlacesOf(query) -> Number]
  BY <1>1, <1>2, OutOfType DEF Given
<1>5. \A k : Over(IF Malicious THEN At(NumLeaves, ContigEval(k.mac, p, 0, NumLeaves))
                  ELSE <<>>, ContigEval(k.key, p, 0, NumLeaves)) = WholeOf(query, k, p)
  <2>1. \A k : ContigEval(k, p, 0, NumLeaves) = ContigOf(query, k, p, 0, NumLeaves)
    BY QueryTerms
  <2>2. Malicious <=> query.alpha # 0 BY QueryTerms
  <2>. QED BY <2>1, <2>2 DEF WholeOf
<1>6. \A f : Products(f, all) = ProductsOf(query, table, f, all)
  BY QueryTerms DEF Products, ProductsOf, TermsOf
<1>7. \A i \in 1 .. KeysOf(query) : Products(WholeOf(query, key[p][i], p), all) = part(i)
  <2>. TAKE i \in 1 .. KeysOf(query)
  <2>1. WholeOf(query, KeyOf(query, d, p, i), p) = out(i) BY <1>4, WholeIsOut
  <2>2. WholeOf(query, key[p][i], p) = out(i) BY <1>4, <2>1
  <2>. QED BY <1>6, <2>2
<1> DEFINE P(i) == Products(WholeOf(query, key[p][i], p), all)
<1>8. UnoptResult(p) = [j \in ColumnsOf(query) |->
                          (P(1)[j] + (IF two THEN P(2)[j] ELSE 0)) % Word]
  <2>. DEFINE Q(i) == Products(
         Over(IF Malicious
                THEN At(NumLeaves, ContigEval(key[p][i].mac, p, 0, NumLeaves)) ELSE <<>>,
              ContigEval(key[p][i].key, p, 0, NumLeaves)), 0 .. NumLeaves - 1)
  <2>1. UnoptResult(p) = [j \in 1 .. Factor * WindowSize |->
                            (Q(1)[j] + (IF NumKeys = 2 THEN Q(2)[j] ELSE 0)) % Word]
    BY DEF UnoptResult
  <2>2. Q(1) = P(1) /\ Q(2) = P(2) BY <1>5
  <2>3. NumKeys = KeysOf(query) /\ 1 .. Factor * WindowSize = ColumnsOf(query) BY QueryTerms
  <2>. HIDE DEF Q, P
  <2>. QED BY <2>1, <2>2, <2>3
<1>9. ResultOf(query, table, d, p) = ProductsOf(query, table, CombinedOf(query, d, p), all)
  BY DEF ResultOf
<1>. HIDE DEF P
<1>10. CASE two
  <2>1. 1 \in 1 .. KeysOf(query) /\ 2 \in 1 .. KeysOf(query) BY <1>10
  <2>2. P(1) = part(1) /\ P(2) = part(2) BY <1>7, <2>1 DEF P
  <2>. DEFINE f == OutOf(query, d, p, 1)
              g == OutOf(query, d, p, 2)
              h == [x \in PlacesOf(query) |-> (f[x] + g[x]) % Word]
  <2>3. CombinedOf(query, d, p) = h BY <1>10 DEF CombinedOf
  <2>4. f \in [PlacesOf(query) -> Number] /\ g \in [PlacesOf(query) -> Number]
    BY <1>4, <2>1
  <2>5. part(1) = ProductsOf(query, table, f, all) /\ part(2) = ProductsOf(query, table, g, all)
    OBVIOUS
  <2>. HIDE DEF f, g, part
  <2>6. \A j \in ColumnsOf(query) :
          (part(1)[j] + part(2)[j]) % Word = ProductsOf(query, table, h, all)[j]
    BY <1>1, <1>3, <2>4, <2>5, ProductsAdd
  <2>. HIDE DEF h
  <2>7. ProductsOf(query, table, h, all)
          = [j \in ColumnsOf(query) |-> ProductsOf(query, table, h, all)[j]]
    BY DEF ProductsOf
  <2>8. UnoptResult(p) = [j \in ColumnsOf(query) |-> (part(1)[j] + part(2)[j]) % Word]
    BY <1>8, <1>10, <2>2
  <2>9. UnoptResult(p) = ProductsOf(query, table, h, all)
    <3>. DEFINE G == ProductsOf(query, table, h, all)
    <3>1. G = [j \in ColumnsOf(query) |-> G[j]] BY <2>7
    <3>2. \A j \in ColumnsOf(query) : (part(1)[j] + part(2)[j]) % Word = G[j] BY <2>6
    <3>. HIDE DEF G
    <3>3. UnoptResult(p) = G BY <2>8, <3>1, <3>2
    <3>. QED BY <3>3 DEF G
  <2>. QED BY <1>2, <1>9, <2>3, <2>9
<1>11. CASE ~two
  <2>1. KeysOf(query) = 1 /\ 1 \in 1 .. KeysOf(query) BY <1>11 DEF KeysOf
  <2>2. P(1) = part(1) BY <1>7, <2>1 DEF P
  <2>. DEFINE f == OutOf(query, d, p, 1)
  <2>3. CombinedOf(query, d, p) = f BY <1>11 DEF CombinedOf
  <2>4. f \in [PlacesOf(query) -> Number] BY <1>4, <2>1
  <2>5. part(1) = ProductsOf(query, table, f, all) OBVIOUS
  <2>. HIDE DEF f, part
  <2>6. \A j \in ColumnsOf(query) : (part(1)[j] + 0) % Word = part(1)[j]
    BY <1>1, <1>3, <2>4, <2>5, ProductsAlone
  <2>7. part(1) = [j \in ColumnsOf(query) |-> part(1)[j]] BY <2>5 DEF ProductsOf
  <2>8. UnoptResult(p) = [j \in ColumnsOf(query) |-> (part(1)[j] + 0) % Word]
    BY <1>8, <1>11, <2>2
  <2>. DEFINE G == part(1)
  <2>9. UnoptResult(p) = G
    <3>1. G = [j \in ColumnsOf(query) |-> G[j]] BY <2>7
    <3>2. \A j \in ColumnsOf(query) : (G[j] + 0) % Word = G[j] BY <2>6
    <3>3. UnoptResult(p) = [j \in ColumnsOf(query) |-> (G[j] + 0) % Word] BY <2>8
    <3>. HIDE DEF G
    <3>. QED BY <3>1, <3>2, <3>3
  <2>. QED BY <1>2, <1>9, <2>3, <2>5, <2>9
<1>. QED BY <1>10, <1>11

\* The ways to evaluate agree: the chunks of the workers give on every row what the walk
\* from the root gives, and combining the two keys of a range before the multiplication
\* (ic_eval_dcf_table) gives what multiplying each of them gives (ic_eval_dcf_table_unopt).
THEOREM EvaluationsAgreeAlways == Spec => []EvaluationsAgree
<1>1. Inv => EvaluationsAgree BY InvPointwise, InvUnopt DEF EvaluationsAgree
<1>. QED BY InvAlways, <1>1, PTL

-----------------------------------------------------------------------------
(* What the shares of a query add up to.                                   *)

\* Numbers with the same residue are congruent.
LEMMA ResidueCongruent ==
  ASSUME NEW a \in Int, NEW b \in Int, a % Modulus = b % Modulus
  PROVE  Congruent(a, b)
<1>1. Modulus \in Nat \ {0} BY FssAssumption
<1>2. \E q \in Int : a % Modulus = a + q * Modulus BY <1>1, ModWitness, Zenon
<1>3. \E q \in Int : b % Modulus = b + q * Modulus BY <1>1, ModWitness, Zenon
<1>4. PICK q1 \in Int : a % Modulus = a + q1 * Modulus BY <1>2
<1>5. PICK q2 \in Int : b % Modulus = b + q2 * Modulus BY <1>3
<1> DEFINE m == Modulus
           u == a % m
           v == b % m
<1>6. u = a + q1 * m /\ v = b + q2 * m /\ u = v /\ m \in Int BY <1>1, <1>4, <1>5
<1>. HIDE DEF u, v, m
<1>7. a = b + (q2 - q1) * m /\ q2 - q1 \in Int BY <1>6
<1>. QED BY <1>7 DEF Congruent, m

\* A word holds a multiple of the group.
LEMMA WordMultiple == \E k \in Int : Word = k * Modulus
<1>1. Word \in Nat \ {0} /\ Modulus \in Nat \ {0} /\ Word % Modulus = 0 BY FssAssumption
<1>2. Word = (Word \div Modulus) * Modulus + (Word % Modulus) /\ Word \div Modulus \in Int
  BY <1>1, DivMod
<1> DEFINE k == Word \div Modulus
<1>3. k \in Int /\ Word = k * Modulus + 0 BY <1>1, <1>2
<1>. HIDE DEF k
<1>4. k * Modulus + 0 = k * Modulus BY <1>1, <1>3
<1>. QED BY <1>3, <1>4

\* A number and what is left of it in a word are congruent.
LEMMA WrapCongruent ==
  ASSUME NEW a \in Int
  PROVE  a % Word \in Int /\ Congruent(a % Word, a)
<1>1. Word \in Nat \ {0} /\ Modulus \in Nat \ {0} /\ Word % Modulus = 0 BY FssAssumption
<1>2. PICK k \in Int : Word = k * Modulus BY WordMultiple
<1>3. (a % Word) % Modulus = a % Modulus BY <1>1, <1>2, ModOfMod, Zenon
<1>4. a % Word \in Int BY <1>1, DivMod
<1>5. Congruent(a % Word, a)
  <2>. DEFINE u == a % Word
  <2>1. u \in Int /\ u % Modulus = a % Modulus BY <1>3, <1>4
  <2>. HIDE DEF u
  <2>2. Congruent(u, a) BY <2>1, ResidueCongruent
  <2>. QED BY <2>2 DEF u
<1>. QED BY <1>4, <1>5

\* Congruence is kept by products.
LEMMA CongruentTimes ==
  ASSUME NEW a \in Int, NEW b \in Int, NEW c \in Int, Congruent(a, b)
  PROVE  Congruent(a * c, b * c)
<1>1. Modulus \in Int BY FssAssumption
<1>2. PICK q \in Int : a = b + q * Modulus BY DEF Congruent
<1>3. a * c = b * c + (q * c) * Modulus /\ q * c \in Int BY <1>1, <1>2
<1>. QED BY <1>3 DEF Congruent

\* The last number of a word stands for -1.
LEMMA LastCongruent ==
  ASSUME NEW a \in Int
  PROVE  Word - 1 \in Int /\ Congruent((Word - 1) * a, -a)
<1>1. Word \in Nat \ {0} /\ Modulus \in Nat \ {0} /\ Word % Modulus = 0 BY FssAssumption
<1>2. PICK k \in Int : Word = k * Modulus BY WordMultiple
<1> DEFINE w == Word
           m == Modulus
<1>3. w \in Int /\ m \in Int /\ w = k * m BY <1>1, <1>2
<1>. HIDE DEF w, m
<1>4. (w - 1) * a = -a + w * a BY <1>3
<1>5. w * a = (k * a) * m /\ k * a \in Int BY <1>3
<1>6. (w - 1) * a = -a + (k * a) * m BY <1>4, <1>5
<1>7. w - 1 \in Int BY <1>3
<1>. QED BY <1>5, <1>6, <1>7 DEF Congruent, w, m

\* What key i of a query counts a row with.
WeightOf(q, i, r) ==
  IF q.kind = "point" THEN IF r = q.x THEN 1 ELSE 0
  ELSE IF i = 1 THEN IF r < q.left THEN 1 ELSE 0
                ELSE IF r < q.right + 1 THEN -1 ELSE 0

Fits(q) == q.kind = "point" \/ q.right < q.left

\* The shares of a row under a pair of keys.
SharesOf(q, ks, r) == EvalOf(q, ks[0], 0, r) + EvalOf(q, ks[1], 1, r)

\* Of a comparison.
LEMMA BelowShares ==
  ASSUME NEW q \in AnyQuery, q.kind # "point", NEW x \in 0 .. NumLeaves - 1,
         NEW payload \in Int, NEW draw \in RootPair, NEW r \in 0 .. NumLeaves - 1
  PROVE  /\ SharesOf(q, KeyGenDCF(x, payload, 0, draw), r) \in Int
         /\ Congruent(SharesOf(q, KeyGenDCF(x, payload, 0, draw), r),
                      IF r < x THEN payload ELSE 0)
<1> DEFINE ky == KeyGenDCF(x, payload, 0, draw)
           gt == 0
           lo == 1 - gt
<1>1. x \in Nat OBVIOUS
<1>2. ServerKey(ky[0], ValuesOf(q)) /\ ServerKey(ky[1], ValuesOf(q))
  <2>1. \A p \in Party : ServerKey(ky[p], Depth + 1) BY <1>1, KeyDCFServer
  <2>2. 0 \in Party /\ 1 \in Party BY DEF Party
  <2>. QED BY <2>1, <2>2 DEF ValuesOf
<1>3. EvalOf(q, ky[0], 0, r) \in Number /\ EvalOf(q, ky[1], 1, r) \in Number
  <2>1. 0 \in Party /\ 1 \in Party BY DEF Party
  <2>. HIDE DEF ky
  <2>. QED BY <1>2, <2>1, EvalOfNumber
<1>4. (EvalOneDCF(r, ky[0], 0) + EvalOneDCF(r, ky[1], 1)) % Modulus
        = (IF r = x THEN 0 ELSE (IF r < x THEN lo ELSE gt) * payload) % Modulus
  <2>1. gt \in {0, 1} OBVIOUS
  <2>2. ky = KeyGenDCF(x, payload, gt, draw) OBVIOUS
  <2>. HIDE DEF gt, ky
  <2>. QED BY <2>1, <2>2, ComparisonCorrect
<1>5. (IF r = x THEN 0 ELSE (IF r < x THEN lo ELSE gt) * payload)
        = IF r < x THEN payload ELSE 0
  OBVIOUS
<1> DEFINE e0 == EvalOf(q, ky[0], 0, r)
           e1 == EvalOf(q, ky[1], 1, r)
           want == IF r < x THEN payload ELSE 0
<1>6. (e0 + e1) % Modulus = want % Modulus
  <2>1. e0 = EvalOneDCF(r, ky[0], 0) /\ e1 = EvalOneDCF(r, ky[1], 1) BY DEF EvalOf
  <2>. HIDE DEF ky
  <2>. QED BY <1>4, <1>5, <2>1
<1>7. e0 \in Int /\ e1 \in Int /\ want \in Int BY <1>3, NumbersAreInts
<1>8. SharesOf(q, ky, r) = e0 + e1 BY DEF SharesOf
<1>. HIDE DEF e0, e1, want, ky
<1>9. e0 + e1 \in Int BY <1>7
<1>10. Congruent(e0 + e1, want) BY <1>6, <1>7, <1>9, ResidueCongruent
<1>. QED BY <1>8, <1>9, <1>10 DEF want, ky

\* Of a point.
LEMMA PointShares ==
  ASSUME NEW q \in AnyQuery, q.kind = "point", NEW x \in 0 .. NumLeaves - 1,
         NEW payload \in Int, NEW draw \in RootPair, NEW r \in 0 .. NumLeaves - 1
  PROVE  /\ SharesOf(q, KeyGenDPF(x, payload, draw), r) \in Int
         /\ Congruent(SharesOf(q, KeyGenDPF(x, payload, draw), r),
                      IF r = x THEN payload ELSE 0)
<1> DEFINE ky == KeyGenDPF(x, payload, draw)
<1>1. x \in Nat OBVIOUS
<1>2. ServerKey(ky[0], ValuesOf(q)) /\ ServerKey(ky[1], ValuesOf(q))
  <2>1. \A p \in Party : ServerKey(ky[p], 1) BY <1>1, KeyDPFServer
  <2>2. 0 \in Party /\ 1 \in Party BY DEF Party
  <2>. QED BY <2>1, <2>2 DEF ValuesOf
<1>3. EvalOf(q, ky[0], 0, r) \in Number /\ EvalOf(q, ky[1], 1, r) \in Number
  <2>1. 0 \in Party /\ 1 \in Party BY DEF Party
  <2>. HIDE DEF ky
  <2>. QED BY <1>2, <2>1, EvalOfNumber
<1>4. (EvalOneDPF(r, ky[0], 0) + EvalOneDPF(r, ky[1], 1)) % Modulus
        = IF r = x THEN payload % Modulus ELSE 0
  BY PointFunctionCorrect
<1> DEFINE e0 == EvalOf(q, ky[0], 0, r)
           e1 == EvalOf(q, ky[1], 1, r)
           want == IF r = x THEN payload ELSE 0
<1>5. 0 % Modulus = 0
  <2>. DEFINE z == 0
  <2>1. Modulus \in Nat \ {0} /\ z \in Int /\ z \in 0 .. Modulus - 1 /\ z = z * Modulus + z
    BY FssAssumption
  <2>. HIDE DEF z
  <2>2. z % Modulus = z BY <2>1, ModUnique
  <2>. QED BY <2>2 DEF z
<1>6. (e0 + e1) % Modulus = want % Modulus
  <2>1. e0 = EvalOneDPF(r, ky[0], 0) /\ e1 = EvalOneDPF(r, ky[1], 1) BY DEF EvalOf
  <2>. HIDE DEF ky
  <2>. QED BY <1>4, <1>5, <2>1
<1>7. e0 \in Int /\ e1 \in Int /\ want \in Int BY <1>3, NumbersAreInts
<1>8. SharesOf(q, ky, r) = e0 + e1 BY DEF SharesOf
<1>. HIDE DEF e0, e1, want, ky
<1>9. e0 + e1 \in Int BY <1>7
<1>10. Congruent(e0 + e1, want) BY <1>6, <1>7, <1>9, ResidueCongruent
<1>. QED BY <1>8, <1>9, <1>10 DEF want, ky

\* Of the keys of a query: the weight, and its product with the MAC key.
LEMMA PairShares ==
  ASSUME NEW q \in AnyQuery, Fits(q), NEW d, Drawn(d), NEW i \in 1 .. KeysOf(q),
         NEW r \in 0 .. NumLeaves - 1
  PROVE  /\ WeightOf(q, i, r) \in Int
         /\ SharesOf(q, PairOf(q, d, i).key, r) \in Int
         /\ SharesOf(q, PairOf(q, d, i).mac, r) \in Int
         /\ Congruent(SharesOf(q, PairOf(q, d, i).key, r), WeightOf(q, i, r))
         /\ Congruent(SharesOf(q, PairOf(q, d, i).mac, r), q.alpha * WeightOf(q, i, r))
<1>1. d[1] \in RootPair /\ d[2] \in RootPair /\ d[3] \in RootPair /\ d[4] \in RootPair
  BY DEF Drawn, RootPair
<1> DEFINE al == q.alpha
           wrapped == al % Word
           last == Word - 1
           one == 1
           zero == 0
<1>2. al \in Int /\ one \in Int /\ zero \in Int BY QueryParts
<1>3. wrapped \in Int /\ Congruent(wrapped, al) BY <1>2, WrapCongruent
<1>4. /\ last \in Int /\ Congruent(last, -one) /\ Congruent(last * al, -al)
  <2>1. last \in Int /\ Congruent(last * one, -one) /\ Congruent(last * al, -al)
    BY <1>2, LastCongruent
  <2>2. last * one = last
    <3>1. last \in Int BY <2>1
    <3>. HIDE DEF last
    <3>. QED BY <3>1
  <2>. QED BY <2>1, <2>2
<1>5. Congruent(zero, zero) BY <1>2, CongruentSelf
<1>6. CASE q.kind = "point"
  <2>1. PairOf(q, d, i).key = KeyGenDPF(q.x, one, d[1])
        /\ PairOf(q, d, i).mac = KeyGenDPF(q.x, wrapped, d[2])
    BY <1>6 DEF PairOf, DpfGenerate
  <2>2. q.x \in 0 .. NumLeaves - 1 BY <1>6, QueryParts
  <2>. DEFINE hit == r = q.x
  <2>3. WeightOf(q, i, r) = IF hit THEN one ELSE zero BY <1>6 DEF WeightOf
  <2>. HIDE DEF one, zero, wrapped
  <2>4. /\ SharesOf(q, KeyGenDPF(q.x, one, d[1]), r) \in Int
        /\ Congruent(SharesOf(q, KeyGenDPF(q.x, one, d[1]), r), IF r = q.x THEN one ELSE 0)
    BY <1>1, <1>2, <1>6, <2>2, PointShares
  <2>5. /\ SharesOf(q, KeyGenDPF(q.x, wrapped, d[2]), r) \in Int
        /\ Congruent(SharesOf(q, KeyGenDPF(q.x, wrapped, d[2]), r),
                     IF r = q.x THEN wrapped ELSE 0)
    BY <1>1, <1>3, <1>6, <2>2, PointShares
  <2>6. al * WeightOf(q, i, r) = IF hit THEN al ELSE 0
    <3>. HIDE DEF al, hit
    <3>. QED BY <1>2, <2>3 DEF one, zero
  <2>7. Congruent(SharesOf(q, KeyGenDPF(q.x, wrapped, d[2]), r), IF hit THEN al ELSE 0)
    <3>1. CASE hit
      <4>1. Congruent(SharesOf(q, KeyGenDPF(q.x, wrapped, d[2]), r), wrapped) BY <2>5, <3>1
      <4>. HIDE DEF al
      <4>2. Congruent(SharesOf(q, KeyGenDPF(q.x, wrapped, d[2]), r), al)
        BY <1>2, <1>3, <2>5, <4>1, CongruentTrans
      <4>. QED BY <3>1, <4>2
    <3>2. CASE ~hit BY <2>5, <3>2
    <3>. QED BY <3>1, <3>2
  <2>. HIDE DEF al, hit
  <2>8. WeightOf(q, i, r) \in Int BY <1>2, <2>3
  <2>. QED BY <2>1, <2>3, <2>4, <2>5, <2>6, <2>7, <2>8 DEF al, hit, zero
<1>7. CASE q.kind # "point"
  <2>0. /\ q.left \in 0 .. NumLeaves - 1 /\ q.right \in 0 .. NumLeaves - 1 /\ q.right < q.left
        /\ KeysOf(q) = 2
    BY <1>7, QueryParts DEF Fits
  <2>1. CASE i = 1
    <3>. DEFINE payload == (one * al) % Word
                x == q.left
                hit == r < x
    <3>1. PairOf(q, d, i) = DcfGenerate(q.left, FALSE, q.alpha, d[1], d[2])
      BY <1>7, <2>1 DEF PairOf
    <3>2. PairOf(q, d, i).key = KeyGenDCF(x, one, 0, d[1])
          /\ PairOf(q, d, i).mac = KeyGenDCF(x, payload, 0, d[2])
      BY <3>1 DEF DcfGenerate
    <3>3. WeightOf(q, i, r) = IF hit THEN one ELSE zero BY <1>7, <2>1 DEF WeightOf
    <3>4. payload \in Int /\ Congruent(payload, al)
      <4>1. one * al = al BY <1>2
      <4>. HIDE DEF one, al
      <4>. QED BY <1>2, <4>1, WrapCongruent
    <3>. HIDE DEF one, zero, payload
    <3>5. /\ SharesOf(q, KeyGenDCF(x, one, 0, d[1]), r) \in Int
          /\ Congruent(SharesOf(q, KeyGenDCF(x, one, 0, d[1]), r), IF r < x THEN one ELSE 0)
      BY <1>1, <1>2, <1>7, <2>0, BelowShares
    <3>6. /\ SharesOf(q, KeyGenDCF(x, payload, 0, d[2]), r) \in Int
          /\ Congruent(SharesOf(q, KeyGenDCF(x, payload, 0, d[2]), r),
                       IF r < x THEN payload ELSE 0)
      BY <1>1, <1>7, <2>0, <3>4, BelowShares
    <3>7. al * WeightOf(q, i, r) = IF hit THEN al ELSE 0
      <4>. HIDE DEF al, hit
      <4>. QED BY <1>2, <3>3 DEF one, zero
    <3>8. Congruent(SharesOf(q, KeyGenDCF(x, payload, 0, d[2]), r), IF hit THEN al ELSE 0)
      <4>1. CASE hit
        <5>1. Congruent(SharesOf(q, KeyGenDCF(x, payload, 0, d[2]), r), payload) BY <3>6, <4>1
        <5>. HIDE DEF al
        <5>2. Congruent(SharesOf(q, KeyGenDCF(x, payload, 0, d[2]), r), al)
          BY <1>2, <3>4, <3>6, <5>1, CongruentTrans
        <5>. QED BY <4>1, <5>2
      <4>2. CASE ~hit BY <3>6, <4>2
      <4>. QED BY <4>1, <4>2
    <3>. HIDE DEF al, hit
    <3>9. WeightOf(q, i, r) \in Int BY <1>2, <3>3
    <3>. QED BY <3>2, <3>3, <3>5, <3>6, <3>7, <3>8, <3>9 DEF al, hit, zero
  <2>2. CASE i # 1
    <3>. DEFINE payload == (last * al) % Word
                x == q.right + 1
                hit == r < x
    <3>1. PairOf(q, d, i) = DcfGenerate(q.right, TRUE, q.alpha, d[3], d[4])
      BY <1>7, <2>2 DEF PairOf
    <3>2. PairOf(q, d, i).key = KeyGenDCF(x, last, 0, d[3])
          /\ PairOf(q, d, i).mac = KeyGenDCF(x, payload, 0, d[4])
      BY <3>1 DEF DcfGenerate
    <3>3. WeightOf(q, i, r) = IF hit THEN -one ELSE zero BY <1>7, <2>2 DEF WeightOf
    <3>4. payload \in Int /\ Congruent(payload, -al)
      <4>. DEFINE u == last * al
      <4>1. u \in Int
        <5>. HIDE DEF last, al
        <5>. QED BY <1>2, <1>4
      <4>2. Congruent(u, -al) BY <1>4
      <4>. HIDE DEF u, al
      <4>3. u % Word \in Int /\ Congruent(u % Word, u) BY <4>1, WrapCongruent
      <4>4. -al \in Int BY <1>2
      <4>5. Congruent(u % Word, -al) BY <4>1, <4>2, <4>3, <4>4, CongruentTrans
      <4>. QED BY <4>3, <4>5 DEF u
    <3>5. x \in 0 .. NumLeaves - 1
      <4>. DEFINE n == NumLeaves
      <4>1. n \in Nat BY Places
      <4>. HIDE DEF n
      <4>2. q.left \in 0 .. n - 1 /\ q.right \in 0 .. n - 1 BY <2>0 DEF n
      <4>3. x \in 0 .. n - 1 BY <2>0, <4>1, <4>2
      <4>. QED BY <4>3 DEF n
    <3>. HIDE DEF one, zero, payload, last, x
    <3>6. /\ SharesOf(q, KeyGenDCF(x, last, 0, d[3]), r) \in Int
          /\ Congruent(SharesOf(q, KeyGenDCF(x, last, 0, d[3]), r), IF r < x THEN last ELSE 0)
      BY <1>1, <1>4, <1>7, <3>5, BelowShares
    <3>7. /\ SharesOf(q, KeyGenDCF(x, payload, 0, d[4]), r) \in Int
          /\ Congruent(SharesOf(q, KeyGenDCF(x, payload, 0, d[4]), r),
                       IF r < x THEN payload ELSE 0)
      BY <1>1, <1>7, <3>4, <3>5, BelowShares
    <3>. DEFINE s1 == SharesOf(q, KeyGenDCF(x, last, 0, d[3]), r)
                s2 == SharesOf(q, KeyGenDCF(x, payload, 0, d[4]), r)
    <3>8. al * WeightOf(q, i, r) = IF hit THEN -al ELSE 0
      <4>. HIDE DEF al, hit
      <4>. QED BY <1>2, <3>3 DEF one, zero
    <3>9. -al \in Int /\ -one \in Int
      <4>. HIDE DEF al
      <4>. QED BY <1>2
    <3>. HIDE DEF s1, s2
    <3>10. s1 \in Int /\ s2 \in Int /\ Congruent(s1, IF hit THEN last ELSE 0)
           /\ Congruent(s2, IF hit THEN payload ELSE 0)
      BY <3>6, <3>7 DEF s1, s2
    <3>. HIDE DEF al, hit
    <3>11. Congruent(s1, IF hit THEN -one ELSE 0)
      <4>1. CASE hit
        <5>1. Congruent(s1, last) BY <3>10, <4>1
        <5>. DEFINE m == -one
        <5>2. m \in Int /\ Congruent(last, m) BY <1>4, <3>9
        <5>. HIDE DEF m
        <5>3. Congruent(s1, m) BY <1>4, <3>10, <5>1, <5>2, CongruentTrans
        <5>. QED BY <4>1, <5>3 DEF m
      <4>2. CASE ~hit BY <3>10, <4>2
      <4>. QED BY <4>1, <4>2
    <3>12. Congruent(s2, IF hit THEN -al ELSE 0)
      <4>1. CASE hit
        <5>1. Congruent(s2, payload) BY <3>10, <4>1
        <5>. DEFINE m == -al
        <5>2. m \in Int /\ Congruent(payload, m) BY <3>4, <3>9
        <5>. HIDE DEF m
        <5>3. Congruent(s2, m) BY <3>4, <3>10, <5>1, <5>2, CongruentTrans
        <5>. QED BY <4>1, <5>3 DEF m
      <4>2. CASE ~hit BY <3>10, <4>2
      <4>. QED BY <4>1, <4>2
    <3>13. WeightOf(q, i, r) \in Int BY <1>2, <3>3, <3>9
    <3>14. SharesOf(q, PairOf(q, d, i).key, r) = s1 /\ SharesOf(q, PairOf(q, d, i).mac, r) = s2
      BY <3>2 DEF s1, s2
    <3>15. Congruent(s1, WeightOf(q, i, r)) BY <3>3, <3>11 DEF zero
    <3>16. Congruent(s2, al * WeightOf(q, i, r)) BY <3>8, <3>12
    <3>. QED BY <3>10, <3>13, <3>14, <3>15, <3>16 DEF al
  <2>. QED BY <2>1, <2>2
<1>. QED BY <1>6, <1>7

\* The rows that a query asks for.
SelOf(q, r) ==
  IF q.kind = "point" THEN IF r = q.x THEN 1 ELSE 0
  ELSE IF q.right < r /\ r < q.left THEN 1 ELSE 0

\* The weights of the keys add up to them.
LEMMA WeightsSelect ==
  ASSUME NEW q \in AnyQuery, Fits(q), NEW r \in 0 .. NumLeaves - 1
  PROVE  /\ SelOf(q, r) \in {0, 1}
         /\ q.kind = "point" => WeightOf(q, 1, r) = SelOf(q, r)
         /\ q.kind # "point" => WeightOf(q, 1, r) + WeightOf(q, 2, r) = SelOf(q, r)
<1>1. SelOf(q, r) \in {0, 1} BY DEF SelOf
<1>2. q.kind = "point" => WeightOf(q, 1, r) = SelOf(q, r) BY DEF SelOf, WeightOf
<1>3. ASSUME q.kind # "point" PROVE WeightOf(q, 1, r) + WeightOf(q, 2, r) = SelOf(q, r)
  <2>. DEFINE a == q.left
              b == q.right
  <2>1. a \in Nat /\ b \in Nat /\ b < a
    <3>1. q.left \in 0 .. NumLeaves - 1 /\ q.right \in 0 .. NumLeaves - 1 /\ NumLeaves \in Nat
      BY <1>3, QueryParts, Places
    <3>2. b < a BY <1>3 DEF Fits
    <3>. QED BY <3>1, <3>2
  <2>2. 2 # 1 OBVIOUS
  <2>3. /\ WeightOf(q, 1, r) = IF r < a THEN 1 ELSE 0
        /\ WeightOf(q, 2, r) = IF r < b + 1 THEN -1 ELSE 0
    BY <1>3, <2>2 DEF WeightOf
  <2>4. SelOf(q, r) = IF b < r /\ r < a THEN 1 ELSE 0 BY <1>3 DEF SelOf
  <2>5. r \in Nat OBVIOUS
  <2>. HIDE DEF a, b
  <2>6. CASE r < b + 1
    <3>1. r < a /\ ~(b < r) BY <2>1, <2>5, <2>6
    <3>2. 1 + -1 = 0 OBVIOUS
    <3>. QED BY <2>3, <2>4, <2>6, <3>1, <3>2
  <2>7. CASE ~(r < b + 1)
    <3>1. b < r BY <2>1, <2>5, <2>7
    <3>. QED BY <2>3, <2>4, <2>7, <3>1
  <2>. QED BY <2>6, <2>7
<1>. QED BY <1>1, <1>2, <1>3

\* Shares added up by both parties, wrapped.
LEMMA CombineCongruent ==
  ASSUME NEW a \in Int, NEW b \in Int, NEW c \in Int, NEW e \in Int, NEW u \in Int, NEW v \in Int,
         Congruent(a + b, u), Congruent(c + e, v)
  PROVE  Congruent(((a + c) % Word) + ((b + e) % Word), u + v)
<1> DEFINE x == a + c
           y == b + e
           wx == x % Word
           wy == y % Word
           s == a + b
           t == c + e
<1>1. x \in Int /\ y \in Int /\ s \in Int /\ t \in Int /\ x + y = s + t OBVIOUS
<1>2. Congruent(s, u) /\ Congruent(t, v) OBVIOUS
<1>. HIDE DEF x, y, s, t
<1>3. wx \in Int /\ Congruent(wx, x) /\ wy \in Int /\ Congruent(wy, y) BY <1>1, WrapCongruent
<1>. HIDE DEF wx, wy
<1>4. Congruent(wx + wy, x + y) BY <1>1, <1>3, CongruentSum
<1>5. Congruent(s + t, u + v) BY <1>1, <1>2, CongruentSum
<1> DEFINE g == wx + wy
           h == x + y
           k == u + v
<1>6. g \in Int /\ h \in Int /\ k \in Int /\ Congruent(g, h) /\ Congruent(h, k)
  BY <1>1, <1>3, <1>4, <1>5
<1>. HIDE DEF g, h, k
<1>7. Congruent(g, k) BY <1>6, CongruentTrans
<1>. QED BY <1>7 DEF g, k, wx, wy, x, y

\* The outcomes of a key at a row and at its MAC are the evaluations of the pair.
LEMMA OutAt ==
  ASSUME NEW q, NEW d, NEW p, NEW i, Given(q, d, p, i), NEW r \in 0 .. NumLeaves - 1
  PROVE  /\ OutOf(q, d, p, i)[r] = EvalOf(q, PairOf(q, d, i).key[p], p, r)
         /\ q.alpha # 0 =>
              OutOf(q, d, p, i)[NumLeaves + r] = EvalOf(q, PairOf(q, d, i).mac[p], p, r)
<1>0. q \in AnyQuery BY DEF Given
<1> DEFINE n == NumLeaves
           k1 == KeyOf(q, d, p, i).key
           k2 == KeyOf(q, d, p, i).mac
<1>1. k1 = PairOf(q, d, i).key[p] /\ (q.alpha # 0 => k2 = PairOf(q, d, i).mac[p])
  BY DEF KeyOf
<1>2. OutOf(q, d, p, i) = [x \in PlacesOf(q) |-> IF x < n THEN EvalOf(q, k1, p, x)
                                               ELSE EvalOf(q, k2, p, x - n)]
  BY DEF OutOf
<1>3. r \in PlacesOf(q) /\ (q.alpha # 0 => n + r \in PlacesOf(q)) /\ n \in Nat
  BY <1>0, Places
<1>4. r \in 0 .. n - 1 OBVIOUS
<1>. HIDE DEF n, k1, k2
<1>5. r < n /\ ~(n + r < n) /\ (n + r) - n = r BY <1>3, <1>4
<1>6. OutOf(q, d, p, i)[r] = EvalOf(q, k1, p, r) BY <1>2, <1>3, <1>5
<1>7. q.alpha # 0 => OutOf(q, d, p, i)[n + r] = EvalOf(q, k2, p, r) BY <1>2, <1>3, <1>5
<1>. QED BY <1>1, <1>6, <1>7 DEF n

\* The outcomes that are multiplied with the table add up to the selection, and their
\* MACs to its product with the MAC key.
LEMMA CombinedShares ==
  ASSUME NEW q \in AnyQuery, Fits(q), NEW d, Drawn(d), NEW r \in 0 .. NumLeaves - 1
  PROVE  /\ Congruent(CombinedOf(q, d, 0)[r] + CombinedOf(q, d, 1)[r], SelOf(q, r))
         /\ q.alpha # 0 => Congruent(CombinedOf(q, d, 0)[NumLeaves + r]
                                       + CombinedOf(q, d, 1)[NumLeaves + r],
                                     q.alpha * SelOf(q, r))
<1>1. 0 \in Party /\ 1 \in Party BY DEF Party
<1>2. r \in PlacesOf(q) /\ (q.alpha # 0 => NumLeaves + r \in PlacesOf(q)) BY Places
<1> DEFINE O(p, i) == OutOf(q, d, p, i)
           W(i) == WeightOf(q, i, r)
           m == NumLeaves + r
           al == q.alpha
<1>3. \A i \in 1 .. KeysOf(q) :
        /\ \A p \in Party : O(p, i)[r] \in Int /\ (al # 0 => O(p, i)[m] \in Int)
        /\ W(i) \in Int /\ Congruent(O(0, i)[r] + O(1, i)[r], W(i))
        /\ al # 0 => Congruent(O(0, i)[m] + O(1, i)[m], al * W(i))
  <2>. TAKE i \in 1 .. KeysOf(q)
  <2>1. \A p \in Party : O(p, i) \in [PlacesOf(q) -> Number] BY OutOfType DEF Given
  <2>2. \A p \in Party : O(p, i)[r] \in Int /\ (al # 0 => O(p, i)[m] \in Int)
    <3>. TAKE p \in Party
    <3>. DEFINE o == O(p, i)
    <3>1. o \in [PlacesOf(q) -> Number] BY <2>1
    <3>. HIDE DEF o
    <3>2. o[r] \in Number /\ (al # 0 => o[m] \in Number) BY <1>2, <3>1
    <3>. QED BY <3>2, NumbersAreInts DEF o
  <2>3. \A p \in Party : /\ O(p, i)[r] = EvalOf(q, PairOf(q, d, i).key[p], p, r)
                         /\ al # 0 => O(p, i)[m] = EvalOf(q, PairOf(q, d, i).mac[p], p, r)
    BY OutAt DEF Given
  <2>4. O(0, i)[r] + O(1, i)[r] = SharesOf(q, PairOf(q, d, i).key, r)
    BY <1>1, <2>3 DEF SharesOf
  <2>5. al # 0 => O(0, i)[m] + O(1, i)[m] = SharesOf(q, PairOf(q, d, i).mac, r)
    BY <1>1, <2>3 DEF SharesOf
  <2>6. /\ W(i) \in Int /\ Congruent(SharesOf(q, PairOf(q, d, i).key, r), W(i))
        /\ Congruent(SharesOf(q, PairOf(q, d, i).mac, r), al * W(i))
    BY PairShares
  <2>. HIDE DEF O, W
  <2>. QED BY <2>2, <2>4, <2>5, <2>6
<1>4. al \in Int BY QueryParts
<1>. HIDE DEF m, al
<1>5. CASE q.kind = "point"
  <2>1. KeysOf(q) = 1 /\ KeysOf(q) # 2 /\ 1 \in 1 .. KeysOf(q) BY <1>5 DEF KeysOf
  <2>2. \A p \in Party : CombinedOf(q, d, p) = O(p, 1) BY <2>1 DEF CombinedOf
  <2>3. W(1) = SelOf(q, r) BY <1>5, WeightsSelect
  <2>. HIDE DEF O, W
  <2>. QED BY <1>1, <1>3, <2>1, <2>2, <2>3 DEF m, al
<1>6. CASE q.kind # "point"
  <2>1. KeysOf(q) = 2 /\ 1 \in 1 .. KeysOf(q) /\ 2 \in 1 .. KeysOf(q) BY <1>6 DEF KeysOf
  <2>2. \A p \in Party : CombinedOf(q, d, p)
          = [x \in PlacesOf(q) |-> (O(p, 1)[x] + O(p, 2)[x]) % Word]
    BY <2>1 DEF CombinedOf
  <2>3. W(1) + W(2) = SelOf(q, r) BY <1>6, WeightsSelect
  <2>. HIDE DEF O, W
  <2>4. \A p \in Party : /\ CombinedOf(q, d, p)[r] = (O(p, 1)[r] + O(p, 2)[r]) % Word
                         /\ al # 0 => CombinedOf(q, d, p)[m] = (O(p, 1)[m] + O(p, 2)[m]) % Word
    BY <1>2, <2>2 DEF m, al
  <2>5. W(1) \in Int /\ W(2) \in Int BY <1>3, <2>1
  <2>6. Congruent(CombinedOf(q, d, 0)[r] + CombinedOf(q, d, 1)[r], SelOf(q, r))
    <3>. DEFINE a == O(0, 1)[r]
                b == O(1, 1)[r]
                c == O(0, 2)[r]
                e == O(1, 2)[r]
    <3>1. /\ a \in Int /\ b \in Int /\ c \in Int /\ e \in Int
          /\ Congruent(a + b, W(1)) /\ Congruent(c + e, W(2))
      BY <1>1, <1>3, <2>1
    <3>2. CombinedOf(q, d, 0)[r] = (a + c) % Word /\ CombinedOf(q, d, 1)[r] = (b + e) % Word
      BY <1>1, <2>4
    <3>. HIDE DEF a, b, c, e
    <3>3. Congruent(((a + c) % Word) + ((b + e) % Word), W(1) + W(2))
      BY <2>5, <3>1, CombineCongruent
    <3>. QED BY <2>3, <3>2, <3>3
  <2>7. al # 0 => Congruent(CombinedOf(q, d, 0)[m] + CombinedOf(q, d, 1)[m], al * SelOf(q, r))
    <3>. HAVE al # 0
    <3>. DEFINE a == O(0, 1)[m]
                b == O(1, 1)[m]
                c == O(0, 2)[m]
                e == O(1, 2)[m]
                u == al * W(1)
                v == al * W(2)
    <3>1. /\ a \in Int /\ b \in Int /\ c \in Int /\ e \in Int
          /\ Congruent(a + b, u) /\ Congruent(c + e, v)
      BY <1>1, <1>3, <2>1
    <3>2. CombinedOf(q, d, 0)[m] = (a + c) % Word /\ CombinedOf(q, d, 1)[m] = (b + e) % Word
      BY <1>1, <2>4
    <3>3. u \in Int /\ v \in Int /\ u + v = al * SelOf(q, r)
      <4>. DEFINE x == W(1)
                  y == W(2)
      <4>1. x \in Int /\ y \in Int /\ x + y = SelOf(q, r) BY <2>3, <2>5
      <4>2. u = al * x /\ v = al * y OBVIOUS
      <4>. HIDE DEF x, y, u, v
      <4>3. al * x + al * y = al * (x + y) /\ al * x \in Int /\ al * y \in Int BY <1>4, <4>1
      <4>. QED BY <4>1, <4>2, <4>3
    <3>. HIDE DEF a, b, c, e, u, v
    <3>4. Congruent(((a + c) % Word) + ((b + e) % Word), u + v) BY <3>1, <3>3, CombineCongruent
    <3>. QED BY <3>2, <3>3, <3>4
  <2>. QED BY <2>6, <2>7 DEF m, al
<1>. QED BY <1>5, <1>6

-----------------------------------------------------------------------------
(* What the results add up to.                                             *)

\* Function g is c times f on 0 .. n - 1.
ScaledBy(c, n, f, g) ==
  c \in Int /\ n \in Nat /\ \A x \in 0 .. n - 1 : f[x] \in Int /\ g[x] = c * f[x]

\* Its total is as well.
LEMMA TotalScaled ==
  ASSUME NEW c, NEW n, NEW f, NEW g, ScaledBy(c, n, f, g)
  PROVE  Total(g, 0 .. n - 1) = c * Total(f, 0 .. n - 1)
<1>. SUFFICES ASSUME c \in Int, n \in Nat, \A x \in 0 .. n - 1 : f[x] \in Int /\ g[x] = c * f[x]
              PROVE  Total(g, 0 .. n - 1) = c * Total(f, 0 .. n - 1)
  BY DEF ScaledBy
<1>0. \A x \in 0 .. n - 1 : g[x] \in Int OBVIOUS
<1> DEFINE H == {i \in 0 .. n : Total(g, 0 .. i - 1) = c * Total(f, 0 .. i - 1)}
<1>1. 0 \in H
  <2>1. \A x \in 0 .. 0 - 1 : f[x] \in Int /\ g[x] \in Int OBVIOUS
  <2>2. Total(f, 0 .. 0 - 1) = 0 /\ Total(g, 0 .. 0 - 1) = 0 BY <2>1, TotalInterval
  <2>3. c * 0 = 0 OBVIOUS
  <2>. QED BY <2>2, <2>3
<1>2. \A i \in 1 .. n : i - 1 \in H => i \in H
  <2>. TAKE i \in 1 .. n
  <2>. HAVE i - 1 \in H
  <2>. DEFINE b == i - 1
  <2>1. b \in Int /\ 0 <= b /\ b \in 0 .. n - 1 OBVIOUS
  <2>2. \A x \in 0 .. b : f[x] \in Int /\ g[x] \in Int BY <1>0
  <2>3. Total(g, 0 .. b - 1) = c * Total(f, 0 .. b - 1) OBVIOUS
  <2>. HIDE DEF b
  <2>4. /\ Total(f, 0 .. b) = Total(f, 0 .. b - 1) + f[b]
        /\ Total(g, 0 .. b) = Total(g, 0 .. b - 1) + g[b]
    BY <2>1, <2>2, TotalInterval
  <2>5. Total(f, 0 .. b - 1) \in Int /\ Total(g, 0 .. b - 1) \in Int
    <3>1. b - 1 \in Int /\ \A x \in 0 .. b - 1 : f[x] \in Int /\ g[x] \in Int BY <2>1, <2>2
    <3>. QED BY <3>1, TotalInterval
  <2>. DEFINE F == Total(f, 0 .. b - 1)
              u == f[b]
  <2>6. F \in Int /\ u \in Int /\ g[b] = c * u BY <2>1, <2>5
  <2>7. Total(f, 0 .. b) = F + u /\ Total(g, 0 .. b) = c * F + c * u BY <2>3, <2>4, <2>6
  <2>. HIDE DEF F, u
  <2>8. c * F + c * u = c * (F + u) BY <2>6
  <2>9. Total(g, 0 .. b) = c * Total(f, 0 .. b) BY <2>7, <2>8
  <2>. QED BY <2>9 DEF b
<1>3. \A i \in 0 .. n : i \in H
  <2>. HIDE DEF H
  <2>. QED BY <1>1, <1>2, IntervalInduction
<1>4. n \in H BY <1>3
<1>. QED BY <1>4

\* The outcomes f and g, multiplied with column j, add up to h in every row.
RowsAdd(q, t, f, g, j, h) ==
  /\ f \in [PlacesOf(q) -> Number] /\ g \in [PlacesOf(q) -> Number] /\ j \in ColumnsOf(q)
  /\ \A r \in 0 .. NumLeaves - 1 :
       /\ h[r] \in Int
       /\ Congruent(TermsOf(t, f, 0 .. NumLeaves - 1, j)[r]
                      + TermsOf(t, g, 0 .. NumLeaves - 1, j)[r], h[r])

\* Then the results add up to the total of h.
LEMMA ColumnAdds ==
  ASSUME NEW q \in AnyQuery, NEW t \in [0 .. NumLeaves - 1 -> [1 .. WindowSize -> Number]],
         NEW f, NEW g, NEW j, NEW h, RowsAdd(q, t, f, g, j, h)
  PROVE  (ProductsOf(q, t, f, 0 .. NumLeaves - 1)[j] + ProductsOf(q, t, g, 0 .. NumLeaves - 1)[j])
           % Modulus = Total(h, 0 .. NumLeaves - 1) % Modulus
<1> DEFINE n == NumLeaves
           all == 0 .. n - 1
           F == TermsOf(t, f, all, j)
           G == TermsOf(t, g, all, j)
           m == Modulus
<1>0. n \in Nat /\ m \in Nat \ {0} BY Places, FssAssumption
<1>1. /\ f \in [PlacesOf(q) -> Number] /\ g \in [PlacesOf(q) -> Number] /\ j \in ColumnsOf(q)
      /\ \A r \in all : h[r] \in Int /\ Congruent(F[r] + G[r], h[r])
  BY DEF RowsAdd
<1>2. 0 \in Int /\ n - 1 \in Int /\ 0 .. n - 1 \subseteq 0 .. NumLeaves - 1 BY <1>0
<1>3. (\A r \in all : F[r] \in Int) /\ (\A r \in all : G[r] \in Int)
  <2>. DEFINE O == IF j > WindowSize THEN NumLeaves ELSE 0
              C == ((j - 1) % WindowSize) + 1
  <2>1. \A r \in all : f[O + r] * t[r][C] \in Int /\ g[O + r] * t[r][C] \in Int
    BY <1>1, <1>2, ProductsType
  <2>2. \A r \in all : F[r] = f[O + r] * t[r][C] /\ G[r] = g[O + r] * t[r][C]
    BY DEF TermsOf
  <2>. HIDE DEF F, G, O, C
  <2>. QED BY <2>1, <2>2
<1> DEFINE TF == Total(F, all)
           TG == Total(G, all)
<1>4. TF \in Int /\ TG \in Int BY <1>1, <1>2, ProductsType
<1>5. ProductsOf(q, t, f, all)[j] = TF % Word /\ ProductsOf(q, t, g, all)[j] = TG % Word
  BY <1>1 DEF ProductsOf
<1>. HIDE DEF F, G, m, n
<1>6. \A r \in all : (F[r] + G[r]) % m = h[r] % m
  <2>. TAKE r \in all
  <2>. DEFINE s == F[r] + G[r]
              u == h[r]
  <2>1. s \in Int /\ u \in Int /\ Congruent(s, u)
    <3>1. F[r] \in Int /\ G[r] \in Int BY <1>3
    <3>2. s \in Int BY <3>1
    <3>. QED BY <1>1, <3>2
  <2>. HIDE DEF s, u
  <2>2. s % Modulus = u % Modulus BY <2>1, CongruentResidue
  <2>. QED BY <2>2 DEF m, s, u
<1>7. AddTo(m, n, F, G, h) BY <1>0, <1>1, <1>3, <1>6 DEF AddTo
<1>8. (Total(F, 0 .. n - 1) + Total(G, 0 .. n - 1)) % m = Total(h, 0 .. n - 1) % m
  BY <1>7, TotalSum
<1>9. (TF + TG) % m = Total(h, all) % m BY <1>8
<1>. HIDE DEF TF, TG
<1> DEFINE x == TF % Word
           y == TG % Word
<1>10. x \in Int /\ y \in Int /\ Congruent(x, TF) /\ Congruent(y, TG) BY <1>4, WrapCongruent
<1>. HIDE DEF x, y
<1>11. Congruent(x + y, TF + TG) BY <1>4, <1>10, CongruentSum
<1>12. (x + y) % Modulus = (TF + TG) % Modulus
  <2>. DEFINE u == x + y
              v == TF + TG
  <2>1. u \in Int /\ v \in Int /\ Congruent(u, v) BY <1>4, <1>10, <1>11
  <2>. HIDE DEF u, v
  <2>2. u % Modulus = v % Modulus BY <2>1, CongruentResidue
  <2>. QED BY <2>2 DEF u, v
<1>13. (ProductsOf(q, t, f, all)[j] + ProductsOf(q, t, g, all)[j]) % Modulus
         = Total(h, all) % Modulus
  BY <1>5, <1>9, <1>12 DEF x, y, m
<1>. QED BY <1>13 DEF n

\* The sum of the rows that a query selects in column j of a table.
SelectedSum(q, t, d, j, sum) ==
  /\ q \in AnyQuery /\ Fits(q) /\ Drawn(d)
  /\ t \in [0 .. NumLeaves - 1 -> [1 .. WindowSize -> Number]] /\ j \in 1 .. WindowSize
  /\ sum = Total([r \in 0 .. NumLeaves - 1 |-> SelOf(q, r) * t[r][j]], 0 .. NumLeaves - 1)

\* The results of the two servers add up to it, and their MACs to its product with the
\* MAC key.
LEMMA ResultShares ==
  ASSUME NEW q, NEW t, NEW d, NEW j, NEW sum, SelectedSum(q, t, d, j, sum)
  PROVE  /\ (ResultOf(q, t, d, 0)[j] + ResultOf(q, t, d, 1)[j]) % Modulus = sum % Modulus
         /\ q.alpha # 0 => (ResultOf(q, t, d, 0)[WindowSize + j]
                              + ResultOf(q, t, d, 1)[WindowSize + j]) % Modulus
                             = (q.alpha * sum) % Modulus
<1>. /\ q \in AnyQuery /\ Fits(q) /\ Drawn(d)
     /\ t \in [0 .. NumLeaves - 1 -> [1 .. WindowSize -> Number]] /\ j \in 1 .. WindowSize
     /\ sum = Total([r \in 0 .. NumLeaves - 1 |-> SelOf(q, r) * t[r][j]], 0 .. NumLeaves - 1)
  BY DEF SelectedSum
<1> DEFINE n == NumLeaves
           all == 0 .. n - 1
           al == q.alpha
           h == [r \in all |-> SelOf(q, r) * t[r][j]]
           f == CombinedOf(q, d, 0)
           g == CombinedOf(q, d, 1)
           k == WindowSize + j
<1>0. n \in Nat /\ al \in Int BY Places, QueryParts
<1>1. 0 \in Party /\ 1 \in Party BY DEF Party
<1>2. f \in [PlacesOf(q) -> Number] /\ g \in [PlacesOf(q) -> Number] BY <1>1, CombinedOfType
<1>3. \A r \in all : /\ Congruent(f[r] + g[r], SelOf(q, r))
                     /\ al # 0 => Congruent(f[n + r] + g[n + r], al * SelOf(q, r))
  BY CombinedShares
<1>4. \A r \in all : SelOf(q, r) \in Int
  <2>1. \A r \in all : SelOf(q, r) \in {0, 1} BY WeightsSelect
  <2>. QED BY <2>1
<1>5. \A r \in all : t[r][j] \in Int
  <2>1. \A r \in all : t[r][j] \in Number OBVIOUS
  <2>. QED BY <2>1, NumbersAreInts
<1>6. /\ j \in ColumnsOf(q) /\ ~(j > WindowSize) /\ ((j - 1) % WindowSize) + 1 = j
      /\ al # 0 => /\ k \in ColumnsOf(q) /\ k > WindowSize
                   /\ ((k - 1) % WindowSize) + 1 = j
  BY Columns
<1>7. \A r \in all : r \in PlacesOf(q) /\ (al # 0 => n + r \in PlacesOf(q)) BY Places
<1>8. \A r \in all : h[r] = SelOf(q, r) * t[r][j] OBVIOUS
<1>9. /\ ResultOf(q, t, d, 0) = ProductsOf(q, t, f, all)
      /\ ResultOf(q, t, d, 1) = ProductsOf(q, t, g, all)
  BY DEF ResultOf
<1>. HIDE DEF f, g, h, al, k
<1>10. \A r \in all : h[r] \in Int
  <2>. TAKE r \in all
  <2>. DEFINE u == SelOf(q, r)
              v == t[r][j]
  <2>1. u \in Int /\ v \in Int /\ h[r] = u * v BY <1>4, <1>5, <1>8
  <2>. HIDE DEF u, v
  <2>. QED BY <2>1
<1>11. \A r \in all : /\ TermsOf(t, f, all, j)[r] = f[r] * t[r][j]
                      /\ TermsOf(t, g, all, j)[r] = g[r] * t[r][j]
  <2>. TAKE r \in all
  <2>1. TermsOf(t, f, all, j)[r] = f[0 + r] * t[r][j]
        /\ TermsOf(t, g, all, j)[r] = g[0 + r] * t[r][j]
    BY <1>6, Zenon DEF TermsOf
  <2>2. 0 + r = r OBVIOUS
  <2>. QED BY <2>1, <2>2
<1>12. RowsAdd(q, t, f, g, j, h)
  <2>1. \A r \in all : h[r] \in Int /\ Congruent(TermsOf(t, f, all, j)[r]
                                                   + TermsOf(t, g, all, j)[r], h[r])
    <3>. TAKE r \in all
    <3>. DEFINE a == f[r]
                b == g[r]
                u == SelOf(q, r)
                v == t[r][j]
                s == a + b
    <3>1. a \in Int /\ b \in Int
      <4>1. a \in Number /\ b \in Number BY <1>2, <1>7
      <4>. QED BY <4>1, NumbersAreInts
    <3>2. u \in Int /\ v \in Int /\ h[r] = u * v BY <1>4, <1>5, <1>8
    <3>3. s \in Int /\ Congruent(s, u) BY <1>3, <3>1
    <3>4. TermsOf(t, f, all, j)[r] + TermsOf(t, g, all, j)[r] = a * v + b * v BY <1>11
    <3>5. a * v + b * v = s * v
      <4>. HIDE DEF a, b, v
      <4>. QED BY <3>1, <3>2
    <3>. HIDE DEF s, u, v
    <3>6. Congruent(s * v, u * v) BY <3>2, <3>3, CongruentTimes
    <3>. QED BY <1>10, <3>2, <3>4, <3>5, <3>6
  <2>. QED BY <1>2, <1>6, <2>1 DEF RowsAdd
<1>13. (ResultOf(q, t, d, 0)[j] + ResultOf(q, t, d, 1)[j]) % Modulus = sum % Modulus
  <2>1. (ProductsOf(q, t, f, all)[j] + ProductsOf(q, t, g, all)[j]) % Modulus
          = Total(h, all) % Modulus
    BY <1>12, ColumnAdds
  <2>2. sum = Total(h, all) BY DEF h
  <2>. QED BY <1>9, <2>1, <2>2
<1>14. ASSUME al # 0
       PROVE  (ResultOf(q, t, d, 0)[k] + ResultOf(q, t, d, 1)[k]) % Modulus = (al * sum) % Modulus
  <2>. DEFINE e == [r \in all |-> al * h[r]]
  <2>1. \A r \in all : e[r] = al * h[r] OBVIOUS
  <2>. HIDE DEF e
  <2>2. \A r \in all : /\ TermsOf(t, f, all, k)[r] = f[n + r] * t[r][j]
                       /\ TermsOf(t, g, all, k)[r] = g[n + r] * t[r][j]
    BY <1>6, <1>14, Zenon DEF TermsOf
  <2>3. \A r \in all : e[r] \in Int /\ Congruent(TermsOf(t, f, all, k)[r]
                                                   + TermsOf(t, g, all, k)[r], e[r])
    <3>. TAKE r \in all
    <3>. DEFINE a == f[n + r]
                b == g[n + r]
                u == SelOf(q, r)
                w == al * u
                v == t[r][j]
                s == a + b
    <3>1. a \in Int /\ b \in Int
      <4>1. a \in Number /\ b \in Number BY <1>2, <1>7, <1>14
      <4>. QED BY <4>1, NumbersAreInts
    <3>2. u \in Int /\ v \in Int /\ h[r] = u * v BY <1>4, <1>5, <1>8
    <3>3. s \in Int /\ Congruent(s, w) BY <1>3, <1>14, <3>1
    <3>4. TermsOf(t, f, all, k)[r] + TermsOf(t, g, all, k)[r] = a * v + b * v BY <2>2
    <3>5. a * v + b * v = s * v
      <4>. HIDE DEF a, b, v
      <4>. QED BY <3>1, <3>2
    <3>6. w \in Int /\ e[r] = w * v /\ e[r] \in Int
      <4>. DEFINE x == h[r]
      <4>1. x = u * v /\ e[r] = al * x BY <2>1, <3>2
      <4>. HIDE DEF u, v, x
      <4>2. w \in Int /\ al * (u * v) = (al * u) * v BY <1>0, <3>2
      <4>3. x \in Int BY <3>2, <4>1
      <4>4. al * x \in Int BY <1>0, <4>3
      <4>. QED BY <4>1, <4>2, <4>4
    <3>. HIDE DEF s, u, v, w
    <3>7. Congruent(s * v, w * v) BY <3>2, <3>3, <3>6, CongruentTimes
    <3>. QED BY <3>4, <3>5, <3>6, <3>7
  <2>4. RowsAdd(q, t, f, g, k, e) BY <1>2, <1>6, <1>14, <2>3 DEF RowsAdd
  <2>5. (ProductsOf(q, t, f, all)[k] + ProductsOf(q, t, g, all)[k]) % Modulus
          = Total(e, all) % Modulus
    BY <2>4, ColumnAdds
  <2>6. Total(e, all) = al * Total(h, all)
    <3>1. ScaledBy(al, n, h, e) BY <1>0, <1>10, <2>1 DEF ScaledBy
    <3>. HIDE DEF n
    <3>. QED BY <3>1, TotalScaled
  <2>7. sum = Total(h, all) BY DEF h
  <2>. QED BY <1>9, <2>5, <2>6, <2>7
<1>. QED BY <1>13, <1>14 DEF al, k

\* The two servers work for the same query under the same draws.
LEMMA BothServe ==
  ASSUME Inv, \A p \in Party : stage[p] # "nokey"
  PROVE  /\ query \in AnyQuery
         /\ \E d \in Draws : /\ Drawn(d)
                             /\ \A p \in Party :
                                  Server(query, table, cores, EvalCores, d, p, stage[p], key[p],
                                         fss[p], running[p], thRes[p], res[p])
<1>1. 0 \in Party BY DEF Party
<1>2. query # NoQuery /\ query \in AnyQuery BY <1>1, ServerNow
<1>3. PICK d \in Draws : Serving(d) BY <1>2 DEF Inv, Busy
<1>4. Drawn(d) BY <1>1, <1>3, ServerNow
<1>5. \A p \in Party : Server(query, table, cores, EvalCores, d, p, stage[p], key[p], fss[p],
                              running[p], thRes[p], res[p])
  BY <1>3, ServerNow
<1>. QED BY <1>2, <1>4, <1>5

\* The selection of the model is that of the query.
LEMMA SelectedIs == (Answerable <=> Fits(query)) /\ \A r : Selected(r) = SelOf(query, r)
BY DEF Answerable, Fits, Selected, SelOf

\* What the invariant says of the outcomes of both servers.
LEMMA InvValues == Inv => ValuesAddUp /\ MacsAddUp
<1>. SUFFICES ASSUME Inv, Evaluated, Answerable, NEW r \in 0 .. NumLeaves - 1
              PROVE  /\ (fss[0][1][r] + fss[1][1][r]) % Modulus = Selected(r)
                     /\ Malicious => (fss[0][1][NumLeaves + r] + fss[1][1][NumLeaves + r]) % Modulus
                                       = (query.alpha * Selected(r)) % Modulus
  BY DEF ValuesAddUp, MacsAddUp
<1>1. 0 \in Party /\ 1 \in Party BY DEF Party
<1>2. \A p \in Party : stage[p] \in {"multiply", "done"} BY DEF Evaluated
<1>3. query \in AnyQuery BY <1>2, BothServe
<1>4. PICK d \in Draws : /\ Drawn(d)
                         /\ \A p \in Party :
                              Server(query, table, cores, EvalCores, d, p, stage[p], key[p],
                                     fss[p], running[p], thRes[p], res[p])
  BY <1>2, BothServe
<1>5. \A p \in Party : fss[p][1] = CombinedOf(query, d, p) BY <1>2, <1>4 DEF Server
<1> DEFINE n == NumLeaves
           f == CombinedOf(query, d, 0)
           g == CombinedOf(query, d, 1)
           sel == SelOf(query, r)
           al == query.alpha
<1>6. Fits(query) /\ Selected(r) = sel BY SelectedIs
<1>7. Congruent(f[r] + g[r], sel) /\ (al # 0 => Congruent(f[n + r] + g[n + r], al * sel))
  BY <1>3, <1>4, <1>6, CombinedShares
<1>8. f \in [PlacesOf(query) -> Number] /\ g \in [PlacesOf(query) -> Number]
  BY <1>1, <1>3, <1>4, CombinedOfType
<1>9. r \in PlacesOf(query) /\ (al # 0 => n + r \in PlacesOf(query)) BY <1>3, Places
<1>10. sel \in {0, 1} /\ al \in Int BY <1>3, <1>6, WeightsSelect, QueryParts
<1>11. fss[0][1] = f /\ fss[1][1] = g BY <1>1, <1>5
<1>. HIDE DEF n, f, g, sel, al
<1>12. f[r] \in Int /\ g[r] \in Int /\ (al # 0 => f[n + r] \in Int /\ g[n + r] \in Int)
  <2>1. /\ f[r] \in Number /\ g[r] \in Number
        /\ (al # 0 => f[n + r] \in Number /\ g[n + r] \in Number)
    BY <1>8, <1>9
  <2>. QED BY <2>1, NumbersAreInts
<1>13. (f[r] + g[r]) % Modulus = sel
  <2>. DEFINE s == f[r] + g[r]
  <2>1. s \in Int /\ sel \in Int BY <1>10, <1>12
  <2>2. Congruent(s, sel) BY <1>7
  <2>. HIDE DEF s
  <2>3. s % Modulus = sel % Modulus BY <2>1, <2>2, CongruentResidue
  <2>4. sel % Modulus = sel
    <3>1. Modulus \in Nat \ {0} /\ Modulus > 1 BY FssAssumption, TableAssumption
    <3>2. sel \in 0 .. Modulus - 1 /\ sel = 0 * Modulus + sel /\ 0 \in Int BY <1>10, <3>1
    <3>. QED BY <2>1, <3>1, <3>2, ModUnique
  <2>. QED BY <2>3, <2>4 DEF s
<1>14. al # 0 => (f[n + r] + g[n + r]) % Modulus = (al * sel) % Modulus
  <2>. HAVE al # 0
  <2>. DEFINE s == f[n + r] + g[n + r]
              u == al * sel
  <2>1. s \in Int BY <1>12
  <2>2. u \in Int BY <1>10
  <2>3. Congruent(s, u) BY <1>7
  <2>. HIDE DEF s, u
  <2>4. s % Modulus = u % Modulus BY <2>1, <2>2, <2>3, CongruentResidue
  <2>. QED BY <2>4 DEF s, u
<1>15. Malicious => al # 0 BY DEF Malicious, al
<1>. QED BY <1>6, <1>11, <1>13, <1>14, <1>15 DEF n, al

\* What it says of their results.
LEMMA InvAnswer == Inv => AnswerIsSelection
<1>. SUFFICES ASSUME Inv, \A p \in Party : stage[p] = "done", Answerable,
                     NEW j \in 1 .. WindowSize, NEW sum,
                     sum = Total([r \in 0 .. NumLeaves - 1 |-> Selected(r) * table[r][j]],
                                 0 .. NumLeaves - 1)
              PROVE  /\ (res[0][j] + res[1][j]) % Modulus = sum % Modulus
                     /\ Malicious => (res[0][WindowSize + j] + res[1][WindowSize + j]) % Modulus
                                       = (query.alpha * sum) % Modulus
  BY DEF AnswerIsSelection
<1>0. Typing BY DEF Inv
<1>1. 0 \in Party /\ 1 \in Party BY DEF Party
<1>2. query \in AnyQuery BY BothServe
<1>3. PICK d \in Draws : /\ Drawn(d)
                         /\ \A p \in Party :
                              Server(query, table, cores, EvalCores, d, p, stage[p], key[p],
                                     fss[p], running[p], thRes[p], res[p])
  BY BothServe
<1>4. \A p \in Party : res[p] = ResultOf(query, table, d, p) BY <1>3 DEF Server
<1>5. Fits(query) /\ \A r : Selected(r) = SelOf(query, r) BY SelectedIs
<1>6. table \in [0 .. NumLeaves - 1 -> [1 .. WindowSize -> Number]] BY <1>0, StateParts
<1>7. sum = Total([r \in 0 .. NumLeaves - 1 |-> SelOf(query, r) * table[r][j]],
                  0 .. NumLeaves - 1)
  BY <1>5
<1>8. /\ (ResultOf(query, table, d, 0)[j] + ResultOf(query, table, d, 1)[j]) % Modulus
           = sum % Modulus
      /\ query.alpha # 0 => (ResultOf(query, table, d, 0)[WindowSize + j]
                               + ResultOf(query, table, d, 1)[WindowSize + j]) % Modulus
                              = (query.alpha * sum) % Modulus
  <2>1. SelectedSum(query, table, d, j, sum) BY <1>2, <1>3, <1>5, <1>6, <1>7 DEF SelectedSum
  <2>. QED BY <2>1, ResultShares
<1>. QED BY <1>1, <1>4, <1>8 DEF Malicious

\* The outcomes of the two servers add up to 1 on the selected rows and to 0 on the others,
\* and their MACs to alpha and 0, whatever the roots, the chunks and the order of workers.
THEOREM SharesAddUpAlways == Spec => [](ValuesAddUp /\ MacsAddUp)
BY InvAlways, InvValues, PTL

\* The results add up to the sum of the selected rows, and their MACs to alpha times that,
\* for every table, number of cores and order of the workers.
THEOREM AnswerAlways == Spec => []AnswerIsSelection
BY InvAlways, InvAnswer, PTL

-----------------------------------------------------------------------------
(* Comparisons that give a single bit: the same scheme modulo 2.           *)

\* The numbers of the scheme with a single bit as output.
Binary == {0, 1}

\* There a reduced number is 0 or 1, and says whether the number is odd.
LEMMA BitReduced == \A n \in Int : Bit!Reduced(n) \in Binary /\ Bit!Reduced(n) = n % 2
<1>. TAKE n \in Int
<1>1. Bit!Reduced(n) = (n % 2) % 2 BY DEF Bit!Reduced
<1>2. n % 2 \in {0, 1} BY Parity
<1>3. (n % 2) % 2 = n % 2 BY <1>2
<1>. QED BY <1>1, <1>2, <1>3 DEF Binary

\* The tree is the same as that of the other schemes.
LEMMA BitTree ==
  /\ \A x, draw : Bit!Path(x, draw) = Path(x, draw)
  /\ \A path, v : Bit!KeyPair(path, v) = KeyPair(path, v)
  /\ \A b, cw, keep : Bit!TraverseOne(b, cw, keep) = TraverseOne(b, cw, keep)
  /\ \A x, i : Bit!KeepBit(x, i) = KeepBit(x, i)
<1>1. \A b, cw, keep : Bit!TraverseOne(b, cw, keep) = TraverseOne(b, cw, keep)
  BY DEF Bit!TraverseOne, Bit!Xor, TraverseOne, Xor
<1>2. \A x, i : Bit!KeepBit(x, i) = KeepBit(x, i) BY DEF Bit!KeepBit, KeepBit
<1>3. \A path, v : Bit!KeyPair(path, v) = KeyPair(path, v)
  BY DEF Bit!KeyPair, KeyPair, Bit!Party, Party
<1>4. \A x, draw : Bit!Path(x, draw) = Path(x, draw)
  BY DEF Bit!Path, Path, Bit!Descend, Descend, Bit!CorrectionWord, CorrectionWord,
         Bit!TraverseOne, TraverseOne, Bit!Xor, Xor, Bit!KeepBit, KeepBit, Bit!Roots, Roots,
         Bit!Party, Party, Bit!Side, Side
<1>. QED BY <1>1, <1>2, <1>3, <1>4

\* What a child and a leaf add to a share.
ChildBit(b, keep) == ConvertV[b.s][keep] % 2
LeafBit(b) == Convert[b.s] % 2

\* They are bits, and those of the scheme.
LEMMA BitValues ==
  ASSUME NEW b \in Block, NEW keep \in Side
  PROVE  /\ ChildBit(b, keep) \in Binary /\ LeafBit(b) \in Binary
         /\ [i \in Seed |-> [side \in Side |-> ConvertV[i][side] % 2]][b.s][keep]
              = ChildBit(b, keep)
         /\ [i \in Seed |-> Convert[i] % 2][b.s] = LeafBit(b)
<1>1. b.s \in Seed BY DEF Block
<1>2. ConvertV[b.s][keep] \in Int /\ Convert[b.s] \in Int BY <1>1, FssAssumption DEF Number
<1>3. ConvertV[b.s][keep] % 2 \in {0, 1} /\ Convert[b.s] % 2 \in {0, 1} BY <1>2, Parity
<1>. QED BY <1>1, <1>3 DEF ChildBit, LeafBit, Binary

\* What a level adds to a share.
LEMMA BitAddLevel ==
  ASSUME NEW a \in Binary, NEW b \in Block, NEW v, NEW keep \in Side, NEW level,
         v[level] \in Binary
  PROVE  /\ Bit!AddLevel(a, b, v, keep, level, 0) \in Binary
         /\ Bit!AddLevel(a, b, v, keep, level, 0)
              = (a + (ChildBit(b, keep) + b.t * v[level])) % 2
<1> DEFINE c == ChildBit(b, keep)
           u == v[level]
           n == a + (c + b.t * u)
<1>1. /\ c \in Binary
      /\ [i \in Seed |-> [side \in Side |-> ConvertV[i][side] % 2]][b.s][keep] = c
  BY BitValues
<1>2. b.t \in {0, 1} BY DEF Block
<1>3. Bit!AddLevel(a, b, v, keep, level, 0) = Bit!Reduced(a + 1 * (c + b.t * u))
  BY <1>1 DEF Bit!AddLevel, Bit!PartySign
<1>. HIDE DEF c, u
<1>4. n \in Int /\ a + 1 * (c + b.t * u) = n BY <1>1, <1>2 DEF Binary, u
<1>5. Bit!Reduced(n) \in Binary /\ Bit!Reduced(n) = n % 2
  <2>. HIDE DEF n
  <2>. QED BY <1>4, BitReduced
<1>. QED BY <1>3, <1>4, <1>5 DEF c, u

\* What a leaf adds.
LEMMA BitAddLeaf ==
  ASSUME NEW a \in Binary, NEW b \in Block, NEW v, v[Depth + 1] \in Binary
  PROVE  /\ Bit!AddLeaf(a, b, v, 0) \in Binary
         /\ Bit!AddLeaf(a, b, v, 0) = (a + (LeafBit(b) + b.t * v[Depth + 1])) % 2
<1> DEFINE c == LeafBit(b)
           u == v[Depth + 1]
           n == a + (c + b.t * u)
<1>1. c \in Binary /\ [i \in Seed |-> Convert[i] % 2][b.s] = c
  <2>1. 0 \in Side BY DEF Side
  <2>. QED BY <2>1, BitValues
<1>2. b.t \in {0, 1} BY DEF Block
<1>3. Bit!AddLeaf(a, b, v, 0) = Bit!Reduced(a + 1 * (c + b.t * u))
  BY <1>1 DEF Bit!AddLeaf, Bit!PartySign
<1>. HIDE DEF c, u
<1>4. n \in Int /\ a + 1 * (c + b.t * u) = n BY <1>1, <1>2 DEF Binary, u
<1>5. Bit!Reduced(n) \in Binary /\ Bit!Reduced(n) = n % 2
  <2>. HIDE DEF n
  <2>. QED BY <1>4, BitReduced
<1>. QED BY <1>3, <1>4, <1>5 DEF c, u

\* The correction value of a level: what it takes to give what the comparison gives on
\* the side that leaves the path.
LEMMA BitCorrection ==
  ASSUME NEW b \in [Party -> Block], NEW keep \in Side, NEW gt \in Side, NEW alpha \in Binary
  PROVE  /\ Bit!ValueCorrection(b, keep, 1, gt, alpha) \in Binary
         /\ Bit!ValueCorrection(b, keep, 1, gt, alpha)
              = (ChildBit(b[0], 1 - keep) + ChildBit(b[1], 1 - keep) + alpha
                   + (IF keep = 1 THEN 1 - gt ELSE gt)) % 2
<1> DEFINE lose == 1 - keep
           c0 == ChildBit(b[0], lose)
           c1 == ChildBit(b[1], lose)
           s  == IF b[1].t = 1 THEN -1 ELSE 1
           d  == IF keep = 1 THEN 1 - gt ELSE gt
           y  == s * (c1 - c0 - alpha)
           z  == Bit!Reduced(y)
           v  == Bit!ValueCorrection(b, keep, 1, gt, alpha)
<1>1. b[0] \in Block /\ b[1] \in Block /\ lose \in Side BY DEF Party, Side
<1>2. /\ c0 \in Binary /\ c1 \in Binary
      /\ [i \in Seed |-> [side \in Side |-> ConvertV[i][side] % 2]][b[0].s][lose] = c0
      /\ [i \in Seed |-> [side \in Side |-> ConvertV[i][side] % 2]][b[1].s][lose] = c1
  <2>. HIDE DEF lose
  <2>. QED BY <1>1, BitValues
<1>3. v = Bit!Reduced(z + s * d * 1)
  BY <1>2 DEF Bit!ValueCorrection, Bit!SignOf
<1>4. s \in {1, -1} /\ d \in Binary BY DEF Side, Binary
<1>. HIDE DEF c0, c1, s, d, v, z
<1>5. y \in Int BY <1>2, <1>4 DEF Binary
<1>6. z \in Binary /\ z = y % 2
  <2>. HIDE DEF y
  <2>. QED BY <1>5, BitReduced DEF z
<1>7. z = (c0 + c1 + alpha) % 2
  <2>1. CASE s = 1 BY <1>2, <1>6, <2>1 DEF Binary
  <2>2. CASE s = -1 BY <1>2, <1>6, <2>2 DEF Binary
  <2>. QED BY <1>4, <2>1, <2>2
<1> DEFINE n == z + s * d * 1
<1>8. n \in Int /\ n % 2 = (z + d) % 2
  <2>1. CASE s = 1 BY <1>4, <1>6, <2>1 DEF Binary
  <2>2. CASE s = -1 BY <1>4, <1>6, <2>2 DEF Binary
  <2>. QED BY <1>4, <2>1, <2>2
<1>9. v \in Binary /\ v = n % 2
  <2>. HIDE DEF n
  <2>. QED BY <1>3, <1>8, BitReduced DEF n
<1>10. (z + d) % 2 = (c0 + c1 + alpha + d) % 2 BY <1>2, <1>4, <1>7 DEF Binary
<1>. QED BY <1>8, <1>9, <1>10 DEF v, c0, c1, d

\* As Value: the sum on the path down to a level, with the values of the levels above.
BitSums == [alpha : Binary, v : Seq(Binary)]

\* The sum on the path below a level, and its value.
LEMMA BitAddValue ==
  ASSUME NEW up \in BitSums, NEW b \in [Party -> Block], NEW keep \in Side,
         NEW v \in Binary
  PROVE  /\ Bit!AddValue(up, b, keep, v).v = Append(up.v, v)
         /\ Bit!AddValue(up, b, keep, v)
              = [alpha |-> Bit!AddValue(up, b, keep, v).alpha, v |-> Append(up.v, v)]
         /\ Bit!AddValue(up, b, keep, v).alpha \in Binary
         /\ Bit!AddValue(up, b, keep, v).alpha
              = (up.alpha + ChildBit(b[0], keep) + ChildBit(b[1], keep) + v) % 2
<1> DEFINE c0 == ChildBit(b[0], keep)
           c1 == ChildBit(b[1], keep)
           s  == IF b[1].t = 1 THEN -1 ELSE 1
           a  == up.alpha
           n  == a - c1 + c0 + s * v
           g  == Bit!AddValue(up, b, keep, v)
<1>1. b[0] \in Block /\ b[1] \in Block BY DEF Party
<1>2. /\ c0 \in Binary /\ c1 \in Binary
      /\ [i \in Seed |-> [side \in Side |-> ConvertV[i][side] % 2]][b[0].s][keep] = c0
      /\ [i \in Seed |-> [side \in Side |-> ConvertV[i][side] % 2]][b[1].s][keep] = c1
  BY <1>1, BitValues
<1>3. g = [alpha |-> Bit!Reduced(n), v |-> Append(up.v, v)]
  BY <1>2 DEF Bit!AddValue, Bit!SignOf
<1>4. s \in {1, -1} OBVIOUS
<1>. HIDE DEF a, c0, c1, s, g
<1>5. n \in Int /\ n % 2 = (a + c0 + c1 + v) % 2
  <2>0. a \in Binary BY DEF a, BitSums
  <2>1. CASE s = 1 BY <1>2, <2>0, <2>1 DEF Binary
  <2>2. CASE s = -1
    <3>1. n = a - c1 + c0 - v BY <1>2, <2>0, <2>2 DEF Binary
    <3>. HIDE DEF n
    <3>. QED BY <1>2, <2>0, <3>1 DEF Binary
  <2>. QED BY <1>4, <2>1, <2>2
<1>6. Bit!Reduced(n) \in Binary /\ Bit!Reduced(n) = n % 2
  <2>. HIDE DEF n
  <2>. QED BY <1>5, BitReduced
<1>. HIDE DEF n
<1>. QED BY <1>3, <1>5, <1>6 DEF g, a, c0, c1

\* The correction value of the leaf.
LEMMA BitLast ==
  ASSUME NEW b \in [Party -> Block], NEW alpha \in Binary
  PROVE  /\ Bit!LastValue(b, alpha) \in Binary
         /\ Bit!LastValue(b, alpha) = (LeafBit(b[0]) + LeafBit(b[1]) + alpha) % 2
<1> DEFINE c0 == LeafBit(b[0])
           c1 == LeafBit(b[1])
           s  == IF b[1].t = 1 THEN -1 ELSE 1
           n  == s * (c1 - c0 - alpha)
<1>1. b[0] \in Block /\ b[1] \in Block /\ 0 \in Side BY DEF Party, Side
<1>2. /\ c0 \in Binary /\ c1 \in Binary
      /\ [i \in Seed |-> Convert[i] % 2][b[0].s] = c0
      /\ [i \in Seed |-> Convert[i] % 2][b[1].s] = c1
  BY <1>1, BitValues
<1>3. Bit!LastValue(b, alpha) = Bit!Reduced(n) BY <1>2 DEF Bit!LastValue, Bit!SignOf
<1>4. s \in {1, -1} OBVIOUS
<1>. HIDE DEF c0, c1, s
<1>5. n \in Int /\ n % 2 = (c0 + c1 + alpha) % 2
  <2>1. CASE s = 1 BY <1>2, <2>1 DEF Binary
  <2>2. CASE s = -1 BY <1>2, <2>2 DEF Binary
  <2>. QED BY <1>4, <2>1, <2>2
<1>. HIDE DEF n
<1>. QED BY <1>3, <1>5, BitReduced DEF c0, c1

\* As Correct and ValueLevels.
BitCorrect(x, gt, draw, i, alpha) ==
  Bit!ValueCorrection(Path(x, draw)[i - 1].b, KeepBit(x, i), 1, gt, alpha)

BitLevels(x, gt, draw) ==
  {g \in [0 .. Depth -> BitSums] :
     /\ g[0] = [alpha |-> 0, v |-> <<>>]
     /\ \A i \in 1 .. Depth :
          g[i] = Bit!AddValue(g[i - 1], Path(x, draw)[i - 1].b, KeepBit(x, i),
                              BitCorrect(x, gt, draw, i, g[i - 1].alpha))}

\* The value that corrects a level, and the sum on the path below it.
CorrectBit(b, keep, gt, alpha) ==
  (ChildBit(b[0], 1 - keep) + ChildBit(b[1], 1 - keep) + alpha
     + (IF keep = 1 THEN 1 - gt ELSE gt)) % 2
NextBit(b, keep, alpha, v) == (alpha + ChildBit(b[0], keep) + ChildBit(b[1], keep) + v) % 2

\* That is what they are.
LEMMA BitStep ==
  ASSUME NEW x \in Nat, NEW gt \in Side, NEW draw \in RootPair, NEW i \in 1 .. Depth,
         NEW up \in BitSums
  PROVE  LET b    == Path(x, draw)[i - 1].b
             keep == KeepBit(x, i)
             v    == BitCorrect(x, gt, draw, i, up.alpha)
             g    == Bit!AddValue(up, b, keep, v)
         IN  /\ v \in Binary
             /\ v = CorrectBit(b, keep, gt, up.alpha)
             /\ g \in BitSums
             /\ g.v = Append(up.v, v)
             /\ g.alpha = NextBit(b, keep, up.alpha, v)
<1> DEFINE b == Path(x, draw)[i - 1].b
           keep == KeepBit(x, i)
           v == BitCorrect(x, gt, draw, i, up.alpha)
           g == Bit!AddValue(up, b, keep, v)
<1>1. b \in [Party -> Block]
  <2>1. i - 1 \in 0 .. Depth BY FssAssumption
  <2>. QED BY <2>1, PathApart, Zenon
<1>2. keep \in Side BY KeepBitSide
<1>3. up.alpha \in Binary /\ up.v \in Seq(Binary) BY DEF BitSums
<1>4. v = Bit!ValueCorrection(b, keep, 1, gt, up.alpha) BY DEF BitCorrect
<1>. HIDE DEF b, keep, v
<1>5. /\ v \in Binary
      /\ v = CorrectBit(b, keep, gt, up.alpha)
  BY <1>1, <1>2, <1>3, <1>4, BitCorrection DEF CorrectBit
<1>6. /\ g.v = Append(up.v, v) /\ g = [alpha |-> g.alpha, v |-> Append(up.v, v)]
      /\ g.alpha \in Binary
      /\ g.alpha = NextBit(b, keep, up.alpha, v)
  BY <1>1, <1>2, <1>3, <1>5, BitAddValue DEF NextBit
<1>. HIDE DEF g
<1>7. g \in BitSums BY <1>3, <1>5, <1>6 DEF BitSums
<1>. QED BY <1>5, <1>6, <1>7 DEF b, keep, v, g

\* The recursive function in ValuesDCF is one.
LEMMA ValuesBitLevels ==
  ASSUME NEW x \in Nat, NEW gt \in Side, NEW draw \in RootPair
  PROVE  \E g : g \in BitLevels(x, gt, draw)
                /\ Bit!ValuesDCF(Path(x, draw), x, 1, gt) = g[Depth]
<1> DEFINE path == Path(x, draw)
           Up(i, up) == Bit!AddValue(up, path[i - 1].b, KeepBit(x, i),
                                     BitCorrect(x, gt, draw, i, up.alpha))
           level == CHOOSE g : g = [i \in 0 .. Depth |->
             IF i = 0 THEN [alpha |-> 0, v |-> <<>>]
             ELSE Bit!AddValue(g[i - 1], path[i - 1].b, KeepBit(x, i),
                    Bit!ValueCorrection(path[i - 1].b, KeepBit(x, i), 1, gt, g[i - 1].alpha))]
           step == [i \in 1 .. Depth |-> [up \in BitSums |-> Up(i, up)]]
           top == [alpha |-> 0, v |-> <<>>]
<1>1. Bit!ValuesDCF(path, x, 1, gt) = level[Depth]
  BY DEF Bit!ValuesDCF, Bit!KeepBit, KeepBit
<1>2. Depth \in Nat BY FssAssumption
<1>3. top \in BitSums BY DEF BitSums, Binary
<1>4. \A i \in 1 .. Depth, up \in BitSums : Up(i, up) \in BitSums BY BitStep, Zenon
<1>5. \A i, up : Up(i, up) = Bit!AddValue(up, path[i - 1].b, KeepBit(x, i),
                    Bit!ValueCorrection(path[i - 1].b, KeepBit(x, i), 1, gt, up.alpha))
  BY DEF BitCorrect
<1>. HIDE DEF path, Up
<1>6. step \in Steps(Depth, BitSums) BY <1>4 DEF Steps
<1>. HIDE DEF step, top
<1>7. \E g : g \in Runs(Depth, BitSums, top, step) BY <1>2, <1>3, <1>6, Recursion, Zenon
<1>8. PICK g \in [0 .. Depth -> BitSums] :
        g[0] = top /\ \A i \in 1 .. Depth : g[i] = step[i][g[i - 1]]
  BY <1>7 DEF Runs
<1>9. \A i \in 1 .. Depth : g[i] = Up(i, g[i - 1])
  <2>. TAKE i \in 1 .. Depth
  <2>1. g[i - 1] \in BitSums BY <1>2
  <2>. QED BY <1>8, <2>1 DEF step
<1>10. g = [i \in 0 .. Depth |->
             IF i = 0 THEN [alpha |-> 0, v |-> <<>>]
             ELSE Bit!AddValue(g[i - 1], path[i - 1].b, KeepBit(x, i),
                    Bit!ValueCorrection(path[i - 1].b, KeepBit(x, i), 1, gt, g[i - 1].alpha))]
  <2>1. \A i \in 0 .. Depth : i # 0 => i \in 1 .. Depth BY <1>2
  <2>2. \A i \in 0 .. Depth : i # 0 =>
          g[i] = Bit!AddValue(g[i - 1], path[i - 1].b, KeepBit(x, i),
                   Bit!ValueCorrection(path[i - 1].b, KeepBit(x, i), 1, gt, g[i - 1].alpha))
    BY <1>5, <1>9, <2>1, ZenonT(60)
  <2>. QED BY <1>8, <2>2 DEF top
<1>11. level = [i \in 0 .. Depth |->
             IF i = 0 THEN [alpha |-> 0, v |-> <<>>]
             ELSE Bit!AddValue(level[i - 1], path[i - 1].b, KeepBit(x, i),
                    Bit!ValueCorrection(path[i - 1].b, KeepBit(x, i), 1, gt,
                                        level[i - 1].alpha))]
  BY <1>10
<1>. HIDE DEF level
<1>12. /\ DOMAIN level = 0 .. Depth /\ level[0] = top
       /\ \A i \in 1 .. Depth : level[i] = Up(i, level[i - 1])
  <2>1. \A i \in 1 .. Depth : i \in 0 .. Depth /\ i # 0 BY <1>2
  <2>2. \A i \in 1 .. Depth : level[i] =
          Bit!AddValue(level[i - 1], path[i - 1].b, KeepBit(x, i),
            Bit!ValueCorrection(path[i - 1].b, KeepBit(x, i), 1, gt, level[i - 1].alpha))
    BY <1>11, <2>1
  <2>3. \A i \in 1 .. Depth : level[i] = Up(i, level[i - 1]) BY <1>5, <2>2, Zenon
  <2>4. 0 \in 0 .. Depth BY <1>2
  <2>5. DOMAIN level = 0 .. Depth /\ level[0] = top BY <1>11, <2>4 DEF top
  <2>. QED BY <2>3, <2>5
<1>13. \A i \in 0 .. Depth : level[i] \in BitSums
  <2>. DEFINE S == {i \in 0 .. Depth : level[i] \in BitSums}
  <2>1. 0 \in S BY <1>2, <1>3, <1>12
  <2>2. \A i \in 1 .. Depth : i - 1 \in S => i \in S
    <3>. TAKE i \in 1 .. Depth
    <3>. HAVE i - 1 \in S
    <3>1. Up(i, level[i - 1]) \in BitSums BY <1>4
    <3>. QED BY <1>2, <1>12, <3>1
  <2>3. \A i \in 0 .. Depth : i \in S
    <3>. HIDE DEF S
    <3>. QED BY <1>2, <2>1, <2>2, IntervalInduction
  <2>. QED BY <2>3
<1>14. level \in [0 .. Depth -> BitSums] BY <1>11, <1>13
<1>15. level \in BitLevels(x, gt, draw)
  BY <1>12, <1>14 DEF BitLevels, top, Up, path
<1>. QED BY <1>1, <1>15 DEF path

\* What the values of the keys are.
LEMMA KeyBits ==
  ASSUME NEW x \in Nat, NEW gt \in Side, NEW draw \in RootPair,
         NEW g \in BitLevels(x, gt, draw)
  PROVE  /\ g[Depth].v \in Seq(Binary) /\ Len(g[Depth].v) = Depth
         /\ \A i \in 1 .. Depth : g[Depth].v[i] = BitCorrect(x, gt, draw, i, g[i - 1].alpha)
<1> DEFINE c(i) == BitCorrect(x, gt, draw, i, g[i - 1].alpha)
           Holds(i) == Len(g[i].v) = i /\ \A j \in 1 .. i : g[i].v[j] = c(j)
           S == {i \in 0 .. Depth : Holds(i)}
<1>1. Depth \in Nat BY FssAssumption
<1>2. /\ g \in [0 .. Depth -> BitSums] /\ g[0].v = <<>>
      /\ \A i \in 1 .. Depth :
           g[i] = Bit!AddValue(g[i - 1], Path(x, draw)[i - 1].b, KeepBit(x, i), c(i))
  BY DEF BitLevels
<1>3. \A i \in 1 .. Depth : g[i].v = Append(g[i - 1].v, c(i))
  <2>. TAKE i \in 1 .. Depth
  <2>1. g[i - 1] \in BitSums BY <1>1, <1>2
  <2>2. g[i] = Bit!AddValue(g[i - 1], Path(x, draw)[i - 1].b, KeepBit(x, i), c(i)) BY <1>2
  <2>3. Bit!AddValue(g[i - 1], Path(x, draw)[i - 1].b, KeepBit(x, i), c(i)).v
          = Append(g[i - 1].v, c(i))
    BY <2>1, BitStep, Zenon
  <2>. HIDE DEF c
  <2>. QED BY <2>2, <2>3
<1>4. \A i \in 0 .. Depth : g[i].v \in Seq(Binary) BY <1>2 DEF BitSums
<1>. HIDE DEF c
<1>5. 0 \in S BY <1>1, <1>2
<1>6. \A i \in 1 .. Depth : i - 1 \in S => i \in S
  <2>. TAKE i \in 1 .. Depth
  <2>. HAVE i - 1 \in S
  <2>1. g[i - 1].v \in Seq(Binary) /\ g[i].v \in Seq(Binary) BY <1>1, <1>4
  <2>2. g[i].v = Append(g[i - 1].v, c(i)) BY <1>3
  <2>3. Len(g[i - 1].v) = i - 1 /\ \A j \in 1 .. i - 1 : g[i - 1].v[j] = c(j) OBVIOUS
  <2>4. Len(g[i].v) = i BY <2>1, <2>2, <2>3
  <2>5. \A j \in 1 .. i : g[i].v[j] = c(j)
    <3>. TAKE j \in 1 .. i
    <3>1. CASE j = i BY <2>1, <2>2, <2>3, <3>1
    <3>2. CASE j # i
      <4>1. j \in 1 .. i - 1 BY <3>2
      <4>. QED BY <2>1, <2>2, <2>3, <4>1
    <3>. QED BY <3>1, <3>2
  <2>. QED BY <1>1, <2>4, <2>5
<1>7. Holds(Depth)
  <2>1. \A i \in 0 .. Depth : i \in S
    <3>. HIDE DEF S
    <3>. QED BY <1>1, <1>5, <1>6, IntervalInduction
  <2>. QED BY <1>1, <2>1
<1>. QED BY <1>1, <1>4, <1>7 DEF c

\* As Node and WalksDCF; both parties add.
BitNode == [b : Block, acc : Binary]

BitWalks(r, ky) ==
  {w \in [0 .. Depth -> BitNode] :
     /\ w[0].b = ky.k[1] /\ w[0].acc = 0
     /\ \A i \in 1 .. Depth :
          /\ w[i].b = TraverseOne(w[i - 1].b, ky.k[i + 1], KeepBit(r, i))
          /\ w[i].acc = Bit!AddLevel(w[i - 1].acc, w[i - 1].b, ky.v, KeepBit(r, i), i, 0)}

\* BitEval takes such a walk and adds the leaf's share at its end.
LEMMA BitEvalWalks ==
  ASSUME NEW r \in 0 .. NumLeaves - 1, NEW ky, WalkKey(ky),
         \A i \in 1 .. Depth : ky.v[i] \in Binary
  PROVE  \E w : w \in BitWalks(r, ky)
                /\ BitEval(r, ky) = Bit!AddLeaf(w[Depth].acc, w[Depth].b, ky.v, 0)
<1> DEFINE Go(i, up) == [b   |-> TraverseOne(up.b, ky.k[i + 1], KeepBit(r, i)),
                         acc |-> Bit!AddLevel(up.acc, up.b, ky.v, KeepBit(r, i), i, 0)]
           top == [b |-> ky.k[1], acc |-> 0]
           walk == CHOOSE g : g = [i \in 0 .. Depth |->
             IF i = 0 THEN [b |-> ky.k[1], acc |-> 0]
             ELSE LET up == g[i - 1]
                  IN  [b   |-> TraverseOne(up.b, ky.k[i + 1], KeepBit(r, i)),
                       acc |-> Bit!AddLevel(up.acc, up.b, ky.v, KeepBit(r, i), i, 0)]]
           step == [i \in 1 .. Depth |-> [up \in BitNode |-> Go(i, up)]]
<1>1. BitEval(r, ky) = Bit!AddLeaf(walk[Depth].acc, walk[Depth].b, ky.v, 0)
  BY DEF BitEval, Bit!EvalOneDCF, Bit!TraverseOne, TraverseOne, Bit!Xor, Xor, Bit!KeepBit,
         KeepBit
<1>2. Depth \in Nat /\ ky.k[1] \in Block BY FssAssumption DEF WalkKey
<1>3. top \in BitNode BY <1>2 DEF BitNode, Binary
<1>4. \A i \in 1 .. Depth, up \in BitNode : Go(i, up) \in BitNode
  <2>. TAKE i \in 1 .. Depth, up \in BitNode
  <2>1. KeepBit(r, i) \in Side BY PrefixSteps
  <2>2. ky.k[i + 1] \in Correction BY DEF WalkKey
  <2>3. up.b \in Block /\ up.acc \in Binary BY DEF BitNode
  <2>4. TraverseOne(up.b, ky.k[i + 1], KeepBit(r, i)) \in Block
    BY <2>1, <2>2, <2>3, StepType DEF Correction
  <2>5. ky.v[i] \in Binary OBVIOUS
  <2>6. Bit!AddLevel(up.acc, up.b, ky.v, KeepBit(r, i), i, 0) \in Binary
    BY <2>1, <2>3, <2>5, BitAddLevel
  <2>. QED BY <2>4, <2>6 DEF BitNode
<1>5. step \in Steps(Depth, BitNode) BY <1>4 DEF Steps
<1>. HIDE DEF step, top, Go
<1>6. \E g : g \in Runs(Depth, BitNode, top, step) BY <1>2, <1>3, <1>5, Recursion, Zenon
<1>7. PICK g \in [0 .. Depth -> BitNode] :
        g[0] = top /\ \A i \in 1 .. Depth : g[i] = step[i][g[i - 1]]
  BY <1>6 DEF Runs
<1>8. \A i \in 1 .. Depth : g[i] = Go(i, g[i - 1])
  <2>. TAKE i \in 1 .. Depth
  <2>1. g[i - 1] \in BitNode BY <1>2
  <2>. QED BY <1>7, <2>1 DEF step
<1>9. g = [i \in 0 .. Depth |-> IF i = 0 THEN top ELSE Go(i, g[i - 1])]
  <2>1. \A i \in 0 .. Depth : i # 0 => i \in 1 .. Depth BY <1>2, SMTT(60)
  <2>. QED BY <1>7, <1>8, <2>1
<1>10. walk = [i \in 0 .. Depth |-> IF i = 0 THEN top ELSE Go(i, walk[i - 1])]
  BY <1>9, ZenonT(30) DEF top, Go
<1>. HIDE DEF walk
<1>11. /\ DOMAIN walk = 0 .. Depth /\ walk[0] = top
       /\ \A i \in 1 .. Depth : walk[i] = Go(i, walk[i - 1])
  BY <1>2, <1>10
<1>12. \A i \in 0 .. Depth : walk[i] \in BitNode
  <2>. DEFINE S == {i \in 0 .. Depth : walk[i] \in BitNode}
  <2>1. 0 \in S BY <1>2, <1>3, <1>11
  <2>2. \A i \in 1 .. Depth : i - 1 \in S => i \in S BY <1>4, <1>11
  <2>3. \A i \in 0 .. Depth : i \in S
    <3>. HIDE DEF S
    <3>. QED BY <1>2, <2>1, <2>2, IntervalInduction
  <2>. QED BY <2>3
<1>13. walk \in [0 .. Depth -> BitNode] BY <1>10, <1>12
<1>14. walk \in BitWalks(r, ky)
  <2>1. walk[0].b = ky.k[1] /\ walk[0].acc = 0 BY <1>11 DEF top
  <2>2. \A i, up :
          /\ Go(i, up).b = TraverseOne(up.b, ky.k[i + 1], KeepBit(r, i))
          /\ Go(i, up).acc = Bit!AddLevel(up.acc, up.b, ky.v, KeepBit(r, i), i, 0)
    BY DEF Go
  <2>. QED BY <1>11, <1>13, <2>1, <2>2 DEF BitWalks
<1>. QED BY <1>1, <1>14

\* The blocks of such walks are those of the other schemes: the two parties have the
\* blocks of the path to x as long as they are on it, and equal blocks after that.
LEMMA BitWalksOnOrOff ==
  ASSUME NEW x \in 0 .. NumLeaves - 1, NEW draw \in RootPair, NEW v,
         NEW r \in 0 .. NumLeaves - 1, NEW w,
         \A p \in Party : w[p] \in BitWalks(r, KeyPair(Path(x, draw), v)[p])
  PROVE  \A i \in 0 .. Depth :
           IF Prefix(r, i) = Prefix(x, i)
           THEN \A p \in Party : w[p][i].b = Path(x, draw)[i].b[p]
           ELSE w[0][i].b = w[1][i].b
<1> DEFINE blocks == [p \in Party |-> [i \in 0 .. Depth |-> w[p][i].b]]
<1>0. Depth \in Nat BY FssAssumption
<1>1. \A p \in Party : blocks[p] \in Walks(r, KeyPair(Path(x, draw), v)[p])
  <2>. TAKE p \in Party
  <2>. DEFINE k == KeyPair(Path(x, draw), v)[p]
  <2>1. w[p] \in BitWalks(r, k) OBVIOUS
  <2>. HIDE DEF k
  <2>2. /\ w[p] \in [0 .. Depth -> BitNode]
        /\ w[p][0].b = k.k[1]
        /\ \A i \in 1 .. Depth :
             w[p][i].b = TraverseOne(w[p][i - 1].b, k.k[i + 1], KeepBit(r, i))
    BY <2>1 DEF BitWalks
  <2>3. blocks[p] \in [0 .. Depth -> Block] BY <2>2 DEF BitNode
  <2>4. blocks[p][0] = k.k[1] BY <1>0, <2>2
  <2>5. \A i \in 1 .. Depth :
          blocks[p][i] = TraverseOne(blocks[p][i - 1], k.k[i + 1], KeepBit(r, i))
    <3>. TAKE i \in 1 .. Depth
    <3>1. i \in 0 .. Depth /\ i - 1 \in 0 .. Depth BY <1>0
    <3>2. blocks[p][i] = w[p][i].b /\ blocks[p][i - 1] = w[p][i - 1].b BY <3>1
    <3>3. w[p][i].b = TraverseOne(w[p][i - 1].b, k.k[i + 1], KeepBit(r, i)) BY <2>2
    <3>. QED BY <3>2, <3>3, Zenon
  <2>6. blocks[p] \in Walks(r, k) BY <2>3, <2>4, <2>5 DEF Walks
  <2>. QED BY <2>6 DEF k
<1>2. \A p \in Party, i \in 0 .. Depth : blocks[p][i] = w[p][i].b OBVIOUS
<1>. HIDE DEF blocks
<1>3. \A i \in 0 .. Depth :
        IF Prefix(r, i) = Prefix(x, i)
        THEN \A p \in Party : blocks[p][i] = Path(x, draw)[i].b[p]
        ELSE blocks[0][i] = blocks[1][i]
  BY <1>1, WalksOnOrOff
<1>. QED BY <1>2, <1>3 DEF Party

\* Two sums with one value, reduced: where the bits t differ it counts once, where all
\* is equal nothing is added.
LEMMA BitPair ==
  ASSUME NEW t0 \in {0, 1}, NEW t1 \in {0, 1}, NEW c0 \in Binary, NEW c1 \in Binary,
         NEW u \in Binary, NEW a0 \in Binary, NEW a1 \in Binary, NEW n0, NEW n1,
         n0 = (a0 + (c0 + t0 * u)) % 2, n1 = (a1 + (c1 + t1 * u)) % 2
  PROVE  /\ t0 # t1 => (n0 + n1) % 2 = (((a0 + a1) % 2) + c0 + c1 + u) % 2
         /\ t0 = t1 /\ c0 = c1 => (n0 + n1) % 2 = (a0 + a1) % 2
<1>1. CASE t0 = 0 /\ t1 = 0 BY <1>1 DEF Binary
<1>2. CASE t0 = 0 /\ t1 = 1 BY <1>2 DEF Binary
<1>3. CASE t0 = 1 /\ t1 = 0 BY <1>3 DEF Binary
<1>4. CASE t0 = 1 /\ t1 = 1 BY <1>4 DEF Binary
<1>. QED BY <1>1, <1>2, <1>3, <1>4

\* What both parties add at a node.
LEMMA BitPairLevel ==
  ASSUME NEW a0 \in Binary, NEW a1 \in Binary, NEW b0 \in Block, NEW b1 \in Block, NEW v,
         NEW keep \in Side, NEW level, v[level] \in Binary
  PROVE  LET sum == (Bit!AddLevel(a0, b0, v, keep, level, 0)
                       + Bit!AddLevel(a1, b1, v, keep, level, 0)) % 2
         IN  /\ b0.t # b1.t => sum = (((a0 + a1) % 2) + ChildBit(b0, keep) + ChildBit(b1, keep)
                                        + v[level]) % 2
             /\ b0 = b1 => sum = (a0 + a1) % 2
<1> DEFINE n0 == Bit!AddLevel(a0, b0, v, keep, level, 0)
           n1 == Bit!AddLevel(a1, b1, v, keep, level, 0)
           c0 == ChildBit(b0, keep)
           c1 == ChildBit(b1, keep)
           t0 == b0.t
           t1 == b1.t
           u  == v[level]
<1>1. c0 \in Binary /\ c1 \in Binary BY BitValues
<1>2. t0 \in {0, 1} /\ t1 \in {0, 1} BY DEF Block
<1>3. n0 = (a0 + (c0 + t0 * u)) % 2 /\ n1 = (a1 + (c1 + t1 * u)) % 2 BY BitAddLevel
<1>4. b0 = b1 => t0 = t1 /\ c0 = c1 OBVIOUS
<1>5. u \in Binary OBVIOUS
<1>. HIDE DEF n0, n1, c0, c1, t0, t1, u
<1>6. /\ t0 # t1 => (n0 + n1) % 2 = (((a0 + a1) % 2) + c0 + c1 + u) % 2
      /\ t0 = t1 /\ c0 = c1 => (n0 + n1) % 2 = (a0 + a1) % 2
  BY <1>1, <1>2, <1>3, <1>5, BitPair, SMTT(60)
<1>. QED BY <1>4, <1>6 DEF n0, n1, c0, c1, t0, t1, u

\* What they add at the leaf.
LEMMA BitPairLeaf ==
  ASSUME NEW a0 \in Binary, NEW a1 \in Binary, NEW b0 \in Block, NEW b1 \in Block, NEW v,
         v[Depth + 1] \in Binary
  PROVE  LET sum == (Bit!AddLeaf(a0, b0, v, 0) + Bit!AddLeaf(a1, b1, v, 0)) % 2
         IN  /\ b0.t # b1.t => sum = (((a0 + a1) % 2) + LeafBit(b0) + LeafBit(b1)
                                        + v[Depth + 1]) % 2
             /\ b0 = b1 => sum = (a0 + a1) % 2
<1> DEFINE n0 == Bit!AddLeaf(a0, b0, v, 0)
           n1 == Bit!AddLeaf(a1, b1, v, 0)
           c0 == LeafBit(b0)
           c1 == LeafBit(b1)
           t0 == b0.t
           t1 == b1.t
           u  == v[Depth + 1]
<1>1. c0 \in Binary /\ c1 \in Binary
  <2>1. 0 \in Side BY DEF Side
  <2>. QED BY <2>1, BitValues
<1>2. t0 \in {0, 1} /\ t1 \in {0, 1} BY DEF Block
<1>3. n0 = (a0 + (c0 + t0 * u)) % 2 /\ n1 = (a1 + (c1 + t1 * u)) % 2 BY BitAddLeaf
<1>4. b0 = b1 => t0 = t1 /\ c0 = c1 OBVIOUS
<1>5. u \in Binary OBVIOUS
<1>. HIDE DEF n0, n1, c0, c1, t0, t1, u
<1>6. /\ t0 # t1 => (n0 + n1) % 2 = (((a0 + a1) % 2) + c0 + c1 + u) % 2
      /\ t0 = t1 /\ c0 = c1 => (n0 + n1) % 2 = (a0 + a1) % 2
  BY <1>1, <1>2, <1>3, <1>5, BitPair, SMTT(60)
<1>. QED BY <1>4, <1>6 DEF n0, n1, c0, c1, t0, t1, u

\* What the shares of the two parties add up to on the way to index r.
BitWant(x, gt, g, r, i) ==
  IF Prefix(r, i) = Prefix(x, i) THEN g[i].alpha
  ELSE IF Prefix(r, i) < Prefix(x, i) THEN 1 - gt ELSE gt

\* On the path they add up to the sum of the path, and once they have left it to what
\* the comparison gives there.
LEMMA BitSharesOnOrOff ==
  ASSUME NEW x \in 0 .. NumLeaves - 1, NEW gt \in Side, NEW draw \in RootPair,
         NEW g \in BitLevels(x, gt, draw), NEW v,
         \A i \in 1 .. Depth : v[i] = BitCorrect(x, gt, draw, i, g[i - 1].alpha),
         NEW r \in 0 .. NumLeaves - 1, NEW w,
         \A p \in Party : w[p] \in BitWalks(r, KeyPair(Path(x, draw), v)[p])
  PROVE  \A i \in 0 .. Depth :
           (w[0][i].acc + w[1][i].acc) % 2 = BitWant(x, gt, g, r, i)
<1>. x \in Nat OBVIOUS
<1> DEFINE path == Path(x, draw)
           Want(i) == BitWant(x, gt, g, r, i)
           Holds(i) == (w[0][i].acc + w[1][i].acc) % 2 = Want(i)
           S == {i \in 0 .. Depth : Holds(i)}
<1>1. Depth \in Nat BY FssAssumption
<1>2. \A p \in Party :
        /\ w[p] \in [0 .. Depth -> BitNode] /\ w[p][0].acc = 0
        /\ \A i \in 1 .. Depth :
             w[p][i].acc
               = Bit!AddLevel(w[p][i - 1].acc, w[p][i - 1].b, v, KeepBit(r, i), i, 0)
  <2>. TAKE p \in Party
  <2>. DEFINE ky == KeyPair(path, v)[p]
  <2>1. w[p] \in BitWalks(r, ky) /\ ky.v = v BY KeyWords
  <2>. HIDE DEF ky
  <2>. QED BY <2>1 DEF BitWalks
<1>3. \A i \in 0 .. Depth :
        IF Prefix(r, i) = Prefix(x, i)
        THEN \A p \in Party : w[p][i].b = path[i].b[p]
        ELSE w[0][i].b = w[1][i].b
  BY BitWalksOnOrOff
<1>4. \A i \in 0 .. Depth :
        path[i].b \in [Party -> Block] /\ path[i].b[0].t # path[i].b[1].t
  BY PathApart, Zenon
<1>5. /\ g \in [0 .. Depth -> BitSums] /\ g[0].alpha = 0
      /\ \A i \in 1 .. Depth : g[i] = Bit!AddValue(g[i - 1], path[i - 1].b, KeepBit(x, i),
                                        BitCorrect(x, gt, draw, i, g[i - 1].alpha))
  BY DEF BitLevels
<1>6. \A i \in 1 .. Depth :
        /\ v[i] \in Binary /\ g[i].alpha \in Binary /\ g[i - 1].alpha \in Binary
        /\ v[i] = CorrectBit(path[i - 1].b, KeepBit(x, i), gt, g[i - 1].alpha)
        /\ g[i].alpha = NextBit(path[i - 1].b, KeepBit(x, i), g[i - 1].alpha, v[i])
  <2>. TAKE i \in 1 .. Depth
  <2>1. g[i - 1] \in BitSums /\ g[i] \in BitSums BY <1>1, <1>5
  <2>. DEFINE c == BitCorrect(x, gt, draw, i, g[i - 1].alpha)
              b == path[i - 1].b
              keep == KeepBit(x, i)
              a == Bit!AddValue(g[i - 1], b, keep, c)
  <2>2. /\ c \in Binary
        /\ c = CorrectBit(b, keep, gt, g[i - 1].alpha)
        /\ a.alpha = NextBit(b, keep, g[i - 1].alpha, c)
    BY <2>1, BitStep, Zenon
  <2>3. v[i] = c OBVIOUS
  <2>4. g[i] = a BY <1>5
  <2>. HIDE DEF a, c, path
  <2>5. g[i].alpha \in Binary /\ g[i - 1].alpha \in Binary BY <2>1 DEF BitSums
  <2>. QED BY <2>2, <2>3, <2>4, <2>5
<1>7. \A i \in 1 .. Depth :
        /\ Prefix(r, i - 1) \in Nat /\ Prefix(x, i - 1) \in Nat
        /\ KeepBit(r, i) \in Side /\ KeepBit(x, i) \in Side
        /\ Prefix(r, i) = 2 * Prefix(r, i - 1) + KeepBit(r, i)
        /\ Prefix(x, i) = 2 * Prefix(x, i - 1) + KeepBit(x, i)
  <2>. TAKE i \in 1 .. Depth
  <2>1. i - 1 \in 0 .. Depth BY <1>1
  <2>. QED BY <2>1, PrefixSteps
<1>8. \A i \in 0 .. Depth, p \in Party : w[p][i].acc \in Binary /\ w[p][i].b \in Block
  BY <1>2 DEF BitNode
<1>. HIDE DEF path
<1>9. 0 \in S
  <2>1. Prefix(r, 0) = Prefix(x, 0) BY PrefixSteps
  <2>2. w[0][0].acc + w[1][0].acc = 0 BY <1>2 DEF Party
  <2>. QED BY <1>1, <1>5, <2>1, <2>2 DEF BitWant
<1>10. \A i \in 1 .. Depth : i - 1 \in S => i \in S
  <2>. TAKE i \in 1 .. Depth
  <2>. HAVE i - 1 \in S
  <2>. SUFFICES Holds(i) BY <1>1
  <2>1. Holds(i - 1) OBVIOUS
  <2>. HIDE DEF S
  <2>. DEFINE b0 == w[0][i - 1].b
              b1 == w[1][i - 1].b
              a0 == w[0][i - 1].acc
              a1 == w[1][i - 1].acc
              rb == KeepBit(r, i)
              xb == KeepBit(x, i)
              c0 == ChildBit(b0, rb)
              c1 == ChildBit(b1, rb)
              u  == v[i]
              n  == (w[0][i].acc + w[1][i].acc) % 2
              alpha == g[i - 1].alpha
              next == g[i].alpha
  <2>2. i \in 0 .. Depth /\ i - 1 \in 0 .. Depth BY <1>1
  <2>3. a0 \in Binary /\ a1 \in Binary /\ b0 \in Block /\ b1 \in Block
    BY <1>8, <2>2 DEF Party
  <2>4. b0.t \in {0, 1} /\ b1.t \in {0, 1} BY <2>3 DEF Block
  <2>5. rb \in Side /\ xb \in Side /\ u \in Binary /\ next \in Binary /\ alpha \in Binary
    BY <1>6, <1>7
  <2>6. c0 \in Binary /\ c1 \in Binary
    <3>. HIDE DEF b0, b1, rb
    <3>. QED BY <2>3, <2>5, BitValues
  <2>7. /\ b0.t # b1.t => n = (((a0 + a1) % 2) + c0 + c1 + u) % 2
        /\ b0 = b1 => n = (a0 + a1) % 2
    <3>1. /\ w[0][i].acc = Bit!AddLevel(a0, b0, v, rb, i, 0)
          /\ w[1][i].acc = Bit!AddLevel(a1, b1, v, rb, i, 0)
      BY <1>2 DEF Party
    <3>. DEFINE m == (Bit!AddLevel(a0, b0, v, rb, i, 0) + Bit!AddLevel(a1, b1, v, rb, i, 0)) % 2
    <3>2. n = m BY <3>1
    <3>. HIDE DEF a0, a1, b0, b1, rb, n
    <3>3. /\ b0.t # b1.t => m = (((a0 + a1) % 2) + ChildBit(b0, rb) + ChildBit(b1, rb) + v[i]) % 2
          /\ b0 = b1 => m = (a0 + a1) % 2
      BY <2>3, <2>5, BitPairLevel
    <3>. HIDE DEF m
    <3>. QED BY <3>2, <3>3
  <2>8. CASE Prefix(r, i - 1) = Prefix(x, i - 1)
    <3>1. b0 = path[i - 1].b[0] /\ b1 = path[i - 1].b[1] BY <1>3, <2>2, <2>8 DEF Party
    <3>2. b0.t # b1.t BY <1>4, <2>2, <3>1
    <3>3. (a0 + a1) % 2 = alpha BY <2>1, <2>8 DEF BitWant
    <3>4. n = (alpha + c0 + c1 + u) % 2
      <4>. HIDE DEF a0, a1, b0, b1, c0, c1, u, n, alpha
      <4>. QED BY <2>7, <3>2, <3>3
    <3>5. CASE rb = xb
      <4>1. Prefix(r, i) = Prefix(x, i) BY <1>7, <2>8, <3>5
      <4>2. next = (alpha + c0 + c1 + u) % 2
        <5>1. next = NextBit(path[i - 1].b, xb, alpha, u) BY <1>6
        <5>. QED BY <3>1, <3>5, <5>1 DEF NextBit
      <4>3. Want(i) = next BY <4>1 DEF BitWant
      <4>. QED BY <3>4, <4>2, <4>3
    <3>6. CASE rb # xb
      <4>1. rb = 1 - xb BY <2>5, <3>6 DEF Side
      <4>2. /\ Prefix(r, i) # Prefix(x, i)
            /\ Prefix(r, i) < Prefix(x, i) <=> xb = 1
        BY <1>7, <2>8, <4>1 DEF Side
      <4>. DEFINE d == IF xb = 1 THEN 1 - gt ELSE gt
      <4>3. u = (c0 + c1 + alpha + d) % 2
        <5>1. u = CorrectBit(path[i - 1].b, xb, gt, alpha) BY <1>6
        <5>. QED BY <3>1, <4>1, <5>1 DEF CorrectBit
      <4>4. Want(i) = d BY <4>2 DEF BitWant
      <4>5. d \in Binary BY DEF Side, Binary
      <4>6. n = d
        <5>. HIDE DEF a0, a1, b0, b1, c0, c1, u, n, alpha, d
        <5>. QED BY <2>5, <2>6, <3>4, <4>3, <4>5 DEF Binary
      <4>. QED BY <4>4, <4>6
    <3>. QED BY <3>5, <3>6
  <2>9. CASE Prefix(r, i - 1) # Prefix(x, i - 1)
    <3>1. b0 = b1 BY <1>3, <2>2, <2>9
    <3>3. n = (a0 + a1) % 2 BY <2>7, <3>1
    <3>4. /\ Prefix(r, i) # Prefix(x, i)
          /\ Prefix(r, i) < Prefix(x, i) <=> Prefix(r, i - 1) < Prefix(x, i - 1)
      BY <1>7, <2>9 DEF Side
    <3>5. Want(i) = Want(i - 1) BY <2>9, <3>4 DEF BitWant
    <3>. QED BY <2>1, <3>3, <3>5
  <2>. QED BY <2>8, <2>9
<1>11. \A i \in 0 .. Depth : i \in S
  <2>. HIDE DEF S
  <2>. QED BY <1>1, <1>9, <1>10, IntervalInduction
<1>. QED BY <1>11

\* The comparison with a single bit as output, on every row: the shares that the two
\* parties evaluate add up to 1 below x (above x when gt = 1) and to 0 elsewhere.
THEOREM BitComparisonCorrect ==
  ASSUME NEW x \in 0 .. NumLeaves - 1, NEW gt \in Side, NEW draw \in RootPair,
         NEW r \in 0 .. NumLeaves - 1
  PROVE  LET ky == BitKeyGen(x, gt, draw)
         IN  (BitEval(r, ky[0]) + BitEval(r, ky[1])) % 2
               = IF r = x THEN 0 ELSE IF r < x THEN 1 - gt ELSE gt
<1>. x \in Nat OBVIOUS
<1> DEFINE path == Path(x, draw)
           values == Bit!ValuesDCF(path, x, 1, gt)
           leaf == path[Depth].b
           last == Bit!LastValue(leaf, values.alpha)
           v == Append(values.v, last)
           ky == KeyPair(path, v)
<1>0. Depth \in Nat BY FssAssumption
<1>1. BitKeyGen(x, gt, draw) = ky
  <2>1. BitKeyGen(x, gt, draw) = Bit!KeysDCF(Bit!Path(x, draw),
                                   Bit!ValuesDCF(Bit!Path(x, draw), x, 1, gt))
    BY DEF BitKeyGen, Bit!KeyGenDCF
  <2>2. Bit!Path(x, draw) = path BY BitTree
  <2>3. Bit!KeysDCF(path, values) = Bit!KeyPair(path, v) BY DEF Bit!KeysDCF
  <2>4. Bit!KeyPair(path, v) = ky
    <3>. HIDE DEF path, v
    <3>. QED BY BitTree
  <2>. HIDE DEF ky, path, v
  <2>. QED BY <2>1, <2>2, <2>3, <2>4
<1>2. PICK g : g \in BitLevels(x, gt, draw) /\ values = g[Depth]
  BY ValuesBitLevels
<1>3. /\ values.v \in Seq(Binary) /\ Len(values.v) = Depth
      /\ \A i \in 1 .. Depth : values.v[i] = BitCorrect(x, gt, draw, i, g[i - 1].alpha)
  BY <1>2, KeyBits, ZenonT(60)
<1>4. leaf \in [Party -> Block] /\ leaf[0].t # leaf[1].t
  <2>1. Depth \in 0 .. Depth BY <1>0
  <2>. QED BY <2>1, PathApart, Zenon
<1>5. values.alpha \in Binary BY <1>0, <1>2 DEF BitLevels, BitSums
<1>6. last \in Binary /\ last = (LeafBit(leaf[0]) + LeafBit(leaf[1]) + values.alpha) % 2
  <2>. HIDE DEF leaf, values
  <2>. QED BY <1>4, <1>5, BitLast
<1>7. /\ v[Depth + 1] = last
      /\ \A i \in 1 .. Depth : v[i] = BitCorrect(x, gt, draw, i, g[i - 1].alpha)
      /\ \A i \in 1 .. Depth : v[i] \in Binary
  <2>. DEFINE u == values.v
  <2>1. u \in Seq(Binary) /\ Len(u) = Depth BY <1>3
  <2>2. \A i \in 1 .. Depth : u[i] = BitCorrect(x, gt, draw, i, g[i - 1].alpha) BY <1>3
  <2>3. v = Append(u, last) OBVIOUS
  <2>. HIDE DEF u, last, v, values
  <2>4. v[Depth + 1] = last BY <1>0, <2>1, <2>3
  <2>5. \A i \in 1 .. Depth : v[i] = u[i] BY <1>0, <2>1, <2>3
  <2>6. \A i \in 1 .. Depth : u[i] \in Binary BY <1>0, <2>1
  <2>. QED BY <2>2, <2>4, <2>5, <2>6
<1>8. \A p \in Party : WalkKey(ky[p]) /\ ky[p].v = v
  <2>. HIDE DEF v
  <2>1. \A p \in Party : WalkKey(ky[p]) BY KeyIsWalkKey
  <2>2. \A p \in Party : ky[p].v = v BY KeyWords
  <2>. QED BY <2>1, <2>2
<1>. HIDE DEF ky, v, last, values, leaf
<1>9. \A p \in Party : \E w : w \in BitWalks(r, ky[p])
                 /\ BitEval(r, ky[p]) = Bit!AddLeaf(w[Depth].acc, w[Depth].b, v, 0)
  <2>. TAKE p \in Party
  <2>1. WalkKey(ky[p]) /\ ky[p].v = v BY <1>8
  <2>2. \A i \in 1 .. Depth : ky[p].v[i] \in Binary BY <1>7, <2>1
  <2>3. \E w : w \in BitWalks(r, ky[p])
               /\ BitEval(r, ky[p]) = Bit!AddLeaf(w[Depth].acc, w[Depth].b, ky[p].v, 0)
    BY <2>1, <2>2, BitEvalWalks
  <2>. QED BY <2>1, <2>3
<1>10. PICK w0 : w0 \in BitWalks(r, ky[0])
                 /\ BitEval(r, ky[0]) = Bit!AddLeaf(w0[Depth].acc, w0[Depth].b, v, 0)
  BY <1>9 DEF Party
<1>11. PICK w1 : w1 \in BitWalks(r, ky[1])
                 /\ BitEval(r, ky[1]) = Bit!AddLeaf(w1[Depth].acc, w1[Depth].b, v, 0)
  BY <1>9 DEF Party
<1> DEFINE w == [p \in Party |-> IF p = 0 THEN w0 ELSE w1]
<1>12. w[0] = w0 /\ w[1] = w1 BY DEF Party
<1>13. \A p \in Party : w[p] \in BitWalks(r, KeyPair(Path(x, draw), v)[p])
  <2>1. \A p \in Party : w[p] \in BitWalks(r, ky[p])
    <3>. HIDE DEF w
    <3>. QED BY <1>10, <1>11, <1>12 DEF Party
  <2>. QED BY <2>1 DEF ky
<1>. HIDE DEF w, path
<1>14. Depth \in 0 .. Depth /\ Prefix(r, Depth) = r /\ Prefix(x, Depth) = x
  BY <1>0, PrefixSteps
<1>15. (w[0][Depth].acc + w[1][Depth].acc) % 2
         = IF r = x THEN values.alpha ELSE IF r < x THEN 1 - gt ELSE gt
  <2>1. \A i \in 0 .. Depth : (w[0][i].acc + w[1][i].acc) % 2 = BitWant(x, gt, g, r, i)
    <3>1. \A i \in 1 .. Depth : v[i] = BitCorrect(x, gt, draw, i, g[i - 1].alpha) BY <1>7
    <3>. QED BY <1>2, <1>13, <3>1, BitSharesOnOrOff
  <2>2. (w[0][Depth].acc + w[1][Depth].acc) % 2 = BitWant(x, gt, g, r, Depth)
    BY <1>14, <2>1
  <2>3. BitWant(x, gt, g, r, Depth) = IF r = x THEN g[Depth].alpha
                                      ELSE IF r < x THEN 1 - gt ELSE gt
    BY <1>14, Zenon DEF BitWant
  <2>. QED BY <1>2, <2>2, <2>3
<1>16. IF r = x THEN w[0][Depth].b = leaf[0] /\ w[1][Depth].b = leaf[1]
       ELSE w[0][Depth].b = w[1][Depth].b
  <2>1. \A i \in 0 .. Depth :
          IF Prefix(r, i) = Prefix(x, i)
          THEN \A p \in Party : w[p][i].b = Path(x, draw)[i].b[p]
          ELSE w[0][i].b = w[1][i].b
    BY <1>13, BitWalksOnOrOff
  <2>. QED BY <1>14, <2>1 DEF Party, leaf, path
<1> DEFINE a0 == w[0][Depth].acc
           a1 == w[1][Depth].acc
           b0 == w[0][Depth].b
           b1 == w[1][Depth].b
           n0 == BitEval(r, ky[0])
           n1 == BitEval(r, ky[1])
           alpha == values.alpha
           c0 == LeafBit(b0)
           c1 == LeafBit(b1)
<1>17. a0 \in Binary /\ a1 \in Binary /\ b0 \in Block /\ b1 \in Block
  BY <1>10, <1>11, <1>12, <1>14 DEF BitWalks, BitNode
<1>18. n0 = Bit!AddLeaf(a0, b0, v, 0) /\ n1 = Bit!AddLeaf(a1, b1, v, 0)
  BY <1>10, <1>11, <1>12
<1>. HIDE DEF a0, a1, b0, b1, n0, n1, alpha
<1>19. /\ b0.t # b1.t => (n0 + n1) % 2 = (((a0 + a1) % 2) + c0 + c1 + last) % 2
       /\ b0 = b1 => (n0 + n1) % 2 = (a0 + a1) % 2
  <2>. DEFINE m0 == Bit!AddLeaf(a0, b0, v, 0)
              m1 == Bit!AddLeaf(a1, b1, v, 0)
  <2>1. v[Depth + 1] = last /\ v[Depth + 1] \in Binary BY <1>6, <1>7
  <2>2. /\ b0.t # b1.t => (m0 + m1) % 2 = (((a0 + a1) % 2) + c0 + c1 + v[Depth + 1]) % 2
        /\ b0 = b1 => (m0 + m1) % 2 = (a0 + a1) % 2
    BY <1>17, <2>1, BitPairLeaf
  <2>3. n0 = m0 /\ n1 = m1 BY <1>18
  <2>. HIDE DEF m0, m1, c0, c1
  <2>. QED BY <2>1, <2>2, <2>3
<1>20. CASE r = x
  <2>1. b0 = leaf[0] /\ b1 = leaf[1] BY <1>16, <1>20 DEF b0, b1
  <2>2. b0.t # b1.t BY <1>4, <2>1
  <2>3. (a0 + a1) % 2 = alpha BY <1>15, <1>20 DEF a0, a1, alpha
  <2>4. last = (c0 + c1 + alpha) % 2 BY <1>6, <2>1 DEF alpha
  <2>5. c0 \in Binary /\ c1 \in Binary
    <3>1. 0 \in Side BY DEF Side
    <3>. QED BY <1>17, <3>1, BitValues
  <2>6. alpha \in Binary BY <1>5 DEF alpha
  <2>. HIDE DEF c0, c1
  <2>7. (n0 + n1) % 2 = (alpha + c0 + c1 + last) % 2 BY <1>19, <2>2, <2>3
  <2>8. (n0 + n1) % 2 = 0 BY <2>4, <2>5, <2>6, <2>7 DEF Binary
  <2>. QED BY <1>1, <1>20, <2>8 DEF n0, n1
<1>21. CASE r # x
  <2>1. b0 = b1 BY <1>16, <1>21 DEF b0, b1
  <2>2. (a0 + a1) % 2 = IF r < x THEN 1 - gt ELSE gt BY <1>15, <1>21 DEF a0, a1
  <2>3. (n0 + n1) % 2 = IF r < x THEN 1 - gt ELSE gt BY <1>19, <2>1, <2>2
  <2>. QED BY <1>1, <1>21, <2>3 DEF n0, n1
<1>. QED BY <1>20, <1>21

\* Comparisons that give a single bit add up, in every state.
LEMMA BitsInEveryState == Inv => BitsAddUp
<1>. SUFFICES ASSUME Inv, \A p \in Party : stage[p] = "nokey" /\ wire[p] # <<>>,
                     query.kind = "range", NEW gt \in {0, 1}, NEW d \in Draws,
                     NEW r \in 0 .. NumLeaves - 1
              PROVE  LET k == BitKeyGen(query.left, gt, d[1])
                     IN  (BitEval(r, k[0]) + BitEval(r, k[1])) % 2
                           = IF (IF gt = 1 THEN r > query.left ELSE r < query.left) THEN 1 ELSE 0
  BY DEF BitsAddUp
<1>1. query \in Queries \cup {NoQuery} BY DEF Inv, Typing
<1>2. query \in RangeQuery
  <2>1. query # NoQuery BY DEF NoQuery
  <2>2. query \in PointQuery => query.kind = "point" BY DEF PointQuery
  <2>. QED BY <1>1, <2>1, <2>2, TableAssumption
<1> DEFINE x == query.left
           draw == d[1]
<1>3. x \in 0 .. NumLeaves - 1 BY <1>2 DEF RangeQuery
<1>4. draw \in RootPair BY TableAssumption DEF RootPair
<1>5. gt \in Side BY DEF Side
<1>6. NumLeaves \in Nat BY FssAssumption, PowerOfTwo DEF NumLeaves
<1> DEFINE sum == LET k == BitKeyGen(x, gt, draw) IN (BitEval(r, k[0]) + BitEval(r, k[1])) % 2
<1>. HIDE DEF x, draw
<1>7. sum = IF r = x THEN 0 ELSE IF r < x THEN 1 - gt ELSE gt
  BY <1>3, <1>4, <1>5, BitComparisonCorrect
<1>. HIDE DEF sum
<1>8. sum = IF (IF gt = 1 THEN r > x ELSE r < x) THEN 1 ELSE 0 BY <1>3, <1>6, <1>7
<1>. QED BY <1>8 DEF sum, x, draw

\* The outcomes of the two parties add up to 1 on the selected rows and to 0 on the
\* others, their MACs to alpha and 0, and so do comparisons that give a single bit.
THEOREM RowsAlways == Spec => []RowsAddUp
<1>1. Inv => RowsAddUp BY InvValues, BitsInEveryState DEF RowsAddUp
<1>. QED BY <1>1, InvAlways, PTL

=============================================================================
