---------------------------- MODULE AggTreeProofs ----------------------------
(***************************************************************************)
(* That the aggregate tree keeps what Tree.cpp promises, for every depth,  *)
(* every aggregate, every sequence of values and every number of rollups.  *)
(* The argument: after some rollups, which have moved the indices by s,    *)
(* the node at path p below the root's children covers the indices from    *)
(* First(p) + s on, as many as there are leaves below p, and its fields    *)
(* follow from that and from the number of values, except in the oldest    *)
(* quarter, where nodes are as they were when they came to lie there.      *)
(***************************************************************************)
EXTENDS AggTree, FiniteSetTheorems, SequenceTheorems, TLAPS

Path(n) == [1 .. n -> Side]

\* The leaves below a node of level n
Span(n) == 2 ^ (maxDepth - 1 - n)

Quarter == Span(2)

\* computeAggregate and Total, of a given aggregate and sequence
Agg(fn, a, b) ==
  CASE a = NoVal -> b
    [] a # NoVal /\ b = NoVal -> a
    [] a # NoVal /\ b # NoVal /\ fn = "sum" -> a + b
    [] a # NoVal /\ b # NoVal /\ fn = "mx" -> greatest(a, b)
    [] a # NoVal /\ b # NoVal /\ fn = "mn" -> least(a, b)

Tot(fn, lg, l, r) ==
  LET total[i \in l - 1 .. r] ==
        IF i = l - 1 THEN NoVal ELSE Agg(fn, total[i - 1], lg[i])
  IN  total[r]

\* The end of the left half, or of the first pair, sets midIdx.
MidFrom(F, m) == F + greatest(1, m \div 2 - 1)

\* The node of m leaves that covers the indices from F on
NodeAt(fn, lg, F, m) ==
  LET n == Len(lg)
  IN  IF F > n THEN EmptyNode
      ELSE [leftIdx  |-> F,
            midIdx   |-> IF m = 1 THEN F
                         ELSE IF n >= MidFrom(F, m) THEN F + m \div 2 ELSE Unset,
            rightIdx |-> IF n >= F + m - 1 THEN F + m - 1 ELSE Unset,
            aggVal   |-> Tot(fn, lg, F, least(n, F + m - 1))]

\* The paths of the tree: of the leaves those that are filled
Places(s, n) == {p \in PathsTo(maxDepth - 1) : Len(p) = maxDepth - 1 => First(p) + s <= n}

\* The oldest quarter
Old(p) == Len(p) >= 2 /\ p[1] = "L" /\ p[2] = "L"

Regular(p, s) == s = 0 \/ (Len(p) >= 2 /\ ~Old(p))

\* After a rollup: the end of the root and of its right child
TopRight(s, n) == IF n = s + 3 * Quarter \/ n = s + 4 * Quarter THEN n ELSE Unset

Root(fn, lg, s) ==
  [leftIdx |-> 1, midIdx |-> s + 2 * Quarter, rightIdx |-> TopRight(s, Len(lg)),
   aggVal |-> Tot(fn, lg, 1, Len(lg))]

RootLeft(fn, lg, s) ==
  [leftIdx |-> 1, midIdx |-> s + Quarter + 1, rightIdx |-> s + 2 * Quarter,
   aggVal |-> Tot(fn, lg, 1, s + 2 * Quarter)]

RootRight(fn, lg, s) ==
  [leftIdx |-> s + 2 * Quarter + 1, midIdx |-> s + 3 * Quarter,
   rightIdx |-> TopRight(s, Len(lg)),
   aggVal |-> Tot(fn, lg, s + 2 * Quarter + 1, Len(lg))]

\* The children of a node split its indices.
Split(t, p) ==
  LET l == p \o <<"L">>
      r == p \o <<"R">>
  IN  r \in DOMAIN t /\ t[r].leftIdx # Unset =>
        /\ t[l].leftIdx = t[p].leftIdx
        /\ t[r].leftIdx = t[l].rightIdx + 1
        /\ t[p].midIdx \in {t[l].rightIdx, t[r].leftIdx}

\* A node that is filled keeps its values.
Filled(fn, lg, t, p) ==
  /\ t[p].leftIdx \in 1 .. Len(lg) /\ t[p].rightIdx \in t[p].leftIdx .. Len(lg)
  /\ t[p].midIdx \in Index
  /\ t[p].aggVal = Tot(fn, lg, t[p].leftIdx, t[p].rightIdx)
  /\ t[p] = [leftIdx |-> t[p].leftIdx, midIdx |-> t[p].midIdx,
             rightIdx |-> t[p].rightIdx, aggVal |-> t[p].aggVal]

OldPart(fn, lg, s, t) ==
  /\ t[<<"L", "L">>].leftIdx = 1 /\ t[<<"L", "L">>].rightIdx = s + Quarter
  /\ \A p \in DOMAIN t : Old(p) => Filled(fn, lg, t, p) /\ Split(t, p)

Shape(fn, lg, s, t) ==
  /\ s \in 0 .. MaxAppends /\ (s = 0 \/ s >= Quarter)
  /\ Len(lg) <= s + NumLeaves /\ (s # 0 => Len(lg) >= s + 3 * Quarter)
  /\ DOMAIN t = Places(s, Len(lg))
  /\ t = [p \in DOMAIN t |-> t[p]]
  /\ \A p \in DOMAIN t : Regular(p, s) => t[p] = NodeAt(fn, lg, First(p) + s, Span(Len(p)))
  /\ s # 0 =>
       /\ t[<<>>] = Root(fn, lg, s)
       /\ t[<<"L">>] = RootLeft(fn, lg, s)
       /\ t[<<"R">>] = RootRight(fn, lg, s)
       /\ OldPart(fn, lg, s, t)

LogOK == log \in Seq(Nat) /\ \A i \in DOMAIN log : log[i] \in Values(i)

IInv ==
  /\ aggFunc \in {"sum", "mx", "mn"} /\ LogOK
  /\ Len(log) <= MaxAppends + NumLeaves
  /\ \E s \in 0 .. MaxAppends :
        /\ Shape(aggFunc, log, s, tree)
        /\ s # 0 => Len(log) > s + 3 * Quarter

-----------------------------------------------------------------------------
(* Induction, recursion and powers of two.                                 *)

\* A set with 0 that is closed under adding 1 has all natural numbers.
LEMMA NatSet ==
  ASSUME NEW S, 0 \in S, \A n \in Nat : n \in S => n + 1 \in S
  PROVE  Nat \subseteq S
<1>. SUFFICES ASSUME NEW n \in Nat, n \notin S PROVE FALSE
  OBVIOUS
<1> DEFINE U == S \cap (0 .. n)
           V == U \ {0}
           f == [x \in U |-> x + 1]
<1>1. IsFiniteSet(0 .. n) BY FS_Interval
<1>2. IsFiniteSet(U) BY <1>1, FS_Subset
<1>3. 0 \in U OBVIOUS
<1>4. /\ IsFiniteSet(V) /\ Cardinality(V) = Cardinality(U) - 1
      /\ Cardinality(U) \in Nat
  BY <1>2, <1>3, FS_RemoveElement, FS_CardinalityType
<1>5. f \in [U -> V]
  <2>. SUFFICES ASSUME NEW x \in U PROVE x + 1 \in V
    OBVIOUS
  <2>1. x \in Nat /\ x # n /\ x <= n OBVIOUS
  <2>. QED BY <2>1
<1>6. \A x, y \in U : f[x] = f[y] => x = y OBVIOUS
<1>. HIDE DEF U, V, f
<1>7. Cardinality(V) < Cardinality(U) BY <1>4
<1>8. \E x, y \in U : x # y /\ f[x] = f[y]
  BY <1>2, <1>4, <1>5, <1>7, FS_PigeonHole
<1>. QED BY <1>6, <1>8

\* The same up to a bound: what holds at the root and goes down a level holds at all levels.
LEMMA IntervalInduction ==
  ASSUME NEW d \in Nat, NEW S, 0 \in S, \A i \in 1 .. d : i - 1 \in S => i \in S
  PROVE  \A i \in 0 .. d : i \in S
<1> DEFINE H == {n \in Nat : n \in 0 .. d => n \in S}
<1>1. 0 \in H OBVIOUS
<1>2. \A n \in Nat : n \in H => n + 1 \in H
  <2>. SUFFICES ASSUME NEW n \in Nat, n \in H, n + 1 \in 0 .. d PROVE n + 1 \in S
    OBVIOUS
  <2>1. n \in S /\ n + 1 \in 1 .. d /\ (n + 1) - 1 = n OBVIOUS
  <2>. QED BY <2>1
<1>3. Nat \subseteq H
  <2>. HIDE DEF H
  <2>. QED BY <1>1, <1>2, NatSet
<1>. QED BY <1>3

\* For each of d steps the function by which it makes one member of T of another.
Steps(d, T) == [1 .. d -> [T -> T]]

\* The functions that start with a and take these steps.
Runs(d, T, a, step) ==
  {g \in [0 .. d -> T] : g[0] = a /\ \A i \in 1 .. d : g[i] = step[i][g[i - 1]]}

\* A function may be defined by recursion over its index.
LEMMA Recursion ==
  ASSUME NEW d \in Nat, NEW T, NEW a \in T, NEW step \in Steps(d, T)
  PROVE  \E g : g \in Runs(d, T, a, step)
<1> DEFINE Fits(n, g) == g \in [0 .. n -> T] /\ g[0] = a
                           /\ \A i \in 1 .. n : g[i] = step[i][g[i - 1]]
           S == {n \in Nat : \E g : Fits(n, g)}
<1>0. step \in [1 .. d -> [T -> T]] BY DEF Steps
<1>1. 0 \in S
  <2>. DEFINE g == [i \in 0 .. 0 |-> a]
  <2>1. Fits(0, g) OBVIOUS
  <2>. QED BY <2>1
<1>2. \A n \in 1 .. d : n - 1 \in S => n \in S
  <2>. SUFFICES ASSUME NEW n \in 1 .. d, n - 1 \in S PROVE n \in S
    OBVIOUS
  <2>1. PICK g : Fits(n - 1, g) OBVIOUS
  <2>. DEFINE h == [i \in 0 .. n |-> IF i = n THEN step[n][g[n - 1]] ELSE g[i]]
  <2>2. g[n - 1] \in T BY <2>1
  <2>3. step[n][g[n - 1]] \in T BY <1>0, <2>2
  <2>4. h \in [0 .. n -> T] BY <2>1, <2>3
  <2>5. h[0] = a BY <2>1
  <2>6. \A i \in 1 .. n : h[i] = step[i][h[i - 1]]
    <3>. TAKE i \in 1 .. n
    <3>1. h[i - 1] = g[i - 1] OBVIOUS
    <3>2. CASE i = n
      <4>1. h[n] = step[n][g[n - 1]] OBVIOUS
      <4>2. h[n - 1] = g[n - 1] OBVIOUS
      <4>. HIDE DEF h
      <4>. QED BY <3>2, <4>1, <4>2, Zenon
    <3>3. CASE i # n
      <4>1. i \in 1 .. n - 1 /\ h[i] = g[i] BY <3>3
      <4>. QED BY <2>1, <3>1, <4>1
    <3>. QED BY <3>2, <3>3
  <2>. HIDE DEF h
  <2>7. Fits(n, h) /\ n \in Nat BY <2>4, <2>5, <2>6
  <2>. HIDE DEF Fits
  <2>. QED BY <2>7
<1>3. d \in S
  <2>. HIDE DEF S
  <2>1. \A i \in 0 .. d : i \in S BY <1>1, <1>2, IntervalInduction
  <2>. QED BY <2>1
<1>. QED BY <1>3 DEF Runs

\* Powers of two, as the number of subsets.
LEMMA PowerOfTwo ==
  /\ 2 ^ 0 = 1
  /\ \A n \in Nat : 2 ^ n \in Nat \ {0} /\ 2 ^ (n + 1) = 2 * 2 ^ n
<1>1. ASSUME NEW n \in Nat
      PROVE  IsFiniteSet(SUBSET (1 .. n)) /\ Cardinality(SUBSET (1 .. n)) = 2 ^ n
             /\ 2 ^ n \in Nat
  <2>1. IsFiniteSet(1 .. n) /\ Cardinality(1 .. n) = n BY FS_Interval
  <2>. QED BY <2>1, FS_SUBSET, FS_CardinalityType
<1>2. ASSUME NEW n \in Nat PROVE 2 ^ (n + 1) = 2 * 2 ^ n
  <2>. DEFINE A == SUBSET (1 .. n)
              B == {s \cup {n + 1} : s \in A}
              f == [s \in A |-> s \cup {n + 1}]
  <2>1. SUBSET (1 .. n + 1) = A \cup B
    <3>1. 1 .. n + 1 = (1 .. n) \cup {n + 1} OBVIOUS
    <3>2. ASSUME NEW s \in SUBSET (1 .. n + 1) PROVE s \in A \cup B
      <4>1. CASE n + 1 \in s
        <5>1. s \ {n + 1} \in A /\ s = (s \ {n + 1}) \cup {n + 1} BY <3>1, <4>1
        <5>. QED BY <5>1
      <4>2. CASE n + 1 \notin s BY <3>1, <4>2
      <4>. QED BY <4>1, <4>2
    <3>3. ASSUME NEW s \in B PROVE s \in SUBSET (1 .. n + 1) BY <3>1
    <3>. QED BY <3>1, <3>2, <3>3
  <2>2. A \cap B = {}
    <3>1. n + 1 \notin 1 .. n OBVIOUS
    <3>. QED BY <3>1
  <2>3. f \in Bijection(A, B)
    <3>1. n + 1 \notin 1 .. n OBVIOUS
    <3>2. f \in [A -> B] OBVIOUS
    <3>3. \A s, u \in A : f[s] = f[u] => s = u
      <4>. SUFFICES ASSUME NEW s \in A, NEW u \in A, f[s] = f[u] PROVE s = u
        OBVIOUS
      <4>1. s = f[s] \ {n + 1} /\ u = f[u] \ {n + 1} BY <3>1
      <4>. QED BY <4>1
    <3>4. \A b \in B : \E s \in A : f[s] = b OBVIOUS
    <3>. HIDE DEF A, B, f
    <3>. QED BY <3>2, <3>3, <3>4 DEF Bijection, Injection, Surjection, IsInjective
  <2>4. IsFiniteSet(A) /\ Cardinality(A) = 2 ^ n /\ 2 ^ n \in Nat BY <1>1
  <2>5. Cardinality(SUBSET (1 .. n + 1)) = 2 ^ (n + 1) BY <1>1
  <2>. HIDE DEF A, B, f
  <2>6. IsFiniteSet(B) /\ Cardinality(B) = Cardinality(A)
    BY <2>3, <2>4, FS_Bijection, Zenon DEF ExistsBijection
  <2>7. Cardinality(A \cup B) = Cardinality(A) + Cardinality(B) - Cardinality(A \cap B)
    BY <2>4, <2>6, FS_Union, Zenon
  <2>8. Cardinality(A \cap B) = 0 BY <2>2, FS_EmptySet
  <2>9. Cardinality(SUBSET (1 .. n + 1)) = 2 ^ n + 2 ^ n BY <2>1, <2>4, <2>6, <2>7, <2>8
  <2>10. 2 ^ (n + 1) = 2 ^ n + 2 ^ n BY <2>5, <2>9, Zenon
  <2>. QED BY <2>4, <2>10
<1>3. 2 ^ 0 = 1 OBVIOUS
<1>4. \A n \in Nat : 2 ^ n # 0
  <2>. DEFINE S == {n \in Nat : 2 ^ n # 0}
  <2>1. 0 \in S BY <1>3
  <2>2. \A n \in Nat : n \in S => n + 1 \in S BY <1>1, <1>2
  <2>3. Nat \subseteq S
    <3>. HIDE DEF S
    <3>. QED BY <2>1, <2>2, NatSet
  <2>. QED BY <2>3
<1>. QED BY <1>1, <1>2, <1>3, <1>4

-----------------------------------------------------------------------------
(* The nodes and the indices below them.                                   *)

\* The leaves below the nodes of a level
LEMMA Spans ==
  /\ \A n \in 0 .. maxDepth - 1 : Span(n) \in Nat \ {0}
  /\ \A n \in 0 .. maxDepth - 2 : Span(n) = 2 * Span(n + 1)
  /\ Span(maxDepth - 1) = 1 /\ Span(0) = NumLeaves
  /\ Span(1) = 2 * Quarter /\ NumLeaves = 4 * Quarter /\ Quarter \in Nat /\ Quarter >= 2
  /\ NumLeaves \in Nat /\ maxDepth \in Nat /\ maxDepth >= 4 /\ MaxAppends \in Nat
<1>0. maxDepth \in Nat /\ maxDepth >= 4 /\ MaxAppends \in Nat
  BY ConstantsAssumption
<1>1. ASSUME NEW n \in 0 .. maxDepth - 1 PROVE Span(n) \in Nat \ {0}
  <2>1. maxDepth - 1 - n \in Nat
    BY <1>0
  <2> QED
    BY <2>1, PowerOfTwo DEF Span
<1>2. ASSUME NEW n \in 0 .. maxDepth - 2 PROVE Span(n) = 2 * Span(n + 1)
  <2> DEFINE m == maxDepth - 1 - (n + 1)
  <2>1. m \in Nat /\ maxDepth - 1 - n = m + 1
    BY <1>0
  <2>2. Span(n) = 2 ^ (m + 1)
    BY <2>1, Zenon DEF Span
  <2>3. 2 ^ (m + 1) = 2 * 2 ^ m
    BY <2>1, PowerOfTwo
  <2> QED
    BY <2>2, <2>3 DEF Span
<1>3. Span(maxDepth - 1) = 1
  <2>1. maxDepth - 1 - (maxDepth - 1) = 0
    BY <1>0
  <2> QED
    BY <2>1, PowerOfTwo, Zenon DEF Span
<1>4. Span(0) = NumLeaves
  <2>1. maxDepth - 1 - 0 = maxDepth - 1
    BY <1>0
  <2> QED
    BY <2>1, Zenon DEF Span, NumLeaves
<1>5. 0 \in 0 .. maxDepth - 2 /\ 1 \in 0 .. maxDepth - 2 /\ 2 \in 0 .. maxDepth - 2
      /\ 0 \in 0 .. maxDepth - 1 /\ 1 \in 0 .. maxDepth - 1 /\ 2 \in 0 .. maxDepth - 1
      /\ 3 \in 0 .. maxDepth - 1
  BY <1>0
<1>6. Span(0) = 2 * Span(1) /\ Span(1) = 2 * Span(2) /\ Span(2) = 2 * Span(3)
  <2>1. Span(0) = 2 * Span(0 + 1) /\ Span(1) = 2 * Span(1 + 1) /\ Span(2) = 2 * Span(2 + 1)
    BY <1>2, <1>5
  <2> QED
    BY <2>1
<1>7. Span(0) \in Nat /\ Span(1) \in Nat /\ Span(2) \in Nat /\ Span(3) \in Nat \ {0}
  BY <1>1, <1>5
<1> HIDE DEF Span
<1>8. Quarter = Span(2)
  BY DEF Quarter
<1>9. Span(1) = 2 * Quarter /\ NumLeaves = 4 * Quarter /\ Quarter \in Nat /\ Quarter >= 2
      /\ NumLeaves \in Nat
  BY <1>4, <1>6, <1>7, <1>8
<1> QED
  BY <1>0, <1>1, <1>2, <1>3, <1>4, <1>9

\* A path of length n is a sequence of n sides.
LEMMA PathType ==
  ASSUME NEW n \in Nat, NEW p \in Path(n)
  PROVE  /\ p \in Seq(Side) /\ Len(p) = n /\ DOMAIN p = 1 .. n
         /\ \A i \in 1 .. n : p[i] \in {"L", "R"}
         /\ p = [i \in 1 .. n |-> p[i]]
<1>1. p \in [1 .. n -> Side]
  BY DEF Path
<1>2. p \in Seq(Side) /\ Len(p) = n
  BY <1>1
<1> QED
  BY <1>1, <1>2 DEF Side

\* Paths with the same sides are the same.
LEMMA PathEqual ==
  ASSUME NEW n \in Nat, NEW p \in Path(n), NEW q \in Path(n), \A i \in 1 .. n : p[i] = q[i]
  PROVE  p = q
<1>1. p = [i \in 1 .. n |-> p[i]] /\ q = [i \in 1 .. n |-> q[i]]
  BY PathType
<1> QED
  BY <1>1

\* The paths of at most d steps, by their lengths.
LEMMA PathsSet ==
  ASSUME NEW d \in Nat
  PROVE  \A p : p \in PathsTo(d) <=> Len(p) \in 0 .. d /\ p \in Path(Len(p))
<1>1. ASSUME NEW p, p \in PathsTo(d) PROVE Len(p) \in 0 .. d /\ p \in Path(Len(p))
  <2>1. PICK n \in 0 .. d : p \in [1 .. n -> Side]
    BY <1>1 DEF PathsTo
  <2>2. p \in Path(n) /\ n \in Nat
    BY <2>1 DEF Path
  <2>3. Len(p) = n
    BY <2>2, PathType
  <2> QED
    BY <2>1, <2>2, <2>3
<1>2. ASSUME NEW p, Len(p) \in 0 .. d, p \in Path(Len(p)) PROVE p \in PathsTo(d)
  BY <1>2 DEF Path, PathsTo
<1> QED
  BY <1>1, <1>2

\* The child of a node
LEMMA Child ==
  ASSUME NEW n \in Nat, NEW p \in Path(n), NEW x \in Side
  PROVE  /\ p \o <<x>> \in Path(n + 1)
         /\ \A i \in 1 .. n : (p \o <<x>>)[i] = p[i]
         /\ (p \o <<x>>)[n + 1] = x
<1>1. p \in Seq(Side) /\ Len(p) = n
  BY PathType
<1>2. <<x>> \in Seq(Side) /\ Len(<<x>>) = 1 /\ <<x>>[1] = x
  OBVIOUS
<1> DEFINE c == p \o <<x>>
<1>3. /\ c \in Seq(Side) /\ Len(c) = n + 1
      /\ \A i \in 1 .. n + 1 : c[i] = IF i <= n THEN p[i] ELSE <<x>>[i - n]
  BY <1>1, <1>2, ConcatProperties
<1>4. c \in [1 .. n + 1 -> Side]
  BY <1>3, LenProperties
<1>5. (n + 1) - n = 1 /\ n + 1 \in 1 .. n + 1 /\ ~(n + 1 <= n)
  OBVIOUS
<1>6. c[n + 1] = x
  BY <1>2, <1>3, <1>5
<1> QED
  BY <1>3, <1>4, <1>6 DEF Path

\* The node above on the way to the root
LEMMA Prefix ==
  ASSUME NEW n \in Nat, NEW p \in Path(n), NEW m \in 0 .. n
  PROVE  /\ SubSeq(p, 1, m) \in Path(m)
         /\ \A i \in 1 .. m : SubSeq(p, 1, m)[i] = p[i]
         /\ Len(SubSeq(p, 1, m)) = m
<1>1. p \in Seq(Side) /\ Len(p) = n /\ \A i \in 1 .. n : p[i] \in Side
  BY PathType DEF Side
<1> DEFINE q == SubSeq(p, 1, m)
<1>2. Len(q) = m /\ \A i \in 1 .. m : q[i] = p[i]
  <2>1. q = [i \in 1 .. m |-> p[i]]
    BY <1>1
  <2> QED
    BY <2>1
<1>3. q \in [1 .. m -> Side]
  <2>1. q = [i \in 1 .. m |-> p[i]]
    BY <1>1
  <2>2. \A i \in 1 .. m : i \in 1 .. n
    OBVIOUS
  <2>3. \A i \in 1 .. m : p[i] \in Side
    BY <1>1, <2>2
  <2> QED
    BY <2>1, <2>3
<1> QED
  BY <1>2, <1>3 DEF Path

\* A path is its own longest prefix.
LEMMA PrefixAll ==
  ASSUME NEW n \in Nat, NEW p \in Path(n)
  PROVE  SubSeq(p, 1, n) = p /\ SubSeq(p, 1, 0) = <<>>
<1>1. SubSeq(p, 1, n) \in Path(n) /\ \A i \in 1 .. n : SubSeq(p, 1, n)[i] = p[i]
  BY Prefix
<1>2. SubSeq(p, 1, 0) \in Path(0)
  BY Prefix
<1>3. <<>> \in Path(0)
  BY DEF Path
<1>4. SubSeq(p, 1, n) = p
  BY <1>1, PathEqual
<1>5. \A i \in 1 .. 0 : SubSeq(p, 1, 0)[i] = <<>>[i]
  OBVIOUS
<1>6. SubSeq(p, 1, 0) = <<>>
  BY <1>2, <1>3, <1>5, PathEqual
<1> QED
  BY <1>4, <1>6

\* A prefix is the next shorter one with one side more.
LEMMA PrefixStep ==
  ASSUME NEW n \in Nat, NEW p \in Path(n), NEW m \in 0 .. n - 1
  PROVE  SubSeq(p, 1, m + 1) = SubSeq(p, 1, m) \o <<p[m + 1]>>
<1>1. m + 1 \in 0 .. n /\ m \in 0 .. n /\ m + 1 \in Nat /\ m \in Nat /\ p[m + 1] \in Side
  BY PathType DEF Side
<1>2. SubSeq(p, 1, m + 1) \in Path(m + 1) /\ \A i \in 1 .. m + 1 : SubSeq(p, 1, m + 1)[i] = p[i]
  BY <1>1, Prefix
<1>3. SubSeq(p, 1, m) \in Path(m) /\ \A i \in 1 .. m : SubSeq(p, 1, m)[i] = p[i]
  BY <1>1, Prefix
<1> DEFINE q == SubSeq(p, 1, m)
           c == q \o <<p[m + 1]>>
<1>4. c \in Path(m + 1) /\ (\A i \in 1 .. m : c[i] = q[i]) /\ c[m + 1] = p[m + 1]
  BY <1>1, <1>3, Child
<1>5. \A i \in 1 .. m + 1 : c[i] = p[i]
  BY <1>1, <1>3, <1>4
<1> QED
  BY <1>1, <1>2, <1>4, <1>5, PathEqual

\* A prefix of a prefix is a prefix.
LEMMA PrefixPrefix ==
  ASSUME NEW n \in Nat, NEW p \in Path(n), NEW m \in 0 .. n, NEW k \in 0 .. m
  PROVE  SubSeq(SubSeq(p, 1, m), 1, k) = SubSeq(p, 1, k)
<1>1. k \in 0 .. n /\ m \in Nat /\ k \in Nat
  OBVIOUS
<1>2. SubSeq(p, 1, m) \in Path(m) /\ \A i \in 1 .. m : SubSeq(p, 1, m)[i] = p[i]
  BY Prefix
<1>3. /\ SubSeq(SubSeq(p, 1, m), 1, k) \in Path(k)
      /\ \A i \in 1 .. k : SubSeq(SubSeq(p, 1, m), 1, k)[i] = SubSeq(p, 1, m)[i]
  BY <1>1, <1>2, Prefix
<1>4. SubSeq(p, 1, k) \in Path(k) /\ \A i \in 1 .. k : SubSeq(p, 1, k)[i] = p[i]
  BY <1>1, Prefix
<1>5. \A i \in 1 .. k : SubSeq(SubSeq(p, 1, m), 1, k)[i] = SubSeq(p, 1, k)[i]
  BY <1>2, <1>3, <1>4
<1> QED
  BY <1>1, <1>3, <1>4, <1>5, PathEqual

\* A child's prefixes
LEMMA ChildPrefix ==
  ASSUME NEW n \in Nat, NEW p \in Path(n), NEW x \in Side, NEW m \in 0 .. n
  PROVE  SubSeq(p \o <<x>>, 1, m) = SubSeq(p, 1, m)
<1>1. p \o <<x>> \in Path(n + 1) /\ \A i \in 1 .. n : (p \o <<x>>)[i] = p[i]
  BY Child
<1>2. n + 1 \in Nat /\ m \in 0 .. n + 1 /\ m \in Nat
  OBVIOUS
<1>3. /\ SubSeq(p \o <<x>>, 1, m) \in Path(m)
      /\ \A i \in 1 .. m : SubSeq(p \o <<x>>, 1, m)[i] = (p \o <<x>>)[i]
  BY <1>1, <1>2, Prefix
<1>4. SubSeq(p, 1, m) \in Path(m) /\ \A i \in 1 .. m : SubSeq(p, 1, m)[i] = p[i]
  BY Prefix
<1>5. ASSUME NEW i \in 1 .. m PROVE SubSeq(p \o <<x>>, 1, m)[i] = SubSeq(p, 1, m)[i]
  <2>1. i \in 1 .. n
    OBVIOUS
  <2>2. SubSeq(p \o <<x>>, 1, m)[i] = (p \o <<x>>)[i] /\ (p \o <<x>>)[i] = p[i]
    BY <1>1, <1>3, <2>1
  <2> QED
    BY <1>4, <2>2
<1> QED
  BY <1>2, <1>3, <1>4, <1>5, PathEqual

\* How far the n-th side of a path goes to the right
Turn(p, n) == IF p[n] = "L" THEN 0 ELSE Span(n)

\* First sums up the turns.
LEMMA FirstSums ==
  ASSUME NEW n \in 0 .. maxDepth - 1, NEW p \in Path(n), NEW g \in [0 .. n -> Nat],
         g[0] = 1, \A i \in 1 .. n : g[i] = g[i - 1] + Turn(p, i)
  PROVE  First(p) = g[n]
<1> DEFINE first == CHOOSE f : f = [i \in 0 .. n |->
             IF i = 0 THEN 1
             ELSE f[i - 1] + (IF p[i] = "L" THEN 0 ELSE 2 ^ (maxDepth - 1 - i))]
<1>1. n \in Nat /\ Len(p) = n
  <2>1. n \in Nat
    BY Spans
  <2> QED
    BY <2>1, PathType
<1>2. First(p) = first[n]
  BY <1>1 DEF First
<1>3. g = [i \in 0 .. n |->
             IF i = 0 THEN 1
             ELSE g[i - 1] + (IF p[i] = "L" THEN 0 ELSE 2 ^ (maxDepth - 1 - i))]
  <2>1. \A i \in 0 .. n : i # 0 => i \in 1 .. n
    BY <1>1
  <2>2. \A i \in 1 .. n :
          g[i] = g[i - 1] + (IF p[i] = "L" THEN 0 ELSE 2 ^ (maxDepth - 1 - i))
    BY DEF Turn, Span
  <2> QED
    BY <2>1, <2>2
<1>4. first = [i \in 0 .. n |->
             IF i = 0 THEN 1
             ELSE first[i - 1] + (IF p[i] = "L" THEN 0 ELSE 2 ^ (maxDepth - 1 - i))]
  BY <1>3
<1> HIDE DEF first
<1>5. first[0] = 1 /\ \A i \in 1 .. n : first[i] = first[i - 1] + Turn(p, i)
  <2>1. \A i \in 0 .. n : first[i] =
             IF i = 0 THEN 1
             ELSE first[i - 1] + (IF p[i] = "L" THEN 0 ELSE 2 ^ (maxDepth - 1 - i))
    BY <1>4, Zenon
  <2>2. \A i \in 1 .. n : i \in 0 .. n /\ i # 0
    BY <1>1
  <2>3. \A i \in 1 .. n :
          first[i] = first[i - 1] + (IF p[i] = "L" THEN 0 ELSE 2 ^ (maxDepth - 1 - i))
    BY <2>1, <2>2, Zenon
  <2>4. first[0] = 1
    BY <1>1, <2>1
  <2> QED
    BY <2>3, <2>4, Zenon DEF Turn, Span
<1> DEFINE S == {i \in 0 .. n : first[i] = g[i]}
<1>6. 0 \in S
  BY <1>1, <1>5
<1>7. \A i \in 1 .. n : i - 1 \in S => i \in S
  BY <1>1, <1>5
<1>8. \A i \in 0 .. n : i \in S
  <2> HIDE DEF S
  <2> QED
    BY <1>1, <1>6, <1>7, IntervalInduction
<1> QED
  BY <1>1, <1>2, <1>8

\* First goes down the path one level at a time.
LEMMA FirstLevels ==
  ASSUME NEW n \in 0 .. maxDepth - 1, NEW p \in Path(n)
  PROVE  \E g \in [0 .. n -> Nat] :
           /\ g[0] = 1 /\ \A i \in 1 .. n : g[i] = g[i - 1] + Turn(p, i)
           /\ \A m \in 0 .. n : First(SubSeq(p, 1, m)) = g[m]
<1> DEFINE step == [i \in 1 .. n |-> [x \in Nat |-> x + Turn(p, i)]]
<1>0. n \in Nat /\ \A i \in 1 .. n : i \in 0 .. maxDepth - 1
  BY Spans
<1>1. \A i \in 1 .. n : Turn(p, i) \in Nat
  BY <1>0, Spans DEF Turn
<1>2. step \in Steps(n, Nat)
  BY <1>1 DEF Steps
<1> HIDE DEF step
<1>3. PICK g : g \in Runs(n, Nat, 1, step)
  <2>1. 1 \in Nat
    OBVIOUS
  <2> QED
    BY <1>0, <1>2, <2>1, Recursion, Zenon
<1>4. g \in [0 .. n -> Nat] /\ g[0] = 1 /\ \A i \in 1 .. n : g[i] = step[i][g[i - 1]]
  BY <1>3 DEF Runs
<1>5. \A i \in 1 .. n : g[i] = g[i - 1] + Turn(p, i)
  <2> TAKE i \in 1 .. n
  <2>1. i - 1 \in 0 .. n
    BY <1>0
  <2>2. g[i - 1] \in Nat
    BY <1>4, <2>1
  <2>3. step[i][g[i - 1]] = g[i - 1] + Turn(p, i)
    BY <2>2 DEF step
  <2> QED
    BY <1>4, <2>3
<1>6. ASSUME NEW m \in 0 .. n PROVE First(SubSeq(p, 1, m)) = g[m]
  <2> DEFINE h == [i \in 0 .. m |-> g[i]]
             q == SubSeq(p, 1, m)
  <2>1. m \in 0 .. maxDepth - 1 /\ m \in Nat /\ \A i \in 0 .. m : i \in 0 .. n
    BY <1>0, Spans
  <2>2. q \in Path(m) /\ \A i \in 1 .. m : q[i] = p[i]
    BY <1>0, Prefix
  <2>3. h \in [0 .. m -> Nat] /\ h[0] = 1 /\ h[m] = g[m]
    BY <1>4, <2>1
  <2>4. \A i \in 1 .. m : h[i] = h[i - 1] + Turn(q, i)
    <3> TAKE i \in 1 .. m
    <3>1. i \in 1 .. n /\ i \in 0 .. m /\ i - 1 \in 0 .. m
      BY <2>1
    <3>2. Turn(q, i) = Turn(p, i)
      BY <2>2 DEF Turn
    <3>3. g[i] = g[i - 1] + Turn(p, i)
      BY <1>5, <3>1
    <3>4. h[i] = g[i] /\ h[i - 1] = g[i - 1]
      BY <3>1
    <3> QED
      BY <3>2, <3>3, <3>4
  <2> HIDE DEF h, q
  <2>5. First(q) = h[m]
    BY <2>1, <2>2, <2>3, <2>4, FirstSums
  <2> QED
    BY <2>3, <2>5 DEF q
<1> QED
  BY <1>4, <1>5, <1>6

\* Where the children of a node begin
LEMMA FirstChild ==
  ASSUME NEW n \in 0 .. maxDepth - 2, NEW p \in Path(n)
  PROVE  /\ First(p) \in Nat
         /\ First(p \o <<"L">>) = First(p)
         /\ First(p \o <<"R">>) = First(p) + Span(n + 1)
<1>0. n \in Nat /\ n + 1 \in 0 .. maxDepth - 1 /\ n \in 0 .. n + 1 /\ n + 1 \in Nat
      /\ n + 1 \in 0 .. n + 1 /\ n + 1 \in 1 .. n + 1 /\ (n + 1) - 1 = n
  BY Spans
<1>1. ASSUME NEW x \in Side
      PROVE  First(p) \in Nat
             /\ First(p \o <<x>>) = First(p) + (IF x = "L" THEN 0 ELSE Span(n + 1))
  <2> DEFINE c == p \o <<x>>
  <2>1. c \in Path(n + 1) /\ c[n + 1] = x
    BY <1>0, Child
  <2>2. SubSeq(c, 1, n) = p
    <3>1. SubSeq(c, 1, n) = SubSeq(p, 1, n)
      <4>1. n \in 0 .. n
        BY <1>0
      <4> QED
        BY <1>0, <4>1, ChildPrefix
    <3> QED
      BY <1>0, <3>1, PrefixAll
  <2>3. SubSeq(c, 1, n + 1) = c
    BY <1>0, <2>1, PrefixAll
  <2> HIDE DEF c
  <2>4. PICK g \in [0 .. n + 1 -> Nat] :
          /\ g[0] = 1 /\ \A i \in 1 .. n + 1 : g[i] = g[i - 1] + Turn(c, i)
          /\ \A m \in 0 .. n + 1 : First(SubSeq(c, 1, m)) = g[m]
    BY <1>0, <2>1, FirstLevels
  <2>5. First(p) = g[n] /\ First(c) = g[n + 1]
    <3>1. First(SubSeq(c, 1, n)) = g[n] /\ First(SubSeq(c, 1, n + 1)) = g[n + 1]
      BY <1>0, <2>4
    <3> QED
      BY <2>2, <2>3, <3>1
  <2>6. g[n + 1] = g[n] + Turn(c, n + 1)
    BY <1>0, <2>4
  <2>7. Turn(c, n + 1) = IF x = "L" THEN 0 ELSE Span(n + 1)
    BY <2>1 DEF Turn
  <2>8. g[n] \in Nat
    BY <1>0, <2>4
  <2> QED
    BY <2>5, <2>6, <2>7, <2>8 DEF c
<1>2. First(p) \in Nat /\ First(p \o <<"L">>) = First(p) + 0
  BY <1>1 DEF Side
<1>3. First(p \o <<"R">>) = First(p) + Span(n + 1)
  BY <1>1 DEF Side
<1> QED
  BY <1>2, <1>3

\* The root begins at the first leaf.
LEMMA FirstRoot == First(<<>>) = 1
<1>1. <<>> \in Path(0)
  BY DEF Path
<1>2. 0 \in 0 .. maxDepth - 1
  BY Spans
<1> DEFINE g == [i \in 0 .. 0 |-> 1]
<1>3. g \in [0 .. 0 -> Nat] /\ g[0] = 1
  OBVIOUS
<1>4. \A i \in 1 .. 0 : g[i] = g[i - 1] + Turn(<<>>, i)
  OBVIOUS
<1> HIDE DEF g
<1> QED
  BY <1>1, <1>2, <1>3, <1>4, FirstSums

\* The node of level m above a path, and the indices below both
Above(p, m) == SubSeq(p, 1, m)

\* A node's indices are some of those of the node above, in its left or right half
\* as the path goes.
LEMMA Halves ==
  ASSUME NEW n \in 0 .. maxDepth - 1, NEW p \in Path(n), NEW m \in 0 .. n - 1
  PROVE  /\ First(Above(p, m + 1)) =
              First(Above(p, m)) + (IF p[m + 1] = "L" THEN 0 ELSE Span(m + 1))
         /\ First(Above(p, m)) \in Nat /\ First(Above(p, m + 1)) \in Nat
         /\ Span(m) = 2 * Span(m + 1) /\ Span(m + 1) \in Nat \ {0} /\ Span(m) \in Nat \ {0}
<1>1. n \in Nat /\ m \in 0 .. n /\ m + 1 \in 0 .. n /\ m \in 0 .. maxDepth - 2
      /\ m + 1 \in 0 .. maxDepth - 1 /\ m \in 0 .. maxDepth - 1 /\ m + 1 \in 1 .. n
      /\ m \in Nat
  BY Spans
<1>2. Above(p, m) \in Path(m)
  BY <1>1, Prefix DEF Above
<1>3. Above(p, m + 1) = Above(p, m) \o <<p[m + 1]>>
  BY <1>1, PrefixStep DEF Above
<1>4. p[m + 1] = "L" \/ p[m + 1] = "R"
  BY <1>1, PathType
<1> DEFINE q == Above(p, m)
<1>5. First(q) \in Nat /\ First(q \o <<"L">>) = First(q)
      /\ First(q \o <<"R">>) = First(q) + Span(m + 1)
  BY <1>1, <1>2, FirstChild
<1>6. Span(m) = 2 * Span(m + 1) /\ Span(m + 1) \in Nat \ {0} /\ Span(m) \in Nat \ {0}
  BY <1>1, Spans
<1>7. CASE p[m + 1] = "L"
  <2>1. Above(p, m + 1) = q \o <<"L">>
    BY <1>3, <1>7, Zenon
  <2>2. First(Above(p, m + 1)) = First(q)
    BY <1>5, <2>1, Zenon
  <2> QED
    BY <1>5, <1>6, <1>7, <2>2
<1>8. CASE p[m + 1] = "R"
  <2>1. Above(p, m + 1) = q \o <<"R">>
    BY <1>3, <1>8, Zenon
  <2>2. First(Above(p, m + 1)) = First(q) + Span(m + 1)
    BY <1>5, <2>1, Zenon
  <2> QED
    BY <1>5, <1>6, <1>8, <2>2
<1> QED
  BY <1>4, <1>7, <1>8

\* Covers(p, n, i): i is below the node p of level n.
Covers(p, n, i) == First(p) <= i /\ i < First(p) + Span(n)

\* The leaves below a node are among those below each node above it.
LEMMA Nested ==
  ASSUME NEW n \in 0 .. maxDepth - 1, NEW p \in Path(n), NEW m \in 0 .. n
  PROVE  /\ First(Above(p, m)) \in Nat /\ First(p) \in Nat
         /\ First(Above(p, m)) <= First(p)
         /\ First(p) + Span(n) <= First(Above(p, m)) + Span(m)
<1>0. n \in Nat /\ m \in Nat /\ n - m \in Nat /\ Above(p, n) = p
  BY Spans, PrefixAll DEF Above
<1> DEFINE In(k) == /\ First(Above(p, k)) \in Nat /\ First(p) \in Nat
                    /\ First(Above(p, k)) <= First(p)
                    /\ First(p) + Span(n) <= First(Above(p, k)) + Span(k)
           S == {j \in Nat : j <= n - m => In(n - j)}
<1>1. 0 \in S
  <2>1. First(p) \in Nat /\ Span(n) \in Nat
    <3>1. PICK g \in [0 .. n -> Nat] : \A k \in 0 .. n : First(SubSeq(p, 1, k)) = g[k]
      BY FirstLevels
    <3>2. First(p) = g[n]
      <4>1. n \in 0 .. n
        BY <1>0
      <4>2. First(SubSeq(p, 1, n)) = g[n]
        BY <3>1, <4>1
      <4>3. SubSeq(p, 1, n) = p
        BY <1>0 DEF Above
      <4> QED
        BY <4>2, <4>3
    <3> QED
      BY <1>0, <3>1, <3>2, Spans
  <2>2. n - 0 = n
    BY <1>0
  <2>3. In(n)
    BY <1>0, <2>1
  <2> QED
    BY <2>2, <2>3
<1>2. \A j \in Nat : j \in S => j + 1 \in S
  <2> SUFFICES ASSUME NEW j \in Nat, j \in S, j + 1 <= n - m PROVE In(n - (j + 1))
    OBVIOUS
  <2> DEFINE k == n - (j + 1)
  <2>1. k \in 0 .. n - 1 /\ n - j = k + 1
    BY <1>0
  <2>2. In(k + 1)
    <3>1. j <= n - m
      BY <1>0
    <3>2. In(n - j)
      BY <3>1
    <3> QED
      BY <2>1, <3>2
  <2> HIDE DEF k
  <2>3. /\ First(Above(p, k + 1)) =
              First(Above(p, k)) + (IF p[k + 1] = "L" THEN 0 ELSE Span(k + 1))
        /\ First(Above(p, k)) \in Nat /\ First(Above(p, k + 1)) \in Nat
        /\ Span(k) = 2 * Span(k + 1) /\ Span(k + 1) \in Nat \ {0} /\ Span(k) \in Nat \ {0}
    BY <2>1, Halves
  <2>4. Span(n) \in Nat
    BY Spans
  <2>5. In(k)
    BY <2>2, <2>3, <2>4
  <2> QED
    BY <2>5 DEF k
<1>3. Nat \subseteq S
  <2> HIDE DEF S
  <2> QED
    BY <1>1, <1>2, NatSet
<1>4. In(n - (n - m))
  BY <1>0, <1>3
<1>5. n - (n - m) = m
  BY <1>0
<1> QED
  BY <1>4, <1>5

\* Nodes lie within the tree.
LEMMA FirstRange ==
  ASSUME NEW n \in 0 .. maxDepth - 1, NEW p \in Path(n)
  PROVE  First(p) \in Nat /\ First(p) >= 1 /\ First(p) + Span(n) <= NumLeaves + 1
<1>1. 0 \in 0 .. n /\ n \in Nat
  BY Spans
<1>2. Above(p, 0) = <<>>
  BY <1>1, PrefixAll DEF Above
<1>3. /\ First(Above(p, 0)) <= First(p) /\ First(p) \in Nat
      /\ First(p) + Span(n) <= First(Above(p, 0)) + Span(0)
  BY <1>1, Nested
<1>4. First(Above(p, 0)) = 1
  BY <1>2, FirstRoot
<1>5. Span(0) = NumLeaves /\ NumLeaves \in Nat /\ Span(n) \in Nat
  BY Spans
<1> QED
  BY <1>3, <1>4, <1>5

\* A path to an index passes through every node above it: there is one such node at
\* every level.
LEMMA OneAbove ==
  ASSUME NEW n \in 0 .. maxDepth - 1, NEW p \in Path(n), NEW q \in Path(n), NEW i \in Nat,
         Covers(p, n, i), Covers(q, n, i)
  PROVE  p = q
<1>0. n \in Nat
  BY Spans
<1> DEFINE S == {k \in 0 .. n : Above(p, k) = Above(q, k)}
<1>1. 0 \in S
  BY <1>0, PrefixAll DEF Above
<1>2. \A k \in 1 .. n : k - 1 \in S => k \in S
  <2> SUFFICES ASSUME NEW k \in 1 .. n, k - 1 \in S PROVE k \in S
    OBVIOUS
  <2> DEFINE m == k - 1
             u == Above(p, m)
  <2>1. m \in 0 .. n - 1 /\ k = m + 1 /\ k \in 0 .. n
    BY <1>0
  <2>2. Above(p, m) = Above(q, m)
    OBVIOUS
  <2> HIDE DEF m
  <2>3. /\ Covers(Above(p, m + 1), m + 1, i) /\ Covers(Above(q, m + 1), m + 1, i)
    <3>1. /\ First(Above(p, k)) \in Nat /\ First(p) \in Nat
          /\ First(Above(p, k)) <= First(p)
          /\ First(p) + Span(n) <= First(Above(p, k)) + Span(k)
      BY <2>1, Nested
    <3>2. /\ First(Above(q, k)) \in Nat /\ First(q) \in Nat
          /\ First(Above(q, k)) <= First(q)
          /\ First(q) + Span(n) <= First(Above(q, k)) + Span(k)
      BY <2>1, Nested
    <3>3. Span(n) \in Nat /\ Span(k) \in Nat
      BY <1>0, <2>1, Spans
    <3> QED
      BY <2>1, <3>1, <3>2, <3>3 DEF Covers
  <2>4. /\ First(Above(p, m + 1)) =
              First(Above(p, m)) + (IF p[m + 1] = "L" THEN 0 ELSE Span(m + 1))
        /\ First(Above(p, m)) \in Nat
        /\ Span(m + 1) \in Nat \ {0}
    BY <2>1, Halves
  <2>5. First(Above(q, m + 1)) =
              First(Above(q, m)) + (IF q[m + 1] = "L" THEN 0 ELSE Span(m + 1))
    BY <2>1, Halves
  <2>6. p[m + 1] \in {"L", "R"} /\ q[m + 1] \in {"L", "R"}
    BY <1>0, <2>1, PathType
  <2>7. p[m + 1] = q[m + 1]
    BY <2>2, <2>3, <2>4, <2>5, <2>6 DEF Covers
  <2>8. Above(p, m + 1) = Above(p, m) \o <<p[m + 1]>>
        /\ Above(q, m + 1) = Above(q, m) \o <<q[m + 1]>>
    BY <1>0, <2>1, PrefixStep DEF Above
  <2> QED
    BY <2>1, <2>2, <2>7, <2>8
<1>3. n \in S
  <2> HIDE DEF S
  <2>1. \A k \in 0 .. n : k \in S
    BY <1>0, <1>1, <1>2, IntervalInduction
  <2> QED
    BY <1>0, <2>1
<1> QED
  BY <1>0, <1>3, PrefixAll DEF Above

\* There is a leaf for every index.
LEMMA LeafOf ==
  ASSUME NEW i \in 1 .. NumLeaves
  PROVE  \E p \in Path(maxDepth - 1) : First(p) = i
<1> DEFINE d == maxDepth - 1
           S == {n \in 0 .. d : \E p \in Path(n) : Covers(p, n, i)}
<1>0. d \in Nat /\ maxDepth \in Nat /\ NumLeaves \in Nat
  BY Spans
<1>1. 0 \in S
  <2>1. <<>> \in Path(0)
    BY DEF Path
  <2>2. Covers(<<>>, 0, i)
    BY <1>0, FirstRoot, Spans DEF Covers
  <2> QED
    BY <1>0, <2>1, <2>2
<1>2. \A n \in 1 .. d : n - 1 \in S => n \in S
  <2> SUFFICES ASSUME NEW n \in 1 .. d, n - 1 \in S PROVE n \in S
    OBVIOUS
  <2> DEFINE m == n - 1
  <2>1. m \in 0 .. maxDepth - 2 /\ n = m + 1 /\ m \in Nat /\ n \in 0 .. d
    BY <1>0
  <2>2. PICK p \in Path(m) : Covers(p, m, i)
    OBVIOUS
  <2> HIDE DEF m, d
  <2>3. /\ First(p) \in Nat /\ First(p \o <<"L">>) = First(p)
        /\ First(p \o <<"R">>) = First(p) + Span(m + 1)
    BY <2>1, FirstChild
  <2>4. p \o <<"L">> \in Path(m + 1) /\ p \o <<"R">> \in Path(m + 1)
    BY <2>1, Child DEF Side
  <2>5. Span(m) = 2 * Span(m + 1) /\ Span(m + 1) \in Nat
    <3>1. m + 1 \in 0 .. maxDepth - 1
      BY <1>0, <2>1
    <3> QED
      BY <2>1, <3>1, Spans
  <2>6. Covers(p \o <<"L">>, m + 1, i) \/ Covers(p \o <<"R">>, m + 1, i)
    BY <1>0, <2>2, <2>3, <2>5 DEF Covers
  <2> QED
    BY <2>1, <2>4, <2>6
<1>3. d \in S
  <2> HIDE DEF S, d
  <2>1. \A n \in 0 .. d : n \in S
    BY <1>0, <1>1, <1>2, IntervalInduction
  <2> QED
    BY <1>0, <2>1
<1>4. PICK p \in Path(d) : Covers(p, d, i)
  BY <1>3
<1>5. First(p) \in Nat /\ Span(d) = 1
  BY <1>0, FirstRange, Spans
<1>6. First(p) = i
  BY <1>4, <1>5 DEF Covers
<1> QED
  BY <1>6

-----------------------------------------------------------------------------
(* Aggregates.                                                             *)

Fns == {"sum", "mx", "mn"}

Sums == Nat \cup {NoVal}

\* computeAggregate is associative, and NoVal is neutral.
LEMMA AggRules ==
  ASSUME NEW fn \in Fns
  PROVE  /\ NoVal \notin Nat
         /\ \A a, b \in Sums : Agg(fn, a, b) \in Sums
         /\ \A a, b \in Nat : Agg(fn, a, b) \in Nat
         /\ \A a \in Sums : Agg(fn, NoVal, a) = a /\ Agg(fn, a, NoVal) = a
         /\ \A a, b, c \in Sums : Agg(fn, a, Agg(fn, b, c)) = Agg(fn, Agg(fn, a, b), c)
<1>1. NoVal \notin Nat
  BY DEF NoVal
<1>2. /\ \A a, b \in Nat : "sum" = fn => Agg(fn, a, b) = a + b
      /\ \A a, b \in Nat : "mx" = fn => Agg(fn, a, b) = greatest(a, b)
      /\ \A a, b \in Nat : "mn" = fn => Agg(fn, a, b) = least(a, b)
  BY <1>1 DEF Agg
<1>3. \A a \in Sums : Agg(fn, NoVal, a) = a /\ Agg(fn, a, NoVal) = a
  BY <1>1 DEF Agg, Sums
<1>4. fn = "sum" \/ fn = "mx" \/ fn = "mn"
  BY DEF Fns
<1> HIDE DEF NoVal
<1>5. \A a, b \in Nat : Agg(fn, a, b) \in Nat
  BY <1>2, <1>4 DEF greatest, least
<1>6. \A a, b \in Sums : Agg(fn, a, b) \in Sums
  BY <1>3, <1>5 DEF Sums
<1>7. \A a, b, c \in Nat : Agg(fn, a, Agg(fn, b, c)) = Agg(fn, Agg(fn, a, b), c)
  <2> TAKE a, b, c \in Nat
  <2>1. Agg(fn, b, c) \in Nat /\ Agg(fn, a, b) \in Nat
    BY <1>5
  <2>2. CASE fn = "sum"
    BY <1>2, <2>1, <2>2
  <2>3. CASE fn = "mx"
    BY <1>2, <2>1, <2>3 DEF greatest
  <2>4. CASE fn = "mn"
    BY <1>2, <2>1, <2>4 DEF least
  <2> QED
    BY <1>4, <2>2, <2>3, <2>4
<1>8. \A a, b, c \in Sums : Agg(fn, a, Agg(fn, b, c)) = Agg(fn, Agg(fn, a, b), c)
  <2> TAKE a, b, c \in Sums
  <2>1. Agg(fn, b, c) \in Sums /\ Agg(fn, a, b) \in Sums
    BY <1>6
  <2>2. CASE a = NoVal
    BY <1>3, <2>1, <2>2
  <2>3. CASE b = NoVal
    BY <1>3, <2>3
  <2>4. CASE c = NoVal
    BY <1>3, <2>1, <2>4
  <2>5. CASE a # NoVal /\ b # NoVal /\ c # NoVal
    BY <1>7, <2>5 DEF Sums
  <2> QED
    BY <2>2, <2>3, <2>4, <2>5
<1> QED
  BY <1>1, <1>3, <1>5, <1>6, <1>8

\* What a sequence of values is, spelled out.
LEMMA LogType ==
  ASSUME NEW lg \in Seq(Nat)
  PROVE  Len(lg) \in Nat /\ DOMAIN lg = 1 .. Len(lg) /\ \A i \in 1 .. Len(lg) : lg[i] \in Nat
<1>1. Len(lg) \in Nat /\ DOMAIN lg = 1 .. Len(lg)
  OBVIOUS
<1> QED
  BY <1>1, ElementOfSeq

\* Tot goes through the values one by one.
LEMMA TotIs ==
  ASSUME NEW fn \in Fns, NEW lg \in Seq(Nat), NEW l \in 1 .. Len(lg) + 1,
         NEW m \in 0 .. Len(lg) + 1 - l, NEW g \in [0 .. m -> Sums],
         g[0] = NoVal, \A i \in 1 .. m : g[i] = Agg(fn, g[i - 1], lg[l - 1 + i])
  PROVE  Tot(fn, lg, l, l - 1 + m) = g[m]
<1> DEFINE b == l - 1
           r == b + m
           total == CHOOSE f : f = [i \in b .. r |->
             IF i = b THEN NoVal ELSE Agg(fn, f[i - 1], lg[i])]
           h == [i \in b .. r |-> g[i - b]]
<1>0. b \in Nat /\ m \in Nat /\ Len(lg) \in Nat /\ r \in Nat /\ r - b = m /\ b <= r
  BY LogType
<1>1. Tot(fn, lg, l, r) = total[r]
  BY DEF Tot
<1>2. h = [i \in b .. r |-> IF i = b THEN NoVal ELSE Agg(fn, h[i - 1], lg[i])]
  <2>1. \A i \in b .. r : h[i] = IF i = b THEN NoVal ELSE Agg(fn, h[i - 1], lg[i])
    <3> TAKE i \in b .. r
    <3>1. CASE i = b
      <4>1. i - b = 0
        BY <1>0, <3>1
      <4>2. h[i] = g[i - b]
        OBVIOUS
      <4> QED
        BY <3>1, <4>1, <4>2
    <3>2. CASE i # b
      <4>1. i - b \in 1 .. m /\ i - 1 \in b .. r /\ (i - 1) - b = (i - b) - 1 /\ b + (i - b) = i
        BY <1>0, <3>2
      <4>2. g[i - b] = Agg(fn, g[(i - b) - 1], lg[b + (i - b)])
        BY <4>1
      <4>3. h[i] = g[i - b] /\ h[i - 1] = g[(i - 1) - b]
        BY <4>1
      <4> HIDE DEF h
      <4>4. h[i - 1] = g[(i - b) - 1] /\ lg[b + (i - b)] = lg[i]
        BY <4>1, <4>3
      <4>5. h[i] = Agg(fn, h[i - 1], lg[i])
        BY <4>2, <4>3, <4>4, Zenon
      <4> QED
        BY <3>2, <4>5, Zenon
    <3> QED
      BY <3>1, <3>2
  <2> QED
    BY <2>1, Zenon
<1>3. total = [i \in b .. r |-> IF i = b THEN NoVal ELSE Agg(fn, total[i - 1], lg[i])]
  <2> HIDE DEF h
  <2> QED
    BY <1>2, Zenon
<1>4. \A i \in b .. r : total[i] = IF i = b THEN NoVal ELSE Agg(fn, total[i - 1], lg[i])
  <2> HIDE DEF total
  <2> QED
    BY <1>3, Zenon
<1> HIDE DEF total, h
<1> DEFINE S == {i \in 0 .. m : total[b + i] = g[i]}
<1>5. 0 \in S
  <2>1. b \in b .. r /\ b + 0 = b
    BY <1>0
  <2>2. total[b] = NoVal
    BY <1>4, <2>1, Zenon
  <2> QED
    BY <1>0, <2>1, <2>2
<1>6. \A i \in 1 .. m : i - 1 \in S => i \in S
  <2> SUFFICES ASSUME NEW i \in 1 .. m, i - 1 \in S PROVE i \in S
    OBVIOUS
  <2>1. b + i \in b .. r /\ b + i # b /\ (b + i) - 1 = b + (i - 1) /\ i \in 0 .. m
    BY <1>0
  <2>2. total[b + i] = Agg(fn, total[(b + i) - 1], lg[b + i])
    BY <1>4, <2>1, Zenon
  <2>3. total[b + (i - 1)] = g[i - 1]
    OBVIOUS
  <2>4. total[b + i] = Agg(fn, g[i - 1], lg[b + i])
    BY <2>1, <2>2, <2>3, Zenon
  <2>5. g[i] = Agg(fn, g[i - 1], lg[b + i])
    OBVIOUS
  <2> QED
    BY <2>1, <2>4, <2>5
<1>7. m \in S
  <2> HIDE DEF S
  <2>1. \A i \in 0 .. m : i \in S
    BY <1>0, <1>5, <1>6, IntervalInduction
  <2> QED
    BY <1>0, <2>1
<1> QED
  BY <1>1, <1>7

\* Tot adds one value at a time.
LEMMA TotLevels ==
  ASSUME NEW fn \in Fns, NEW lg \in Seq(Nat), NEW l \in 1 .. Len(lg) + 1
  PROVE  \E g \in [0 .. Len(lg) + 1 - l -> Sums] :
           /\ g[0] = NoVal
           /\ \A i \in 1 .. Len(lg) + 1 - l : g[i] = Agg(fn, g[i - 1], lg[l - 1 + i])
           /\ \A m \in 0 .. Len(lg) + 1 - l : Tot(fn, lg, l, l - 1 + m) = g[m]
<1> DEFINE d == Len(lg) + 1 - l
           step == [i \in 1 .. d |-> [x \in Sums |-> Agg(fn, x, lg[l - 1 + i])]]
<1>0. d \in Nat /\ Len(lg) \in Nat /\ l \in Nat
  BY LogType
<1>1. \A i \in 1 .. d : lg[l - 1 + i] \in Sums
  <2> TAKE i \in 1 .. d
  <2>1. l - 1 + i \in 1 .. Len(lg)
    BY <1>0
  <2> QED
    BY <2>1, LogType DEF Sums
<1>2. step \in Steps(d, Sums)
  BY <1>1, AggRules DEF Steps
<1>3. NoVal \in Sums
  BY DEF Sums
<1> HIDE DEF step, d
<1>4. PICK g : g \in Runs(d, Sums, NoVal, step)
  BY <1>0, <1>2, <1>3, Recursion, Zenon
<1>5. g \in [0 .. d -> Sums] /\ g[0] = NoVal /\ \A i \in 1 .. d : g[i] = step[i][g[i - 1]]
  BY <1>4 DEF Runs
<1>6. \A i \in 1 .. d : g[i] = Agg(fn, g[i - 1], lg[l - 1 + i])
  <2> TAKE i \in 1 .. d
  <2>1. i - 1 \in 0 .. d
    BY <1>0
  <2>2. g[i - 1] \in Sums
    BY <1>5, <2>1
  <2>3. step[i][g[i - 1]] = Agg(fn, g[i - 1], lg[l - 1 + i])
    BY <2>2 DEF step
  <2> QED
    BY <1>5, <2>3
<1>7. ASSUME NEW m \in 0 .. d PROVE Tot(fn, lg, l, l - 1 + m) = g[m]
  <2> DEFINE h == [i \in 0 .. m |-> g[i]]
  <2>1. m \in Nat /\ m \in 0 .. Len(lg) + 1 - l /\ \A i \in 0 .. m : i \in 0 .. d
    BY <1>0 DEF d
  <2>2. h \in [0 .. m -> Sums] /\ h[0] = NoVal /\ h[m] = g[m]
    BY <1>5, <2>1
  <2>3. \A i \in 1 .. m : h[i] = Agg(fn, h[i - 1], lg[l - 1 + i])
    <3> TAKE i \in 1 .. m
    <3>1. i \in 1 .. d /\ i \in 0 .. m /\ i - 1 \in 0 .. m
      BY <1>0, <2>1
    <3>2. h[i] = g[i] /\ h[i - 1] = g[i - 1]
      BY <3>1
    <3> HIDE DEF h
    <3> QED
      BY <1>6, <3>1, <3>2
  <2> HIDE DEF h
  <2>4. Tot(fn, lg, l, l - 1 + m) = h[m]
    BY <2>1, <2>2, <2>3, TotIs
  <2> QED
    BY <2>2, <2>4
<1> QED
  BY <1>5, <1>6, <1>7 DEF d

\* The two cases of Tot.
LEMMA TotRules ==
  ASSUME NEW fn \in Fns, NEW lg \in Seq(Nat), NEW l \in 1 .. Len(lg) + 1
  PROVE  /\ Tot(fn, lg, l, l - 1) = NoVal
         /\ \A r \in l .. Len(lg) : /\ Tot(fn, lg, l, r) = Agg(fn, Tot(fn, lg, l, r - 1), lg[r])
                                    /\ Tot(fn, lg, l, r) \in Nat
<1> DEFINE d == Len(lg) + 1 - l
<1>0. d \in Nat /\ Len(lg) \in Nat /\ l \in Nat /\ 0 \in 0 .. d /\ l - 1 + 0 = l - 1
  BY LogType
<1>1. PICK g \in [0 .. d -> Sums] :
           /\ g[0] = NoVal
           /\ \A i \in 1 .. d : g[i] = Agg(fn, g[i - 1], lg[l - 1 + i])
           /\ \A m \in 0 .. d : Tot(fn, lg, l, l - 1 + m) = g[m]
  BY TotLevels
<1>2. Tot(fn, lg, l, l - 1) = NoVal
  <2>1. Tot(fn, lg, l, l - 1 + 0) = g[0]
    BY <1>0, <1>1
  <2> QED
    BY <1>0, <1>1, <2>1, Zenon
<1> HIDE DEF d
<1>3. ASSUME NEW i \in 1 .. d
      PROVE  /\ Tot(fn, lg, l, l - 1 + i) =
                  Agg(fn, Tot(fn, lg, l, l - 1 + (i - 1)), lg[l - 1 + i])
             /\ lg[l - 1 + i] \in Nat
  <2>1. i \in 0 .. d /\ i - 1 \in 0 .. d /\ l - 1 + i \in 1 .. Len(lg)
    BY <1>0 DEF d
  <2> QED
    BY <1>1, <2>1, LogType
<1> DEFINE S == {i \in 0 .. d : i # 0 => Tot(fn, lg, l, l - 1 + i) \in Nat}
<1>4. 0 \in S
  BY <1>0
<1>5. \A i \in 1 .. d : i - 1 \in S => i \in S
  <2> SUFFICES ASSUME NEW i \in 1 .. d, i - 1 \in S PROVE i \in S
    OBVIOUS
  <2> DEFINE x == Tot(fn, lg, l, l - 1 + (i - 1))
             y == lg[l - 1 + i]
  <2>1. Tot(fn, lg, l, l - 1 + i) = Agg(fn, x, y) /\ y \in Nat
    BY <1>3
  <2>2. x \in Sums
    <3>1. CASE i - 1 = 0
      <4>1. l - 1 + (i - 1) = l - 1
        BY <1>0, <3>1
      <4> QED
        BY <1>2, <4>1 DEF Sums
    <3>2. CASE i - 1 # 0
      BY <3>2 DEF Sums
    <3> QED
      BY <3>1, <3>2
  <2>3. Agg(fn, x, y) \in Nat
    <3> HIDE DEF x, y
    <3>1. CASE x = NoVal
      BY <2>1, <3>1, AggRules DEF Sums
    <3>2. CASE x \in Nat
      BY <2>1, <3>2, AggRules
    <3> QED
      BY <2>2, <3>1, <3>2 DEF Sums
  <2>4. i \in 0 .. d
    BY <1>0
  <2> HIDE DEF x, y
  <2> QED
    BY <2>1, <2>3, <2>4
<1>6. \A i \in 0 .. d : i \in S
  <2> HIDE DEF S
  <2> QED
    BY <1>0, <1>4, <1>5, IntervalInduction
<1>7. ASSUME NEW r \in l .. Len(lg)
      PROVE  /\ Tot(fn, lg, l, r) = Agg(fn, Tot(fn, lg, l, r - 1), lg[r])
             /\ Tot(fn, lg, l, r) \in Nat
  <2> DEFINE i == r - (l - 1)
  <2>1. i \in 1 .. d /\ i \in 0 .. d /\ i # 0 /\ l - 1 + i = r /\ l - 1 + (i - 1) = r - 1
    BY <1>0 DEF d
  <2> HIDE DEF i
  <2>2. /\ Tot(fn, lg, l, l - 1 + i) =
             Agg(fn, Tot(fn, lg, l, l - 1 + (i - 1)), lg[l - 1 + i])
    BY <1>3, <2>1
  <2>3. Tot(fn, lg, l, l - 1 + i) \in Nat
    BY <1>6, <2>1
  <2> QED
    BY <2>1, <2>2, <2>3, Zenon
<1> QED
  BY <1>2, <1>7

\* An aggregate of one value or more is a value.
LEMMA TotType ==
  ASSUME NEW fn \in Fns, NEW lg \in Seq(Nat), NEW l \in 1 .. Len(lg) + 1,
         NEW r \in l - 1 .. Len(lg)
  PROVE  Tot(fn, lg, l, r) \in Sums /\ (r >= l => Tot(fn, lg, l, r) \in Nat)
<1>1. CASE r = l - 1
  <2>1. ~(r >= l)
    BY <1>1, LogType
  <2> QED
    BY <1>1, <2>1, TotRules DEF Sums
<1>2. CASE r # l - 1
  <2>1. r \in l .. Len(lg)
    BY <1>2, LogType
  <2> QED
    BY <2>1, TotRules DEF Sums
<1> QED
  BY <1>1, <1>2

\* The aggregate of two runs of values that follow each other
LEMMA TotJoin ==
  ASSUME NEW fn \in Fns, NEW lg \in Seq(Nat), NEW l \in 1 .. Len(lg) + 1,
         NEW m \in l - 1 .. Len(lg), NEW r \in m .. Len(lg)
  PROVE  Agg(fn, Tot(fn, lg, l, m), Tot(fn, lg, m + 1, r)) = Tot(fn, lg, l, r)
<1> DEFINE A(j) == Agg(fn, Tot(fn, lg, l, m), Tot(fn, lg, m + 1, m + j)) = Tot(fn, lg, l, m + j)
           d == r - m
           S == {j \in 0 .. d : A(j)}
<1>0. /\ Len(lg) \in Nat /\ l \in Nat /\ m \in Nat /\ r \in Nat /\ d \in Nat
      /\ m + 1 \in 1 .. Len(lg) + 1 /\ m + 0 = m /\ (m + 1) - 1 = m /\ m + d = r
  BY LogType
<1>1. Tot(fn, lg, l, m) \in Sums
  BY TotType
<1>2. 0 \in S
  <2>1. Tot(fn, lg, m + 1, (m + 1) - 1) = NoVal
    BY <1>0, TotRules
  <2>2. Tot(fn, lg, m + 1, m + 0) = NoVal
    BY <1>0, <2>1
  <2>3. Agg(fn, Tot(fn, lg, l, m), NoVal) = Tot(fn, lg, l, m)
    BY <1>1, AggRules
  <2> QED
    BY <1>0, <2>2, <2>3
<1>3. \A j \in 1 .. d : j - 1 \in S => j \in S
  <2> SUFFICES ASSUME NEW j \in 1 .. d, j - 1 \in S PROVE j \in S
    OBVIOUS
  <2> DEFINE k == m + j
             a == Tot(fn, lg, l, m)
             b == Tot(fn, lg, m + 1, k - 1)
             c == lg[k]
  <2>1. k \in l .. Len(lg) /\ k \in m + 1 .. Len(lg) /\ k - 1 = m + (j - 1) /\ j \in 0 .. d
        /\ k \in 1 .. Len(lg) /\ k - 1 \in (m + 1) - 1 .. Len(lg)
    BY <1>0
  <2>2. Tot(fn, lg, l, k) = Agg(fn, Tot(fn, lg, l, k - 1), c)
    BY <2>1, TotRules
  <2>3. Tot(fn, lg, m + 1, k) = Agg(fn, b, c)
    BY <1>0, <2>1, TotRules
  <2>4. Agg(fn, a, b) = Tot(fn, lg, l, k - 1)
    BY <2>1
  <2>5. b \in Sums /\ c \in Sums
    <3>1. b \in Sums
      BY <1>0, <2>1, TotType
    <3>2. c \in Nat
      BY <2>1, LogType
    <3> QED
      BY <3>1, <3>2 DEF Sums
  <2>6. Agg(fn, a, Agg(fn, b, c)) = Agg(fn, Agg(fn, a, b), c)
    <3> HIDE DEF a, b, c, k
    <3>1. a \in Sums
      BY <1>1 DEF a
    <3> QED
      BY <2>5, <3>1, AggRules
  <2>7. Agg(fn, a, Tot(fn, lg, m + 1, k)) = Tot(fn, lg, l, k)
    BY <2>2, <2>3, <2>4, <2>6, Zenon
  <2> QED
    BY <2>1, <2>7
<1>4. d \in S
  <2> HIDE DEF S
  <2>1. \A j \in 0 .. d : j \in S
    BY <1>0, <1>2, <1>3, IntervalInduction
  <2> QED
    BY <1>0, <2>1
<1> QED
  BY <1>0, <1>4

\* An aggregate does not depend on values that come later.
LEMMA TotAppend ==
  ASSUME NEW fn \in Fns, NEW lg \in Seq(Nat), NEW v \in Nat, NEW l \in 1 .. Len(lg) + 1,
         NEW r \in l - 1 .. Len(lg)
  PROVE  Tot(fn, Append(lg, v), l, r) = Tot(fn, lg, l, r)
<1> DEFINE lg2 == Append(lg, v)
           d == r + 1 - l
<1>0. /\ Len(lg) \in Nat /\ l \in Nat /\ r \in Int /\ d \in Nat /\ l - 1 + d = r
      /\ d \in 0 .. Len(lg) + 1 - l
  BY LogType
<1>1. /\ lg2 \in Seq(Nat) /\ Len(lg2) = Len(lg) + 1
      /\ \A i \in 1 .. Len(lg) : lg2[i] = lg[i]
  BY AppendProperties
<1>2. l \in 1 .. Len(lg2) + 1 /\ d \in 0 .. Len(lg2) + 1 - l
  BY <1>0, <1>1
<1>3. PICK g \in [0 .. Len(lg) + 1 - l -> Sums] :
           /\ g[0] = NoVal
           /\ \A i \in 1 .. Len(lg) + 1 - l : g[i] = Agg(fn, g[i - 1], lg[l - 1 + i])
           /\ \A m \in 0 .. Len(lg) + 1 - l : Tot(fn, lg, l, l - 1 + m) = g[m]
  BY TotLevels
<1> DEFINE h == [i \in 0 .. d |-> g[i]]
<1>4. h \in [0 .. d -> Sums] /\ h[0] = NoVal /\ h[d] = g[d]
  <2>1. 0 \in 0 .. d /\ d \in 0 .. d /\ \A i \in 0 .. d : i \in 0 .. Len(lg) + 1 - l
    BY <1>0
  <2> HIDE DEF d
  <2> QED
    BY <1>3, <2>1
<1>5. \A i \in 1 .. d : h[i] = Agg(fn, h[i - 1], lg2[l - 1 + i])
  <2> TAKE i \in 1 .. d
  <2>1. i \in 1 .. Len(lg) + 1 - l /\ i \in 0 .. d /\ i - 1 \in 0 .. d /\ l - 1 + i \in 1 .. Len(lg)
    BY <1>0
  <2>2. h[i] = g[i] /\ h[i - 1] = g[i - 1]
    BY <2>1
  <2>3. lg2[l - 1 + i] = lg[l - 1 + i]
    BY <1>1, <2>1
  <2>4. g[i] = Agg(fn, g[i - 1], lg[l - 1 + i])
    BY <1>3, <2>1
  <2> HIDE DEF h, lg2
  <2> QED
    BY <2>2, <2>3, <2>4, Zenon
<1> HIDE DEF h, lg2
<1>6. Tot(fn, lg2, l, l - 1 + d) = h[d]
  BY <1>1, <1>2, <1>4, <1>5, TotIs
<1>7. Tot(fn, lg, l, l - 1 + d) = g[d]
  BY <1>0, <1>3
<1> QED
  BY <1>0, <1>4, <1>6, <1>7 DEF lg2

\* The value that is appended joins in.
LEMMA TotLast ==
  ASSUME NEW fn \in Fns, NEW lg \in Seq(Nat), NEW v \in Nat, NEW l \in 1 .. Len(lg) + 1
  PROVE  Tot(fn, Append(lg, v), l, Len(lg) + 1) = Agg(fn, Tot(fn, lg, l, Len(lg)), v)
<1> DEFINE lg2 == Append(lg, v)
           r == Len(lg) + 1
<1>0. Len(lg) \in Nat /\ l \in Nat /\ r - 1 = Len(lg) /\ Len(lg) \in l - 1 .. Len(lg)
  BY LogType
<1>1. lg2 \in Seq(Nat) /\ Len(lg2) = r /\ lg2[r] = v
  BY AppendProperties
<1>2. l \in 1 .. Len(lg2) + 1 /\ r \in l .. Len(lg2)
  BY <1>0, <1>1
<1>3. Tot(fn, lg2, l, r) = Agg(fn, Tot(fn, lg2, l, r - 1), lg2[r])
  <2> HIDE DEF lg2
  <2> QED
    BY <1>1, <1>2, TotRules
<1>4. Tot(fn, lg2, l, Len(lg)) = Tot(fn, lg, l, Len(lg))
  BY <1>0, TotAppend
<1> QED
  BY <1>0, <1>1, <1>3, <1>4, Zenon

-----------------------------------------------------------------------------
(* What the shape of the tree says of its nodes.                           *)

NodeSet == [leftIdx : Index, midIdx : Index, rightIdx : Index, aggVal : Sums]

\* Unset is past all indices.
LEMMA IndexRange ==
  Unset = MaxAppends + NumLeaves + 1 /\ Index = 1 .. Unset /\ Unset \in Nat /\ Unset \in Index
BY Spans DEF Unset, Index

\* NodeAt of a leaf.
LEMMA NodeLeaf ==
  ASSUME NEW fn, NEW lg \in Seq(Nat), NEW F \in Nat
  PROVE  NodeAt(fn, lg, F, 1) =
           IF F > Len(lg) THEN EmptyNode
           ELSE [leftIdx |-> F, midIdx |-> F, rightIdx |-> F, aggVal |-> Tot(fn, lg, F, F)]
<1>1. Len(lg) \in Nat
  BY LogType
<1>2. CASE F > Len(lg)
  BY <1>2 DEF NodeAt
<1>3. CASE ~(F > Len(lg))
  <2>1. Len(lg) >= F + 1 - 1 /\ F + 1 - 1 = F /\ least(Len(lg), F + 1 - 1) = F
    BY <1>1, <1>3 DEF least
  <2> QED
    BY <1>3, <2>1, Zenon DEF NodeAt
<1> QED
  BY <1>2, <1>3

\* NodeAt of an inner node.
LEMMA NodeInner ==
  ASSUME NEW fn, NEW lg \in Seq(Nat), NEW F \in Nat, NEW h \in Nat \ {0}
  PROVE  NodeAt(fn, lg, F, 2 * h) =
           IF F > Len(lg) THEN EmptyNode
           ELSE [leftIdx  |-> F,
                 midIdx   |-> IF Len(lg) >= F + greatest(1, h - 1) THEN F + h ELSE Unset,
                 rightIdx |-> IF Len(lg) >= F + 2 * h - 1 THEN F + 2 * h - 1 ELSE Unset,
                 aggVal   |-> Tot(fn, lg, F, least(Len(lg), F + 2 * h - 1))]
<1>1. (2 * h) \div 2 = h /\ 2 * h # 1
  OBVIOUS
<1>2. MidFrom(F, 2 * h) = F + greatest(1, h - 1)
  BY <1>1, Zenon DEF MidFrom
<1> QED
  BY <1>1, <1>2, Zenon DEF NodeAt

\* The leaves below a node: one, or twice those below a child
Halved(m) == m = 1 \/ \E h \in Nat \ {0} : m = 2 * h

\* What a node of m leaves, from index F on, says of the values so far
Says(fn, lg, F, m, x) ==
  LET n == Len(lg)
  IN  /\ x \in NodeSet
      /\ F > n => x = EmptyNode /\ x.leftIdx = Unset /\ x.rightIdx = Unset
                  /\ x.midIdx = Unset
      /\ F <= n =>
           /\ x.leftIdx = F /\ F # Unset
           /\ x.rightIdx = IF n >= F + m - 1 THEN F + m - 1 ELSE Unset
           /\ x.aggVal = Tot(fn, lg, F, least(n, F + m - 1))
      /\ n >= F + m - 1 =>
           /\ x.rightIdx = F + m - 1 /\ F + m - 1 # Unset
           /\ x.aggVal = Tot(fn, lg, F, F + m - 1)

\* A node as NodeAt has it says what the properties ask of a node.
LEMMA NodeGood ==
  ASSUME NEW fn \in Fns, NEW lg \in Seq(Nat), NEW F \in Nat, F >= 1, NEW m \in Nat \ {0},
         F + m <= Unset, Halved(m)
  PROVE  Says(fn, lg, F, m, NodeAt(fn, lg, F, m))
<1> DEFINE n == Len(lg)
           x == NodeAt(fn, lg, F, m)
           e == least(n, F + m - 1)
<1>0. n \in Nat
  BY LogType
<1>1. F <= n => e \in F .. n /\ F \in 1 .. n + 1 /\ e \in F - 1 .. n
  BY <1>0 DEF least
<1>2. F <= n => Tot(fn, lg, F, e) \in Sums
  <2> HIDE DEF e
  <2> QED
    BY <1>1, TotType
<1>3. n >= F + m - 1 => e = F + m - 1
  BY <1>0 DEF least
<1>4. Unset \in Nat /\ Index = 1 .. Unset /\ NoVal \in Sums
  BY IndexRange DEF Sums
<1>5. CASE F > n
  <2>1. x = EmptyNode
    BY <1>5 DEF NodeAt
  <2>2. ~(F <= n) /\ ~(n >= F + m - 1)
    BY <1>0, <1>5
  <2>3. /\ x \in NodeSet /\ x.leftIdx = Unset /\ x.rightIdx = Unset /\ x.midIdx = Unset
    BY <1>4, <2>1 DEF EmptyNode, NodeSet
  <2> HIDE DEF x
  <2> QED
    BY <1>5, <2>1, <2>2, <2>3 DEF Says, x
<1>6. CASE ~(F > n)
  <2>0. F <= n /\ F \in Index /\ F # Unset /\ F + m - 1 \in Index /\ F + m - 1 # Unset
    BY <1>0, <1>4, <1>6
  <2>1. CASE m = 1
    <3>1. e = F /\ F + m - 1 = F /\ n >= F + m - 1
      BY <1>0, <2>0, <2>1 DEF least
    <3>2. x = [leftIdx |-> F, midIdx |-> F, rightIdx |-> F, aggVal |-> Tot(fn, lg, F, F)]
      BY <1>6, <2>1, NodeLeaf
    <3> HIDE DEF x
    <3>3. /\ x.leftIdx = F /\ x.rightIdx = F + m - 1 /\ x.aggVal = Tot(fn, lg, F, e)
          /\ x.aggVal = Tot(fn, lg, F, F + m - 1)
      <4> HIDE DEF e
      <4> QED
        BY <3>1, <3>2
    <3>4. x \in NodeSet
      <4> HIDE DEF e
      <4> QED
        BY <1>2, <2>0, <3>1, <3>2 DEF NodeSet
    <3> QED
      BY <1>6, <2>0, <3>1, <3>3, <3>4 DEF Says, x
  <2>2. CASE m # 1
    <3>1. PICK h \in Nat \ {0} : m = 2 * h
      BY <2>2 DEF Halved
    <3> DEFINE mid == IF n >= F + greatest(1, h - 1) THEN F + h ELSE Unset
               right == IF n >= F + m - 1 THEN F + m - 1 ELSE Unset
    <3>2. x = [leftIdx |-> F, midIdx |-> mid, rightIdx |-> right, aggVal |-> Tot(fn, lg, F, e)]
      <4>1. NodeAt(fn, lg, F, 2 * h) =
              IF F > n THEN EmptyNode
              ELSE [leftIdx  |-> F, midIdx |-> mid,
                    rightIdx |-> IF n >= F + 2 * h - 1 THEN F + 2 * h - 1 ELSE Unset,
                    aggVal   |-> Tot(fn, lg, F, least(n, F + 2 * h - 1))]
        BY NodeInner
      <4> HIDE DEF mid
      <4>2. x = IF F > n THEN EmptyNode
                ELSE [leftIdx |-> F, midIdx |-> mid, rightIdx |-> right,
                      aggVal |-> Tot(fn, lg, F, e)]
        BY <3>1, <4>1, Zenon
      <4> QED
        BY <1>6, <4>2, Zenon
    <3>3. mid \in Index /\ right \in Index
      <4>1. F + h \in Index
        BY <1>4, <3>1
      <4> QED
        BY <1>4, <2>0, <4>1
    <3>4. n >= F + m - 1 => right = F + m - 1
      OBVIOUS
    <3> HIDE DEF x, e, mid
    <3>5. /\ x.leftIdx = F /\ x.rightIdx = right /\ x.aggVal = Tot(fn, lg, F, e)
      BY <3>2
    <3>6. x \in NodeSet
      <4> HIDE DEF right
      <4> QED
        BY <1>2, <2>0, <3>2, <3>3 DEF NodeSet
    <3>7. n >= F + m - 1 => x.rightIdx = F + m - 1 /\ x.aggVal = Tot(fn, lg, F, F + m - 1)
      BY <1>3, <3>4, <3>5
    <3> QED
      BY <1>6, <2>0, <3>5, <3>6, <3>7 DEF Says, x, e
  <2> QED
    BY <2>1, <2>2
<1> QED
  BY <1>5, <1>6

\* Paths of the first two levels
LEMMA TopPaths ==
  /\ \A p \in Path(0) : p = <<>>
  /\ \A p \in Path(1) : p = <<"L">> \/ p = <<"R">>
  /\ <<>> \in Path(0) /\ \A x \in Side : <<x>> \in Path(1) /\ <<>> \o <<x>> = <<x>>
  /\ \A x, y \in Side : <<x>> \o <<y>> = <<x, y>> /\ <<x, y>> \in Path(2)
<1>1. <<>> \in Path(0)
  BY DEF Path
<1>2. ASSUME NEW p \in Path(0) PROVE p = <<>>
  <2>1. \A i \in 1 .. 0 : p[i] = <<>>[i]
    OBVIOUS
  <2> QED
    BY <1>1, <2>1, PathEqual
<1>3. ASSUME NEW x \in Side PROVE <<x>> \in Path(1) /\ <<>> \o <<x>> = <<x>>
  <2>1. <<x>> \in Path(1)
    BY DEF Path
  <2> QED
    BY <2>1
<1>4. ASSUME NEW p \in Path(1) PROVE p = <<"L">> \/ p = <<"R">>
  <2>1. p[1] = "L" \/ p[1] = "R"
    BY PathType
  <2>2. <<p[1]>> \in Path(1) /\ p[1] \in Side
    BY <1>3, <2>1 DEF Side
  <2>3. \A i \in 1 .. 1 : p[i] = <<p[1]>>[i]
    OBVIOUS
  <2>4. p = <<p[1]>>
    BY <2>2, <2>3, PathEqual
  <2> QED
    BY <2>1, <2>4
<1>5. ASSUME NEW x \in Side, NEW y \in Side
      PROVE  <<x>> \o <<y>> = <<x, y>> /\ <<x, y>> \in Path(2)
  <2>1. <<x, y>> \in Path(2)
    BY DEF Path
  <2>2. <<x>> \o <<y>> = <<x, y>>
    <3> DEFINE c == <<x>> \o <<y>>
    <3>1. c \in Path(1 + 1) /\ (\A i \in 1 .. 1 : c[i] = <<x>>[i]) /\ c[1 + 1] = y
      BY <1>3, Child
    <3> HIDE DEF c
    <3>2. c \in Path(2) /\ c[1] = x /\ c[2] = y
      BY <3>1
    <3>3. \A i \in 1 .. 2 : c[i] = <<x, y>>[i]
      <4> TAKE i \in 1 .. 2
      <4>1. i = 1 \/ i = 2
        OBVIOUS
      <4> QED
        BY <3>2, <4>1
    <3> QED
      BY <2>1, <3>2, <3>3, PathEqual DEF c
  <2> QED
    BY <2>1, <2>2
<1> QED
  BY <1>1, <1>2, <1>3, <1>4, <1>5

\* Where the upper three levels begin.
LEMMA TopFirst ==
  /\ First(<<>>) = 1 /\ First(<<"L">>) = 1 /\ First(<<"R">>) = 2 * Quarter + 1
  /\ First(<<"L", "L">>) = 1 /\ First(<<"L", "R">>) = Quarter + 1
  /\ First(<<"R", "L">>) = 2 * Quarter + 1 /\ First(<<"R", "R">>) = 3 * Quarter + 1
<1>0. /\ 0 \in 0 .. maxDepth - 2 /\ 1 \in 0 .. maxDepth - 2 /\ "L" \in Side /\ "R" \in Side
      /\ 0 + 1 = 1 /\ 1 + 1 = 2 /\ Span(1) = 2 * Quarter /\ Span(2) = Quarter
      /\ Quarter \in Nat
  BY Spans DEF Side, Quarter
<1>1. First(<<>>) = 1
  BY FirstRoot
<1>2. First(<<>> \o <<"L">>) = First(<<>>) /\ First(<<>> \o <<"R">>) = First(<<>>) + Span(0 + 1)
  BY <1>0, TopPaths, FirstChild
<1>3. First(<<"L">>) = 1 /\ First(<<"R">>) = 1 + 2 * Quarter
  <2>1. <<>> \o <<"L">> = <<"L">> /\ <<>> \o <<"R">> = <<"R">>
    BY <1>0, TopPaths
  <2> QED
    BY <1>0, <1>1, <1>2, <2>1
<1>4. ASSUME NEW x \in Side
      PROVE  /\ First(<<x, "L">>) = First(<<x>>)
             /\ First(<<x, "R">>) = First(<<x>>) + Quarter
  <2>1. <<x>> \in Path(1) /\ <<x>> \o <<"L">> = <<x, "L">> /\ <<x>> \o <<"R">> = <<x, "R">>
    BY <1>0, TopPaths
  <2>2. /\ First(<<x>> \o <<"L">>) = First(<<x>>)
        /\ First(<<x>> \o <<"R">>) = First(<<x>>) + Span(1 + 1)
    BY <1>0, <2>1, FirstChild
  <2> QED
    BY <1>0, <2>1, <2>2
<1> QED
  BY <1>0, <1>1, <1>3, <1>4

\* Paths with the two sides given
LEMMA PathStarts ==
  ASSUME NEW n \in 2 .. maxDepth - 1, NEW p \in Path(n)
  PROVE  /\ Above(p, 2) = <<p[1], p[2]>> /\ p[1] \in Side /\ p[2] \in Side
         /\ First(<<p[1], p[2]>>) <= First(p)
         /\ First(p) + Span(n) <= First(<<p[1], p[2]>>) + Quarter
<1>1. n \in Nat /\ 2 \in 0 .. n /\ 1 \in 1 .. n /\ 2 \in 1 .. n /\ n \in 0 .. maxDepth - 1
  BY Spans
<1>2. p[1] \in Side /\ p[2] \in Side
  BY <1>1, PathType DEF Side
<1>3. Above(p, 2) \in Path(2) /\ \A i \in 1 .. 2 : Above(p, 2)[i] = p[i]
  BY <1>1, Prefix DEF Above
<1>4. <<p[1], p[2]>> \in Path(2)
  BY <1>2, TopPaths
<1>5. \A i \in 1 .. 2 : Above(p, 2)[i] = <<p[1], p[2]>>[i]
  BY <1>3
<1>6. Above(p, 2) = <<p[1], p[2]>>
  BY <1>3, <1>4, <1>5, PathEqual
<1>7. /\ First(Above(p, 2)) <= First(p)
      /\ First(p) + Span(n) <= First(Above(p, 2)) + Span(2)
  BY <1>1, Nested
<1> QED
  BY <1>2, <1>6, <1>7 DEF Quarter

\* What it is to be in Places.
LEMMA PlaceFacts ==
  ASSUME NEW s, NEW n, NEW p, p \in Places(s, n)
  PROVE  /\ Len(p) \in 0 .. maxDepth - 1 /\ p \in Path(Len(p)) /\ Len(p) \in Nat
         /\ Len(p) = maxDepth - 1 => First(p) + s <= n
<1>1. maxDepth - 1 \in Nat
  BY Spans
<1>2. p \in PathsTo(maxDepth - 1) /\ (Len(p) = maxDepth - 1 => First(p) + s <= n)
  BY DEF Places
<1>3. Len(p) \in 0 .. maxDepth - 1 /\ p \in Path(Len(p))
  BY <1>1, <1>2, PathsSet
<1> QED
  BY <1>1, <1>2, <1>3

\* Which paths are in Places.
LEMMA PlaceIs ==
  ASSUME NEW s, NEW n, NEW m \in 0 .. maxDepth - 1, NEW p \in Path(m),
         m = maxDepth - 1 => First(p) + s <= n
  PROVE  p \in Places(s, n) /\ Len(p) = m
<1>1. maxDepth - 1 \in Nat /\ m \in Nat
  BY Spans
<1>2. Len(p) = m
  BY <1>1, PathType
<1>3. p \in PathsTo(maxDepth - 1)
  BY <1>1, <1>2, PathsSet
<1> QED
  BY <1>2, <1>3 DEF Places

\* Above the leaves all places are there.
LEMMA ChildPlaces ==
  ASSUME NEW s \in Nat, NEW n \in Nat, NEW p, p \in Places(s, n), p \o <<"R">> \in Places(s, n)
  PROVE  Len(p) \in 0 .. maxDepth - 2 /\ p \o <<"L">> \in Places(s, n)
<1>1. Len(p) \in 0 .. maxDepth - 1 /\ p \in Path(Len(p)) /\ Len(p) \in Nat
  BY PlaceFacts
<1> DEFINE m == Len(p)
           l == p \o <<"L">>
           r == p \o <<"R">>
<1>2. l \in Path(m + 1) /\ r \in Path(m + 1)
  BY <1>1, Child DEF Side
<1>3. Len(r) = m + 1
  BY <1>1, <1>2, PathType
<1>4. m + 1 \in 0 .. maxDepth - 1 /\ (m + 1 = maxDepth - 1 => First(r) + s <= n)
  BY <1>3, PlaceFacts
<1>5. m \in 0 .. maxDepth - 2
  BY <1>1, <1>4, Spans
<1>6. First(l) = First(p) /\ First(r) = First(p) + Span(m + 1) /\ First(p) \in Nat
  BY <1>1, <1>5, FirstChild
<1>7. Span(m + 1) \in Nat
  BY <1>4, Spans
<1> HIDE DEF m, l, r
<1>8. m + 1 = maxDepth - 1 => First(l) + s <= n
  BY <1>4, <1>6, <1>7
<1>9. l \in Places(s, n)
  BY <1>2, <1>4, <1>8, PlaceIs
<1> QED
  BY <1>5, <1>9 DEF m, l

\* What one knows of a regular node
RegularNode(fn, lg, s, t, p) ==
  LET F == First(p) + s
      m == Span(Len(p))
  IN  /\ t[p] = NodeAt(fn, lg, F, m)
      /\ F \in Nat /\ F >= s + 1 /\ m \in Nat \ {0} /\ F + m <= s + NumLeaves + 1
      /\ s + NumLeaves + 1 <= Unset /\ s \in Nat
      /\ Halved(m)

\* What Shape says of a node that is not old.
LEMMA RegularFacts ==
  ASSUME NEW fn \in Fns, NEW lg \in Seq(Nat), NEW s, NEW t, Shape(fn, lg, s, t),
         NEW p \in DOMAIN t, Regular(p, s)
  PROVE  RegularNode(fn, lg, s, t, p)
<1>1. Len(p) \in 0 .. maxDepth - 1 /\ p \in Path(Len(p)) /\ Len(p) \in Nat
  BY PlaceFacts DEF Shape
<1> DEFINE n == Len(p)
<1>2. t[p] = NodeAt(fn, lg, First(p) + s, Span(n)) /\ s \in 0 .. MaxAppends
  BY DEF Shape
<1>3. First(p) \in Nat /\ First(p) >= 1 /\ First(p) + Span(n) <= NumLeaves + 1
  BY <1>1, FirstRange
<1>4. Span(n) \in Nat \ {0}
  BY <1>1, Spans
<1>5. Halved(Span(n))
  <2>1. CASE n = maxDepth - 1
    BY <2>1, Spans DEF Halved
  <2>2. CASE n # maxDepth - 1
    <3>0. n \in Nat /\ n <= maxDepth - 1 /\ maxDepth \in Nat
      BY <1>1, Spans
    <3>1. n \in 0 .. maxDepth - 2 /\ n + 1 \in 0 .. maxDepth - 1
      <4> HIDE DEF n
      <4> QED
        BY <2>2, <3>0
    <3>2. Span(n) = 2 * Span(n + 1) /\ Span(n + 1) \in Nat \ {0}
      BY <3>1, Spans
    <3> HIDE DEF n
    <3> QED
      BY <3>2 DEF Halved
  <2> QED
    BY <2>1, <2>2
<1>6. Unset = MaxAppends + NumLeaves + 1 /\ MaxAppends \in Nat /\ NumLeaves \in Nat
  BY IndexRange, Spans
<1> HIDE DEF n
<1>7. /\ First(p) + s \in Nat /\ First(p) + s >= s + 1
      /\ First(p) + s + Span(n) <= s + NumLeaves + 1
      /\ s + NumLeaves + 1 <= Unset /\ s \in Nat
  BY <1>2, <1>3, <1>4, <1>6
<1> QED
  BY <1>2, <1>4, <1>5, <1>7 DEF RegularNode, n

\* The children of a node that is not old are not old.
LEMMA RegularChild ==
  ASSUME NEW s, NEW n \in Nat, NEW p \in Path(n), NEW x \in Side, Regular(p, s)
  PROVE  Regular(p \o <<x>>, s) /\ Len(p \o <<x>>) = n + 1
<1>1. /\ p \o <<x>> \in Path(n + 1) /\ Len(p) = n
      /\ \A i \in 1 .. n : (p \o <<x>>)[i] = p[i]
  BY Child, PathType
<1>2. Len(p \o <<x>>) = n + 1
  BY <1>1, PathType
<1>3. CASE s = 0
  BY <1>2, <1>3 DEF Regular
<1>4. CASE s # 0
  <2>1. n >= 2 /\ ~(p[1] = "L" /\ p[2] = "L")
    BY <1>1, <1>4 DEF Regular, Old
  <2>2. (p \o <<x>>)[1] = p[1] /\ (p \o <<x>>)[2] = p[2] /\ n + 1 >= 2
    BY <1>1, <2>1
  <2> QED
    BY <1>2, <2>1, <2>2 DEF Regular, Old
<1> QED
  BY <1>3, <1>4

\* The children of a regular node split its indices.
LEMMA RegularSplit ==
  ASSUME NEW fn \in Fns, NEW lg \in Seq(Nat), NEW s, NEW t, Shape(fn, lg, s, t),
         NEW p \in DOMAIN t, Regular(p, s)
  PROVE  Split(t, p)
<1> DEFINE k == Len(p)
           l == p \o <<"L">>
           r == p \o <<"R">>
           F == First(p) + s
           h == Span(k + 1)
           n == Len(lg)
<1> SUFFICES ASSUME r \in DOMAIN t, t[r].leftIdx # Unset
             PROVE  /\ t[l].leftIdx = t[p].leftIdx
                    /\ t[r].leftIdx = t[l].rightIdx + 1
                    /\ t[p].midIdx \in {t[l].rightIdx, t[r].leftIdx}
  BY DEF Split
<1>0. s \in Nat /\ n \in Nat /\ DOMAIN t = Places(s, n) /\ s \in 0 .. MaxAppends
  <2>1. s \in 0 .. MaxAppends /\ DOMAIN t = Places(s, n)
    BY DEF Shape
  <2> QED
    BY <2>1, LogType, Spans
<1>1. k \in 0 .. maxDepth - 1 /\ p \in Path(k) /\ k \in Nat
  BY <1>0, PlaceFacts
<1>2. k \in 0 .. maxDepth - 2 /\ l \in DOMAIN t
  BY <1>0, ChildPlaces
<1>3. Regular(l, s) /\ Regular(r, s) /\ Len(l) = k + 1 /\ Len(r) = k + 1
  BY <1>1, RegularChild DEF Side
<1>4. First(l) = First(p) /\ First(r) = First(p) + h /\ Span(k) = 2 * h
  BY <1>1, <1>2, FirstChild, Spans
<1>5. RegularNode(fn, lg, s, t, p) /\ RegularNode(fn, lg, s, t, l) /\ RegularNode(fn, lg, s, t, r)
  BY <1>2, <1>3, RegularFacts
<1>6. /\ t[p] = NodeAt(fn, lg, F, 2 * h) /\ t[l] = NodeAt(fn, lg, F, h)
      /\ t[r] = NodeAt(fn, lg, F + h, h)
      /\ F \in Nat /\ F >= 1 /\ h \in Nat \ {0} /\ F + 2 * h <= Unset
      /\ Halved(h) /\ Halved(2 * h)
  <2>1. /\ t[p] = NodeAt(fn, lg, F, Span(k)) /\ F \in Nat /\ F >= s + 1
        /\ F + Span(k) <= s + NumLeaves + 1 /\ s + NumLeaves + 1 <= Unset
    BY <1>5 DEF RegularNode
  <2>2. t[l] = NodeAt(fn, lg, First(l) + s, Span(Len(l)))
        /\ Span(Len(l)) \in Nat \ {0}
        /\ Halved(Span(Len(l)))
    BY <1>5 DEF RegularNode
  <2>3. t[r] = NodeAt(fn, lg, First(r) + s, Span(Len(r)))
    BY <1>5 DEF RegularNode
  <2>4. First(p) \in Nat /\ h \in Nat
    BY <1>1, <1>3, <2>2, FirstRange
  <2>5. First(l) + s = F /\ First(r) + s = F + h
    BY <1>0, <1>4, <2>4
  <2>6. F + 2 * h <= Unset /\ F >= 1
    <3>1. Unset \in Nat /\ NumLeaves \in Nat
      BY IndexRange, Spans
    <3> HIDE DEF F, h
    <3> QED
      BY <1>0, <1>4, <2>1, <2>4, <3>1
  <2>7. Span(Len(l)) = h /\ Span(Len(r)) = h /\ Span(k) = 2 * h
    BY <1>3, <1>4
  <2> HIDE DEF F, h, l, r, k
  <2>8. t[p] = NodeAt(fn, lg, F, 2 * h) /\ t[l] = NodeAt(fn, lg, F, h)
        /\ t[r] = NodeAt(fn, lg, F + h, h)
    BY <2>1, <2>2, <2>3, <2>5, <2>7, Zenon
  <2>9. h \in Nat \ {0} /\ Halved(h)
    BY <2>2, <2>7, Zenon
  <2>10. Halved(2 * h)
    BY <2>9 DEF Halved
  <2> QED
    BY <2>1, <2>6, <2>8, <2>9, <2>10
<1>11. F \in Nat /\ F >= 1 /\ h \in Nat /\ h >= 1 /\ F + 2 * h <= Unset /\ Unset \in Nat
  BY <1>6, IndexRange
<1> HIDE DEF F, h, l, r, k
<1>7. F + h \in Nat /\ F + h >= 1 /\ F + h + h <= Unset /\ F + h <= Unset /\ Unset \in Nat
  BY <1>11
<1>8. F + h <= n /\ t[r].leftIdx = F + h
  <2>1. /\ F + h > n => t[r].leftIdx = Unset
        /\ F + h <= n => t[r].leftIdx = F + h
    <3>1. Says(fn, lg, F + h, h, t[r])
      BY <1>6, <1>7, NodeGood
    <3> QED
      BY <3>1 DEF Says
  <2> QED
    BY <1>0, <1>7, <2>1
<1>9. t[l].leftIdx = F /\ t[l].rightIdx = F + h - 1
  <2>1. /\ F <= n => t[l].leftIdx = F
        /\ n >= F + h - 1 => t[l].rightIdx = F + h - 1
    <3>1. Says(fn, lg, F, h, t[l])
      BY <1>6, <1>7, NodeGood
    <3> QED
      BY <3>1 DEF Says
  <2>2. F <= n /\ n >= F + h - 1
    BY <1>0, <1>8, <1>11
  <2> QED
    BY <2>1, <2>2
<1>10. t[p].leftIdx = F /\ t[p].midIdx = F + h
  <2>1. ~(F > n) /\ n >= F + greatest(1, h - 1)
    BY <1>0, <1>8, <1>11 DEF greatest
  <2>2. t[p] = IF F > n THEN EmptyNode
           ELSE [leftIdx  |-> F,
                 midIdx   |-> IF n >= F + greatest(1, h - 1) THEN F + h ELSE Unset,
                 rightIdx |-> IF n >= F + 2 * h - 1 THEN F + 2 * h - 1 ELSE Unset,
                 aggVal   |-> Tot(fn, lg, F, least(n, F + 2 * h - 1))]
    BY <1>6, NodeInner
  <2> QED
    BY <2>1, <2>2
<1> QED
  BY <1>6, <1>8, <1>9, <1>10

\* Every node has the types of its fields and the aggregate of the values between its
\* indices.
NodeOK(fn, lg, t, p) ==
  /\ t[p] \in NodeSet
  /\ t[p].leftIdx # Unset =>
       /\ t[p].leftIdx \in 1 .. Len(lg)
       /\ t[p].aggVal =
            Tot(fn, lg, t[p].leftIdx,
                IF t[p].rightIdx = Unset THEN Len(lg) ELSE t[p].rightIdx)

\* A node that was filled stays right when values come after it.
LEMMA FilledOK ==
  ASSUME NEW fn \in Fns, NEW lg \in Seq(Nat), NEW t, NEW p, Filled(fn, lg, t, p),
         Len(lg) < Unset
  PROVE  NodeOK(fn, lg, t, p)
<1> DEFINE x == t[p]
           n == Len(lg)
<1>0. n \in Nat /\ Unset \in Nat /\ Index = 1 .. Unset
  BY LogType, IndexRange
<1>1. /\ x.leftIdx \in 1 .. n /\ x.rightIdx \in x.leftIdx .. n /\ x.midIdx \in Index
      /\ x.aggVal = Tot(fn, lg, x.leftIdx, x.rightIdx)
      /\ x = [leftIdx |-> x.leftIdx, midIdx |-> x.midIdx,
              rightIdx |-> x.rightIdx, aggVal |-> x.aggVal]
  BY DEF Filled
<1>2. Tot(fn, lg, x.leftIdx, x.rightIdx) \in Sums
  <2> HIDE DEF x
  <2>1. x.leftIdx \in 1 .. n + 1 /\ x.rightIdx \in x.leftIdx - 1 .. n
    BY <1>0, <1>1
  <2> QED
    BY <2>1, TotType
<1>3. x.rightIdx # Unset /\ x.leftIdx \in Index /\ x.rightIdx \in Index
  <2> HIDE DEF x
  <2> QED
    BY <1>0, <1>1
<1>4. x \in NodeSet
  <2> HIDE DEF x, n
  <2> QED
    BY <1>1, <1>2, <1>3 DEF NodeSet
<1> QED
  BY <1>1, <1>3, <1>4 DEF NodeOK

\* A node that is not old is right, and full when the tree is.
LEMMA RegularOK ==
  ASSUME NEW fn \in Fns, NEW lg \in Seq(Nat), NEW s, NEW t, Shape(fn, lg, s, t),
         NEW p \in DOMAIN t, Regular(p, s)
  PROVE  NodeOK(fn, lg, t, p) /\ (Len(lg) = s + NumLeaves => Filled(fn, lg, t, p))
<1> DEFINE F == First(p) + s
           m == Span(Len(p))
           n == Len(lg)
           x == t[p]
<1>1. /\ x = NodeAt(fn, lg, F, m)
      /\ F \in Nat /\ F >= s + 1 /\ m \in Nat \ {0} /\ F + m <= s + NumLeaves + 1
      /\ s + NumLeaves + 1 <= Unset /\ s \in Nat
      /\ Halved(m)
  BY RegularFacts DEF RegularNode
<1>2. n \in Nat /\ NumLeaves \in Nat /\ Unset \in Nat /\ n <= s + NumLeaves
  BY LogType, Spans, IndexRange DEF Shape
<1> HIDE DEF F, m, x
<1>3. F >= 1 /\ F + m <= Unset /\ F <= Unset /\ n < Unset
  BY <1>1, <1>2
<1>4. /\ x \in NodeSet
      /\ F > n => x.leftIdx = Unset
      /\ F <= n =>
           /\ x.leftIdx = F
           /\ x.rightIdx = IF n >= F + m - 1 THEN F + m - 1 ELSE Unset
           /\ x.aggVal = Tot(fn, lg, F, least(n, F + m - 1))
      /\ n >= F + m - 1 => /\ x.rightIdx = F + m - 1 /\ F + m - 1 # Unset
                           /\ x.aggVal = Tot(fn, lg, F, F + m - 1)
  <2>1. Says(fn, lg, F, m, x)
    BY <1>1, <1>3, NodeGood
  <2> QED
    BY <2>1 DEF Says
<1>5. NodeOK(fn, lg, t, p)
  <2>1. CASE F > n
    BY <1>4, <2>1 DEF NodeOK, x
  <2>2. CASE F <= n /\ n >= F + m - 1
    <3>1. x.leftIdx \in 1 .. n /\ x.rightIdx # Unset
          /\ x.aggVal = Tot(fn, lg, x.leftIdx, x.rightIdx)
      <4>1. F \in 1 .. n
        BY <1>1, <1>2, <1>3, <2>2
      <4> QED
        BY <1>4, <2>2, <4>1
    <3> QED
      BY <1>4, <3>1 DEF NodeOK, x
  <2>3. CASE F <= n /\ ~(n >= F + m - 1)
    <3>1. least(n, F + m - 1) = n
      BY <1>1, <1>2, <2>3 DEF least
    <3>2. x.leftIdx \in 1 .. n /\ x.rightIdx = Unset /\ x.aggVal = Tot(fn, lg, x.leftIdx, n)
      <4>1. F \in 1 .. n
        BY <1>1, <1>2, <1>3, <2>3
      <4> QED
        BY <1>4, <2>3, <3>1, <4>1
    <3> QED
      BY <1>4, <3>2 DEF NodeOK, x
  <2> QED
    BY <1>1, <1>2, <2>1, <2>2, <2>3
<1>6. ASSUME n = s + NumLeaves PROVE Filled(fn, lg, t, p)
  <2>1. F <= n /\ n >= F + m - 1 /\ F + m - 1 \in F .. n /\ F \in 1 .. n
    BY <1>1, <1>2, <1>3, <1>6
  <2>2. /\ x.leftIdx = F /\ x.rightIdx = F + m - 1
        /\ x.aggVal = Tot(fn, lg, F, F + m - 1)
    BY <1>4, <2>1
  <2>3. /\ x.leftIdx \in 1 .. n /\ x.rightIdx \in x.leftIdx .. n
        /\ x.aggVal = Tot(fn, lg, x.leftIdx, x.rightIdx)
    BY <2>1, <2>2
  <2>4. /\ x.midIdx \in Index
        /\ x = [leftIdx |-> x.leftIdx, midIdx |-> x.midIdx,
                rightIdx |-> x.rightIdx, aggVal |-> x.aggVal]
    BY <1>4 DEF NodeSet
  <2> QED
    BY <2>3, <2>4 DEF Filled, x
<1> QED
  BY <1>5, <1>6

\* The numbers of a tree that has been rolled up
LEMMA RolledNumbers ==
  ASSUME NEW fn, NEW lg \in Seq(Nat), NEW s, NEW t, Shape(fn, lg, s, t)
  PROVE  /\ s \in Nat /\ Len(lg) \in Nat /\ Quarter \in Nat /\ Quarter >= 2
         /\ Len(lg) <= s + 4 * Quarter /\ NumLeaves = 4 * Quarter
         /\ Unset \in Nat /\ Index = 1 .. Unset /\ s + 4 * Quarter < Unset
         /\ s # 0 => s >= Quarter /\ Len(lg) >= s + 3 * Quarter
         /\ DOMAIN t = Places(s, Len(lg))
<1>1. /\ Len(lg) \in Nat /\ Quarter \in Nat /\ Quarter >= 2 /\ NumLeaves = 4 * Quarter
      /\ MaxAppends \in Nat /\ Unset = MaxAppends + NumLeaves + 1 /\ Index = 1 .. Unset
  BY LogType, Spans, IndexRange
<1>2. /\ s \in 0 .. MaxAppends /\ (s = 0 \/ s >= Quarter)
      /\ Len(lg) <= s + NumLeaves /\ (s # 0 => Len(lg) >= s + 3 * Quarter)
      /\ DOMAIN t = Places(s, Len(lg))
  BY DEF Shape
<1> QED
  BY <1>1, <1>2

\* The nodes of the first three levels
LEMMA TopPlaces ==
  ASSUME NEW s, NEW n
  PROVE  /\ <<>> \in Places(s, n) /\ <<"L">> \in Places(s, n) /\ <<"R">> \in Places(s, n)
         /\ \A x, y \in Side : <<x, y>> \in Places(s, n) /\ Len(<<x, y>>) = 2
         /\ s # 0 => \A x, y \in Side : Regular(<<x, y>>, s) <=> ~(x = "L" /\ y = "L")
<1>0. 0 \in 0 .. maxDepth - 1 /\ 1 \in 0 .. maxDepth - 1 /\ 2 \in 0 .. maxDepth - 1
      /\ 0 # maxDepth - 1 /\ 1 # maxDepth - 1 /\ 2 # maxDepth - 1
  BY Spans
<1>1. <<>> \in Places(s, n)
  BY <1>0, TopPaths, PlaceIs
<1>2. \A x \in Side : <<x>> \in Places(s, n)
  <2> TAKE x \in Side
  <2>1. <<x>> \in Path(1)
    BY TopPaths
  <2> QED
    BY <1>0, <2>1, PlaceIs
<1>3. \A x, y \in Side : <<x, y>> \in Places(s, n) /\ Len(<<x, y>>) = 2
  <2> TAKE x, y \in Side
  <2>1. <<x, y>> \in Path(2)
    BY TopPaths
  <2> QED
    BY <1>0, <2>1, PlaceIs
<1>4. s # 0 => \A x, y \in Side : Regular(<<x, y>>, s) <=> ~(x = "L" /\ y = "L")
  BY <1>3 DEF Regular, Old
<1> QED
  BY <1>1, <1>2, <1>3, <1>4 DEF Side

\* The grandchildren of the root after a rollup
LEMMA Grandchildren ==
  ASSUME NEW fn \in Fns, NEW lg \in Seq(Nat), NEW s, NEW t, Shape(fn, lg, s, t),
         NEW x \in Side, NEW y \in Side, s # 0, ~(x = "L" /\ y = "L")
  PROVE  /\ <<x, y>> \in DOMAIN t
         /\ t[<<x, y>>] = NodeAt(fn, lg, First(<<x, y>>) + s, Quarter)
         /\ Halved(Quarter)
<1>1. DOMAIN t = Places(s, Len(lg))
  BY DEF Shape
<1>2. <<x, y>> \in DOMAIN t /\ Len(<<x, y>>) = 2 /\ Regular(<<x, y>>, s)
  BY <1>1, TopPlaces
<1>3. RegularNode(fn, lg, s, t, <<x, y>>)
  BY <1>2, RegularFacts
<1>4. /\ t[<<x, y>>] = NodeAt(fn, lg, First(<<x, y>>) + s, Span(Len(<<x, y>>)))
      /\ Halved(Span(Len(<<x, y>>)))
  BY <1>3 DEF RegularNode
<1>5. Span(Len(<<x, y>>)) = Quarter
  BY <1>2 DEF Quarter
<1> QED
  BY <1>2, <1>4, <1>5

\* A quarter of the leaves that is full
LEMMA QuarterFull ==
  ASSUME NEW fn \in Fns, NEW lg \in Seq(Nat), NEW s, NEW t, Shape(fn, lg, s, t),
         NEW F \in Nat, F >= 1, F + Quarter - 1 <= Len(lg), Halved(Quarter)
  PROVE  /\ NodeAt(fn, lg, F, Quarter).leftIdx = F
         /\ NodeAt(fn, lg, F, Quarter).rightIdx = F + Quarter - 1
         /\ NodeAt(fn, lg, F, Quarter).aggVal = Tot(fn, lg, F, F + Quarter - 1)
<1>1. /\ s \in Nat /\ Len(lg) \in Nat /\ Quarter \in Nat /\ Quarter >= 2
      /\ Len(lg) <= s + 4 * Quarter /\ Unset \in Nat /\ s + 4 * Quarter < Unset
  BY RolledNumbers
<1>2. F + Quarter <= Unset /\ F <= Len(lg) /\ Len(lg) >= F + Quarter - 1
      /\ Quarter \in Nat \ {0}
  BY <1>1
<1>3. Says(fn, lg, F, Quarter, NodeAt(fn, lg, F, Quarter))
  BY <1>2, NodeGood
<1> QED
  BY <1>2, <1>3 DEF Says

\* After a rollup the nodes at the top split their values between their children.
LEMMA TopSplit ==
  ASSUME NEW fn \in Fns, NEW lg \in Seq(Nat), NEW s, NEW t, Shape(fn, lg, s, t), s # 0
  PROVE  Split(t, <<>>) /\ Split(t, <<"L">>) /\ Split(t, <<"R">>)
<1> DEFINE n == Len(lg)
           q == Quarter
<1>0. /\ s \in Nat /\ n \in Nat /\ q \in Nat /\ q >= 2 /\ n >= s + 3 * q /\ n <= s + 4 * q
      /\ Unset \in Nat /\ s + 4 * q < Unset
  BY RolledNumbers
<1>1. /\ t[<<>>] = Root(fn, lg, s) /\ t[<<"L">>] = RootLeft(fn, lg, s)
      /\ t[<<"R">>] = RootRight(fn, lg, s)
      /\ t[<<"L", "L">>].leftIdx = 1 /\ t[<<"L", "L">>].rightIdx = s + q
  BY DEF Shape, OldPart
<1>2. "L" \in Side /\ "R" \in Side
  BY DEF Side
<1>3. /\ <<>> \o <<"L">> = <<"L">> /\ <<>> \o <<"R">> = <<"R">>
      /\ <<"L">> \o <<"L">> = <<"L", "L">> /\ <<"L">> \o <<"R">> = <<"L", "R">>
      /\ <<"R">> \o <<"L">> = <<"R", "L">> /\ <<"R">> \o <<"R">> = <<"R", "R">>
  BY <1>2, TopPaths
<1>4. Split(t, <<>>)
  <2>1. /\ t[<<"L">>].leftIdx = 1 /\ t[<<"L">>].rightIdx = s + 2 * q
        /\ t[<<"R">>].leftIdx = s + 2 * q + 1
        /\ t[<<>>].leftIdx = 1 /\ t[<<>>].midIdx = s + 2 * q
    BY <1>1 DEF Root, RootLeft, RootRight
  <2> QED
    BY <1>3, <2>1 DEF Split
<1>5. Split(t, <<"L">>)
  <2>1. t[<<"L">>].leftIdx = 1 /\ t[<<"L">>].midIdx = s + q + 1
    BY <1>1 DEF RootLeft
  <2>2. t[<<"L", "R">>] = NodeAt(fn, lg, First(<<"L", "R">>) + s, q) /\ Halved(q)
    BY <1>2, Grandchildren
  <2>3. First(<<"L", "R">>) + s = s + q + 1
    BY <1>0, TopFirst
  <2>4. s + q + 1 \in Nat /\ s + q + 1 >= 1 /\ s + q + 1 + q - 1 <= n
    BY <1>0
  <2>5. t[<<"L", "R">>].leftIdx = s + q + 1
    BY <2>2, <2>3, <2>4, QuarterFull
  <2> QED
    BY <1>1, <1>3, <2>1, <2>5 DEF Split
<1>6. Split(t, <<"R">>)
  <2>1. t[<<"R">>].leftIdx = s + 2 * q + 1 /\ t[<<"R">>].midIdx = s + 3 * q
    BY <1>1 DEF RootRight
  <2>2. t[<<"R", "L">>] = NodeAt(fn, lg, First(<<"R", "L">>) + s, q) /\ Halved(q)
        /\ t[<<"R", "R">>] = NodeAt(fn, lg, First(<<"R", "R">>) + s, q)
    BY <1>2, Grandchildren
  <2>3. First(<<"R", "L">>) + s = s + 2 * q + 1 /\ First(<<"R", "R">>) + s = s + 3 * q + 1
    BY <1>0, TopFirst
  <2>4. s + 2 * q + 1 \in Nat /\ s + 2 * q + 1 >= 1 /\ s + 2 * q + 1 + q - 1 <= n
        /\ s + 2 * q + 1 + q - 1 = s + 3 * q
        /\ s + 3 * q + 1 \in Nat /\ s + 3 * q + 1 >= 1 /\ s + 3 * q + 1 + q <= Unset
        /\ q \in Nat \ {0}
    BY <1>0
  <2>5. t[<<"R", "L">>].leftIdx = s + 2 * q + 1 /\ t[<<"R", "L">>].rightIdx = s + 3 * q
    <3> DEFINE a == s + 2 * q + 1
    <3>2. t[<<"R", "L">>] = NodeAt(fn, lg, a, q) /\ Halved(q)
      BY <2>2, <2>3
    <3>3. a \in Nat /\ a >= 1 /\ a + q - 1 <= n
      BY <2>4
    <3> HIDE DEF a
    <3>4. t[<<"R", "L">>].leftIdx = a /\ t[<<"R", "L">>].rightIdx = a + q - 1
      BY <3>2, <3>3, QuarterFull
    <3>1. /\ t[<<"R", "L">>].leftIdx = s + 2 * q + 1
          /\ t[<<"R", "L">>].rightIdx = s + 2 * q + 1 + q - 1
      BY <3>4 DEF a
    <3> QED
      BY <2>4, <3>1
  <2>6. t[<<"R", "R">>].leftIdx # Unset => t[<<"R", "R">>].leftIdx = s + 3 * q + 1
    <3>1. Says(fn, lg, s + 3 * q + 1, q, t[<<"R", "R">>])
      BY <2>2, <2>3, <2>4, NodeGood
    <3>2. n < s + 3 * q + 1 \/ n >= s + 3 * q + 1
      BY <1>0
    <3> QED
      BY <1>0, <3>1, <3>2 DEF Says
  <2> QED
    BY <1>3, <2>1, <2>5, <2>6 DEF Split
<1> QED
  BY <1>4, <1>5, <1>6

\* The root and its children
LEMMA TopOK ==
  ASSUME NEW fn \in Fns, NEW lg \in Seq(Nat), NEW s, NEW t, Shape(fn, lg, s, t), s # 0,
         NEW p \in {<<>>, <<"L">>, <<"R">>}
  PROVE  NodeOK(fn, lg, t, p) /\ (Len(lg) = s + NumLeaves => Filled(fn, lg, t, p))
<1> DEFINE n == Len(lg)
           q == Quarter
           x == t[p]
<1>0. /\ s \in Nat /\ n \in Nat /\ q \in Nat /\ q >= 2 /\ n >= s + 3 * q /\ n <= s + 4 * q
      /\ Unset \in Nat /\ s + 4 * q < Unset /\ Index = 1 .. Unset /\ NumLeaves = 4 * q
  BY RolledNumbers
<1>1. \E a \in 1 .. n, m \in Index, b \in Index :
        /\ x = [leftIdx |-> a, midIdx |-> m, rightIdx |-> b,
                aggVal |-> Tot(fn, lg, a, IF b = Unset THEN n ELSE b)]
        /\ b # Unset => b \in a .. n
        /\ n = s + NumLeaves => b # Unset
  <2> DEFINE b == TopRight(s, n)
  <2>0. /\ b \in Index /\ (IF b = Unset THEN n ELSE b) = n /\ (b # Unset => b = n)
        /\ n = s + NumLeaves => b # Unset
    <3>1. n \in Index /\ n # Unset /\ Unset \in Index
      BY <1>0
    <3> QED
      BY <1>0, <3>1 DEF TopRight
  <2> HIDE DEF b
  <2>1. CASE p = <<>>
    <3>1. x = [leftIdx |-> 1, midIdx |-> s + 2 * q, rightIdx |-> b, aggVal |-> Tot(fn, lg, 1, n)]
      BY <2>1 DEF Shape, Root, b
    <3>2. 1 \in 1 .. n /\ s + 2 * q \in Index /\ n \in 1 .. n
      BY <1>0
    <3> HIDE DEF n, x
    <3> QED
      BY <2>0, <3>1, <3>2
  <2>2. CASE p = <<"L">>
    <3> DEFINE c == s + 2 * q
    <3>1. x = [leftIdx |-> 1, midIdx |-> s + q + 1, rightIdx |-> c, aggVal |-> Tot(fn, lg, 1, c)]
      BY <2>2 DEF Shape, RootLeft
    <3>2. 1 \in 1 .. n /\ s + q + 1 \in Index /\ c \in 1 .. n /\ c \in Index /\ c # Unset
      BY <1>0
    <3> HIDE DEF n, x, c
    <3>3. Tot(fn, lg, 1, c) = Tot(fn, lg, 1, IF c = Unset THEN n ELSE c)
      BY <3>2
    <3>4. x = [leftIdx |-> 1, midIdx |-> s + q + 1, rightIdx |-> c,
               aggVal |-> Tot(fn, lg, 1, IF c = Unset THEN n ELSE c)]
      BY <3>1, <3>3
    <3> QED
      BY <3>2, <3>4
  <2>3. CASE p = <<"R">>
    <3> DEFINE a == s + 2 * q + 1
    <3>1. x = [leftIdx |-> a, midIdx |-> s + 3 * q, rightIdx |-> b, aggVal |-> Tot(fn, lg, a, n)]
      BY <2>3 DEF Shape, RootRight, b
    <3>2. a \in 1 .. n /\ s + 3 * q \in Index /\ n \in a .. n
      BY <1>0
    <3> HIDE DEF n, x, a
    <3> QED
      BY <2>0, <3>1, <3>2
  <2> QED
    BY <2>1, <2>2, <2>3
<1>2. PICK a \in 1 .. n, m \in Index, b \in Index :
        /\ x = [leftIdx |-> a, midIdx |-> m, rightIdx |-> b,
                aggVal |-> Tot(fn, lg, a, IF b = Unset THEN n ELSE b)]
        /\ b # Unset => b \in a .. n
        /\ n = s + NumLeaves => b # Unset
  BY <1>1
<1> DEFINE e == IF b = Unset THEN n ELSE b
<1>3. Tot(fn, lg, a, e) \in Sums
  <2>1. a \in 1 .. n + 1 /\ e \in a - 1 .. n
    BY <1>0, <1>2
  <2> HIDE DEF e
  <2> QED
    BY <2>1, TotType
<1>4. a \in Index
  BY <1>0
<1> HIDE DEF x, n
<1>5. /\ x.leftIdx = a /\ x.midIdx = m /\ x.rightIdx = b /\ x.aggVal = Tot(fn, lg, a, e)
  BY <1>2
<1>6. x \in NodeSet
  <2> HIDE DEF e
  <2>1. x = [leftIdx |-> a, midIdx |-> m, rightIdx |-> b, aggVal |-> Tot(fn, lg, a, e)]
    BY <1>2 DEF e
  <2> QED
    BY <1>3, <1>4, <2>1 DEF NodeSet
<1>7. NodeOK(fn, lg, t, p)
  BY <1>5, <1>6 DEF NodeOK, x, n
<1>8. ASSUME n = s + NumLeaves PROVE Filled(fn, lg, t, p)
  <2>1. b # Unset /\ b \in a .. n /\ e = b
    BY <1>2, <1>8
  <2>2. x.aggVal = Tot(fn, lg, a, b)
    BY <1>5, <2>1
  <2>3. x = [leftIdx |-> x.leftIdx, midIdx |-> x.midIdx, rightIdx |-> x.rightIdx,
             aggVal |-> x.aggVal]
    BY <1>6 DEF NodeSet
  <2> QED
    BY <1>5, <2>1, <2>2, <2>3 DEF Filled, x, n
<1> QED
  BY <1>7, <1>8 DEF n

\* All nodes
LEMMA ShapeGood ==
  ASSUME NEW fn \in Fns, NEW lg \in Seq(Nat), NEW s, NEW t, Shape(fn, lg, s, t),
         NEW p \in DOMAIN t
  PROVE  /\ NodeOK(fn, lg, t, p) /\ Split(t, p)
         /\ Len(lg) = s + NumLeaves => Filled(fn, lg, t, p)
<1>1. CASE Regular(p, s)
  BY <1>1, RegularOK, RegularSplit
<1>2. CASE s # 0 /\ Old(p)
  <2>1. Filled(fn, lg, t, p) /\ Split(t, p)
    BY <1>2 DEF Shape, OldPart
  <2>2. Len(lg) < Unset
    BY RolledNumbers
  <2> QED
    BY <2>1, <2>2, FilledOK
<1>3. CASE s # 0 /\ ~(Len(p) >= 2)
  <2>1. Len(p) \in 0 .. maxDepth - 1 /\ p \in Path(Len(p)) /\ Len(p) \in Nat
    BY PlaceFacts DEF Shape
  <2>2. Len(p) = 0 \/ Len(p) = 1
    <3> DEFINE j == Len(p)
    <3>1. j \in Nat /\ ~(j >= 2)
      BY <1>3, <2>1
    <3> HIDE DEF j
    <3>2. j = 0 \/ j = 1
      BY <3>1
    <3> QED
      BY <3>2 DEF j
  <2>3. p \in {<<>>, <<"L">>, <<"R">>}
    BY <2>1, <2>2, TopPaths
  <2> QED
    BY <1>3, <2>3, TopOK, TopSplit
<1> QED
  BY <1>1, <1>2, <1>3 DEF Regular

-----------------------------------------------------------------------------
(* A value is appended.                                                    *)

\* Adding one to an index that is not the last
LEMMA IncStep == \A i \in Nat : i < Unset => Inc(i) = i + 1
<1> SUFFICES ASSUME NEW i \in Nat, i < Unset PROVE Inc(i) = i + 1
  OBVIOUS
<1> DEFINE u == Unset
<1>1. u \in Nat /\ i + 1 \in 0 .. u
  BY IndexRange
<1> HIDE DEF u
<1>2. (i + 1) % (u + 1) = i + 1
  BY <1>1
<1> QED
  BY <1>2 DEF Inc, u

\* A node of 2 * h leaves, from F on, before and after a value comes in below it
LEMMA Before ==
  ASSUME NEW fn \in Fns, NEW lg \in Seq(Nat), NEW F \in Nat, F >= 1, NEW h \in Nat \ {0},
         F <= Len(lg) + 1, Len(lg) + 1 <= F + 2 * h - 1
  PROVE  NodeAt(fn, lg, F, 2 * h) =
           [leftIdx  |-> IF F = Len(lg) + 1 THEN Unset ELSE F,
            midIdx   |-> IF Len(lg) >= F + greatest(1, h - 1) THEN F + h ELSE Unset,
            rightIdx |-> Unset, aggVal |-> Tot(fn, lg, F, Len(lg))]
<1> DEFINE n == Len(lg)
           mid == IF n >= F + greatest(1, h - 1) THEN F + h ELSE Unset
           right == IF n >= F + 2 * h - 1 THEN F + 2 * h - 1 ELSE Unset
<1>0. n \in Nat
  BY LogType
<1>1. NodeAt(fn, lg, F, 2 * h) =
        IF F > n THEN EmptyNode
        ELSE [leftIdx  |-> F, midIdx |-> mid, rightIdx |-> right,
              aggVal   |-> Tot(fn, lg, F, least(n, F + 2 * h - 1))]
  BY NodeInner
<1>2. right = Unset /\ least(n, F + 2 * h - 1) = n
  BY <1>0 DEF least
<1>3. CASE F = n + 1
  <2>1. F > n /\ mid = Unset
    BY <1>0, <1>3 DEF greatest
  <2>2. Tot(fn, lg, F, n) = NoVal
    <3>1. F \in 1 .. n + 1 /\ F - 1 = n
      BY <1>0, <1>3
    <3> QED
      BY <3>1, TotRules
  <2> HIDE DEF mid, right, n
  <2>3. NodeAt(fn, lg, F, 2 * h) = EmptyNode
    BY <1>1, <2>1
  <2>4. (IF F = n + 1 THEN Unset ELSE F) = Unset
    BY <1>3
  <2>5. NodeAt(fn, lg, F, 2 * h) =
          [leftIdx |-> IF F = n + 1 THEN Unset ELSE F, midIdx |-> mid, rightIdx |-> Unset,
           aggVal |-> Tot(fn, lg, F, n)]
    BY <2>1, <2>2, <2>3, <2>4, Zenon DEF EmptyNode
  <2> QED
    BY <2>5 DEF mid, n
<1>4. CASE F # n + 1
  <2>1. ~(F > n)
    BY <1>0, <1>4
  <2> HIDE DEF mid, right, n
  <2>2. NodeAt(fn, lg, F, 2 * h) =
          [leftIdx |-> F, midIdx |-> mid, rightIdx |-> Unset, aggVal |-> Tot(fn, lg, F, n)]
    BY <1>1, <1>2, <2>1, Zenon
  <2>3. NodeAt(fn, lg, F, 2 * h) =
          [leftIdx |-> IF F = n + 1 THEN Unset ELSE F, midIdx |-> mid, rightIdx |-> Unset,
           aggVal |-> Tot(fn, lg, F, n)]
    BY <1>4, <2>2
  <2> QED
    BY <2>3 DEF mid, n
<1> QED
  BY <1>3, <1>4

\* An inner node that takes one more value.
LEMMA After ==
  ASSUME NEW fn \in Fns, NEW lg \in Seq(Nat), NEW v \in Nat, NEW F \in Nat, F >= 1,
         NEW h \in Nat \ {0}, F <= Len(lg) + 1, Len(lg) + 1 <= F + 2 * h - 1
  PROVE  NodeAt(fn, Append(lg, v), F, 2 * h) =
           [leftIdx  |-> F,
            midIdx   |-> IF Len(lg) + 1 >= F + greatest(1, h - 1) THEN F + h ELSE Unset,
            rightIdx |-> IF Len(lg) + 1 = F + 2 * h - 1 THEN F + 2 * h - 1 ELSE Unset,
            aggVal   |-> Agg(fn, Tot(fn, lg, F, Len(lg)), v)]
<1> DEFINE n == Len(lg)
           lg2 == Append(lg, v)
           mid == IF n + 1 >= F + greatest(1, h - 1) THEN F + h ELSE Unset
           right == IF n + 1 >= F + 2 * h - 1 THEN F + 2 * h - 1 ELSE Unset
           end == IF n + 1 = F + 2 * h - 1 THEN F + 2 * h - 1 ELSE Unset
<1>0. n \in Nat /\ lg2 \in Seq(Nat) /\ Len(lg2) = n + 1
  BY LogType
<1>1. NodeAt(fn, lg2, F, 2 * h) =
        IF F > n + 1 THEN EmptyNode
        ELSE [leftIdx  |-> F, midIdx |-> mid, rightIdx |-> right,
              aggVal   |-> Tot(fn, lg2, F, least(n + 1, F + 2 * h - 1))]
  <2>1. NodeAt(fn, lg2, F, 2 * h) =
           IF F > Len(lg2) THEN EmptyNode
           ELSE [leftIdx  |-> F,
                 midIdx   |-> IF Len(lg2) >= F + greatest(1, h - 1) THEN F + h ELSE Unset,
                 rightIdx |-> IF Len(lg2) >= F + 2 * h - 1 THEN F + 2 * h - 1 ELSE Unset,
                 aggVal   |-> Tot(fn, lg2, F, least(Len(lg2), F + 2 * h - 1))]
    <3> HIDE DEF lg2
    <3> QED
      BY <1>0, NodeInner
  <2> HIDE DEF lg2
  <2> QED
    BY <1>0, <2>1
<1>2. right = end /\ least(n + 1, F + 2 * h - 1) = n + 1 /\ ~(F > n + 1)
  BY <1>0 DEF least
<1>3. Tot(fn, lg2, F, n + 1) = Agg(fn, Tot(fn, lg, F, n), v)
  <2>1. F \in 1 .. n + 1
    BY <1>0
  <2> QED
    BY <2>1, TotLast
<1> HIDE DEF mid, right, end, n, lg2
<1>4. NodeAt(fn, lg2, F, 2 * h) =
        [leftIdx |-> F, midIdx |-> mid, rightIdx |-> end,
         aggVal |-> Agg(fn, Tot(fn, lg, F, n), v)]
  BY <1>1, <1>2, <1>3, Zenon
<1> QED
  BY <1>4 DEF mid, end, n, lg2

\* The new leaf is the one the code makes.
LEMMA LeafAppended ==
  ASSUME NEW fn \in Fns, NEW lg \in Seq(Nat), NEW v \in Nat
  PROVE  NodeAt(fn, Append(lg, v), Len(lg) + 1, 1) = Leaf(Len(lg) + 1, v)
<1> DEFINE n == Len(lg)
           lg2 == Append(lg, v)
           F == n + 1
<1>0. n \in Nat /\ lg2 \in Seq(Nat) /\ Len(lg2) = F /\ F \in Nat /\ F \in 1 .. n + 1
      /\ F - 1 = n /\ ~(F > F)
  BY LogType
<1>1. NodeAt(fn, lg2, F, 1) =
        IF F > F THEN EmptyNode
        ELSE [leftIdx |-> F, midIdx |-> F, rightIdx |-> F, aggVal |-> Tot(fn, lg2, F, F)]
  <2> HIDE DEF lg2, F
  <2> QED
    BY <1>0, NodeLeaf
<1>2. Tot(fn, lg2, F, F) = v
  <2>1. Tot(fn, lg2, F, F) = Agg(fn, Tot(fn, lg, F, n), v)
    BY <1>0, TotLast
  <2>2. Tot(fn, lg, F, n) = NoVal
    BY <1>0, TotRules
  <2>3. Agg(fn, NoVal, v) = v
    BY AggRules DEF Sums
  <2> QED
    BY <2>1, <2>2, <2>3, Zenon
<1> HIDE DEF lg2, F, n
<1>3. NodeAt(fn, lg2, F, 1) = [leftIdx |-> F, midIdx |-> F, rightIdx |-> F, aggVal |-> v]
  BY <1>0, <1>1, <1>2, Zenon
<1> QED
  BY <1>3 DEF Leaf, F, n, lg2

\* The fields of a node, and what changes when a child has changed
Node(l, m, r, a) == [leftIdx |-> l, midIdx |-> m, rightIdx |-> r, aggVal |-> a]

\* What appendFromParent writes to a node that it came to from the left.
LEMMA LeftNode ==
  ASSUME NEW l, NEW m, NEW r, NEW a, NEW child, NEW g \in BOOLEAN
  PROVE  LeftUpdated(Node(l, m, r, a), child, g) =
           Node(least(l, child.leftIdx),
                IF ~g THEN m
                ELSE IF m = Unset THEN Inc(child.rightIdx) ELSE greatest(m, Inc(child.rightIdx)),
                r, a)
<1> DEFINE A == least(l, child.leftIdx)
           x == Node(l, m, r, a)
           B(k) == IF ~g THEN k
                ELSE IF k = Unset THEN Inc(child.rightIdx) ELSE greatest(k, Inc(child.rightIdx))
           y == [x EXCEPT !.leftIdx = A]
<1>0. x.leftIdx = l
  BY DEF Node
<1>1. y = Node(A, m, r, a)
  BY DEF Node
<1>2. y.midIdx = m
  BY <1>1 DEF Node
<1>3. LeftUpdated(x, child, g) = [y EXCEPT !.midIdx = B(y.midIdx)]
  BY <1>0 DEF LeftUpdated
<1> HIDE DEF B, y, A, x
<1>4. [y EXCEPT !.midIdx = B(m)] = Node(A, B(m), r, a)
  BY <1>1 DEF Node
<1> QED
  BY <1>2, <1>3, <1>4 DEF B, A, x

\* What appendFromParent writes to a node that it came to from the right.
LEMMA RightNode ==
  ASSUME NEW l, NEW m, NEW r, NEW a, NEW child
  PROVE  RightUpdated(Node(l, m, r, a), child) =
           Node(l, least(m, child.leftIdx),
                IF r = Unset THEN child.rightIdx ELSE greatest(r, child.rightIdx), a)
<1> DEFINE A == least(m, child.leftIdx)
           x == Node(l, m, r, a)
           B(k) == IF k = Unset THEN child.rightIdx ELSE greatest(k, child.rightIdx)
           y == [x EXCEPT !.midIdx = A]
<1>0. x.midIdx = m
  BY DEF Node
<1>1. y = Node(l, A, r, a)
  BY DEF Node
<1>2. y.rightIdx = r
  BY <1>1 DEF Node
<1>3. RightUpdated(x, child) = [y EXCEPT !.rightIdx = B(y.rightIdx)]
  BY <1>0 DEF RightUpdated
<1> HIDE DEF B, y, A, x
<1>4. [y EXCEPT !.rightIdx = B(r)] = Node(l, A, B(r), a)
  BY <1>1 DEF Node
<1> QED
  BY <1>2, <1>3, <1>4 DEF B, A, x

\* A node after a value has been added to its aggregate
Added(fn, x, v) == [x EXCEPT !.aggVal = Agg(fn, @, v)]

\* The value has come in below the left child.
LEMMA LeftAppended ==
  ASSUME NEW fn \in Fns, NEW lg \in Seq(Nat), NEW v \in Nat, NEW F \in Nat, F >= 1,
         NEW h \in Nat \ {0}, Halved(h), F + 2 * h <= Unset,
         F <= Len(lg) + 1, Len(lg) + 1 <= F + h - 1, NEW g \in BOOLEAN,
         g <=> (h >= 2 /\ Len(lg) + 1 = F + h - 1)
  PROVE  LeftUpdated(Added(fn, NodeAt(fn, lg, F, 2 * h), v), NodeAt(fn, Append(lg, v), F, h), g)
           = NodeAt(fn, Append(lg, v), F, 2 * h)
<1> DEFINE n == Len(lg)
           lg2 == Append(lg, v)
           x == NodeAt(fn, lg, F, 2 * h)
           child == NodeAt(fn, lg2, F, h)
           a == Agg(fn, Tot(fn, lg, F, n), v)
           left == IF F = n + 1 THEN Unset ELSE F
<1>0. n \in Nat /\ lg2 \in Seq(Nat) /\ Len(lg2) = n + 1 /\ Unset \in Nat
  BY LogType, IndexRange
<1>1. n + 1 <= F + 2 * h - 1 /\ F + h <= Unset /\ F <= Unset
  BY <1>0
<1>2. x = [leftIdx |-> left,
           midIdx |-> IF n >= F + greatest(1, h - 1) THEN F + h ELSE Unset,
           rightIdx |-> Unset, aggVal |-> Tot(fn, lg, F, n)]
  BY <1>1, Before
<1>3. ~(n >= F + greatest(1, h - 1))
  BY <1>0 DEF greatest
<1>4. NodeAt(fn, lg2, F, 2 * h) =
           [leftIdx  |-> F,
            midIdx   |-> IF n + 1 >= F + greatest(1, h - 1) THEN F + h ELSE Unset,
            rightIdx |-> IF n + 1 = F + 2 * h - 1 THEN F + 2 * h - 1 ELSE Unset,
            aggVal   |-> a]
  BY <1>1, After
<1>5. n + 1 # F + 2 * h - 1 /\ (n + 1 >= F + greatest(1, h - 1) <=> g)
  BY <1>0 DEF greatest
<1>6. child.leftIdx = F /\ (g => child.rightIdx = F + h - 1)
  <2>1. Says(fn, lg2, F, h, child)
    <3> HIDE DEF lg2
    <3> QED
      BY <1>0, <1>1, NodeGood
  <2>2. F <= n + 1 /\ (g => n + 1 >= F + h - 1)
    BY <1>0
  <2> HIDE DEF lg2, child
  <2> QED
    BY <1>0, <2>1, <2>2 DEF Says
<1>7. least(left, F) = F /\ Inc(F + h - 1) = F + h
  <2>1. F + h - 1 \in Nat /\ F + h - 1 < Unset /\ F + h - 1 + 1 = F + h
    BY <1>0, <1>1
  <2>2. Inc(F + h - 1) = F + h - 1 + 1
    BY <2>1, IncStep
  <2>3. least(left, F) = F
    BY <1>0, <1>1 DEF least
  <2> QED
    BY <2>1, <2>2, <2>3
<1> HIDE DEF n, lg2, x, child, a, left
<1>8. x = [leftIdx |-> left, midIdx |-> Unset, rightIdx |-> Unset, aggVal |-> Tot(fn, lg, F, n)]
  BY <1>2, <1>3
<1>9. Added(fn, x, v) = [leftIdx |-> left, midIdx |-> Unset, rightIdx |-> Unset, aggVal |-> a]
  BY <1>8 DEF Added, a
<1>10. LeftUpdated(Added(fn, x, v), child, g) =
         [leftIdx |-> F, midIdx |-> IF g THEN F + h ELSE Unset, rightIdx |-> Unset, aggVal |-> a]
  <2> DEFINE m == IF ~g THEN Unset
                  ELSE IF Unset = Unset THEN Inc(child.rightIdx)
                       ELSE greatest(Unset, Inc(child.rightIdx))
  <2>1. m = IF g THEN F + h ELSE Unset
    BY <1>6, <1>7
  <2>2. Added(fn, x, v) = Node(left, Unset, Unset, a)
    BY <1>9 DEF Node
  <2>3. LeftUpdated(Added(fn, x, v), child, g) = Node(least(left, child.leftIdx), m, Unset, a)
    BY <2>2, LeftNode
  <2> HIDE DEF m
  <2>4. least(left, child.leftIdx) = F
    BY <1>6, <1>7
  <2> QED
    BY <2>1, <2>3, <2>4 DEF Node
<1>11. NodeAt(fn, lg2, F, 2 * h) =
         [leftIdx |-> F, midIdx |-> IF g THEN F + h ELSE Unset, rightIdx |-> Unset, aggVal |-> a]
  BY <1>4, <1>5
<1> QED
  BY <1>10, <1>11, Zenon DEF x, child, lg2

\* The value has come in below the right child.
LEMMA RightAppended ==
  ASSUME NEW fn \in Fns, NEW lg \in Seq(Nat), NEW v \in Nat, NEW F \in Nat, F >= 1,
         NEW h \in Nat \ {0}, Halved(h), F + 2 * h <= Unset,
         F + h <= Len(lg) + 1, Len(lg) + 1 <= F + 2 * h - 1
  PROVE  RightUpdated(Added(fn, NodeAt(fn, lg, F, 2 * h), v),
                      NodeAt(fn, Append(lg, v), F + h, h))
           = NodeAt(fn, Append(lg, v), F, 2 * h)
<1> DEFINE n == Len(lg)
           lg2 == Append(lg, v)
           x == NodeAt(fn, lg, F, 2 * h)
           child == NodeAt(fn, lg2, F + h, h)
           a == Agg(fn, Tot(fn, lg, F, n), v)
           mid == IF n >= F + greatest(1, h - 1) THEN F + h ELSE Unset
           end == IF n + 1 = F + 2 * h - 1 THEN F + 2 * h - 1 ELSE Unset
<1>0. n \in Nat /\ lg2 \in Seq(Nat) /\ Len(lg2) = n + 1 /\ Unset \in Nat
  BY LogType, IndexRange
<1>1. F <= n + 1 /\ F # n + 1 /\ F + h \in Nat /\ F + h >= 1 /\ F + h + h <= Unset
      /\ F + h <= Unset
  BY <1>0
<1>2. x = [leftIdx |-> IF F = n + 1 THEN Unset ELSE F, midIdx |-> mid,
           rightIdx |-> Unset, aggVal |-> Tot(fn, lg, F, n)]
  BY <1>1, Before
<1>3. NodeAt(fn, lg2, F, 2 * h) =
           [leftIdx  |-> F,
            midIdx   |-> IF n + 1 >= F + greatest(1, h - 1) THEN F + h ELSE Unset,
            rightIdx |-> end, aggVal |-> a]
  BY <1>1, After
<1>4. n + 1 >= F + greatest(1, h - 1) /\ least(mid, F + h) = F + h
  BY <1>0, <1>1 DEF greatest, least
<1>5. child.leftIdx = F + h /\ child.rightIdx = end
  <2>1. Says(fn, lg2, F + h, h, child)
    <3> HIDE DEF lg2
    <3> QED
      BY <1>0, <1>1, NodeGood
  <2>2. /\ F + h <= n + 1 /\ F + h + h - 1 = F + 2 * h - 1
        /\ n + 1 >= F + 2 * h - 1 <=> n + 1 = F + 2 * h - 1
    BY <1>0
  <2> HIDE DEF lg2, child
  <2>3. child.leftIdx = F + h
        /\ child.rightIdx = IF n + 1 >= F + h + h - 1 THEN F + h + h - 1 ELSE Unset
    BY <1>0, <2>1, <2>2 DEF Says
  <2> QED
    BY <2>2, <2>3
<1> HIDE DEF n, lg2, x, child, a, mid, end
<1>6. Added(fn, x, v) = Node(F, mid, Unset, a)
  <2>1. x = Node(F, mid, Unset, Tot(fn, lg, F, n))
    BY <1>1, <1>2 DEF Node
  <2> QED
    BY <2>1 DEF Added, Node, a
<1>7. RightUpdated(Added(fn, x, v), child) =
         [leftIdx |-> F, midIdx |-> F + h, rightIdx |-> end, aggVal |-> a]
  <2>1. RightUpdated(Added(fn, x, v), child) =
          Node(F, least(mid, child.leftIdx),
               IF Unset = Unset THEN child.rightIdx ELSE greatest(Unset, child.rightIdx), a)
    BY <1>6, RightNode
  <2> QED
    BY <1>4, <1>5, <2>1 DEF Node
<1>8. NodeAt(fn, lg2, F, 2 * h) =
         [leftIdx |-> F, midIdx |-> F + h, rightIdx |-> end, aggVal |-> a]
  BY <1>3, <1>4
<1> QED
  BY <1>7, <1>8, Zenon DEF x, child, lg2

\* Above the newest quarter of a tree that has been rolled up
LEMMA RootRightAppended ==
  ASSUME NEW fn \in Fns, NEW lg \in Seq(Nat), NEW v \in Nat, NEW s \in Nat, Halved(Quarter),
         Len(lg) >= s + 3 * Quarter, Len(lg) < s + 4 * Quarter, s + 4 * Quarter < Unset
  PROVE  /\ RightUpdated(Added(fn, RootRight(fn, lg, s), v),
                         NodeAt(fn, Append(lg, v), s + 3 * Quarter + 1, Quarter))
              = RootRight(fn, Append(lg, v), s)
         /\ RightUpdated(Added(fn, Root(fn, lg, s), v), RootRight(fn, Append(lg, v), s))
              = Root(fn, Append(lg, v), s)
<1> DEFINE n == Len(lg)
           q == Quarter
           lg2 == Append(lg, v)
           F == s + 3 * q + 1
           c == s + 2 * q + 1
           child == NodeAt(fn, lg2, F, q)
           end == TopRight(s, n + 1)
<1>0. /\ n \in Nat /\ lg2 \in Seq(Nat) /\ Len(lg2) = n + 1 /\ Unset \in Nat
      /\ q \in Nat \ {0} /\ q >= 2
  BY LogType, IndexRange, Spans
<1>1. F \in Nat /\ F >= 1 /\ F + q <= Unset /\ F <= n + 1 /\ c \in 1 .. n + 1 /\ 1 \in 1 .. n + 1
  BY <1>0
<1>2. child.leftIdx = F /\ child.rightIdx = end
  <2>1. Says(fn, lg2, F, q, child)
    <3> HIDE DEF lg2
    <3> QED
      BY <1>0, <1>1, NodeGood
  <2>2. child.leftIdx = F /\ child.rightIdx = IF n + 1 >= F + q - 1 THEN F + q - 1 ELSE Unset
    <3> HIDE DEF lg2, child
    <3> QED
      BY <1>0, <1>1, <2>1 DEF Says
  <2>3. (IF n + 1 >= F + q - 1 THEN F + q - 1 ELSE Unset) = end
    BY <1>0 DEF TopRight
  <2> QED
    BY <2>2, <2>3
<1>3. ASSUME NEW b \in {TopRight(s, n)}
      PROVE  (IF b = Unset THEN end ELSE greatest(b, end)) = end
  <2>1. CASE n = s + 3 * q
    <3>1. b = n /\ end = Unset
      BY <1>0, <2>1 DEF TopRight
    <3> QED
      BY <1>0, <3>1 DEF greatest
  <2>2. CASE n # s + 3 * q
    <3>1. b = Unset
      BY <1>0, <2>2 DEF TopRight
    <3> QED
      BY <3>1
  <2> QED
    BY <2>1, <2>2
<1>4. /\ Tot(fn, lg2, c, n + 1) = Agg(fn, Tot(fn, lg, c, n), v)
      /\ Tot(fn, lg2, 1, n + 1) = Agg(fn, Tot(fn, lg, 1, n), v)
  <2> HIDE DEF c
  <2> QED
    BY <1>1, TotLast
<1>5. least(s + 3 * q, F) = s + 3 * q /\ least(s + 2 * q, c) = s + 2 * q
  BY <1>0 DEF least
<1> DEFINE b == TopRight(s, n)
<1>6. (IF b = Unset THEN end ELSE greatest(b, end)) = end
  BY <1>3
<1>7. RightUpdated(Added(fn, RootRight(fn, lg, s), v), child) = RootRight(fn, lg2, s)
  <2>1. RootRight(fn, lg, s) = [leftIdx |-> c, midIdx |-> s + 3 * q, rightIdx |-> b,
                                aggVal |-> Tot(fn, lg, c, n)]
    BY DEF RootRight
  <2>2. RootRight(fn, lg2, s) = [leftIdx |-> c, midIdx |-> s + 3 * q, rightIdx |-> end,
                                 aggVal |-> Agg(fn, Tot(fn, lg, c, n), v)]
    <3>1. RootRight(fn, lg2, s) =
            [leftIdx |-> c, midIdx |-> s + 3 * q, rightIdx |-> TopRight(s, Len(lg2)),
             aggVal |-> Tot(fn, lg2, c, Len(lg2))]
      BY DEF RootRight
    <3> HIDE DEF lg2, c
    <3> QED
      BY <1>0, <1>4, <3>1
  <2> DEFINE x == RootRight(fn, lg, s)
  <2> HIDE DEF x, lg2, c, child, end, b, F, n, q
  <2>3. Added(fn, x, v) = Node(c, s + 3 * q, b, Agg(fn, Tot(fn, lg, c, n), v))
    BY <2>1 DEF Added, Node, x
  <2>6. RightUpdated(Added(fn, x, v), child) =
          Node(c, least(s + 3 * q, child.leftIdx),
               IF b = Unset THEN child.rightIdx ELSE greatest(b, child.rightIdx),
               Agg(fn, Tot(fn, lg, c, n), v))
    BY <2>3, RightNode
  <2>4. RightUpdated(Added(fn, x, v), child) =
          [leftIdx |-> c, midIdx |-> s + 3 * q, rightIdx |-> end,
           aggVal |-> Agg(fn, Tot(fn, lg, c, n), v)]
    BY <1>2, <1>5, <1>6, <2>6 DEF Node
  <2> QED
    BY <2>2, <2>4, Zenon DEF x
<1>8. RightUpdated(Added(fn, Root(fn, lg, s), v), RootRight(fn, lg2, s)) = Root(fn, lg2, s)
  <2>1. Root(fn, lg, s) = [leftIdx |-> 1, midIdx |-> s + 2 * q, rightIdx |-> b,
                           aggVal |-> Tot(fn, lg, 1, n)]
    BY DEF Root
  <2>2. Root(fn, lg2, s) = [leftIdx |-> 1, midIdx |-> s + 2 * q, rightIdx |-> end,
                            aggVal |-> Agg(fn, Tot(fn, lg, 1, n), v)]
    <3>1. Root(fn, lg2, s) =
            [leftIdx |-> 1, midIdx |-> s + 2 * q, rightIdx |-> TopRight(s, Len(lg2)),
             aggVal |-> Tot(fn, lg2, 1, Len(lg2))]
      BY DEF Root
    <3> HIDE DEF lg2
    <3> QED
      BY <1>0, <1>4, <3>1
  <2> DEFINE x == Root(fn, lg, s)
             y == RootRight(fn, lg2, s)
  <2>5. y.leftIdx = c /\ y.rightIdx = end
    <3>1. y.leftIdx = c /\ y.rightIdx = TopRight(s, Len(lg2))
      BY DEF RootRight
    <3> HIDE DEF lg2, y
    <3> QED
      BY <1>0, <3>1
  <2> HIDE DEF x, y, lg2, c, child, end, b, F, n, q
  <2>3. Added(fn, x, v) = Node(1, s + 2 * q, b, Agg(fn, Tot(fn, lg, 1, n), v))
    BY <2>1 DEF Added, Node, x
  <2>6. RightUpdated(Added(fn, x, v), y) =
          Node(1, least(s + 2 * q, y.leftIdx),
               IF b = Unset THEN y.rightIdx ELSE greatest(b, y.rightIdx),
               Agg(fn, Tot(fn, lg, 1, n), v))
    BY <2>3, RightNode
  <2>4. RightUpdated(Added(fn, x, v), y) =
          [leftIdx |-> 1, midIdx |-> s + 2 * q, rightIdx |-> end,
           aggVal |-> Agg(fn, Tot(fn, lg, 1, n), v)]
    BY <1>5, <2>5, <1>6, <2>6 DEF Node
  <2> QED
    BY <2>2, <2>4, Zenon DEF x, y
<1> QED
  BY <1>7, <1>8

-----------------------------------------------------------------------------
(* appendFromParent                                                        *)

\* NodeAt of an inner node when one more value is there.
LEMMA NodeInnerLater ==
  ASSUME NEW fn, NEW lg \in Seq(Nat), NEW v \in Nat, NEW F \in Nat, NEW h \in Nat \ {0}
  PROVE  NodeAt(fn, Append(lg, v), F, 2 * h) =
           IF F > Len(lg) + 1 THEN EmptyNode
           ELSE [leftIdx  |-> F,
                 midIdx   |-> IF Len(lg) + 1 >= F + greatest(1, h - 1) THEN F + h ELSE Unset,
                 rightIdx |-> IF Len(lg) + 1 >= F + 2 * h - 1 THEN F + 2 * h - 1 ELSE Unset,
                 aggVal   |-> Tot(fn, Append(lg, v), F, least(Len(lg) + 1, F + 2 * h - 1))]
<1> DEFINE lg2 == Append(lg, v)
<1>0. lg2 \in Seq(Nat) /\ Len(lg2) = Len(lg) + 1
  BY LogType
<1> HIDE DEF lg2
<1>1. NodeAt(fn, lg2, F, 2 * h) =
           IF F > Len(lg2) THEN EmptyNode
           ELSE [leftIdx |-> F,
                 midIdx |-> IF Len(lg2) >= F + greatest(1, h - 1) THEN F + h ELSE Unset,
                 rightIdx |-> IF Len(lg2) >= F + 2 * h - 1 THEN F + 2 * h - 1 ELSE Unset,
                 aggVal |-> Tot(fn, lg2, F, least(Len(lg2), F + 2 * h - 1))]
  BY <1>0, NodeInner
<1> QED
  BY <1>0, <1>1, Zenon DEF lg2

\* A node that the value does not concern
LEMMA Unmoved ==
  ASSUME NEW fn \in Fns, NEW lg \in Seq(Nat), NEW v \in Nat, NEW F \in Nat, F >= 1,
         NEW m \in Nat \ {0}, Halved(m), F > Len(lg) + 1 \/ F + m - 1 <= Len(lg)
  PROVE  NodeAt(fn, Append(lg, v), F, m) = NodeAt(fn, lg, F, m)
<1> DEFINE n == Len(lg)
           lg2 == Append(lg, v)
<1>0. n \in Nat /\ lg2 \in Seq(Nat) /\ Len(lg2) = n + 1
  BY LogType
<1>1. CASE F > n + 1
  <2>1. F > n
    BY <1>0, <1>1
  <2>2. NodeAt(fn, lg, F, m) = EmptyNode
    BY <2>1 DEF NodeAt
  <2>3. NodeAt(fn, lg2, F, m) = EmptyNode
    <3>1. F > Len(lg2)
      BY <1>0, <1>1
    <3> QED
      BY <3>1 DEF NodeAt
  <2> QED
    BY <2>2, <2>3
<1>2. CASE F + m - 1 <= n
  <2>0. F <= n /\ ~(F > n) /\ ~(F > n + 1)
    BY <1>0, <1>2
  <2>1. CASE m = 1
    <3>1. Tot(fn, lg2, F, F) = Tot(fn, lg, F, F)
      <4>1. F \in 1 .. n + 1 /\ F \in F - 1 .. n
        BY <1>0, <2>0
      <4> QED
        BY <4>1, TotAppend
    <3>2. NodeAt(fn, lg, F, 1) =
            [leftIdx |-> F, midIdx |-> F, rightIdx |-> F, aggVal |-> Tot(fn, lg, F, F)]
      BY <2>0, NodeLeaf
    <3>3. NodeAt(fn, lg2, F, 1) =
            [leftIdx |-> F, midIdx |-> F, rightIdx |-> F, aggVal |-> Tot(fn, lg2, F, F)]
      <4> HIDE DEF lg2
      <4>1. ~(F > Len(lg2))
        BY <1>0, <2>0
      <4> QED
        BY <1>0, <4>1, NodeLeaf
    <3> QED
      BY <2>1, <3>1, <3>2, <3>3
  <2>2. CASE m # 1
    <3>1. PICK h \in Nat \ {0} : m = 2 * h
      BY <2>2 DEF Halved
    <3> DEFINE r == F + 2 * h - 1
    <3>2. /\ n >= F + greatest(1, h - 1) /\ n + 1 >= F + greatest(1, h - 1)
          /\ n >= r /\ n + 1 >= r /\ least(n, r) = r /\ least(n + 1, r) = r
          /\ F \in 1 .. n + 1 /\ r \in F - 1 .. n
      BY <1>0, <1>2, <2>0, <3>1 DEF greatest, least
    <3>3. Tot(fn, lg2, F, r) = Tot(fn, lg, F, r)
      <4> HIDE DEF r
      <4> QED
        BY <3>2, TotAppend
    <3>4. NodeAt(fn, lg, F, 2 * h) =
            [leftIdx |-> F, midIdx |-> F + h, rightIdx |-> r, aggVal |-> Tot(fn, lg, F, r)]
      <4>1. NodeAt(fn, lg, F, 2 * h) =
            [leftIdx |-> F, midIdx |-> IF n >= F + greatest(1, h - 1) THEN F + h ELSE Unset,
             rightIdx |-> IF n >= r THEN r ELSE Unset, aggVal |-> Tot(fn, lg, F, least(n, r))]
        BY <2>0, NodeInner
      <4> HIDE DEF n, r
      <4> QED
        BY <3>2, <4>1
    <3>5. NodeAt(fn, lg2, F, 2 * h) =
            [leftIdx |-> F, midIdx |-> F + h, rightIdx |-> r, aggVal |-> Tot(fn, lg2, F, r)]
      <4>1. NodeAt(fn, lg2, F, 2 * h) =
            IF F > n + 1 THEN EmptyNode
            ELSE [leftIdx |-> F,
                  midIdx |-> IF n + 1 >= F + greatest(1, h - 1) THEN F + h ELSE Unset,
                  rightIdx |-> IF n + 1 >= r THEN r ELSE Unset,
                  aggVal |-> Tot(fn, lg2, F, least(n + 1, r))]
        BY NodeInnerLater
      <4> HIDE DEF n, r, lg2
      <4> QED
        BY <2>0, <3>2, <4>1
    <3> HIDE DEF lg2, r
    <3> QED
      BY <3>1, <3>3, <3>4, <3>5, Zenon DEF lg2
  <2> QED
    BY <2>1, <2>2
<1> QED
  BY <1>1, <1>2

\* The next value goes to leaf q.
Appending(lg, s, t, q, v) ==
  /\ aggFunc \in Fns /\ lg \in Seq(Nat) /\ v \in Nat /\ Shape(aggFunc, lg, s, t)
  /\ q \in Path(maxDepth - 1) /\ First(q) + s = Len(lg) + 1

\* A node on the way to it
OnWay(lg, s, t, q, m) ==
  LET p == Above(q, m)
      F == First(p) + s
      k == Span(m)
  IN  /\ p \in Path(m) /\ Len(p) = m
      /\ F \in Nat /\ F >= 1 /\ k \in Nat \ {0} /\ Halved(k)
      /\ F <= Len(lg) + 1 /\ Len(lg) + 1 <= F + k - 1 /\ F + k <= Unset
      /\ m < maxDepth - 1 => p \in DOMAIN t
      /\ Regular(p, s) \/ (s # 0 /\ p = <<>> /\ m = 0) \/ (s # 0 /\ p = <<"R">> /\ m = 1)

\* Spans halve from level to level, down to 1.
LEMMA SpanHalved == \A m \in 0 .. maxDepth - 1 : Span(m) \in Nat \ {0} /\ Halved(Span(m))
<1> SUFFICES ASSUME NEW m \in 0 .. maxDepth - 1 PROVE Span(m) \in Nat \ {0} /\ Halved(Span(m))
  OBVIOUS
<1>1. Span(m) \in Nat \ {0}
  BY Spans
<1>2. CASE m = maxDepth - 1
  BY <1>1, <1>2, Spans DEF Halved
<1>3. CASE m # maxDepth - 1
  <2>1. m \in 0 .. maxDepth - 2 /\ m + 1 \in 0 .. maxDepth - 1
    <3>1. maxDepth \in Nat
      BY Spans
    <3> QED
      BY <1>3, <3>1
  <2>2. Span(m) = 2 * Span(m + 1) /\ Span(m + 1) \in Nat \ {0}
    BY <2>1, Spans
  <2> QED
    BY <1>1, <2>2 DEF Halved
<1> QED
  BY <1>2, <1>3

\* After a rollup the next value goes to the newest quarter.
LEMMA NewestQuarter ==
  ASSUME NEW lg, NEW s, NEW t, NEW q, NEW v, Appending(lg, s, t, q, v), s # 0
  PROVE  q[1] = "R" /\ q[2] = "R" /\ Above(q, 2) = <<"R", "R">> /\ Above(q, 1) = <<"R">>
<1>1. q \in Path(maxDepth - 1) /\ First(q) + s = Len(lg) + 1 /\ Shape(aggFunc, lg, s, t)
  BY DEF Appending
<1>2. /\ s \in Nat /\ Len(lg) \in Nat /\ Quarter \in Nat /\ Len(lg) >= s + 3 * Quarter
  BY <1>1, RolledNumbers DEF Appending
<1>3. maxDepth - 1 \in 2 .. maxDepth - 1 /\ maxDepth - 1 \in Nat
      /\ maxDepth - 1 \in 0 .. maxDepth - 1 /\ 0 \in 0 .. maxDepth - 2
  BY Spans
<1> DEFINE x == q[1]
           y == q[2]
<1>4. /\ Above(q, 2) = <<x, y>> /\ x \in Side /\ y \in Side
      /\ First(q) + Span(maxDepth - 1) <= First(<<x, y>>) + Quarter
  <2> HIDE DEF x, y
  <2> QED
    BY <1>1, <1>3, PathStarts DEF x, y
<1>5. First(q) \in Nat /\ First(q) >= 3 * Quarter + 1 /\ Span(maxDepth - 1) = 1
  <2>1. First(q) \in Nat
    BY <1>1, <1>3, FirstRange
  <2> QED
    BY <1>1, <1>2, <2>1, Spans
<1>6. x = "R" /\ y = "R"
  <2> HIDE DEF x, y
  <2>1. SUFFICES ASSUME ~(x = "R" /\ y = "R") PROVE FALSE
    OBVIOUS
  <2>2. /\ First(<<"L", "L">>) = 1 /\ First(<<"L", "R">>) = Quarter + 1
        /\ First(<<"R", "L">>) = 2 * Quarter + 1
    BY TopFirst
  <2>3. <<x, y>> = <<"L", "L">> \/ <<x, y>> = <<"L", "R">> \/ <<x, y>> = <<"R", "L">>
    BY <1>4, <2>1 DEF Side
  <2>4. First(<<x, y>>) \in Nat /\ First(<<x, y>>) <= 2 * Quarter + 1
    BY <1>2, <2>2, <2>3
  <2> QED
    BY <1>2, <1>4, <1>5, <2>4
<1>7. Above(q, 1) = <<"R">>
  <2>1. SubSeq(q, 1, 0 + 1) = SubSeq(q, 1, 0) \o <<q[0 + 1]>>
    <3>1. 0 \in 0 .. (maxDepth - 1) - 1
      BY Spans
    <3> QED
      BY <1>1, <1>3, <3>1, PrefixStep
  <2>2. SubSeq(q, 1, 0) = <<>>
    BY <1>1, <1>3, PrefixAll
  <2>3. <<>> \o <<"R">> = <<"R">>
    BY TopPaths DEF Side
  <2>4. SubSeq(q, 1, 1) = SubSeq(q, 1, 0) \o <<q[1]>>
    BY <2>1
  <2> QED
    BY <1>6, <2>2, <2>3, <2>4 DEF Above
<1> QED
  BY <1>4, <1>6, <1>7

\* The nodes on the way to the new leaf, before the append.
LEMMA WayFacts ==
  ASSUME NEW lg, NEW s, NEW t, NEW q, NEW v, Appending(lg, s, t, q, v),
         NEW m \in 0 .. maxDepth - 1
  PROVE  OnWay(lg, s, t, q, m)
<1> DEFINE p == Above(q, m)
           F == First(p) + s
           k == Span(m)
           n == Len(lg)
<1>1. q \in Path(maxDepth - 1) /\ First(q) + s = n + 1 /\ Shape(aggFunc, lg, s, t)
  BY DEF Appending
<1>2. /\ s \in Nat /\ n \in Nat /\ NumLeaves \in Nat /\ Unset \in Nat
      /\ s + NumLeaves < Unset /\ DOMAIN t = Places(s, n)
  <2>1. /\ s \in Nat /\ n \in Nat /\ Quarter \in Nat /\ NumLeaves = 4 * Quarter
        /\ Unset \in Nat /\ s + 4 * Quarter < Unset /\ DOMAIN t = Places(s, n)
    BY <1>1, RolledNumbers DEF Appending
  <2> QED
    BY <2>1
<1>3. maxDepth - 1 \in Nat /\ maxDepth - 1 \in 0 .. maxDepth - 1 /\ m \in Nat /\ m <= maxDepth - 1
      /\ Span(maxDepth - 1) = 1
  BY Spans
<1>4. p \in Path(m) /\ Len(p) = m
  BY <1>1, <1>3, Prefix DEF Above
<1>5. k \in Nat \ {0} /\ Halved(k)
  BY SpanHalved
<1>6. /\ First(p) \in Nat /\ First(q) \in Nat /\ First(p) <= First(q)
      /\ First(q) + 1 <= First(p) + k
  <2>1. /\ First(p) \in Nat /\ First(q) \in Nat /\ First(p) <= First(q)
        /\ First(q) + Span(maxDepth - 1) <= First(p) + Span(m)
    BY <1>1, <1>3, Nested
  <2> QED
    BY <1>3, <2>1
<1>7. First(p) >= 1 /\ First(p) + k <= NumLeaves + 1
  BY <1>4, FirstRange
<1>8. F \in Nat /\ F >= 1 /\ F <= n + 1 /\ n + 1 <= F + k - 1 /\ F + k <= Unset
  <2> HIDE DEF k, p, n
  <2> QED
    BY <1>1, <1>2, <1>5, <1>6, <1>7
<1>9. m < maxDepth - 1 => p \in DOMAIN t
  <2> SUFFICES ASSUME m < maxDepth - 1 PROVE p \in DOMAIN t
    OBVIOUS
  <2>1. m # maxDepth - 1
    BY <1>3
  <2> QED
    BY <1>2, <1>4, <2>1, PlaceIs
<1>10. Regular(p, s) \/ (s # 0 /\ p = <<>> /\ m = 0) \/ (s # 0 /\ p = <<"R">> /\ m = 1)
  <2>1. CASE s = 0
    BY <2>1 DEF Regular
  <2>2. CASE s # 0
    <3>1. q[1] = "R" /\ q[2] = "R" /\ Above(q, 1) = <<"R">>
      BY <2>2, NewestQuarter
    <3>2. CASE m = 0
      BY <1>1, <1>3, <2>2, <3>2, PrefixAll DEF Above
    <3>3. CASE m = 1
      BY <2>2, <3>1, <3>3
    <3>4. CASE m >= 2
      <4>1. p[1] = q[1]
        <5>1. 1 \in 1 .. m
          BY <1>3, <3>4
        <5> QED
          BY <1>1, <1>3, <5>1, Prefix DEF Above
      <4> QED
        BY <1>4, <3>1, <3>4, <4>1 DEF Regular, Old
    <3> QED
      BY <1>3, <3>2, <3>3, <3>4
  <2> QED
    BY <2>1, <2>2
<1> HIDE DEF p, k
<1> QED
  BY <1>4, <1>5, <1>8, <1>9, <1>10 DEF OnWay, p, k

\* A node on the way once the value is there
Later(lg, s, p) ==
  IF Regular(p, s) THEN NodeAt(aggFunc, lg, First(p) + s, Span(Len(p)))
  ELSE IF p = <<>> THEN Root(aggFunc, lg, s)
  ELSE RootRight(aggFunc, lg, s)

\* From a node to the next on the way
WayStep(lg, s, t, q, m) ==
  LET p == Above(q, m)
      c == Above(q, m + 1)
      F == First(p) + s
      h == Span(m + 1)
  IN  /\ m + 1 \in 0 .. maxDepth - 1 /\ m + 1 \in Nat /\ q[m + 1] \in Side
      /\ c = p \o <<q[m + 1]>> /\ p \in DOMAIN t
      /\ Span(m) = 2 * h /\ h \in Nat \ {0} /\ F \in Nat /\ Len(lg) \in Nat /\ s \in Nat
      /\ q[m + 1] = "L" => First(c) + s = F /\ Regular(p, s)
      /\ q[m + 1] = "R" => First(c) + s = F + h
      /\ Regular(p, s) => /\ Regular(c, s)
                          /\ t[p] = NodeAt(aggFunc, lg, F, 2 * h)

\* One level of the way: where the next node lies in it and what it covers.
LEMMA WaySteps ==
  ASSUME NEW lg, NEW s, NEW t, NEW q, NEW v, Appending(lg, s, t, q, v),
         NEW m \in 0 .. maxDepth - 2
  PROVE  WayStep(lg, s, t, q, m)
<1> DEFINE p == Above(q, m)
           c == Above(q, m + 1)
           F == First(p) + s
           h == Span(m + 1)
<1>1. q \in Path(maxDepth - 1) /\ First(q) + s = Len(lg) + 1 /\ Shape(aggFunc, lg, s, t)
  BY DEF Appending
<1>2. s \in Nat /\ Len(lg) \in Nat
  BY <1>1, RolledNumbers DEF Appending
<1>3. /\ m + 1 \in 0 .. maxDepth - 1 /\ m \in 0 .. maxDepth - 1 /\ m + 1 \in Nat
      /\ m + 1 \in 1 .. maxDepth - 1
      /\ m \in 0 .. (maxDepth - 1) - 1 /\ maxDepth - 1 \in Nat
      /\ maxDepth - 1 \in 0 .. maxDepth - 1 /\ m < maxDepth - 1 /\ m \in Nat
  BY Spans
<1>4. q[m + 1] \in Side
  BY <1>1, <1>3, PathType DEF Side
<1>5. c = p \o <<q[m + 1]>>
  BY <1>1, <1>3, PrefixStep DEF Above
<1>6. OnWay(lg, s, t, q, m)
  BY <1>3, WayFacts
<1>7. /\ p \in Path(m) /\ Len(p) = m /\ F \in Nat /\ p \in DOMAIN t
      /\ Regular(p, s) \/ (s # 0 /\ p = <<>> /\ m = 0) \/ (s # 0 /\ p = <<"R">> /\ m = 1)
  BY <1>3, <1>6 DEF OnWay
<1>8. /\ First(c) = First(p) + (IF q[m + 1] = "L" THEN 0 ELSE h)
      /\ First(p) \in Nat /\ Span(m) = 2 * h /\ h \in Nat \ {0}
  BY <1>1, <1>3, Halves
<1>9. q[m + 1] = "L" => First(c) + s = F /\ Regular(p, s)
  <2> SUFFICES ASSUME q[m + 1] = "L" PROVE First(c) + s = F /\ Regular(p, s)
    OBVIOUS
  <2>1. Regular(p, s)
    <3>1. CASE s = 0
      BY <3>1 DEF Regular
    <3>2. CASE s # 0
      <4>1. q[1] = "R" /\ q[2] = "R"
        BY <3>2, NewestQuarter
      <4>2. m # 0 /\ m # 1
        <5>1. "L" # "R"
          OBVIOUS
        <5>2. ASSUME m = 0 PROVE FALSE
          BY <4>1, <5>1, <5>2
        <5>3. ASSUME m = 1 PROVE FALSE
          <6>1. m + 1 = 2
            BY <5>3
          <6> QED
            BY <4>1, <5>1, <6>1
        <5> QED
          BY <5>2, <5>3
      <4> QED
        BY <1>7, <4>2
    <3> QED
      BY <3>1, <3>2
  <2>2. First(c) = First(p)
    BY <1>8
  <2> QED
    BY <2>1, <2>2
<1>10. q[m + 1] = "R" => First(c) + s = F + h
  <2> SUFFICES ASSUME q[m + 1] = "R" PROVE First(c) + s = F + h
    OBVIOUS
  <2>1. First(c) = First(p) + h
    BY <1>8
  <2> HIDE DEF c, p, h
  <2> QED
    BY <1>2, <1>8, <2>1
<1>11. Regular(p, s) => /\ Regular(c, s) /\ t[p] = NodeAt(aggFunc, lg, F, 2 * h)
  <2> SUFFICES ASSUME Regular(p, s)
               PROVE  Regular(c, s) /\ t[p] = NodeAt(aggFunc, lg, F, 2 * h)
    OBVIOUS
  <2>1. Regular(c, s)
    <3> DEFINE y == q[m + 1]
    <3>1. m \in Nat /\ p \in Path(m) /\ y \in Side /\ c = p \o <<y>>
      BY <1>3, <1>4, <1>5, <1>7
    <3> HIDE DEF p, y, c, F, h
    <3>2. Regular(p \o <<y>>, s)
      BY <3>1, RegularChild
    <3> QED
      BY <3>1, <3>2
  <2>2. t[p] = NodeAt(aggFunc, lg, F, Span(Len(p)))
    BY <1>1, <1>7 DEF Shape
  <2> QED
    BY <1>7, <1>8, <2>1, <2>2
<1> HIDE DEF p, c, h
<1> QED
  BY <1>2, <1>3, <1>4, <1>5, <1>7, <1>8, <1>9, <1>10, <1>11 DEF WayStep, p, c, h

\* Whether the code takes a pair of children for complete
DoneSays(lg, s, t, q, m, done) ==
  /\ done \in BOOLEAN
  /\ done <=> Span(m + 1) >= 2 /\ Len(lg) + 1 = First(Above(q, m)) + s + Span(m + 1) - 1

\* The flag that tells appendFromParent whether a left child is full.
LEMMA GrandchildDone ==
  ASSUME NEW lg, NEW s, NEW t, NEW q, NEW v, Appending(lg, s, t, q, v),
         NEW m \in 0 .. maxDepth - 2, q[m + 1] = "L"
  PROVE  /\ m = maxDepth - 2 => Above(q, m + 1) \o <<"R">> \notin DOMAIN t
                                /\ DoneSays(lg, s, t, q, m, FALSE)
         /\ m # maxDepth - 2 /\ q[m + 2] = "R" =>
              DoneSays(lg, s, t, q, m,
                       Later(Append(lg, v), s, Above(q, m + 2)).rightIdx # Unset)
         /\ m # maxDepth - 2 /\ q[m + 2] # "R" =>
              DoneSays(lg, s, t, q, m,
                       /\ Above(q, m + 1) \o <<"R">> \in DOMAIN t
                       /\ t[Above(q, m + 1) \o <<"R">>].rightIdx # Unset)
<1> DEFINE p == Above(q, m)
           c == Above(q, m + 1)
           sib == c \o <<"R">>
           F == First(p) + s
           h == Span(m + 1)
           n == Len(lg)
           lg2 == Append(lg, v)
<1>1. q \in Path(maxDepth - 1) /\ Shape(aggFunc, lg, s, t) /\ aggFunc \in Fns /\ lg \in Seq(Nat)
      /\ v \in Nat
  BY DEF Appending
<1>2. WayStep(lg, s, t, q, m)
  BY WaySteps
<1>3. /\ m + 1 \in 0 .. maxDepth - 1 /\ h \in Nat \ {0} /\ F \in Nat /\ n \in Nat /\ s \in Nat
      /\ First(c) + s = F /\ Regular(p, s) /\ Regular(c, s) /\ m + 1 \in Nat
  BY <1>2 DEF WayStep
<1>4. OnWay(lg, s, t, q, m + 1)
  BY <1>3, WayFacts
<1>5. /\ c \in Path(m + 1) /\ Len(c) = m + 1 /\ F >= 1 /\ F <= n + 1 /\ n + 1 <= F + h - 1
      /\ F + h <= Unset
  BY <1>3, <1>4 DEF OnWay
<1>6. CASE m = maxDepth - 2
  <2>1. m + 1 = maxDepth - 1 /\ h = 1
    <3>1. m + 1 = maxDepth - 1
      BY <1>6, Spans
    <3> QED
      BY <3>1, Spans
  <2>2. sib \notin DOMAIN t
    <3>1. Len(sib) = m + 2
      <4>1. sib \in Path(m + 1 + 1) /\ m + 1 + 1 \in Nat /\ m + 1 + 1 = m + 2
        BY <1>3, <1>5, Child DEF Side
      <4> QED
        BY <4>1, PathType
    <3>2. Len(sib) \notin 0 .. maxDepth - 1
      BY <1>6, <3>1, Spans
    <3>3. DOMAIN t = Places(s, n)
      BY <1>1 DEF Shape
    <3> QED
      BY <3>2, <3>3, PlaceFacts
  <2>3. DoneSays(lg, s, t, q, m, FALSE)
    BY <2>1 DEF DoneSays
  <2> QED
    BY <1>6, <2>2, <2>3
<1>7. CASE m # maxDepth - 2
  <2> DEFINE e == Above(q, m + 2)
             k == Span(m + 2)
  <2>1. m + 1 \in 0 .. maxDepth - 2 /\ m + 2 \in 0 .. maxDepth - 1 /\ m + 1 + 1 = m + 2
    BY <1>7, Spans
  <2>2. WayStep(lg, s, t, q, m + 1)
    BY <2>1, WaySteps
  <2>3. /\ h = 2 * k /\ k \in Nat \ {0} /\ Regular(e, s)
        /\ q[m + 2] = "L" => First(e) + s = F
        /\ q[m + 2] = "R" => First(e) + s = F + k
        /\ q[m + 2] \in Side
    BY <1>3, <2>1, <2>2 DEF WayStep
  <2>4. OnWay(lg, s, t, q, m + 2)
    BY <2>1, WayFacts
  <2>5. /\ Len(e) = m + 2 /\ First(e) + s <= n + 1 /\ n + 1 <= First(e) + s + k - 1
        /\ Halved(k)
    BY <2>4 DEF OnWay
  <2>6. CASE q[m + 2] = "R"
    <3> DEFINE x == Later(lg2, s, e)
               done == x.rightIdx # Unset
    <3>1. First(e) + s = F + k /\ F + k \in Nat /\ F + k >= 1 /\ F + k + k <= Unset
          /\ F + k <= n + 1 /\ n + 1 <= F + k + k - 1 /\ Unset \in Nat
      <4>1. Unset \in Nat
        BY IndexRange
      <4> HIDE DEF F, k, h, n, e
      <4> QED
        BY <1>3, <1>5, <2>3, <2>5, <2>6, <4>1
    <3>2. x = NodeAt(aggFunc, lg2, F + k, k)
      BY <2>3, <2>5, <3>1 DEF Later
    <3>3. lg2 \in Seq(Nat) /\ Len(lg2) = n + 1
      BY <1>1, LogType
    <3>4. Says(aggFunc, lg2, F + k, k, x)
      <4> HIDE DEF lg2, x, F, k
      <4> QED
        BY <1>1, <2>3, <2>5, <3>1, <3>2, <3>3, NodeGood
    <3>5. x.rightIdx = IF n + 1 >= F + k + k - 1 THEN F + k + k - 1 ELSE Unset
      <4> HIDE DEF lg2, x, F, k
      <4> QED
        BY <3>1, <3>3, <3>4 DEF Says
    <3>6. done <=> h >= 2 /\ n + 1 = F + h - 1
      <4> HIDE DEF lg2, x, F, k, h, n
      <4>1. F + k + k - 1 # Unset /\ F + k + k - 1 = F + h - 1 /\ h >= 2
        BY <1>3, <2>3, <3>1
      <4>2. n + 1 >= F + k + k - 1 <=> n + 1 = F + k + k - 1
        BY <1>3, <2>3, <3>1
      <4> QED
        BY <3>5, <4>1, <4>2
    <3>7. DoneSays(lg, s, t, q, m, done)
      <4> HIDE DEF x
      <4> QED
        BY <3>6 DEF DoneSays
    <3> QED
      BY <1>7, <2>6, <3>7
  <2>7. CASE q[m + 2] # "R"
    <3> DEFINE done == sib \in DOMAIN t /\ t[sib].rightIdx # Unset
    <3>1. First(e) + s = F /\ n + 1 <= F + k - 1
      <4>1. q[m + 2] = "L"
        BY <2>3, <2>7 DEF Side
      <4> QED
        BY <2>3, <2>5, <4>1
    <3>2. sib \in DOMAIN t => t[sib].rightIdx = Unset
      <4> SUFFICES ASSUME sib \in DOMAIN t PROVE t[sib].rightIdx = Unset
        OBVIOUS
      <4>1. Regular(sib, s) /\ Len(sib) = m + 2
        <5>2. "R" \in Side /\ m + 1 \in Nat /\ c \in Path(m + 1) /\ Regular(c, s)
          BY <1>3, <1>5 DEF Side
        <5>1. Regular(sib, s) /\ Len(sib) = m + 1 + 1
          <6> HIDE DEF c
          <6> QED
            BY <5>2, RegularChild
        <5> QED
          BY <2>1, <5>1
      <4>2. RegularNode(aggFunc, lg, s, t, sib)
        BY <1>1, <4>1, RegularFacts
      <4>3. First(sib) = First(c) + k /\ First(c) \in Nat
        <5>1. First(c \o <<"R">>) = First(c) + Span(m + 1 + 1) /\ First(c) \in Nat
          BY <1>5, <2>1, FirstChild
        <5> QED
          BY <2>1, <5>1
      <4>4. First(sib) + s = F + k
        <5> HIDE DEF F, k, c, sib
        <5> QED
          BY <1>3, <2>3, <4>3
      <4>5. t[sib] = NodeAt(aggFunc, lg, F + k, k)
        BY <4>1, <4>2, <4>4 DEF RegularNode
      <4>6. F + k \in Nat /\ F + k >= 1 /\ F + k + k <= Unset /\ F + k > n
        <5>1. Unset \in Nat
          BY IndexRange
        <5> HIDE DEF F, k, n, h
        <5> QED
          BY <1>3, <1>5, <2>3, <3>1, <5>1
      <4> HIDE DEF F, k, sib
      <4>7. Says(aggFunc, lg, F + k, k, t[sib])
        BY <1>1, <2>3, <2>5, <4>5, <4>6, NodeGood
      <4> QED
        BY <4>6, <4>7 DEF Says
    <3>3. ~(n + 1 = F + h - 1)
      <4> HIDE DEF F, k, h, n
      <4> QED
        BY <1>3, <2>3, <3>1
    <3>4. DoneSays(lg, s, t, q, m, done)
      BY <3>2, <3>3 DEF DoneSays
    <3> QED
      BY <1>7, <2>7, <3>4
  <2> QED
    BY <2>6, <2>7
<1> QED
  BY <1>6, <1>7

\* A node of the way after its left child, and after its right child
LEMMA LeftStep ==
  ASSUME NEW lg, NEW s, NEW t, NEW q, NEW v, Appending(lg, s, t, q, v),
         NEW m \in 0 .. maxDepth - 2, q[m + 1] = "L", NEW g, DoneSays(lg, s, t, q, m, g)
  PROVE  LeftUpdated(Added(aggFunc, t[Above(q, m)], v), Later(Append(lg, v), s, Above(q, m + 1)), g)
           = Later(Append(lg, v), s, Above(q, m))
<1> DEFINE p == Above(q, m)
           c == Above(q, m + 1)
           F == First(p) + s
           h == Span(m + 1)
           n == Len(lg)
           lg2 == Append(lg, v)
<1>1. aggFunc \in Fns /\ lg \in Seq(Nat) /\ v \in Nat
  BY DEF Appending
<1>2. WayStep(lg, s, t, q, m)
  BY WaySteps
<1>3. /\ m + 1 \in 0 .. maxDepth - 1 /\ h \in Nat \ {0} /\ F \in Nat /\ n \in Nat /\ s \in Nat
      /\ First(c) + s = F /\ Regular(p, s) /\ Regular(c, s) /\ Span(m) = 2 * h
      /\ t[p] = NodeAt(aggFunc, lg, F, 2 * h)
  BY <1>2 DEF WayStep
<1>4. m \in 0 .. maxDepth - 1 /\ OnWay(lg, s, t, q, m) /\ OnWay(lg, s, t, q, m + 1)
  <2>1. m \in 0 .. maxDepth - 1
    BY Spans
  <2> QED
    BY <1>3, <2>1, WayFacts
<1>5. Len(c) = m + 1 /\ n + 1 <= F + h - 1 /\ Halved(h)
  BY <1>3, <1>4 DEF OnWay
<1>6. Len(p) = m /\ F >= 1 /\ F <= n + 1 /\ F + 2 * h <= Unset
  BY <1>3, <1>4 DEF OnWay
<1>7. g \in BOOLEAN /\ (g <=> h >= 2 /\ n + 1 = F + h - 1)
  BY DEF DoneSays
<1>8. Later(lg2, s, p) = NodeAt(aggFunc, lg2, F, 2 * h)
  BY <1>3, <1>6 DEF Later
<1>9. Later(lg2, s, c) = NodeAt(aggFunc, lg2, F, h)
  BY <1>3, <1>5 DEF Later
<1>10. LeftUpdated(Added(aggFunc, NodeAt(aggFunc, lg, F, 2 * h), v), NodeAt(aggFunc, lg2, F, h), g)
         = NodeAt(aggFunc, lg2, F, 2 * h)
  <2> HIDE DEF F, h
  <2> QED
    BY <1>1, <1>3, <1>5, <1>6, <1>7, LeftAppended
<1> QED
  BY <1>3, <1>8, <1>9, <1>10, Zenon

\* A node above a right child comes out as NodeAt has it.
LEMMA RightStep ==
  ASSUME NEW lg, NEW s, NEW t, NEW q, NEW v, Appending(lg, s, t, q, v),
         NEW m \in 0 .. maxDepth - 2, q[m + 1] = "R"
  PROVE  RightUpdated(Added(aggFunc, t[Above(q, m)], v), Later(Append(lg, v), s, Above(q, m + 1)))
           = Later(Append(lg, v), s, Above(q, m))
<1> DEFINE p == Above(q, m)
           c == Above(q, m + 1)
           F == First(p) + s
           h == Span(m + 1)
           n == Len(lg)
           lg2 == Append(lg, v)
<1>1. aggFunc \in Fns /\ lg \in Seq(Nat) /\ v \in Nat /\ Shape(aggFunc, lg, s, t)
      /\ First(q) + s = n + 1
  BY DEF Appending
<1>2. WayStep(lg, s, t, q, m)
  BY WaySteps
<1>3. /\ m + 1 \in 0 .. maxDepth - 1 /\ h \in Nat \ {0} /\ F \in Nat /\ n \in Nat /\ s \in Nat
      /\ First(c) + s = F + h /\ Span(m) = 2 * h
      /\ Regular(p, s) => Regular(c, s) /\ t[p] = NodeAt(aggFunc, lg, F, 2 * h)
  BY <1>2 DEF WayStep
<1>4. m \in 0 .. maxDepth - 1 /\ OnWay(lg, s, t, q, m) /\ OnWay(lg, s, t, q, m + 1)
  <2>1. m \in 0 .. maxDepth - 1
    BY Spans
  <2> QED
    BY <1>3, <2>1, WayFacts
<1>5. Len(c) = m + 1 /\ F + h <= n + 1 /\ Halved(h)
      /\ (Regular(c, s) \/ (s # 0 /\ c = <<>> /\ m + 1 = 0) \/ (s # 0 /\ c = <<"R">> /\ m + 1 = 1))
  BY <1>3, <1>4 DEF OnWay
<1>6. /\ Len(p) = m /\ F >= 1 /\ n + 1 <= F + 2 * h - 1 /\ F + 2 * h <= Unset
      /\ (Regular(p, s) \/ (s # 0 /\ p = <<>> /\ m = 0) \/ (s # 0 /\ p = <<"R">> /\ m = 1))
  BY <1>3, <1>4 DEF OnWay
<1>7. CASE Regular(p, s)
  <2>1. Later(lg2, s, p) = NodeAt(aggFunc, lg2, F, 2 * h)
    BY <1>3, <1>6, <1>7 DEF Later
  <2>2. Later(lg2, s, c) = NodeAt(aggFunc, lg2, F + h, h)
    BY <1>3, <1>5, <1>7 DEF Later
  <2>3. RightUpdated(Added(aggFunc, NodeAt(aggFunc, lg, F, 2 * h), v),
                     NodeAt(aggFunc, lg2, F + h, h))
          = NodeAt(aggFunc, lg2, F, 2 * h)
    <3> HIDE DEF F, h
    <3> QED
      BY <1>1, <1>3, <1>5, <1>6, RightAppended
  <2>4. t[p] = NodeAt(aggFunc, lg, F, 2 * h)
    BY <1>3, <1>7
  <2> QED
    BY <2>1, <2>2, <2>3, <2>4, Zenon
<1>8. CASE ~Regular(p, s)
  <2>0. s # 0 /\ ((p = <<>> /\ m = 0) \/ (p = <<"R">> /\ m = 1))
    BY <1>6, <1>8
  <2>1. /\ RightUpdated(Added(aggFunc, RootRight(aggFunc, lg, s), v),
                        NodeAt(aggFunc, lg2, s + 3 * Quarter + 1, Quarter))
              = RootRight(aggFunc, lg2, s)
        /\ RightUpdated(Added(aggFunc, Root(aggFunc, lg, s), v), RootRight(aggFunc, lg2, s))
              = Root(aggFunc, lg2, s)
    <3>1. /\ s \in Nat /\ n \in Nat /\ Quarter \in Nat /\ n <= s + 4 * Quarter
          /\ NumLeaves = 4 * Quarter
          /\ s + 4 * Quarter < Unset /\ n >= s + 3 * Quarter
      BY <1>1, <2>0, RolledNumbers
    <3>2. n < s + 4 * Quarter
      <4>1. F + 2 * h <= s + NumLeaves + 1
        <5>1. p \in Path(m)
          BY <1>4 DEF OnWay
        <5>2. First(p) \in Nat /\ First(p) + Span(m) <= NumLeaves + 1
          BY <1>4, <5>1, FirstRange
        <5> DEFINE a == First(p)
                   w == Span(m)
        <5>3. F = a + s /\ a \in Nat /\ a + w <= NumLeaves + 1 /\ w = 2 * h /\ h \in Nat
          BY <1>3, <5>2
        <5>4. s \in Nat /\ NumLeaves \in Nat
          BY <3>1
        <5> HIDE DEF F, a, w, h
        <5> QED
          BY <5>3, <5>4
      <4> HIDE DEF F, h, n
      <4> QED
        BY <1>3, <1>6, <3>1, <4>1
    <3>3. Halved(Quarter)
      BY Spans, SpanHalved
    <3> QED
      BY <1>1, <3>1, <3>2, <3>3, RootRightAppended
  <2>2. CASE p = <<"R">> /\ m = 1
    <3>1. Above(q, 2) = <<"R", "R">>
      BY <2>0, NewestQuarter
    <3>2. c = <<"R", "R">> /\ Regular(c, s)
      <4>1. c = <<"R", "R">>
        BY <2>2, <3>1
      <4> QED
        BY <1>5, <2>2, <4>1
    <3>3. First(c) + s = s + 3 * Quarter + 1 /\ Span(Len(c)) = Quarter
      <4>1. First(<<"R", "R">>) = 3 * Quarter + 1 /\ Quarter \in Nat
        BY TopFirst, Spans
      <4>2. Len(c) = 2
        BY <1>5, <2>2
      <4> HIDE DEF c
      <4> QED
        BY <1>3, <3>2, <4>1, <4>2 DEF Quarter
    <3>4. Later(lg2, s, c) = NodeAt(aggFunc, lg2, s + 3 * Quarter + 1, Quarter)
      BY <3>2, <3>3, Zenon DEF Later
    <3>5. Later(lg2, s, p) = RootRight(aggFunc, lg2, s)
      <4>1. p # <<>>
        BY <2>2
      <4> QED
        BY <1>8, <4>1 DEF Later
    <3>6. t[p] = RootRight(aggFunc, lg, s)
      BY <1>1, <2>0, <2>2 DEF Shape
    <3> QED
      BY <2>1, <3>4, <3>5, <3>6, Zenon
  <2>3. CASE p = <<>> /\ m = 0
    <3>1. Above(q, 1) = <<"R">>
      BY <2>0, NewestQuarter
    <3>2. c = <<"R">>
      BY <2>3, <3>1
    <3>3. ~Regular(c, s)
      <4>1. Len(c) = 1
        BY <1>5, <2>3
      <4> HIDE DEF c
      <4> QED
        BY <2>0, <4>1 DEF Regular
    <3>4. Later(lg2, s, c) = RootRight(aggFunc, lg2, s)
      <4> HIDE DEF c
      <4>1. c # <<>>
        BY <3>2
      <4> QED
        BY <3>3, <4>1 DEF Later
    <3>5. Later(lg2, s, p) = Root(aggFunc, lg2, s)
      BY <1>8, <2>3 DEF Later
    <3>6. t[p] = Root(aggFunc, lg, s)
      BY <1>1, <2>0, <2>3 DEF Shape
    <3> QED
      BY <2>1, <3>4, <3>5, <3>6, Zenon
  <2> QED
    BY <2>0, <2>2, <2>3
<1> QED
  BY <1>7, <1>8

\* One step of appendFromParent, from the nodes that it has already written
NodeStep(t, leaf, idx, val, f, k) ==
  LET n == maxDepth - 1 - k
      child == f[k - 1]
      sibling == SubSeq(leaf, 1, n + 1) \o <<"R">>
      grandchildDone ==
        IF k >= 2 /\ leaf[n + 2] = "R" THEN f[k - 2].rightIdx # Unset
        ELSE sibling \in DOMAIN t /\ t[sibling].rightIdx # Unset
      node == [t[SubSeq(leaf, 1, n)] EXCEPT !.aggVal = computeAggregate(@, val)]
  IN  CASE k = 0 -> Leaf(idx, val)
        [] k > 0 /\ leaf[n + 1] = "L" -> LeftUpdated(node, child, grandchildDone)
        [] k > 0 /\ leaf[n + 1] = "R" -> RightUpdated(node, child)

\* Every node on the way comes out as NodeAt has it, when those below do.
LEMMA NodeSteps ==
  ASSUME NEW lg, NEW s, NEW t, NEW q, NEW v, Appending(lg, s, t, q, v),
         NEW f, NEW k \in 0 .. maxDepth - 1,
         k >= 1 => f[k - 1] = Later(Append(lg, v), s, Above(q, maxDepth - 1 - (k - 1))),
         k >= 2 => f[k - 2] = Later(Append(lg, v), s, Above(q, maxDepth - 1 - (k - 2)))
  PROVE  NodeStep(t, q, Len(lg) + 1, v, f, k) = Later(Append(lg, v), s, Above(q, maxDepth - 1 - k))
<1> DEFINE m == maxDepth - 1 - k
           lg2 == Append(lg, v)
<1>0. maxDepth \in Nat /\ maxDepth >= 4 /\ k \in Nat /\ k <= maxDepth - 1
  BY Spans
<1>1. CASE k = 0
  <2>1. NodeStep(t, q, Len(lg) + 1, v, f, k) = Leaf(Len(lg) + 1, v)
    BY <1>1 DEF NodeStep
  <2>2. m = maxDepth - 1 /\ m \in 0 .. maxDepth - 1
    BY <1>0, <1>1
  <2>3. OnWay(lg, s, t, q, m)
    BY <2>2, WayFacts
  <2>4. Regular(Above(q, m), s) /\ Len(Above(q, m)) = m
    <3>1. m # 0 /\ m # 1
      BY <1>0, <1>1
    <3> HIDE DEF m
    <3> QED
      BY <2>3, <3>1 DEF OnWay
  <2>5. q \in Path(maxDepth - 1) /\ First(q) + s = Len(lg) + 1 /\ aggFunc \in Fns
        /\ lg \in Seq(Nat) /\ v \in Nat
    BY DEF Appending
  <2>6. Above(q, m) = q
    <3>1. maxDepth - 1 \in Nat
      BY <1>0
    <3>2. SubSeq(q, 1, maxDepth - 1) = q
      BY <2>5, <3>1, PrefixAll
    <3> QED
      BY <2>2, <3>2 DEF Above
  <2>7. Later(lg2, s, Above(q, m)) = NodeAt(aggFunc, lg2, Len(lg) + 1, 1)
    <3>1. Span(m) = 1
      BY <2>2, Spans
    <3> HIDE DEF m, lg2
    <3> QED
      BY <2>4, <2>5, <2>6, <3>1 DEF Later
  <2>8. NodeAt(aggFunc, lg2, Len(lg) + 1, 1) = Leaf(Len(lg) + 1, v)
    BY <2>5, LeafAppended
  <2> QED
    BY <2>1, <2>7, <2>8
<1>2. CASE k # 0
  <2> DEFINE c == Later(lg2, s, Above(q, m + 1))
             y == Added(aggFunc, t[Above(q, m)], v)
             sib == Above(q, m + 1) \o <<"R">>
             d == IF k >= 2 /\ q[m + 2] = "R" THEN f[k - 2].rightIdx # Unset
                  ELSE sib \in DOMAIN t /\ t[sib].rightIdx # Unset
  <2>1. m \in 0 .. maxDepth - 2 /\ maxDepth - 1 - (k - 1) = m + 1
        /\ maxDepth - 1 - (k - 2) = m + 2 /\ k >= 1 /\ (k >= 2 <=> m # maxDepth - 2) /\ k > 0
    BY <1>0, <1>2
  <2>2. f[k - 1] = c
    BY <2>1
  <2>3. k >= 2 => f[k - 2] = Later(lg2, s, Above(q, m + 2))
    BY <2>1
  <2>4. y = [t[SubSeq(q, 1, m)] EXCEPT !.aggVal = computeAggregate(@, v)]
    BY DEF Added, Agg, computeAggregate, Above
  <2>5. q[m + 1] \in {"L", "R"}
    <3>1. WayStep(lg, s, t, q, m)
      BY <2>1, WaySteps
    <3> HIDE DEF m
    <3> QED
      BY <3>1 DEF WayStep, Side
  <2> DEFINE z == [t[SubSeq(q, 1, m)] EXCEPT !.aggVal = computeAggregate(@, v)]
  <2>6. NodeStep(t, q, Len(lg) + 1, v, f, k) =
          CASE k = 0 -> Leaf(Len(lg) + 1, v)
            [] k > 0 /\ q[m + 1] = "L" -> LeftUpdated(z, f[k - 1], d)
            [] k > 0 /\ q[m + 1] = "R" -> RightUpdated(z, f[k - 1])
    BY Zenon DEF NodeStep, Above
  <2>7. CASE q[m + 1] = "L"
    <3> HIDE DEF m, z
    <3>1. NodeStep(t, q, Len(lg) + 1, v, f, k) = LeftUpdated(z, f[k - 1], d)
      <4> HIDE DEF d
      <4> QED
        BY <1>2, <2>1, <2>6, <2>7
    <3>2. DoneSays(lg, s, t, q, m, d)
      <4>1. CASE m = maxDepth - 2
        <5>1. sib \notin DOMAIN t /\ DoneSays(lg, s, t, q, m, FALSE) /\ ~(k >= 2)
          BY <2>1, <2>7, <4>1, GrandchildDone
        <5>2. d = FALSE
          <6> HIDE DEF sib
          <6> QED
            BY <5>1
        <5> HIDE DEF d
        <5> QED
          BY <5>1, <5>2
      <4>2. CASE m # maxDepth - 2 /\ q[m + 2] = "R"
        <5>1. DoneSays(lg, s, t, q, m, Later(lg2, s, Above(q, m + 2)).rightIdx # Unset)
          BY <2>1, <2>7, <4>2, GrandchildDone
        <5>2. d = (Later(lg2, s, Above(q, m + 2)).rightIdx # Unset)
          <6> HIDE DEF lg2
          <6> QED
            BY <2>1, <2>3, <4>2
        <5> HIDE DEF d
        <5> QED
          BY <5>1, <5>2, Zenon
      <4>3. CASE m # maxDepth - 2 /\ q[m + 2] # "R"
        <5>1. DoneSays(lg, s, t, q, m, sib \in DOMAIN t /\ t[sib].rightIdx # Unset)
          BY <2>1, <2>7, <4>3, GrandchildDone
        <5>2. d = (sib \in DOMAIN t /\ t[sib].rightIdx # Unset)
          <6> HIDE DEF sib
          <6> QED
            BY <4>3
        <5> HIDE DEF d
        <5> QED
          BY <5>1, <5>2, Zenon
      <4> QED
        BY <4>1, <4>2, <4>3
    <3> HIDE DEF d
    <3>3. LeftUpdated(y, c, d) = Later(lg2, s, Above(q, m))
      BY <2>1, <2>7, <3>2, LeftStep
    <3> QED
      BY <2>2, <2>4, <3>1, <3>3, Zenon DEF m, z
  <2>8. CASE q[m + 1] = "R"
    <3> HIDE DEF m, z, d
    <3>1. NodeStep(t, q, Len(lg) + 1, v, f, k) = RightUpdated(z, f[k - 1])
      <4>1. "L" # "R"
        OBVIOUS
      <4> QED
        BY <1>2, <2>1, <2>6, <2>8, <4>1
    <3>2. RightUpdated(y, c) = Later(lg2, s, Above(q, m))
      BY <2>1, <2>8, RightStep
    <3> QED
      BY <2>2, <2>4, <3>1, <3>2, Zenon DEF m, z
  <2> QED
    BY <2>5, <2>7, <2>8
<1> QED
  BY <1>1, <1>2

\* appendFromParent writes the nodes on the way, and only them.
WayTree(lg, s, t, q, v, t2) ==
  t2 = [p \in DOMAIN t \cup {q} |->
          IF Len(p) <= Len(q) /\ p = Above(q, Len(p))
          THEN Later(Append(lg, v), s, Above(q, maxDepth - 1 - (maxDepth - 1 - Len(p))))
          ELSE t[p]]

\* All nodes on the way come out as NodeAt has them, from the leaf up to the root.
LEMMA WayWritten ==
  ASSUME NEW lg, NEW s, NEW t, NEW q, NEW v, Appending(lg, s, t, q, v)
  PROVE  WayTree(lg, s, t, q, v, AppendFromParent(t, q, Len(lg) + 1, v))
<1> DEFINE idx == Len(lg) + 1
           d == maxDepth - 1
           goal(k) == Later(Append(lg, v), s, Above(q, maxDepth - 1 - k))
           f == [k \in 0 .. maxDepth - 1 |-> goal(k)]
           new == CHOOSE g : g = [k \in 0 .. maxDepth - 1 |-> NodeStep(t, q, idx, v, g, k)]
<1>0. d \in Nat
  BY Spans
<1>1. AppendFromParent(t, q, idx, v) =
        [p \in DOMAIN t \cup {q} |->
           IF Len(p) <= Len(q) /\ p = Above(q, Len(p)) THEN new[maxDepth - 1 - Len(p)] ELSE t[p]]
  BY DEF AppendFromParent, NodeStep, Above
<1>2. ASSUME NEW g, NEW k \in 0 .. maxDepth - 1,
             k >= 1 => g[k - 1] = goal(k - 1), k >= 2 => g[k - 2] = goal(k - 2)
      PROVE  NodeStep(t, q, idx, v, g, k) = goal(k)
  BY <1>2, NodeSteps
<1>3. f = [k \in 0 .. maxDepth - 1 |-> NodeStep(t, q, idx, v, f, k)]
  <2>1. ASSUME NEW k \in 0 .. maxDepth - 1
        PROVE  f[k] = NodeStep(t, q, idx, v, f, k)
    <3>1. k >= 1 => k - 1 \in 0 .. maxDepth - 1
      BY <1>0
    <3>2. k >= 2 => k - 2 \in 0 .. maxDepth - 1
      BY <1>0
    <3> HIDE DEF goal
    <3>3. k >= 1 => f[k - 1] = goal(k - 1)
      BY <3>1
    <3>4. k >= 2 => f[k - 2] = goal(k - 2)
      BY <3>2
    <3>5. f[k] = goal(k)
      OBVIOUS
    <3> HIDE DEF f, idx
    <3>6. NodeStep(t, q, idx, v, f, k) = goal(k)
      BY <1>2, <3>3, <3>4
    <3> QED
      BY <3>5, <3>6
  <2> DEFINE e(k) == NodeStep(t, q, idx, v, f, k)
  <2>2. \A k \in 0 .. maxDepth - 1 : f[k] = e(k)
    BY <2>1
  <2>3. f = [k \in 0 .. maxDepth - 1 |-> f[k]]
    <3> HIDE DEF goal
    <3> QED
      OBVIOUS
  <2> HIDE DEF e, f
  <2>4. f = [k \in 0 .. maxDepth - 1 |-> e(k)]
    BY <2>2, <2>3
  <2> QED
    BY <2>4 DEF e
<1>4. new = [k \in 0 .. maxDepth - 1 |-> NodeStep(t, q, idx, v, new, k)]
  <2> HIDE DEF f, idx
  <2> QED
    BY <1>3, Zenon
<1> HIDE DEF new, f
<1>5. \A k \in 0 .. maxDepth - 1 : new[k] = NodeStep(t, q, idx, v, new, k)
  <2> DEFINE e(k) == NodeStep(t, q, idx, v, new, k)
  <2>1. new = [k \in 0 .. maxDepth - 1 |-> e(k)]
    BY <1>4
  <2> HIDE DEF e
  <2>2. \A k \in 0 .. maxDepth - 1 : new[k] = e(k)
    BY <2>1
  <2> QED
    BY <2>2 DEF e
<1> DEFINE S == {k \in 0 .. d : new[k] = goal(k) /\ (k >= 1 => new[k - 1] = goal(k - 1))}
<1> HIDE DEF goal, idx
<1>6. 0 \in S
  <2>1. 0 \in 0 .. maxDepth - 1 /\ 0 \in 0 .. d /\ ~(0 >= 1) /\ ~(0 >= 2)
    BY <1>0
  <2>2. NodeStep(t, q, idx, v, new, 0) = goal(0)
    BY <1>2, <2>1
  <2> QED
    BY <1>5, <2>1, <2>2
<1>7. \A k \in 1 .. d : k - 1 \in S => k \in S
  <2> SUFFICES ASSUME NEW k \in 1 .. d, k - 1 \in S PROVE k \in S
    OBVIOUS
  <2>1. k \in 0 .. maxDepth - 1 /\ k \in 0 .. d /\ (k >= 2 => k - 1 >= 1) /\ (k - 1) - 1 = k - 2
        /\ k \in Nat
    BY <1>0
  <2>2. new[k - 1] = goal(k - 1) /\ (k - 1 >= 1 => new[(k - 1) - 1] = goal((k - 1) - 1))
    OBVIOUS
  <2>3. k >= 2 => new[k - 2] = goal(k - 2)
    BY <2>1, <2>2
  <2>4. NodeStep(t, q, idx, v, new, k) = goal(k)
    BY <1>2, <2>1, <2>2, <2>3
  <2>5. new[k] = goal(k)
    BY <1>5, <2>1, <2>4
  <2> QED
    BY <2>1, <2>2, <2>5
<1>8. \A k \in 0 .. d : k \in S
  <2> HIDE DEF S, d
  <2> QED
    BY <1>0, <1>6, <1>7, IntervalInduction
<1>9. \A p \in DOMAIN t \cup {q} :
        Len(p) <= Len(q) /\ p = Above(q, Len(p)) =>
           new[maxDepth - 1 - Len(p)] = goal(maxDepth - 1 - Len(p))
  <2> SUFFICES ASSUME NEW p \in DOMAIN t \cup {q}, Len(p) <= Len(q)
               PROVE  new[maxDepth - 1 - Len(p)] = goal(maxDepth - 1 - Len(p))
    OBVIOUS
  <2>1. Len(p) \in 0 .. maxDepth - 1
    <3>1. q \in Path(maxDepth - 1) /\ Shape(aggFunc, lg, s, t)
      BY DEF Appending
    <3>2. Len(q) = d
      BY <1>0, <3>1, PathType
    <3>3. p \in DOMAIN t => Len(p) \in 0 .. maxDepth - 1
      BY <3>1, PlaceFacts DEF Shape
    <3> QED
      BY <1>0, <3>2, <3>3
  <2>2. maxDepth - 1 - Len(p) \in 0 .. d
    BY <1>0, <2>1
  <2> QED
    BY <1>8, <2>2
<1> DEFINE P(p) == Len(p) <= Len(q) /\ p = Above(q, Len(p))
           A(p) == IF P(p) THEN new[maxDepth - 1 - Len(p)] ELSE t[p]
           B(p) == IF P(p) THEN goal(maxDepth - 1 - Len(p)) ELSE t[p]
<1>10. AppendFromParent(t, q, idx, v) = [p \in DOMAIN t \cup {q} |-> A(p)]
  BY <1>1
<1>11. \A p \in DOMAIN t \cup {q} : A(p) = B(p)
  BY <1>9
<1> HIDE DEF P, A, B
<1>12. AppendFromParent(t, q, idx, v) = [p \in DOMAIN t \cup {q} |-> B(p)]
  BY <1>10, <1>11
<1> QED
  BY <1>12 DEF B, P, goal, idx, WayTree

\* What is written, and what stays
Written(lg, s, t, q, v, t2) ==
  /\ t2 = [p \in DOMAIN t2 |-> t2[p]] /\ DOMAIN t2 = DOMAIN t \cup {q}
  /\ \A m \in 0 .. maxDepth - 1 :
        Above(q, m) \in DOMAIN t2 /\ t2[Above(q, m)] = Later(Append(lg, v), s, Above(q, m))
  /\ \A p \in DOMAIN t2 : p # Above(q, Len(p)) => p \in DOMAIN t /\ t2[p] = t[p]

\* appendFromParent changes the way to the new leaf and nothing else.
LEMMA AppendWrites ==
  ASSUME NEW lg, NEW s, NEW t, NEW q, NEW v, Appending(lg, s, t, q, v)
  PROVE  Written(lg, s, t, q, v, AppendFromParent(t, q, Len(lg) + 1, v))
<1> DEFINE t2 == AppendFromParent(t, q, Len(lg) + 1, v)
           later(p) == Later(Append(lg, v), s, p)
           new(p) == later(Above(q, maxDepth - 1 - (maxDepth - 1 - Len(p))))
           P(p) == Len(p) <= Len(q) /\ p = Above(q, Len(p))
<1>0. maxDepth \in Nat /\ maxDepth >= 4 /\ maxDepth - 1 \in Nat
  BY Spans
<1>1. t2 = [p \in DOMAIN t \cup {q} |-> IF P(p) THEN new(p) ELSE t[p]]
  <2>1. WayTree(lg, s, t, q, v, t2)
    BY WayWritten
  <2> HIDE DEF t2
  <2> QED
    BY <2>1 DEF WayTree
<1>2. q \in Path(maxDepth - 1) /\ Len(q) = maxDepth - 1 /\ Above(q, Len(q)) = q
  <2>1. q \in Path(maxDepth - 1)
    BY DEF Appending
  <2> QED
    BY <1>0, <2>1, PathType, PrefixAll DEF Above
<1> HIDE DEF t2, new
<1>3. DOMAIN t2 = DOMAIN t \cup {q} /\ t2 = [p \in DOMAIN t2 |-> t2[p]]
  <2> HIDE DEF P
  <2> QED
    BY <1>1
<1>4. ASSUME NEW m \in 0 .. maxDepth - 1
      PROVE  Above(q, m) \in DOMAIN t2 /\ t2[Above(q, m)] = later(Above(q, m))
  <2> DEFINE p == Above(q, m)
  <2>1. OnWay(lg, s, t, q, m)
    BY WayFacts
  <2>2. Len(p) = m /\ (m < maxDepth - 1 => p \in DOMAIN t)
    BY <2>1 DEF OnWay
  <2>3. p \in DOMAIN t \cup {q}
    <3>1. CASE m < maxDepth - 1
      BY <2>2, <3>1
    <3>2. CASE ~(m < maxDepth - 1)
      <4>1. m = maxDepth - 1
        BY <1>0, <3>2
      <4> QED
        BY <1>2, <4>1
    <3> QED
      BY <3>1, <3>2
  <2>4. P(p)
    <3>1. m <= Len(q)
      BY <1>0, <1>2
    <3> QED
      BY <2>2, <3>1
  <2>5. t2[p] = new(p)
    <3> HIDE DEF P, p
    <3> QED
      BY <1>1, <2>3, <2>4
  <2>6. maxDepth - 1 - (maxDepth - 1 - m) = m
    BY <1>0
  <2>7. new(p) = later(p)
    <3> HIDE DEF p, later
    <3>1. new(p) = later(Above(q, m))
      BY <2>2, <2>6 DEF new
    <3> QED
      BY <3>1 DEF p
  <2> QED
    BY <1>3, <2>3, <2>5, <2>7
<1>5. \A p \in DOMAIN t2 : p # Above(q, Len(p)) => p \in DOMAIN t /\ t2[p] = t[p]
  <2> SUFFICES ASSUME NEW p \in DOMAIN t2, p # Above(q, Len(p)) PROVE p \in DOMAIN t /\ t2[p] = t[p]
    OBVIOUS
  <2>1. p # q
    BY <1>2
  <2>2. ~P(p)
    OBVIOUS
  <2> HIDE DEF P
  <2> QED
    BY <1>1, <1>3, <2>1, <2>2
<1> QED
  BY <1>3, <1>4, <1>5 DEF Written, t2

\* A node that is not on the way to the value does not cover it.
LEMMA OffWay ==
  ASSUME NEW lg, NEW s, NEW t, NEW q, NEW v, Appending(lg, s, t, q, v),
         NEW p \in DOMAIN t, p # Above(q, Len(p))
  PROVE  First(p) + s > Len(lg) + 1 \/ First(p) + s + Span(Len(p)) - 1 <= Len(lg)
<1> DEFINE k == Len(p)
           n == Len(lg)
<1>1. /\ q \in Path(maxDepth - 1) /\ First(q) + s = n + 1 /\ Shape(aggFunc, lg, s, t)
      /\ s \in Nat /\ n \in Nat /\ maxDepth - 1 \in 0 .. maxDepth - 1 /\ maxDepth \in Nat
  <2>1. /\ q \in Path(maxDepth - 1) /\ First(q) + s = n + 1 /\ Shape(aggFunc, lg, s, t)
        /\ aggFunc \in Fns /\ lg \in Seq(Nat)
    BY DEF Appending
  <2>2. s \in Nat /\ n \in Nat
    BY <2>1, RolledNumbers
  <2> QED
    BY <2>1, <2>2, Spans
<1>2. k \in 0 .. maxDepth - 1 /\ p \in Path(k)
  BY <1>1, PlaceFacts DEF Shape
<1>3. OnWay(lg, s, t, q, k)
  BY <1>2, WayFacts
<1>4. Above(q, k) \in Path(k)
  BY <1>3 DEF OnWay
<1>5. First(q) \in Nat /\ First(p) \in Nat /\ Span(k) \in Nat
  BY <1>1, <1>2, FirstRange, Spans
<1>6. Covers(Above(q, k), k, First(q))
  <2>1. /\ First(Above(q, k)) \in Nat /\ First(Above(q, k)) <= First(q)
        /\ First(q) + Span(maxDepth - 1) <= First(Above(q, k)) + Span(k)
    BY <1>1, <1>2, Nested
  <2>2. Span(maxDepth - 1) = 1
    BY Spans
  <2> QED
    BY <1>5, <2>1, <2>2 DEF Covers
<1>7. ~Covers(p, k, First(q))
  BY <1>2, <1>4, <1>5, <1>6, OneAbove
<1>8. ~(First(p) <= First(q) /\ First(q) < First(p) + Span(k))
  BY <1>7 DEF Covers
<1> DEFINE a == First(p)
           b == First(q)
           w == Span(k)
<1> HIDE DEF a, b, w, n, k
<1>9. a > b \/ b >= a + w
  BY <1>5, <1>8 DEF a, b, w
<1>10. a + s > n + 1 \/ a + s + w - 1 <= n
  <2>1. b + s = n + 1 /\ a \in Nat /\ b \in Nat /\ w \in Nat /\ s \in Nat /\ n \in Nat
    BY <1>1, <1>5 DEF a, b, w
  <2> QED
    BY <1>9, <2>1
<1> QED
  BY <1>10 DEF a, w, n, k

\* The places after the value
LEMMA PlacesAppended ==
  ASSUME NEW lg, NEW s, NEW t, NEW q, NEW v, Appending(lg, s, t, q, v)
  PROVE  DOMAIN t \cup {q} = Places(s, Len(lg) + 1) /\ Len(lg) + 1 <= s + NumLeaves
<1> DEFINE n == Len(lg)
<1>1. /\ q \in Path(maxDepth - 1) /\ First(q) + s = n + 1
      /\ s \in Nat /\ n \in Nat /\ DOMAIN t = Places(s, n)
      /\ maxDepth - 1 \in 0 .. maxDepth - 1 /\ maxDepth - 1 \in Nat
  <2>1. /\ q \in Path(maxDepth - 1) /\ First(q) + s = n + 1 /\ Shape(aggFunc, lg, s, t)
        /\ aggFunc \in Fns /\ lg \in Seq(Nat)
    BY DEF Appending
  <2>2. s \in Nat /\ n \in Nat /\ DOMAIN t = Places(s, n)
    BY <2>1, RolledNumbers
  <2> QED
    BY <2>1, <2>2, Spans
<1>2. First(q) \in Nat /\ First(q) + 1 <= NumLeaves + 1 /\ NumLeaves \in Nat /\ Span(maxDepth - 1) = 1
  <2>1. First(q) \in Nat /\ First(q) + Span(maxDepth - 1) <= NumLeaves + 1
    BY <1>1, FirstRange
  <2> QED
    BY <2>1, Spans
<1>3. q \in Places(s, n + 1)
  <2>1. First(q) + s <= n + 1
    BY <1>1
  <2> HIDE DEF n
  <2> QED
    BY <1>1, <2>1, PlaceIs
<1>4. ASSUME NEW p \in Places(s, n) PROVE p \in Places(s, n + 1)
  <2>1. Len(p) \in 0 .. maxDepth - 1 /\ p \in Path(Len(p))
        /\ (Len(p) = maxDepth - 1 => First(p) + s <= n)
    BY PlaceFacts
  <2>2. Len(p) = maxDepth - 1 => First(p) + s <= n + 1
    <3>1. First(p) \in Nat
      BY <2>1, FirstRange
    <3> HIDE DEF n
    <3> QED
      BY <1>1, <2>1, <3>1
  <2> QED
    BY <2>1, <2>2, PlaceIs
<1>5. ASSUME NEW p \in Places(s, n + 1), p # q PROVE p \in Places(s, n)
  <2>1. Len(p) \in 0 .. maxDepth - 1 /\ p \in Path(Len(p))
        /\ (Len(p) = maxDepth - 1 => First(p) + s <= n + 1)
    BY PlaceFacts
  <2>2. Len(p) = maxDepth - 1 => First(p) + s <= n
    <3> SUFFICES ASSUME Len(p) = maxDepth - 1 PROVE First(p) + s <= n
      OBVIOUS
    <3>1. First(p) \in Nat /\ p \in Path(maxDepth - 1)
      BY <2>1, FirstRange
    <3>2. First(p) # First(q)
      <4> SUFFICES ASSUME First(p) = First(q) PROVE FALSE
        OBVIOUS
      <4>1. Covers(p, maxDepth - 1, First(q)) /\ Covers(q, maxDepth - 1, First(q))
        BY <1>2, <3>1 DEF Covers
      <4> QED
        BY <1>1, <1>2, <1>5, <3>1, <4>1, OneAbove
    <3> HIDE DEF n
    <3> QED
      BY <1>1, <1>2, <2>1, <3>1, <3>2
  <2> QED
    BY <2>1, <2>2, PlaceIs
<1> QED
  BY <1>1, <1>2, <1>3, <1>4, <1>5

\* The oldest quarter is left alone.
LEMMA OldPartAppended ==
  ASSUME NEW lg, NEW s, NEW t, NEW q, NEW v, NEW t2, Appending(lg, s, t, q, v), s # 0,
         Written(lg, s, t, q, v, t2), OldPart(aggFunc, lg, s, t)
  PROVE  OldPart(aggFunc, Append(lg, v), s, t2)
<1> DEFINE n == Len(lg)
           lg2 == Append(lg, v)
<1>1. /\ aggFunc \in Fns /\ lg \in Seq(Nat) /\ v \in Nat /\ Shape(aggFunc, lg, s, t)
      /\ q \in Path(maxDepth - 1)
  BY DEF Appending
<1>2. /\ s \in Nat /\ n \in Nat /\ DOMAIN t = Places(s, n) /\ maxDepth - 1 \in Nat
      /\ lg2 \in Seq(Nat) /\ Len(lg2) = n + 1 /\ maxDepth >= 4
  BY <1>1, RolledNumbers, Spans, LogType
<1>3. q[1] = "R" /\ Above(q, 1) = <<"R">>
  BY NewestQuarter
<1>4. ASSUME NEW p, p \in DOMAIN t \/ p \in DOMAIN t2, Old(p)
      PROVE  p \in DOMAIN t /\ t2[p] = t[p]
  <2>1. p # q
    BY <1>3, <1>4 DEF Old
  <2>2. p \in DOMAIN t /\ p \in DOMAIN t2
    BY <1>4, <2>1 DEF Written
  <2>3. p # Above(q, Len(p))
    <3> SUFFICES ASSUME p = Above(q, Len(p)) PROVE FALSE
      OBVIOUS
    <3>1. Len(p) \in 0 .. maxDepth - 1 /\ 1 \in 1 .. Len(p)
      BY <1>2, <1>4, <2>2, PlaceFacts DEF Old
    <3>2. SubSeq(q, 1, Len(p))[1] = q[1]
      BY <1>1, <1>2, <3>1, Prefix
    <3> QED
      BY <1>3, <1>4, <3>2 DEF Above, Old
  <2> QED
    BY <2>2, <2>3 DEF Written
<1>5. ASSUME NEW p \in DOMAIN t, Old(p), NEW x \in Side
      PROVE  Old(p \o <<x>>)
  <2>1. Len(p) \in Nat /\ p \in Path(Len(p))
    BY <1>2, PlaceFacts
  <2> DEFINE k == Len(p)
  <2>2. k \in Nat /\ k >= 2 /\ p[1] = "L" /\ p[2] = "L"
    BY <1>5, <2>1 DEF Old
  <2>3. /\ p \o <<x>> \in Path(k + 1)
        /\ \A i \in 1 .. k : (p \o <<x>>)[i] = p[i]
    BY <2>1, Child
  <2>4. Len(p \o <<x>>) = k + 1
    <3>1. k + 1 \in Nat
      BY <2>2
    <3> HIDE DEF k
    <3> QED
      BY <2>3, <3>1, PathType
  <2> HIDE DEF k
  <2> DEFINE c == p \o <<x>>
  <2>6. \A i \in 1 .. k : c[i] = p[i]
    BY <2>3
  <2> HIDE DEF c
  <2>5. c[1] = "L" /\ c[2] = "L" /\ k + 1 >= 2
    <3>1. 1 \in 1 .. k /\ 2 \in 1 .. k /\ k + 1 >= 2
      BY <2>2
    <3> QED
      BY <2>2, <2>6, <3>1
  <2> QED
    BY <2>4, <2>5 DEF Old, c
<1>6. t2[<<"L", "L">>].leftIdx = 1 /\ t2[<<"L", "L">>].rightIdx = s + Quarter
  <2>1. <<"L", "L">> \in DOMAIN t
    BY <1>2, TopPlaces DEF Side
  <2>2. Old(<<"L", "L">>)
    BY DEF Old
  <2>3. t2[<<"L", "L">>] = t[<<"L", "L">>]
    BY <1>4, <2>1, <2>2
  <2> QED
    BY <2>3 DEF OldPart
<1>7. ASSUME NEW p \in DOMAIN t2, Old(p)
      PROVE  Filled(aggFunc, lg2, t2, p) /\ Split(t2, p)
  <2>1. p \in DOMAIN t /\ t2[p] = t[p] /\ Filled(aggFunc, lg, t, p) /\ Split(t, p)
    BY <1>4, <1>7 DEF OldPart
  <2>2. Filled(aggFunc, lg2, t2, p)
    <3> DEFINE a == t[p].leftIdx
               b == t[p].rightIdx
    <3>1. a \in 1 .. n /\ b \in a .. n /\ t[p].aggVal = Tot(aggFunc, lg, a, b)
      BY <2>1 DEF Filled
    <3> HIDE DEF a, b, n
    <3>2. a \in 1 .. n + 1 /\ b \in a .. n + 1 /\ b \in a - 1 .. n
      BY <1>2, <3>1
    <3>3. Tot(aggFunc, lg2, a, b) = Tot(aggFunc, lg, a, b)
      BY <1>1, <3>2, TotAppend DEF n
    <3> QED
      BY <1>2, <2>1, <3>1, <3>2, <3>3 DEF Filled, a, b
  <2>3. Split(t2, p)
    <3> DEFINE l == p \o <<"L">>
               r == p \o <<"R">>
    <3> SUFFICES ASSUME r \in DOMAIN t2, t2[r].leftIdx # Unset
                 PROVE  /\ t2[l].leftIdx = t2[p].leftIdx
                        /\ t2[r].leftIdx = t2[l].rightIdx + 1
                        /\ t2[p].midIdx \in {t2[l].rightIdx, t2[r].leftIdx}
      BY DEF Split
    <3>1. Old(l) /\ Old(r)
      BY <1>5, <1>7, <2>1 DEF Side
    <3>2. r \in DOMAIN t /\ t2[r] = t[r]
      BY <1>4, <3>1
    <3>3. l \in DOMAIN t
      BY <1>2, <2>1, <3>2, ChildPlaces
    <3>4. t2[l] = t[l]
      BY <1>4, <3>1, <3>3
    <3>5. /\ t[l].leftIdx = t[p].leftIdx
          /\ t[r].leftIdx = t[l].rightIdx + 1
          /\ t[p].midIdx \in {t[l].rightIdx, t[r].leftIdx}
      BY <2>1, <3>2 DEF Split
    <3> QED
      BY <2>1, <3>2, <3>4, <3>5
  <2> QED
    BY <2>2, <2>3
<1> QED
  BY <1>6, <1>7 DEF OldPart

\* The value keeps the shape.
LEMMA AppendShape ==
  ASSUME NEW lg, NEW s, NEW t, NEW q, NEW v, Appending(lg, s, t, q, v)
  PROVE  Shape(aggFunc, Append(lg, v), s, AppendFromParent(t, q, Len(lg) + 1, v))
<1> DEFINE n == Len(lg)
           lg2 == Append(lg, v)
           t2 == AppendFromParent(t, q, Len(lg) + 1, v)
<1>1. /\ aggFunc \in Fns /\ lg \in Seq(Nat) /\ v \in Nat /\ Shape(aggFunc, lg, s, t)
      /\ q \in Path(maxDepth - 1)
  BY DEF Appending
<1>2. /\ s \in Nat /\ n \in Nat /\ DOMAIN t = Places(s, n) /\ Quarter \in Nat
      /\ lg2 \in Seq(Nat) /\ Len(lg2) = n + 1
      /\ s # 0 => n >= s + 3 * Quarter
  BY <1>1, RolledNumbers, LogType
<1>3. Written(lg, s, t, q, v, t2)
  BY AppendWrites
<1> HIDE DEF t2
<1>4. DOMAIN t2 = Places(s, n + 1) /\ n + 1 <= s + NumLeaves
  BY <1>3, PlacesAppended DEF Written
<1>5. s \in 0 .. MaxAppends /\ (s = 0 \/ s >= Quarter) /\ (s # 0 => n + 1 >= s + 3 * Quarter)
  BY <1>1, <1>2 DEF Shape
<1>6. ASSUME NEW p \in DOMAIN t2, Regular(p, s)
      PROVE  t2[p] = NodeAt(aggFunc, lg2, First(p) + s, Span(Len(p)))
  <2>1. CASE p = Above(q, Len(p))
    <3>1. Len(p) \in 0 .. maxDepth - 1
      BY <1>4, PlaceFacts
    <3>2. t2[p] = Later(lg2, s, p)
      BY <1>3, <2>1, <3>1 DEF Written
    <3> QED
      BY <1>6, <3>2 DEF Later
  <2>2. CASE p # Above(q, Len(p))
    <3>1. p \in DOMAIN t /\ t2[p] = t[p]
      BY <1>3, <2>2 DEF Written
    <3>2. First(p) + s > n + 1 \/ First(p) + s + Span(Len(p)) - 1 <= n
      BY <2>2, <3>1, OffWay
    <3>3. RegularNode(aggFunc, lg, s, t, p)
      BY <1>1, <1>6, <3>1, RegularFacts
    <3> DEFINE F == First(p) + s
               m == Span(Len(p))
    <3>4. t[p] = NodeAt(aggFunc, lg, F, m) /\ F \in Nat /\ F >= 1 /\ m \in Nat \ {0} /\ Halved(m)
      <4>1. t[p] = NodeAt(aggFunc, lg, F, m) /\ F \in Nat /\ F >= s + 1 /\ m \in Nat \ {0}
            /\ Halved(m)
        BY <3>3 DEF RegularNode
      <4> HIDE DEF F, m
      <4> QED
        BY <1>2, <4>1
    <3> HIDE DEF F
    <3>5. NodeAt(aggFunc, lg2, F, m) = NodeAt(aggFunc, lg, F, m)
      <4> HIDE DEF m
      <4>1. F > n + 1 \/ F + m - 1 <= n
        BY <3>2 DEF F, m
      <4> QED
        BY <1>1, <3>4, <4>1, Unmoved
    <3> QED
      BY <3>1, <3>4, <3>5 DEF F
  <2> QED
    BY <2>1, <2>2
<1>7. ASSUME s # 0
      PROVE  /\ t2[<<>>] = Root(aggFunc, lg2, s)
             /\ t2[<<"L">>] = RootLeft(aggFunc, lg2, s)
             /\ t2[<<"R">>] = RootRight(aggFunc, lg2, s)
             /\ OldPart(aggFunc, lg2, s, t2)
  <2>0. Above(q, 1) = <<"R">> /\ 0 \in 0 .. maxDepth - 1 /\ 1 \in 0 .. maxDepth - 1
        /\ maxDepth - 1 \in Nat
    BY <1>7, NewestQuarter, Spans
  <2>1. t2[<<>>] = Root(aggFunc, lg2, s)
    <3>1. Above(q, 0) = <<>>
      BY <1>1, <2>0, PrefixAll DEF Above
    <3>2. t2[<<>>] = Later(lg2, s, <<>>)
      BY <1>3, <2>0, <3>1 DEF Written
    <3>3. ~Regular(<<>>, s)
      BY <1>7 DEF Regular
    <3> QED
      BY <3>2, <3>3 DEF Later
  <2>2. t2[<<"R">>] = RootRight(aggFunc, lg2, s)
    <3>1. t2[<<"R">>] = Later(lg2, s, <<"R">>)
      BY <1>3, <2>0 DEF Written
    <3>2. ~Regular(<<"R">>, s)
      BY <1>7 DEF Regular
    <3>3. <<"R">> # <<>>
      OBVIOUS
    <3> QED
      BY <3>1, <3>2, <3>3 DEF Later
  <2>3. t2[<<"L">>] = RootLeft(aggFunc, lg2, s)
    <3>1. <<"L">> \in DOMAIN t2
      BY <1>4, TopPlaces
    <3>2. <<"L">> # Above(q, Len(<<"L">>))
      <4>1. Len(<<"L">>) = 1 /\ <<"L">> # <<"R">>
        OBVIOUS
      <4> QED
        BY <2>0, <4>1
    <3>3. t2[<<"L">>] = t[<<"L">>]
      BY <1>3, <3>1, <3>2 DEF Written
    <3>4. t[<<"L">>] = RootLeft(aggFunc, lg, s)
      BY <1>1, <1>7 DEF Shape
    <3>5. Tot(aggFunc, lg2, 1, s + 2 * Quarter) = Tot(aggFunc, lg, 1, s + 2 * Quarter)
      <4>1. 1 \in 1 .. n + 1 /\ s + 2 * Quarter \in 1 - 1 .. n
        BY <1>2, <1>7
      <4> QED
        BY <1>1, <4>1, TotAppend
    <3> QED
      BY <3>3, <3>4, <3>5 DEF RootLeft
  <2>4. OldPart(aggFunc, lg, s, t)
    BY <1>1, <1>7 DEF Shape
  <2>5. OldPart(aggFunc, lg2, s, t2)
    BY <1>3, <1>7, <2>4, OldPartAppended
  <2> QED
    BY <2>1, <2>2, <2>3, <2>5
<1>8. t2 = [p \in DOMAIN t2 |-> t2[p]]
  BY <1>3 DEF Written
<1> HIDE DEF lg2
<1>9. Shape(aggFunc, lg2, s, t2)
  BY <1>2, <1>4, <1>5, <1>6, <1>7, <1>8 DEF Shape
<1> QED
  BY <1>9 DEF t2, lg2
-----------------------------------------------------------------------------
(* rollup                                                                  *)

\* A path from its third side on, put below some node
LEMMA Below ==
  ASSUME NEW n \in Nat, n >= 2, NEW p \in Path(n), NEW k \in Nat, NEW a \in Path(k)
  PROVE  /\ a \o SubSeq(p, 3, Len(p)) \in Path(k + n - 2)
         /\ \A i \in 1 .. k : (a \o SubSeq(p, 3, Len(p)))[i] = a[i]
         /\ \A i \in k + 1 .. k + n - 2 : (a \o SubSeq(p, 3, Len(p)))[i] = p[i - k + 2]
<1> DEFINE b == SubSeq(p, 3, n)
           c == a \o b
<1>1. p \in Seq(Side) /\ Len(p) = n /\ (\A i \in 1 .. n : p[i] \in Side)
      /\ a \in Seq(Side) /\ Len(a) = k
  BY PathType DEF Side
<1>2. \A i \in 3 .. n : p[i] \in Side
  BY <1>1
<1>3. /\ b \in Seq(Side) /\ Len(b) = n - 2
      /\ \A i \in 1 .. n - 2 : b[i] = p[i + 2]
  <2>1. /\ b \in Seq(Side)
        /\ Len(b) = IF 3 <= n THEN n - 3 + 1 ELSE 0
        /\ \A i \in 1 .. n - 3 + 1 : b[i] = p[3 + i - 1]
    BY <1>2, SubSeqProperties
  <2>2. Len(b) = n - 2
    BY <2>1
  <2>3. ASSUME NEW i \in 1 .. n - 2 PROVE b[i] = p[i + 2]
    <3>1. i \in 1 .. n - 3 + 1 /\ 3 + i - 1 = i + 2
      OBVIOUS
    <3> HIDE DEF b
    <3> QED
      BY <2>1, <3>1
  <2> QED
    BY <2>1, <2>2, <2>3
<1> HIDE DEF b
<1>4. /\ c \in Seq(Side) /\ Len(c) = k + (n - 2)
      /\ \A i \in 1 .. k + (n - 2) : c[i] = IF i <= k THEN a[i] ELSE b[i - k]
  <2>1. /\ c \in Seq(Side) /\ Len(c) = Len(a) + Len(b)
        /\ \A i \in 1 .. Len(a) + Len(b) : c[i] = IF i <= Len(a) THEN a[i] ELSE b[i - Len(a)]
    BY <1>1, <1>3, ConcatProperties
  <2>2. Len(a) = k /\ Len(b) = n - 2
    BY <1>1, <1>3
  <2> HIDE DEF c
  <2> QED
    BY <2>1, <2>2, Zenon
<1> HIDE DEF c
<1>5. k + (n - 2) = k + n - 2
  OBVIOUS
<1>6. c \in Path(k + n - 2)
  <2>1. c \in [1 .. Len(c) -> Side]
    BY <1>4, LenProperties
  <2> QED
    BY <1>4, <1>5, <2>1 DEF Path
<1>7. \A i \in 1 .. k : c[i] = a[i]
  BY <1>4
<1>8. ASSUME NEW i \in k + 1 .. k + n - 2 PROVE c[i] = p[i - k + 2]
  <2>1. i \in 1 .. k + (n - 2) /\ ~(i <= k) /\ i - k \in 1 .. n - 2
    OBVIOUS
  <2> QED
    BY <1>3, <1>4, <2>1
<1> QED
  BY <1>1, <1>6, <1>7, <1>8 DEF b, c

\* Where the nodes of the two middle quarters come from
LEMMA OriginSwapped ==
  ASSUME NEW n \in 2 .. maxDepth - 1, NEW p \in Path(n), NEW x \in Side, NEW y \in Side,
         \/ p[1] = "L" /\ p[2] = "R" /\ x = "R" /\ y = "L"
         \/ p[1] = "R" /\ p[2] = "L" /\ x = "R" /\ y = "R"
  PROVE  /\ Origin(p) \in Path(n) /\ Origin(p)[1] = x /\ Origin(p)[2] = y
         /\ \A i \in 3 .. n : Origin(p)[i] = p[i]
<1>1. n \in Nat /\ n >= 2
  BY Spans
<1>2. Origin(p) = <<x, y>> \o SubSeq(p, 3, Len(p))
  <2>1. CASE p[1] = "L" /\ p[2] = "R" /\ x = "R" /\ y = "L"
    <3> DEFINE below == SubSeq(p, 3, Len(p))
    <3> HIDE DEF below
    <3>1. Origin(p) = CASE p[1] = "L" /\ p[2] = "L" -> <<"L">> \o below
                        [] p[1] = "L" /\ p[2] = "R" -> <<"R", "L">> \o below
                        [] p[1] = "R" /\ p[2] = "L" -> <<"R", "R">> \o below
      BY DEF Origin, below
    <3>2. Origin(p) = <<"R", "L">> \o below
      BY <2>1, <3>1
    <3> QED
      BY <2>1, <3>2 DEF below
  <2>2. CASE p[1] = "R" /\ p[2] = "L" /\ x = "R" /\ y = "R"
    <3> DEFINE below == SubSeq(p, 3, Len(p))
    <3> HIDE DEF below
    <3>1. Origin(p) = CASE p[1] = "L" /\ p[2] = "L" -> <<"L">> \o below
                        [] p[1] = "L" /\ p[2] = "R" -> <<"R", "L">> \o below
                        [] p[1] = "R" /\ p[2] = "L" -> <<"R", "R">> \o below
      BY DEF Origin, below
    <3>2. Origin(p) = <<"R", "R">> \o below
      BY <2>2, <3>1
    <3> QED
      BY <2>2, <3>2 DEF below
  <2> QED
    BY <2>1, <2>2
<1>3. <<x, y>> \in Path(2) /\ <<x, y>>[1] = x /\ <<x, y>>[2] = y
  BY TopPaths
<1> DEFINE a == <<x, y>>
           c == a \o SubSeq(p, 3, Len(p))
<1>4. /\ c \in Path(2 + n - 2)
      /\ \A i \in 1 .. 2 : c[i] = a[i]
      /\ \A i \in 2 + 1 .. 2 + n - 2 : c[i] = p[i - 2 + 2]
  <2>1. a \in Path(2) /\ 2 \in Nat
    BY <1>3
  <2> HIDE DEF a
  <2> QED
    BY <1>1, <2>1, Below
<1> HIDE DEF c
<1>5. 2 + n - 2 = n /\ c[1] = x /\ c[2] = y
  BY <1>1, <1>3, <1>4
<1>6. ASSUME NEW i \in 3 .. n PROVE c[i] = p[i]
  <2>1. i \in 2 + 1 .. 2 + n - 2 /\ i - 2 + 2 = i
    BY <1>1
  <2> QED
    BY <1>4, <2>1
<1> QED
  BY <1>2, <1>4, <1>5, <1>6 DEF c

\* Nodes below the same path of different grandchildren of the root
LEMMA FirstMoved ==
  ASSUME NEW n \in 2 .. maxDepth - 1, NEW p \in Path(n), NEW c \in Path(n),
         NEW a \in Nat, First(Above(c, 2)) = First(Above(p, 2)) + a,
         \A i \in 3 .. n : c[i] = p[i]
  PROVE  First(c) = First(p) + a
<1> DEFINE d == n - 2
           S == {i \in 0 .. d : First(Above(c, i + 2)) = First(Above(p, i + 2)) + a}
<1>0. d \in Nat /\ n \in Nat /\ n \in 0 .. maxDepth - 1 /\ maxDepth \in Nat /\ d + 2 = n
  BY Spans
<1>1. 0 \in S
  <2>1. 0 \in 0 .. d /\ 0 + 2 = 2
    BY <1>0
  <2> QED
    BY <2>1
<1>2. \A i \in 1 .. d : i - 1 \in S => i \in S
  <2> SUFFICES ASSUME NEW i \in 1 .. d, i - 1 \in S PROVE i \in S
    OBVIOUS
  <2> DEFINE m == i + 1
  <2>1. /\ m \in 0 .. n - 1 /\ i - 1 + 2 = m /\ i + 2 = m + 1 /\ m + 1 \in 3 .. n /\ i \in 0 .. d
    BY <1>0
  <2>2. /\ First(Above(p, m + 1)) = First(Above(p, m)) + (IF p[m + 1] = "L" THEN 0 ELSE Span(m + 1))
        /\ First(Above(p, m)) \in Nat /\ Span(m + 1) \in Nat
    <3> HIDE DEF m
    <3> QED
      BY <1>0, <2>1, Halves
  <2>3. /\ First(Above(c, m + 1)) = First(Above(c, m)) + (IF c[m + 1] = "L" THEN 0 ELSE Span(m + 1))
    <3> HIDE DEF m
    <3> QED
      BY <1>0, <2>1, Halves
  <2>4. c[m + 1] = p[m + 1]
    BY <2>1
  <2>5. First(Above(c, m)) = First(Above(p, m)) + a
    <3>1. First(Above(c, i - 1 + 2)) = First(Above(p, i - 1 + 2)) + a
      OBVIOUS
    <3> QED
      BY <2>1, <3>1
  <2> HIDE DEF m, d
  <2>6. First(Above(c, m + 1)) = First(Above(p, m + 1)) + a
    BY <2>2, <2>3, <2>4, <2>5
  <2> QED
    BY <2>1, <2>6
<1>3. \A i \in 0 .. d : i \in S
  <2> HIDE DEF S, d
  <2> QED
    BY <1>0, <1>1, <1>2, IntervalInduction
<1>4. First(Above(c, n)) = First(Above(p, n)) + a
  <2>1. d \in 0 .. d
    BY <1>0
  <2>2. First(Above(c, d + 2)) = First(Above(p, d + 2)) + a
    BY <1>3, <2>1
  <2> QED
    BY <1>0, <2>2
<1>5. Above(c, n) = c /\ Above(p, n) = p
  BY <1>0, PrefixAll DEF Above
<1> QED
  BY <1>4, <1>5

\* They move by a quarter.
LEMMA OriginQuarter ==
  ASSUME NEW n \in 2 .. maxDepth - 1, NEW p \in Path(n), p[1] # p[2]
  PROVE  /\ Origin(p) \in Path(n) /\ First(Origin(p)) = First(p) + Quarter
         /\ Origin(p)[1] = "R"
<1>1. p[1] \in {"L", "R"} /\ p[2] \in {"L", "R"} /\ Quarter \in Nat
  <2>1. n \in Nat /\ 1 \in 1 .. n /\ 2 \in 1 .. n
    BY Spans
  <2> QED
    BY <2>1, PathType, Spans
<1>2. \E x, y \in Side :
         /\ x = "R" /\ First(<<x, y>>) = First(<<p[1], p[2]>>) + Quarter
         /\ \/ p[1] = "L" /\ p[2] = "R" /\ x = "R" /\ y = "L"
            \/ p[1] = "R" /\ p[2] = "L" /\ x = "R" /\ y = "R"
  <2>0. /\ First(<<"L", "R">>) = Quarter + 1
        /\ First(<<"R", "L">>) = 2 * Quarter + 1 /\ First(<<"R", "R">>) = 3 * Quarter + 1
        /\ "L" \in Side /\ "R" \in Side
    BY TopFirst DEF Side
  <2>1. CASE p[1] = "L" /\ p[2] = "R"
    <3>1. First(<<"R", "L">>) = First(<<"L", "R">>) + Quarter
      BY <1>1, <2>0
    <3>2. First(<<p[1], p[2]>>) = First(<<"L", "R">>)
      BY <2>1
    <3> QED
      BY <2>0, <2>1, <3>1, <3>2
  <2>2. CASE p[1] = "R" /\ p[2] = "L"
    <3>1. First(<<"R", "R">>) = First(<<"R", "L">>) + Quarter
      BY <1>1, <2>0
    <3>2. First(<<p[1], p[2]>>) = First(<<"R", "L">>)
      BY <2>2
    <3> QED
      BY <2>0, <2>2, <3>1, <3>2
  <2> QED
    BY <1>1, <2>1, <2>2
<1>3. PICK x \in Side, y \in Side :
         /\ x = "R" /\ First(<<x, y>>) = First(<<p[1], p[2]>>) + Quarter
         /\ \/ p[1] = "L" /\ p[2] = "R" /\ x = "R" /\ y = "L"
            \/ p[1] = "R" /\ p[2] = "L" /\ x = "R" /\ y = "R"
  BY <1>2
<1> DEFINE c == Origin(p)
<1>4. c \in Path(n) /\ c[1] = x /\ c[2] = y /\ \A i \in 3 .. n : c[i] = p[i]
  BY <1>3, OriginSwapped
<1> HIDE DEF c
<1>5. Above(c, 2) = <<c[1], c[2]>> /\ Above(p, 2) = <<p[1], p[2]>>
  BY <1>4, PathStarts
<1>6. First(Above(c, 2)) = First(Above(p, 2)) + Quarter
  BY <1>3, <1>4, <1>5
<1>7. First(c) = First(p) + Quarter
  BY <1>1, <1>4, <1>6, FirstMoved
<1> QED
  BY <1>3, <1>4, <1>7 DEF c

\* Where the nodes of the oldest quarter come from
LEMMA OriginOld ==
  ASSUME NEW n \in 2 .. maxDepth, NEW p \in Path(n), p[1] = "L", p[2] = "L"
  PROVE  /\ Origin(p) \in Path(n - 1) /\ Origin(p)[1] = "L"
         /\ \A i \in 2 .. n - 1 : Origin(p)[i] = p[i + 1]
<1>1. n \in Nat /\ n >= 2
  BY Spans
<1> DEFINE a == <<"L">>
           below == SubSeq(p, 3, Len(p))
           c == a \o below
<1>2. Origin(p) = c
  <2> HIDE DEF below
  <2>1. Origin(p) = CASE p[1] = "L" /\ p[2] = "L" -> <<"L">> \o below
                      [] p[1] = "L" /\ p[2] = "R" -> <<"R", "L">> \o below
                      [] p[1] = "R" /\ p[2] = "L" -> <<"R", "R">> \o below
    BY DEF Origin, below
  <2>2. "L" # "R"
    OBVIOUS
  <2> QED
    BY <2>1, <2>2
<1>3. a \in Path(1) /\ a[1] = "L"
  BY TopPaths DEF Side
<1>4. /\ c \in Path(1 + n - 2)
      /\ \A i \in 1 .. 1 : c[i] = a[i]
      /\ \A i \in 1 + 1 .. 1 + n - 2 : c[i] = p[i - 1 + 2]
  <2>1. 1 \in Nat
    OBVIOUS
  <2> HIDE DEF a
  <2> QED
    BY <1>1, <1>3, <2>1, Below
<1> HIDE DEF c
<1>5. 1 + n - 2 = n - 1 /\ c[1] = "L"
  BY <1>1, <1>3, <1>4
<1>6. ASSUME NEW i \in 2 .. n - 1 PROVE c[i] = p[i + 1]
  <2>1. i \in 1 + 1 .. 1 + n - 2 /\ i - 1 + 2 = i + 1
    BY <1>1
  <2> QED
    BY <1>4, <2>1
<1> QED
  BY <1>2, <1>4, <1>5, <1>6

\* Where rollup takes a node's child from.
LEMMA OriginChild ==
  ASSUME NEW n \in 2 .. maxDepth - 1, NEW p \in Path(n), p[1] = "L", p[2] = "L", NEW x \in Side
  PROVE  Origin(p \o <<x>>) = Origin(p) \o <<x>>
<1> DEFINE e == p \o <<x>>
           a == Origin(e)
           b == Origin(p)
           c == b \o <<x>>
<1>0. n \in Nat /\ n + 1 \in 2 .. maxDepth /\ n \in 2 .. maxDepth /\ n - 1 \in Nat /\ n >= 2
      /\ n + 1 - 1 = n /\ n - 1 + 1 = n
  BY Spans
<1>1. e \in Path(n + 1) /\ (\A i \in 1 .. n : e[i] = p[i]) /\ e[n + 1] = x
  BY <1>0, Child
<1> HIDE DEF e
<1>2. e[1] = "L" /\ e[2] = "L"
  <2>1. 1 \in 1 .. n /\ 2 \in 1 .. n
    BY <1>0
  <2> QED
    BY <1>1, <2>1
<1>3. /\ a \in Path(n + 1 - 1) /\ a[1] = "L"
      /\ \A i \in 2 .. n + 1 - 1 : a[i] = e[i + 1]
  BY <1>0, <1>1, <1>2, OriginOld
<1>4. b \in Path(n - 1) /\ b[1] = "L" /\ \A i \in 2 .. n - 1 : b[i] = p[i + 1]
  BY <1>0, OriginOld
<1> HIDE DEF a, b
<1>5. c \in Path(n - 1 + 1) /\ (\A i \in 1 .. n - 1 : c[i] = b[i]) /\ c[n - 1 + 1] = x
  BY <1>0, <1>4, Child
<1> HIDE DEF c
<1>6. ASSUME NEW i \in 1 .. n PROVE a[i] = c[i]
  <2>1. CASE i = 1
    <3>1. 1 \in 1 .. n - 1
      BY <1>0
    <3> QED
      BY <1>3, <1>4, <1>5, <2>1, <3>1
  <2>2. CASE i = n
    <3>1. n \in 2 .. n + 1 - 1
      BY <1>0
    <3>2. a[n] = e[n + 1]
      BY <1>3, <3>1
    <3> QED
      BY <1>0, <1>1, <1>5, <2>2, <3>2
  <2>3. CASE i # 1 /\ i # n
    <3>1. i \in 2 .. n + 1 - 1 /\ i \in 2 .. n - 1 /\ i \in 1 .. n - 1 /\ i + 1 \in 1 .. n
      BY <1>0, <2>3
    <3>2. a[i] = e[i + 1] /\ e[i + 1] = p[i + 1] /\ b[i] = p[i + 1] /\ c[i] = b[i]
      BY <1>1, <1>3, <1>4, <1>5, <3>1
    <3> QED
      BY <3>2
  <2> QED
    BY <2>1, <2>2, <2>3
<1>7. a = c
  BY <1>0, <1>3, <1>5, <1>6, PathEqual
<1> QED
  BY <1>7 DEF a, b, c, e

\* A node all of whose leaves are filled
LEMMA FullNode ==
  ASSUME NEW fn \in Fns, NEW lg \in Seq(Nat), NEW s, NEW t, Shape(fn, lg, s, t),
         Len(lg) = s + NumLeaves, NEW m \in 0 .. 2, NEW p \in Path(m), Regular(p, s)
  PROVE  /\ t[p].leftIdx = First(p) + s
         /\ t[p].rightIdx = First(p) + s + Span(m) - 1
         /\ t[p].aggVal = Tot(fn, lg, First(p) + s, First(p) + s + Span(m) - 1)
<1> DEFINE F == First(p) + s
           k == Span(m)
           n == Len(lg)
<1>1. m \in 0 .. maxDepth - 1 /\ m # maxDepth - 1 /\ NumLeaves \in Nat /\ m \in Nat
      /\ s \in Nat /\ DOMAIN t = Places(s, n) /\ Unset \in Nat
  <2>1. s \in Nat /\ DOMAIN t = Places(s, n) /\ Unset \in Nat
    BY RolledNumbers
  <2>2. maxDepth \in Nat /\ maxDepth >= 4 /\ NumLeaves \in Nat
    BY Spans
  <2>3. m \in 0 .. maxDepth - 1 /\ m # maxDepth - 1 /\ m \in Nat
    BY <2>2
  <2> QED
    BY <2>1, <2>2, <2>3
<1>2. p \in DOMAIN t /\ Len(p) = m
  BY <1>1, PlaceIs
<1>3. /\ t[p] = NodeAt(fn, lg, F, k)
      /\ F \in Nat /\ F >= s + 1 /\ k \in Nat \ {0} /\ F + k <= s + NumLeaves + 1
      /\ s + NumLeaves + 1 <= Unset /\ s \in Nat
      /\ Halved(k)
  BY <1>2, RegularFacts DEF RegularNode
<1> HIDE DEF F, k
<1>4. F >= 1 /\ F + k <= Unset /\ F <= n /\ n >= F + k - 1
  BY <1>1, <1>3 DEF n
<1> HIDE DEF n
<1>5. Says(fn, lg, F, k, t[p])
  BY <1>3, <1>4, NodeGood
<1>6. t[p].leftIdx = F /\ t[p].rightIdx = F + k - 1 /\ t[p].aggVal = Tot(fn, lg, F, F + k - 1)
  BY <1>4, <1>5 DEF Says, n
<1> QED
  BY <1>6 DEF F, k

\* The top of a full tree, as far as rollup reads it
FullTop(fn, lg, s, t) ==
  /\ t[<<>>] = [leftIdx |-> 1, midIdx |-> t[<<>>].midIdx, rightIdx |-> t[<<>>].rightIdx,
                aggVal |-> t[<<>>].aggVal]
  /\ t[<<"L">>].leftIdx = 1 /\ t[<<"L">>].rightIdx = s + 2 * Quarter
  /\ t[<<"L">>].aggVal = Tot(fn, lg, 1, s + 2 * Quarter)
  /\ t[<<"R">>] = [leftIdx |-> t[<<"R">>].leftIdx, midIdx |-> t[<<"R">>].midIdx,
                   rightIdx |-> s + 4 * Quarter, aggVal |-> t[<<"R">>].aggVal]
  /\ t[<<"R", "L">>].leftIdx = s + 2 * Quarter + 1
  /\ t[<<"R", "L">>].rightIdx = s + 3 * Quarter
  /\ t[<<"R", "L">>].aggVal = Tot(fn, lg, s + 2 * Quarter + 1, s + 3 * Quarter)
  /\ t[<<"R", "R">>].leftIdx = s + 3 * Quarter + 1
  /\ t[<<"R", "R">>].rightIdx = s + 4 * Quarter
  /\ t[<<"R", "R">>].aggVal = Tot(fn, lg, s + 3 * Quarter + 1, s + 4 * Quarter)

\* In a full tree the top is filled.
LEMMA TopIsFull ==
  ASSUME NEW fn \in Fns, NEW lg \in Seq(Nat), NEW s, NEW t, Shape(fn, lg, s, t),
         Len(lg) = s + NumLeaves
  PROVE  FullTop(fn, lg, s, t)
<1> DEFINE q == Quarter
           n == Len(lg)
<1>1. /\ s \in Nat /\ q \in Nat /\ q >= 2 /\ NumLeaves = 4 * q /\ n = s + 4 * q
      /\ DOMAIN t = Places(s, n)
  <2>1. /\ s \in Nat /\ Quarter \in Nat /\ Quarter >= 2 /\ NumLeaves = 4 * Quarter
        /\ DOMAIN t = Places(s, n)
    BY RolledNumbers
  <2> QED
    BY <2>1
<1>2. /\ "L" \in Side /\ "R" \in Side /\ <<>> \in Path(0) /\ <<"L">> \in Path(1)
      /\ <<"R">> \in Path(1) /\ <<"R", "L">> \in Path(2) /\ <<"R", "R">> \in Path(2)
      /\ <<>> \in DOMAIN t /\ <<"R">> \in DOMAIN t
  <2>1. "L" \in Side /\ "R" \in Side
    BY DEF Side
  <2> QED
    BY <1>1, <2>1, TopPaths, TopPlaces
<1>3. /\ First(<<>>) = 1 /\ First(<<"L">>) = 1 /\ First(<<"R">>) = 2 * q + 1
      /\ First(<<"R", "L">>) = 2 * q + 1 /\ First(<<"R", "R">>) = 3 * q + 1
      /\ Span(0) = 4 * q /\ Span(1) = 2 * q /\ Span(2) = q
  BY <1>1, TopFirst, Spans DEF Quarter
<1>4. Regular(<<"R", "L">>, s) /\ Regular(<<"R", "R">>, s)
  <2>1. Len(<<"R", "L">>) = 2 /\ <<"R", "L">>[1] = "R" /\ Len(<<"R", "R">>) = 2
        /\ <<"R", "R">>[1] = "R"
    OBVIOUS
  <2> QED
    BY <2>1 DEF Regular, Old
<1>5. /\ t[<<"R", "L">>].leftIdx = 2 * q + 1 + s
      /\ t[<<"R", "L">>].rightIdx = 2 * q + 1 + s + q - 1
      /\ t[<<"R", "L">>].aggVal = Tot(fn, lg, 2 * q + 1 + s, 2 * q + 1 + s + q - 1)
      /\ t[<<"R", "R">>].leftIdx = 3 * q + 1 + s
      /\ t[<<"R", "R">>].rightIdx = 3 * q + 1 + s + q - 1
      /\ t[<<"R", "R">>].aggVal = Tot(fn, lg, 3 * q + 1 + s, 3 * q + 1 + s + q - 1)
  <2>1. 2 \in 0 .. 2
    OBVIOUS
  <2>2. /\ t[<<"R", "L">>].leftIdx = First(<<"R", "L">>) + s
        /\ t[<<"R", "L">>].rightIdx = First(<<"R", "L">>) + s + Span(2) - 1
        /\ t[<<"R", "L">>].aggVal =
             Tot(fn, lg, First(<<"R", "L">>) + s, First(<<"R", "L">>) + s + Span(2) - 1)
    BY <1>2, <1>4, <2>1, FullNode
  <2>3. /\ t[<<"R", "R">>].leftIdx = First(<<"R", "R">>) + s
        /\ t[<<"R", "R">>].rightIdx = First(<<"R", "R">>) + s + Span(2) - 1
        /\ t[<<"R", "R">>].aggVal =
             Tot(fn, lg, First(<<"R", "R">>) + s, First(<<"R", "R">>) + s + Span(2) - 1)
    BY <1>2, <1>4, <2>1, FullNode
  <2> QED
    BY <1>3, <2>2, <2>3, Zenon
<1>6. /\ 2 * q + 1 + s = s + 2 * q + 1 /\ 2 * q + 1 + s + q - 1 = s + 3 * q
      /\ 3 * q + 1 + s = s + 3 * q + 1 /\ 3 * q + 1 + s + q - 1 = s + 4 * q
  <2> HIDE DEF q
  <2> QED
    BY <1>1
<1>7. /\ t[<<>>].leftIdx = 1
      /\ t[<<"L">>].leftIdx = 1 /\ t[<<"L">>].rightIdx = s + 2 * q
      /\ t[<<"L">>].aggVal = Tot(fn, lg, 1, s + 2 * q)
      /\ t[<<"R">>].rightIdx = s + 4 * q
  <2>1. CASE s = 0
    <3>1. Regular(<<>>, s) /\ Regular(<<"L">>, s) /\ Regular(<<"R">>, s)
      BY <2>1 DEF Regular
    <3>2. t[<<>>].leftIdx = First(<<>>) + s
      BY <1>2, <3>1, FullNode
    <3>3. /\ t[<<"L">>].leftIdx = First(<<"L">>) + s
          /\ t[<<"L">>].rightIdx = First(<<"L">>) + s + Span(1) - 1
          /\ t[<<"L">>].aggVal = Tot(fn, lg, First(<<"L">>) + s, First(<<"L">>) + s + Span(1) - 1)
      BY <1>2, <3>1, FullNode
    <3>4. t[<<"R">>].rightIdx = First(<<"R">>) + s + Span(1) - 1
      BY <1>2, <3>1, FullNode
    <3>5. 1 + s = 1 /\ 1 + s + 2 * q - 1 = s + 2 * q /\ 2 * q + 1 + s + 2 * q - 1 = s + 4 * q
      <4> HIDE DEF q
      <4> QED
        BY <1>1, <2>1
    <3>6. /\ t[<<"L">>].leftIdx = 1 + s
          /\ t[<<"L">>].rightIdx = 1 + s + 2 * q - 1
          /\ t[<<"L">>].aggVal = Tot(fn, lg, 1 + s, 1 + s + 2 * q - 1)
          /\ t[<<>>].leftIdx = 1 + s
          /\ t[<<"R">>].rightIdx = 2 * q + 1 + s + 2 * q - 1
      BY <1>3, <3>2, <3>3, <3>4, Zenon
    <3> QED
      BY <3>5, <3>6, Zenon
  <2>2. CASE s # 0
    <3>1. /\ t[<<>>] = Root(fn, lg, s) /\ t[<<"L">>] = RootLeft(fn, lg, s)
          /\ t[<<"R">>] = RootRight(fn, lg, s)
      BY <2>2 DEF Shape
    <3>2. TopRight(s, n) = s + 4 * q
      BY <1>1 DEF TopRight
    <3>3. t[<<"R">>].rightIdx = TopRight(s, n)
      BY <3>1 DEF RootRight
    <3>4. t[<<>>].leftIdx = 1
      BY <3>1 DEF Root
    <3>5. /\ t[<<"L">>].leftIdx = 1 /\ t[<<"L">>].rightIdx = s + 2 * q
          /\ t[<<"L">>].aggVal = Tot(fn, lg, 1, s + 2 * q)
      BY <3>1 DEF RootLeft
    <3> QED
      BY <3>2, <3>3, <3>4, <3>5
  <2> QED
    BY <2>1, <2>2
<1>8. Filled(fn, lg, t, <<>>) /\ Filled(fn, lg, t, <<"R">>)
  BY <1>2, ShapeGood
<1>9. /\ t[<<>>] = [leftIdx |-> t[<<>>].leftIdx, midIdx |-> t[<<>>].midIdx,
                    rightIdx |-> t[<<>>].rightIdx, aggVal |-> t[<<>>].aggVal]
      /\ t[<<"R">>] = [leftIdx |-> t[<<"R">>].leftIdx, midIdx |-> t[<<"R">>].midIdx,
                       rightIdx |-> t[<<"R">>].rightIdx, aggVal |-> t[<<"R">>].aggVal]
  BY <1>8 DEF Filled
<1>10. /\ t[<<"R", "L">>].leftIdx = s + 2 * q + 1
       /\ t[<<"R", "L">>].rightIdx = s + 3 * q
       /\ t[<<"R", "L">>].aggVal = Tot(fn, lg, s + 2 * q + 1, s + 3 * q)
       /\ t[<<"R", "R">>].leftIdx = s + 3 * q + 1
       /\ t[<<"R", "R">>].rightIdx = s + 4 * q
       /\ t[<<"R", "R">>].aggVal = Tot(fn, lg, s + 3 * q + 1, s + 4 * q)
  BY <1>5, <1>6, Zenon
<1>11. /\ t[<<>>] = [leftIdx |-> 1, midIdx |-> t[<<>>].midIdx,
                     rightIdx |-> t[<<>>].rightIdx, aggVal |-> t[<<>>].aggVal]
       /\ t[<<"R">>] = [leftIdx |-> t[<<"R">>].leftIdx, midIdx |-> t[<<"R">>].midIdx,
                        rightIdx |-> s + 4 * q, aggVal |-> t[<<"R">>].aggVal]
  BY <1>7, <1>9, Zenon
<1> QED
  BY <1>7, <1>10, <1>11, Zenon DEF FullTop

\* Fields that rollup sets
OldFields(x, b, c, d) == [x EXCEPT !.midIdx = b, !.rightIdx = c, !.aggVal = d]

NewFields(x, b, c, d) == [x EXCEPT !.leftIdx = b, !.midIdx = c, !.aggVal = d]

\* The two updates of rollup that leave one field alone.
LEMMA ThreeFields ==
  ASSUME NEW x, NEW l, NEW m, NEW r, NEW a, NEW b, NEW c, NEW d, x = Node(l, m, r, a)
  PROVE  OldFields(x, b, c, d) = Node(l, b, c, d) /\ NewFields(x, b, c, d) = Node(b, c, r, d)
<1>1. [x EXCEPT !.midIdx = b, !.rightIdx = c, !.aggVal = d] = Node(l, b, c, d)
  <2> DEFINE y == [x EXCEPT !.midIdx = b]
             z == [y EXCEPT !.rightIdx = c]
  <2>1. [x EXCEPT !.midIdx = b, !.rightIdx = c, !.aggVal = d] = [z EXCEPT !.aggVal = d]
    OBVIOUS
  <2>2. y = Node(l, b, r, a)
    BY DEF Node
  <2> HIDE DEF y
  <2>3. z = Node(l, b, c, a)
    BY <2>2 DEF Node
  <2> HIDE DEF z
  <2>4. [z EXCEPT !.aggVal = d] = Node(l, b, c, d)
    BY <2>3 DEF Node
  <2> QED
    BY <2>1, <2>4
<1>2. [x EXCEPT !.leftIdx = b, !.midIdx = c, !.aggVal = d] = Node(b, c, r, d)
  <2> DEFINE y == [x EXCEPT !.leftIdx = b]
             z == [y EXCEPT !.midIdx = c]
  <2>1. [x EXCEPT !.leftIdx = b, !.midIdx = c, !.aggVal = d] = [z EXCEPT !.aggVal = d]
    OBVIOUS
  <2>2. y = Node(b, m, r, a)
    BY DEF Node
  <2> HIDE DEF y
  <2>3. z = Node(b, c, r, a)
    BY <2>2 DEF Node
  <2> HIDE DEF z
  <2>4. [z EXCEPT !.aggVal = d] = Node(b, c, r, d)
    BY <2>3 DEF Node
  <2> QED
    BY <2>1, <2>4
<1> QED
  BY <1>1, <1>2 DEF OldFields, NewFields

\* computeAggregate is Agg.
LEMMA AggIs == \A a, b : computeAggregate(a, b) = Agg(aggFunc, a, b)
<1> QED
  BY DEF computeAggregate, Agg

\* The three nodes that rollup computes
LEMMA RolledTop ==
  ASSUME NEW lg \in Seq(Nat), NEW s, NEW t, aggFunc \in Fns, Shape(aggFunc, lg, s, t),
         Len(lg) = s + NumLeaves
  PROVE  /\ OldRoot(t) = RootLeft(aggFunc, lg, s + Quarter)
         /\ NewRoot(t) = Root(aggFunc, lg, s + Quarter)
         /\ NewRightChild(t) = RootRight(aggFunc, lg, s + Quarter)
<1> DEFINE q == Quarter
           n == Len(lg)
           fn == aggFunc
           tt(l, r) == Tot(fn, lg, l, r)
<1>1. /\ s \in Nat /\ q \in Nat /\ q >= 2 /\ n = s + 4 * q
  BY RolledNumbers
<1>2. FullTop(fn, lg, s, t)
  BY TopIsFull
<1>3. /\ Agg(fn, tt(1, s + 2 * q), tt(s + 2 * q + 1, s + 3 * q)) = tt(1, s + 3 * q)
      /\ Agg(fn, tt(1, s + 3 * q), tt(s + 3 * q + 1, s + 4 * q)) = tt(1, s + 4 * q)
  <2>1. /\ 1 \in 1 .. n + 1 /\ s + 2 * q \in 1 - 1 .. n /\ s + 3 * q \in 1 - 1 .. n
        /\ s + 3 * q \in s + 2 * q .. n /\ s + 4 * q \in s + 3 * q .. n
    <3> HIDE DEF q, n
    <3> QED
      BY <1>1
  <2>2. /\ Agg(fn, Tot(fn, lg, 1, s + 2 * q), Tot(fn, lg, s + 2 * q + 1, s + 3 * q))
             = Tot(fn, lg, 1, s + 3 * q)
        /\ Agg(fn, Tot(fn, lg, 1, s + 3 * q), Tot(fn, lg, s + 3 * q + 1, s + 4 * q))
             = Tot(fn, lg, 1, s + 4 * q)
    <3> HIDE DEF q
    <3> QED
      BY <2>1, TotJoin
  <2> QED
    BY <2>2
<1>4. OldRoot(t) = [leftIdx |-> 1, midIdx |-> s + 2 * q + 1, rightIdx |-> s + 3 * q,
                    aggVal |-> tt(1, s + 3 * q)]
  <2> DEFINE x == t[<<>>]
             c == t[<<"R", "L">>]
             a == computeAggregate(t[<<"L">>].aggVal, c.aggVal)
  <2>1. OldRoot(t) = OldFields(x, c.leftIdx, c.rightIdx, a)
    BY DEF OldRoot, OldFields
  <2>2. /\ x = [leftIdx |-> 1, midIdx |-> x.midIdx, rightIdx |-> x.rightIdx, aggVal |-> x.aggVal]
        /\ c.leftIdx = s + 2 * q + 1 /\ c.rightIdx = s + 3 * q
    BY <1>2 DEF FullTop
  <2>3. a = tt(1, s + 3 * q)
    <3>1. t[<<"L">>].aggVal = tt(1, s + 2 * q) /\ c.aggVal = tt(s + 2 * q + 1, s + 3 * q)
      BY <1>2 DEF FullTop
    <3>2. a = Agg(fn, t[<<"L">>].aggVal, c.aggVal)
      BY AggIs
    <3> HIDE DEF tt, a, c
    <3> QED
      BY <1>3, <3>1, <3>2, Zenon
  <2> HIDE DEF x, c, a, tt, q
  <2>4. OldFields(x, c.leftIdx, c.rightIdx, a) =
          [leftIdx |-> 1, midIdx |-> c.leftIdx, rightIdx |-> c.rightIdx, aggVal |-> a]
    <3>1. x = Node(1, x.midIdx, x.rightIdx, x.aggVal)
      BY <2>2 DEF Node
    <3>2. OldFields(x, c.leftIdx, c.rightIdx, a) =
            Node(1, c.leftIdx, c.rightIdx, a)
      BY <3>1, ThreeFields
    <3> QED
      BY <3>2 DEF Node
  <2> QED
    BY <2>1, <2>2, <2>3, <2>4, Zenon
<1>5. NewRoot(t) = [leftIdx |-> 1, midIdx |-> s + 3 * q, rightIdx |-> s + 4 * q,
                    aggVal |-> tt(1, s + 4 * q)]
  <2> DEFINE x == t[<<"R">>]
             l == OldRoot(t)
             r == t[<<"R", "R">>]
             a == computeAggregate(l.aggVal, r.aggVal)
             b == least(l.rightIdx, r.leftIdx)
  <2>1. NewRoot(t) = NewFields(x, l.leftIdx, b, a)
    BY DEF NewRoot, NewFields
  <2>2. /\ x = [leftIdx |-> x.leftIdx, midIdx |-> x.midIdx, rightIdx |-> s + 4 * q,
                aggVal |-> x.aggVal]
        /\ r.leftIdx = s + 3 * q + 1 /\ r.aggVal = tt(s + 3 * q + 1, s + 4 * q)
    BY <1>2 DEF FullTop
  <2>3. l.leftIdx = 1 /\ l.rightIdx = s + 3 * q /\ l.aggVal = tt(1, s + 3 * q)
    BY <1>4
  <2>4. a = tt(1, s + 4 * q)
    <3>1. a = Agg(fn, l.aggVal, r.aggVal)
      BY AggIs
    <3> HIDE DEF tt, a, l, r
    <3> QED
      BY <1>3, <2>2, <2>3, <3>1, Zenon
  <2>5. b = s + 3 * q
    <3> HIDE DEF l, r, q
    <3> QED
      BY <1>1, <2>2, <2>3 DEF least
  <2> HIDE DEF x, l, r, a, b, tt, q
  <2>6. NewFields(x, l.leftIdx, b, a) =
          [leftIdx |-> l.leftIdx, midIdx |-> b, rightIdx |-> s + 4 * q, aggVal |-> a]
    <3>1. x = Node(x.leftIdx, x.midIdx, s + 4 * q, x.aggVal)
      BY <2>2 DEF Node
    <3>2. NewFields(x, l.leftIdx, b, a) =
            Node(l.leftIdx, b, s + 4 * q, a)
      BY <3>1, ThreeFields
    <3> QED
      BY <3>2 DEF Node
  <2> QED
    BY <2>1, <2>3, <2>4, <2>5, <2>6, Zenon
<1>6. NewRightChild(t) = [leftIdx |-> s + 3 * q + 1, midIdx |-> s + 4 * q,
                          rightIdx |-> s + 4 * q, aggVal |-> tt(s + 3 * q + 1, s + 4 * q)]
  <2>1. /\ t[<<"R", "R">>].leftIdx = s + 3 * q + 1 /\ t[<<"R", "R">>].rightIdx = s + 4 * q
        /\ t[<<"R", "R">>].aggVal = tt(s + 3 * q + 1, s + 4 * q)
    BY <1>2 DEF FullTop
  <2>2. NewRightChild(t) = [leftIdx |-> t[<<"R", "R">>].leftIdx,
                            midIdx |-> t[<<"R", "R">>].rightIdx,
                            rightIdx |-> t[<<"R", "R">>].rightIdx,
                            aggVal |-> t[<<"R", "R">>].aggVal]
    BY DEF NewRightChild
  <2> QED
    BY <2>1, <2>2, Zenon
<1> DEFINE s2 == s + q
<1>7. /\ s2 + q + 1 = s + 2 * q + 1 /\ s2 + 2 * q = s + 3 * q /\ s2 + 3 * q = s + 4 * q
      /\ s2 + 2 * q + 1 = s + 3 * q + 1 /\ n = s + 4 * q
  <2> HIDE DEF q, n
  <2> QED
    BY <1>1
<1>8. TopRight(s2, n) = s + 4 * q
  BY <1>1, <1>7 DEF TopRight
<1>9. /\ RootLeft(fn, lg, s2) = [leftIdx |-> 1, midIdx |-> s2 + q + 1, rightIdx |-> s2 + 2 * q,
                                 aggVal |-> tt(1, s2 + 2 * q)]
      /\ Root(fn, lg, s2) = [leftIdx |-> 1, midIdx |-> s2 + 2 * q, rightIdx |-> TopRight(s2, n),
                             aggVal |-> tt(1, n)]
      /\ RootRight(fn, lg, s2) = [leftIdx |-> s2 + 2 * q + 1, midIdx |-> s2 + 3 * q,
                                  rightIdx |-> TopRight(s2, n), aggVal |-> tt(s2 + 2 * q + 1, n)]
  BY DEF RootLeft, Root, RootRight
<1> HIDE DEF s2, tt, q, n
<1>10. /\ OldRoot(t) = RootLeft(fn, lg, s2) /\ NewRoot(t) = Root(fn, lg, s2)
       /\ NewRightChild(t) = RootRight(fn, lg, s2)
  BY <1>4, <1>5, <1>6, <1>7, <1>8, <1>9, Zenon
<1> QED
  BY <1>10 DEF s2, q

\* The places that are left and made are those of a tree whose newest quarter is empty.
LEMMA RolledPlaces ==
  ASSUME NEW s \in Nat
  PROVE  RolledPaths = Places(s + Quarter, s + NumLeaves)
<1> DEFINE d == maxDepth - 1
           u == s + Quarter
           n == s + NumLeaves
<1>0. /\ maxDepth \in Nat /\ maxDepth >= 4 /\ d \in Nat /\ d >= 3 /\ Quarter \in Nat /\ Quarter >= 2
      /\ NumLeaves = 4 * Quarter /\ Span(d) = 1 /\ 2 \in Nat
  BY Spans
<1>1. ASSUME NEW p, p \in Path(d)
      PROVE  /\ First(p) \in Nat /\ p[1] \in Side /\ p[2] \in Side
             /\ First(<<p[1], p[2]>>) <= First(p) /\ First(p) + 1 <= First(<<p[1], p[2]>>) + Quarter
             /\ First(p) + u <= n <=> ~(p[1] = "R" /\ p[2] = "R")
  <2>1. d \in 2 .. maxDepth - 1 /\ d \in 0 .. maxDepth - 1
    BY <1>0
  <2>2. /\ p[1] \in Side /\ p[2] \in Side /\ First(<<p[1], p[2]>>) <= First(p)
        /\ First(p) + Span(d) <= First(<<p[1], p[2]>>) + Quarter
    <3> HIDE DEF d
    <3> QED
      BY <1>1, <2>1, PathStarts
  <2>3. First(p) \in Nat
    <3> HIDE DEF d
    <3> QED
      BY <1>1, <2>1, FirstRange
  <2> DEFINE x == p[1]
             y == p[2]
             a == First(<<x, y>>)
             b == First(p)
             q == Quarter
  <2>4. /\ First(<<"L", "L">>) = 1 /\ First(<<"L", "R">>) = q + 1
        /\ First(<<"R", "L">>) = 2 * q + 1 /\ First(<<"R", "R">>) = 3 * q + 1
    BY TopFirst
  <2>5. b + u <= n <=> ~(x = "R" /\ y = "R")
    <3>0. b \in Nat /\ a <= b /\ b + 1 <= a + q /\ q \in Nat /\ u = s + q /\ n = s + 4 * q
      BY <1>0, <2>2, <2>3
    <3>1. CASE x = "R" /\ y = "R"
      <4>1. a = 3 * q + 1
        BY <2>4, <3>1
      <4>2. ~(b + u <= n)
        <5> HIDE DEF a, b, q, u, n
        <5> QED
          BY <3>0, <4>1
      <4> QED
        BY <3>1, <4>2
    <3>2. CASE ~(x = "R" /\ y = "R")
      <4>1. a = 1 \/ a = q + 1 \/ a = 2 * q + 1
        <5>1. x \in {"L", "R"} /\ y \in {"L", "R"}
          BY <2>2 DEF Side
        <5>2. <<x, y>> = <<"L", "L">> \/ <<x, y>> = <<"L", "R">> \/ <<x, y>> = <<"R", "L">>
          BY <3>2, <5>1
        <5> HIDE DEF x, y
        <5> QED
          BY <2>4, <5>2
      <4>2. b + u <= n
        <5> HIDE DEF a, b, q, u, n
        <5> QED
          BY <3>0, <4>1
      <4> QED
        BY <3>2, <4>2
    <3> QED
      BY <3>1, <3>2
  <2> QED
    BY <1>0, <2>2, <2>3, <2>5
<1>2. ASSUME NEW p, p \in PathsTo(d)
      PROVE  p \in RolledPaths <=> p \in Places(u, n)
  <2>1. Len(p) \in 0 .. d /\ p \in Path(Len(p))
    <3> HIDE DEF d
    <3> QED
      BY <1>0, <1>2, PathsSet
  <2>2. p \in PathsTo(2) <=> Len(p) <= 2
    <3>1. p \in PathsTo(2) <=> Len(p) \in 0 .. 2 /\ p \in Path(Len(p))
      BY <1>0, PathsSet
    <3> DEFINE k == Len(p)
    <3>2. k \in 0 .. d /\ d \in Nat
      BY <1>0, <2>1
    <3> HIDE DEF k, d
    <3>3. k <= 2 <=> k \in 0 .. 2
      BY <3>2
    <3> QED
      BY <2>1, <3>1, <3>3 DEF k
  <2>3. p \in Places(u, n) <=> (Len(p) = d => First(p) + u <= n)
    BY <1>2 DEF Places
  <2>4. p \in RolledPaths <=>
          Len(p) <= 2 \/ (Len(p) >= 2 /\ (p[1] = "R" /\ p[2] = "R" => Len(p) <= maxDepth - 2))
    BY <1>2, <2>2 DEF RolledPaths
  <2>5. CASE Len(p) = d
    <3>1. First(p) + u <= n <=> ~(p[1] = "R" /\ p[2] = "R")
      BY <1>1, <2>1, <2>5
    <3>2. ~(Len(p) <= 2) /\ Len(p) >= 2 /\ ~(Len(p) <= maxDepth - 2)
      BY <1>0, <2>5
    <3> QED
      BY <2>3, <2>4, <2>5, <3>1, <3>2
  <2>6. CASE Len(p) # d
    <3>1. Len(p) <= maxDepth - 2 /\ (Len(p) <= 2 \/ Len(p) >= 2)
      BY <1>0, <2>1, <2>6
    <3> QED
      BY <2>3, <2>4, <2>6, <3>1
  <2> QED
    BY <2>5, <2>6
<1>3. RolledPaths \subseteq PathsTo(d)
  <2>1. ASSUME NEW p \in PathsTo(2) PROVE p \in PathsTo(d)
    <3>1. Len(p) \in 0 .. 2 /\ p \in Path(Len(p))
      BY <1>0, PathsSet
    <3>2. Len(p) \in 0 .. d
      <4> DEFINE k == Len(p)
      <4>1. k \in 0 .. 2 /\ d \in Nat /\ d >= 3
        BY <1>0, <3>1
      <4> HIDE DEF k, d
      <4>2. k \in 0 .. d
        BY <4>1
      <4> QED
        BY <4>2 DEF k
    <3> HIDE DEF d
    <3> QED
      BY <1>0, <3>1, <3>2, PathsSet
  <2> QED
    BY <2>1 DEF RolledPaths
<1>4. Places(u, n) \subseteq PathsTo(d)
  BY DEF Places
<1> QED
  BY <1>2, <1>3, <1>4

\* What rollup makes of each node
RolledNodes(t, t2) ==
  /\ t2 = [p \in DOMAIN t2 |-> t2[p]] /\ DOMAIN t2 = RolledPaths
  /\ t2[<<>>] = NewRoot(t) /\ t2[<<"L">>] = OldRoot(t) /\ t2[<<"R">>] = NewRightChild(t)
  /\ \A p \in DOMAIN t2 :
        Len(p) >= 2 => t2[p] = IF p[1] = "R" /\ p[2] = "R" THEN EmptyNode ELSE t[Origin(p)]

\* Every node after a rollup, by its path.
LEMMA RollupNodes ==
  ASSUME NEW t
  PROVE  RolledNodes(t, Rollup(t))
<1> DEFINE t2 == Rollup(t)
           f(p) == CASE p = <<>> -> NewRoot(t)
                     [] p = <<"L">> -> OldRoot(t)
                     [] p = <<"R">> -> NewRightChild(t)
                     [] Len(p) >= 2 /\ p[1] = "R" /\ p[2] = "R" -> EmptyNode
                     [] Len(p) >= 2 /\ ~(p[1] = "R" /\ p[2] = "R") -> t[Origin(p)]
<1>1. t2 = [p \in RolledPaths |-> f(p)]
  BY DEF Rollup
<1>2. f(<<>>) = NewRoot(t)
  <2>1. <<>> # <<"L">> /\ <<>> # <<"R">> /\ ~(Len(<<>>) >= 2)
    OBVIOUS
  <2> QED
    BY <2>1
<1>3. f(<<"L">>) = OldRoot(t)
  <2>1. <<"L">> # <<>> /\ <<"L">> # <<"R">> /\ ~(Len(<<"L">>) >= 2)
    OBVIOUS
  <2> QED
    BY <2>1
<1>4. f(<<"R">>) = NewRightChild(t)
  <2>1. <<"R">> # <<>> /\ <<"R">> # <<"L">> /\ ~(Len(<<"R">>) >= 2)
    OBVIOUS
  <2> QED
    BY <2>1
<1>5. ASSUME NEW p, Len(p) >= 2
      PROVE  f(p) = IF p[1] = "R" /\ p[2] = "R" THEN EmptyNode ELSE t[Origin(p)]
  <2>1. p # <<>> /\ p # <<"L">> /\ p # <<"R">>
    <3>1. Len(<<>>) = 0 /\ Len(<<"L">>) = 1 /\ Len(<<"R">>) = 1
      OBVIOUS
    <3>2. ASSUME p = <<>> \/ p = <<"L">> \/ p = <<"R">> PROVE FALSE
      <4>1. Len(p) = 0 \/ Len(p) = 1
        BY <3>1, <3>2
      <4> QED
        BY <1>5, <4>1
    <3> QED
      BY <3>2
  <2>2. CASE p[1] = "R" /\ p[2] = "R"
    BY <1>5, <2>1, <2>2
  <2>3. CASE ~(p[1] = "R" /\ p[2] = "R")
    BY <1>5, <2>1, <2>3
  <2> QED
    BY <2>2, <2>3
<1> HIDE DEF f
<1>6. <<>> \in RolledPaths /\ <<"L">> \in RolledPaths /\ <<"R">> \in RolledPaths
  <2>1. 0 \in Nat
    OBVIOUS
  <2> QED
    BY <2>1, RolledPlaces, TopPlaces
<1> QED
  BY <1>1, <1>2, <1>3, <1>4, <1>5, <1>6 DEF RolledNodes

\* In a full tree all places are there.
LEMMA FullPlaces ==
  ASSUME NEW fn, NEW lg \in Seq(Nat), NEW s, NEW t, Shape(fn, lg, s, t),
         Len(lg) = s + NumLeaves, NEW m \in 0 .. maxDepth - 1, NEW p \in Path(m)
  PROVE  p \in DOMAIN t /\ Len(p) = m
<1>1. s \in Nat /\ DOMAIN t = Places(s, Len(lg)) /\ NumLeaves \in Nat /\ Len(lg) \in Nat
  BY RolledNumbers, Spans
<1>2. m = maxDepth - 1 => First(p) + s <= Len(lg)
  <2> SUFFICES ASSUME m = maxDepth - 1 PROVE First(p) + s <= Len(lg)
    OBVIOUS
  <2>1. First(p) \in Nat /\ First(p) + Span(m) <= NumLeaves + 1 /\ Span(m) = 1
    BY FirstRange, Spans
  <2> QED
    BY <1>1, <2>1
<1> QED
  BY <1>1, <1>2, PlaceIs

\* The nodes of the oldest quarter of the rolled tree: those of the left half
LEMMA OldPartRolled ==
  ASSUME NEW lg \in Seq(Nat), NEW s, NEW t, aggFunc \in Fns, Shape(aggFunc, lg, s, t),
         Len(lg) = s + NumLeaves, NEW t2, RolledNodes(t, t2),
         DOMAIN t2 = Places(s + Quarter, Len(lg))
  PROVE  OldPart(aggFunc, lg, s + Quarter, t2)
<1> DEFINE n == Len(lg)
           u == s + Quarter
<1>0. s \in Nat /\ Quarter \in Nat /\ u \in Nat /\ n \in Nat /\ maxDepth \in Nat /\ maxDepth >= 4
  <2>1. s \in Nat /\ n \in Nat /\ Quarter \in Nat
    BY RolledNumbers
  <2>2. maxDepth \in Nat /\ maxDepth >= 4
    BY Spans
  <2> QED
    BY <2>1, <2>2
<1>1. ASSUME NEW p \in DOMAIN t2, Old(p)
      PROVE  /\ t2[p] = t[Origin(p)] /\ Len(p) \in 2 .. maxDepth - 1 /\ p \in Path(Len(p))
             /\ p[1] = "L" /\ p[2] = "L"
             /\ Origin(p) \in Path(Len(p) - 1) /\ Origin(p) \in DOMAIN t
  <2>1. Len(p) \in 0 .. maxDepth - 1 /\ p \in Path(Len(p)) /\ Len(p) >= 2 /\ p[1] = "L" /\ p[2] = "L"
    BY <1>0, <1>1, PlaceFacts DEF Old
  <2> DEFINE k == Len(p)
  <2>2. k \in 2 .. maxDepth - 1 /\ k \in 2 .. maxDepth /\ k - 1 \in 0 .. maxDepth - 1
    BY <1>0, <2>1
  <2>3. t2[p] = t[Origin(p)]
    BY <2>1 DEF RolledNodes
  <2>4. Origin(p) \in Path(k - 1)
    <3> HIDE DEF k
    <3> QED
      BY <2>1, <2>2, OriginOld DEF k
  <2>5. Origin(p) \in DOMAIN t
    <3> HIDE DEF k
    <3> QED
      BY <2>2, <2>4, FullPlaces
  <2> QED
    BY <2>1, <2>2, <2>3, <2>4, <2>5
<1>2. t2[<<"L", "L">>].leftIdx = 1 /\ t2[<<"L", "L">>].rightIdx = u + Quarter
  <2> DEFINE p == <<"L", "L">>
  <2>1. p \in DOMAIN t2 /\ Len(p) = 2 /\ p[1] = "L" /\ p[2] = "L" /\ p \in Path(2)
    <3>1. "L" \in Side
      BY DEF Side
    <3> QED
      BY <3>1, TopPlaces, TopPaths
  <2>2. Old(p)
    BY <2>1 DEF Old
  <2>3. Origin(p) \in Path(1) /\ Origin(p)[1] = "L" /\ t2[p] = t[Origin(p)]
    <3>1. t2[p] = t[Origin(p)]
      BY <1>1, <2>1, <2>2
    <3>2. 2 \in 2 .. maxDepth /\ 2 - 1 = 1
      BY <1>0
    <3>3. Origin(p) \in Path(2 - 1) /\ Origin(p)[1] = "L"
      <4> HIDE DEF p
      <4> QED
        BY <2>1, <3>2, OriginOld
    <3> QED
      BY <3>1, <3>2, <3>3
  <2>4. Origin(p) = <<"L">>
    <3> DEFINE c == Origin(p)
    <3> HIDE DEF c
    <3>1. c \in Path(1) /\ c[1] = "L"
      BY <2>3 DEF c
    <3>2. c = <<"L">> \/ c = <<"R">>
      BY <3>1, TopPaths
    <3>3. c # <<"R">>
      BY <3>1
    <3> QED
      BY <3>2, <3>3 DEF c
  <2>5. t[<<"L">>].leftIdx = 1 /\ t[<<"L">>].rightIdx = s + 2 * Quarter
    <3>1. FullTop(aggFunc, lg, s, t)
      BY TopIsFull
    <3> QED
      BY <3>1 DEF FullTop
  <2>6. s + 2 * Quarter = u + Quarter
    BY <1>0
  <2> QED
    BY <2>3, <2>4, <2>5, <2>6
<1>3. ASSUME NEW p \in DOMAIN t2, Old(p)
      PROVE  Filled(aggFunc, lg, t2, p) /\ Split(t2, p)
  <2> DEFINE c == Origin(p)
             k == Len(p)
  <2>1. /\ t2[p] = t[c] /\ k \in 2 .. maxDepth - 1 /\ p \in Path(k) /\ c \in DOMAIN t
        /\ p[1] = "L" /\ p[2] = "L"
    BY <1>1, <1>3
  <2>2. Filled(aggFunc, lg, t, c) /\ Split(t, c)
    <3> HIDE DEF c
    <3> QED
      BY <2>1, ShapeGood
  <2>3. Filled(aggFunc, lg, t2, p)
    BY <2>1, <2>2 DEF Filled
  <2>4. Split(t2, p)
    <3> DEFINE l == p \o <<"L">>
               r == p \o <<"R">>
    <3> SUFFICES ASSUME r \in DOMAIN t2, t2[r].leftIdx # Unset
                 PROVE  /\ t2[l].leftIdx = t2[p].leftIdx
                        /\ t2[r].leftIdx = t2[l].rightIdx + 1
                        /\ t2[p].midIdx \in {t2[l].rightIdx, t2[r].leftIdx}
      BY DEF Split
    <3>1. l \in DOMAIN t2
      BY <1>0, ChildPlaces
    <3>2. ASSUME NEW x \in Side, p \o <<x>> \in DOMAIN t2
          PROVE  t2[p \o <<x>>] = t[c \o <<x>>] /\ c \o <<x>> \in DOMAIN t
      <4> DEFINE e == p \o <<x>>
      <4>0. k \in Nat /\ k >= 2
        BY <2>1
      <4>1. e \in Path(k + 1) /\ \A i \in 1 .. k : e[i] = p[i]
        <5> HIDE DEF k
        <5> QED
          BY <2>1, <4>0, Child
      <4>2. Len(e) = k + 1
        <5>1. k + 1 \in Nat
          BY <4>0
        <5> HIDE DEF e, k
        <5> QED
          BY <4>1, <5>1, PathType
      <4>3. e[1] = "L" /\ e[2] = "L" /\ k + 1 >= 2
        <5>1. 1 \in 1 .. k /\ 2 \in 1 .. k /\ k + 1 >= 2
          BY <4>0
        <5> HIDE DEF e, k
        <5> QED
          BY <2>1, <4>1, <5>1
      <4>4. Old(e)
        <5> HIDE DEF e, k
        <5> QED
          BY <4>2, <4>3 DEF Old
      <4>5. t2[e] = t[Origin(e)] /\ Origin(e) \in DOMAIN t
        <5> HIDE DEF e
        <5> QED
          BY <1>1, <3>2, <4>4 DEF e
      <4>6. Origin(e) = c \o <<x>>
        BY <2>1, OriginChild
      <4> QED
        BY <4>5, <4>6
    <3>3. "L" \in Side /\ "R" \in Side
      BY DEF Side
    <3>4. t2[l] = t[c \o <<"L">>]
      BY <3>1, <3>2, <3>3
    <3>5. t2[r] = t[c \o <<"R">>] /\ c \o <<"R">> \in DOMAIN t
      BY <3>2, <3>3
    <3> HIDE DEF c, l, r
    <3>6. /\ t[c \o <<"L">>].leftIdx = t[c].leftIdx
          /\ t[c \o <<"R">>].leftIdx = t[c \o <<"L">>].rightIdx + 1
          /\ t[c].midIdx \in {t[c \o <<"L">>].rightIdx, t[c \o <<"R">>].leftIdx}
      BY <2>2, <3>5 DEF Split
    <3> QED
      BY <2>1, <3>4, <3>5, <3>6
  <2> QED
    BY <2>3, <2>4
<1> QED
  BY <1>2, <1>3 DEF OldPart

\* The nodes of the other quarters of the rolled tree
LEMMA RolledRegular ==
  ASSUME NEW lg \in Seq(Nat), NEW s, NEW t, aggFunc \in Fns, Shape(aggFunc, lg, s, t),
         Len(lg) = s + NumLeaves, NEW t2, RolledNodes(t, t2),
         DOMAIN t2 = Places(s + Quarter, Len(lg)),
         NEW p \in DOMAIN t2, Regular(p, s + Quarter)
  PROVE  t2[p] = NodeAt(aggFunc, lg, First(p) + (s + Quarter), Span(Len(p)))
<1> DEFINE k == Len(p)
           u == s + Quarter
<1>0. /\ s \in Nat /\ Quarter \in Nat /\ Quarter >= 2 /\ Len(lg) \in Nat
      /\ Len(lg) = s + 4 * Quarter
  <2>1. s \in Nat /\ Quarter \in Nat /\ Quarter >= 2 /\ Len(lg) \in Nat /\ NumLeaves = 4 * Quarter
    BY RolledNumbers
  <2> QED
    BY <2>1
<1>1. k \in 0 .. maxDepth - 1 /\ p \in Path(k) /\ k \in Nat
  BY PlaceFacts
<1>2. k >= 2 /\ ~(p[1] = "L" /\ p[2] = "L")
  <2>1. u # 0
    BY <1>0
  <2> QED
    BY <2>1 DEF Regular, Old
<1>3. maxDepth \in Nat
  BY Spans
<1>4. k \in 2 .. maxDepth - 1
  <2> HIDE DEF k
  <2> QED
    BY <1>1, <1>2, <1>3
<1>5. p[1] \in Side /\ p[2] \in Side /\ First(<<p[1], p[2]>>) <= First(p)
  <2> HIDE DEF k
  <2> QED
    BY <1>1, <1>4, PathStarts
<1>6. First(p) \in Nat
  <2> HIDE DEF k
  <2> QED
    BY <1>1, FirstRange
<1>7. CASE p[1] = "R" /\ p[2] = "R"
  <2>1. t2[p] = EmptyNode
    BY <1>2, <1>7 DEF RolledNodes
  <2>2. First(<<p[1], p[2]>>) = 3 * Quarter + 1
    <3>1. <<p[1], p[2]>> = <<"R", "R">>
      BY <1>7
    <3> QED
      BY <3>1, TopFirst
  <2> DEFINE F == First(p)
             Q == Quarter
             n == Len(lg)
  <2>3. F \in Nat /\ 3 * Q + 1 <= F /\ Q \in Nat /\ s \in Nat /\ n = s + 4 * Q
    BY <1>0, <1>5, <1>6, <2>2
  <2>4. F + (s + Q) > n
    <3> HIDE DEF F, Q, n
    <3> QED
      BY <2>3
  <2> QED
    BY <2>1, <2>4 DEF NodeAt
<1>8. CASE ~(p[1] = "R" /\ p[2] = "R")
  <2> DEFINE c == Origin(p)
  <2>1. t2[p] = t[c]
    BY <1>2, <1>8 DEF RolledNodes
  <2>2. p[1] # p[2]
    BY <1>2, <1>5, <1>8 DEF Side
  <2>3. c \in Path(k) /\ First(c) = First(p) + Quarter /\ c[1] = "R"
    <3> HIDE DEF k
    <3> QED
      BY <1>1, <1>4, <2>2, OriginQuarter
  <2> HIDE DEF c, k
  <2>4. c \in DOMAIN t /\ Len(c) = k
    BY <1>1, <2>3, FullPlaces
  <2>5. Regular(c, s)
    <3>1. Len(c) >= 2
      BY <1>4, <2>4
    <3>2. ~Old(c)
      BY <2>3 DEF Old
    <3> QED
      BY <3>1, <3>2 DEF Regular
  <2>6. t[c] = NodeAt(aggFunc, lg, First(c) + s, Span(k))
    BY <2>4, <2>5 DEF Shape
  <2>7. First(c) + s = First(p) + (s + Quarter)
    <3> DEFINE F == First(p)
               G == First(c)
               Q == Quarter
    <3>1. F \in Nat /\ Q \in Nat /\ s \in Nat /\ G = F + Q
      BY <1>0, <1>6, <2>3
    <3> HIDE DEF F, G, Q
    <3>2. G + s = F + (s + Q)
      BY <3>1
    <3> QED
      BY <3>2 DEF F, G, Q
  <2> QED
    BY <2>1, <2>6, <2>7 DEF k
<1> QED
  BY <1>7, <1>8

\* rollup moves the indices by a quarter and keeps the shape.
LEMMA RollupShape ==
  ASSUME NEW lg \in Seq(Nat), NEW s, NEW t, aggFunc \in Fns, Shape(aggFunc, lg, s, t),
         Len(lg) = s + NumLeaves, s + Quarter <= MaxAppends
  PROVE  Shape(aggFunc, lg, s + Quarter, Rollup(t))
<1> DEFINE u == s + Quarter
           n == Len(lg)
           t2 == Rollup(t)
<1>1. /\ s \in Nat /\ Quarter \in Nat /\ Quarter >= 2 /\ n \in Nat /\ NumLeaves = 4 * Quarter
      /\ MaxAppends \in Nat
  <2>1. s \in Nat /\ Quarter \in Nat /\ Quarter >= 2 /\ n \in Nat /\ NumLeaves = 4 * Quarter
    BY RolledNumbers
  <2>2. MaxAppends \in Nat
    BY Spans
  <2> QED
    BY <2>1, <2>2
<1>2. /\ u \in 0 .. MaxAppends /\ u # 0 /\ u >= Quarter /\ n <= u + NumLeaves
      /\ n >= u + 3 * Quarter
  <2> DEFINE Q == Quarter
  <2>1. s \in Nat /\ Q \in Nat /\ Q >= 2 /\ n = s + 4 * Q /\ u = s + Q /\ NumLeaves = 4 * Q
        /\ u <= MaxAppends /\ MaxAppends \in Nat
    BY <1>1
  <2> HIDE DEF Q, u, n
  <2>2. u \in 0 .. MaxAppends /\ u # 0 /\ u >= Q /\ n <= u + NumLeaves /\ n >= u + 3 * Q
    BY <2>1
  <2> QED
    BY <2>2 DEF Q
<1>3. RolledNodes(t, t2)
  BY RollupNodes
<1> HIDE DEF t2
<1>4. DOMAIN t2 = Places(u, n) /\ t2 = [p \in DOMAIN t2 |-> t2[p]]
  <2>1. RolledPaths = Places(u, n)
    BY <1>1, RolledPlaces
  <2> QED
    BY <1>3, <2>1 DEF RolledNodes
<1>5. \A p \in DOMAIN t2 : Regular(p, u) => t2[p] = NodeAt(aggFunc, lg, First(p) + u, Span(Len(p)))
  BY <1>3, <1>4, RolledRegular
<1>6. /\ t2[<<>>] = Root(aggFunc, lg, u) /\ t2[<<"L">>] = RootLeft(aggFunc, lg, u)
      /\ t2[<<"R">>] = RootRight(aggFunc, lg, u)
  BY <1>3, RolledTop DEF RolledNodes
<1>7. OldPart(aggFunc, lg, u, t2)
  BY <1>3, <1>4, OldPartRolled
<1> HIDE DEF u, n
<1>8. Shape(aggFunc, lg, u, t2)
  BY <1>2, <1>4, <1>5, <1>6, <1>7 DEF Shape, n
<1> QED
  BY <1>8 DEF u, t2

-----------------------------------------------------------------------------
(* getAppendParent                                                         *)

\* Spot goes down one level at a time.
Downward(t, g) ==
  /\ g = [m \in 0 .. maxDepth - 2 |-> g[m]] /\ g[0] = <<>>
  /\ \A m \in 1 .. maxDepth - 2 :
        g[m] = IF g[m - 1] = Full THEN Full ELSE Down(t, g[m - 1])

\* Spot is where going down from the root ends.
LEMMA SpotIs ==
  ASSUME NEW t, NEW g, Downward(t, g)
  PROVE  Spot(t) = g[maxDepth - 2]
<1> DEFINE d == maxDepth - 2
           e(f, m) == IF m = 0 THEN <<>>
                      ELSE IF f[m - 1] = Full THEN Full ELSE Down(t, f[m - 1])
           down == CHOOSE f : f = [m \in 0 .. maxDepth - 2 |-> e(f, m)]
<1>0. d \in Nat
  BY Spans
<1>1. Spot(t) = down[maxDepth - 2]
  BY DEF Spot
<1>2. g = [m \in 0 .. maxDepth - 2 |-> e(g, m)]
  <2>1. \A m \in 0 .. maxDepth - 2 : m # 0 => m \in 1 .. maxDepth - 2
    BY <1>0
  <2>2. \A m \in 0 .. maxDepth - 2 : g[m] = e(g, m)
    BY <2>1 DEF Downward
  <2>3. g = [m \in 0 .. maxDepth - 2 |-> g[m]]
    BY DEF Downward
  <2> HIDE DEF e
  <2> QED
    BY <2>2, <2>3, Zenon
<1> HIDE DEF e
<1>3. down = [m \in 0 .. maxDepth - 2 |-> e(down, m)]
  BY <1>2, Zenon
<1> HIDE DEF down
<1>4. \A m \in 0 .. maxDepth - 2 : down[m] = e(down, m)
  BY <1>3
<1> DEFINE S == {m \in 0 .. d : down[m] = g[m]}
<1>5. 0 \in S
  <2>1. 0 \in 0 .. d
    BY <1>0
  <2>2. down[0] = e(down, 0)
    BY <1>4, <2>1
  <2>3. e(down, 0) = <<>>
    BY DEF e
  <2>4. g[0] = <<>>
    BY DEF Downward
  <2> QED
    BY <2>1, <2>2, <2>3, <2>4
<1>6. \A m \in 1 .. d : m - 1 \in S => m \in S
  <2> SUFFICES ASSUME NEW m \in 1 .. d, m - 1 \in S PROVE m \in S
    OBVIOUS
  <2>1. m \in 0 .. d /\ m # 0 /\ m - 1 \in 0 .. d
    BY <1>0
  <2>2. down[m] = e(down, m)
    BY <1>4, <2>1
  <2>3. e(down, m) = IF down[m - 1] = Full THEN Full ELSE Down(t, down[m - 1])
    BY <2>1 DEF e
  <2>4. down[m - 1] = g[m - 1]
    OBVIOUS
  <2>5. g[m] = IF g[m - 1] = Full THEN Full ELSE Down(t, g[m - 1])
    BY DEF Downward
  <2> QED
    BY <2>1, <2>2, <2>3, <2>4, <2>5
<1>7. \A m \in 0 .. d : m \in S
  <2> HIDE DEF S, d
  <2> QED
    BY <1>0, <1>5, <1>6, IntervalInduction
<1> QED
  BY <1>0, <1>1, <1>7

\* What the index fields of a node say when the next value belongs below its left child,
\* and when it belongs below its right child
LEMMA NextLeft ==
  ASSUME NEW fn \in Fns, NEW lg \in Seq(Nat), NEW F \in Nat, F >= 1, NEW h \in Nat, h >= 2,
         F <= Len(lg) + 1, Len(lg) + 1 <= F + h - 1
  PROVE  NodeAt(fn, lg, F, 2 * h).midIdx = Unset
<1> DEFINE n == Len(lg)
<1>1. n \in Nat /\ h \in Nat \ {0}
  BY LogType
<1>2. n + 1 <= F + 2 * h - 1 /\ ~(n >= F + greatest(1, h - 1))
  <2> HIDE DEF n
  <2>1. n + 1 <= F + h - 1
    BY DEF n
  <2> QED
    BY <1>1, <2>1 DEF greatest
<1>3. NodeAt(fn, lg, F, 2 * h) =
        [leftIdx  |-> IF F = Len(lg) + 1 THEN Unset ELSE F,
         midIdx   |-> IF Len(lg) >= F + greatest(1, h - 1) THEN F + h ELSE Unset,
         rightIdx |-> Unset, aggVal |-> Tot(fn, lg, F, Len(lg))]
  BY <1>1, <1>2, Before
<1> QED
  BY <1>2, <1>3

\* A node whose left half is full and whose right half is not.
LEMMA NextRight ==
  ASSUME NEW fn \in Fns, NEW lg \in Seq(Nat), NEW F \in Nat, F >= 1, NEW h \in Nat, h >= 2,
         F + h <= Len(lg) + 1, Len(lg) + 1 <= F + 2 * h - 1
  PROVE  /\ NodeAt(fn, lg, F, 2 * h).midIdx = F + h
         /\ NodeAt(fn, lg, F, 2 * h).rightIdx = Unset
<1> DEFINE n == Len(lg)
<1>1. n \in Nat /\ h \in Nat \ {0}
  BY LogType
<1>2. F <= n + 1 /\ n >= F + greatest(1, h - 1)
  <2> HIDE DEF n
  <2>1. F + h <= n + 1
    BY DEF n
  <2> QED
    BY <1>1, <2>1 DEF greatest
<1>3. NodeAt(fn, lg, F, 2 * h) =
        [leftIdx  |-> IF F = Len(lg) + 1 THEN Unset ELSE F,
         midIdx   |-> IF Len(lg) >= F + greatest(1, h - 1) THEN F + h ELSE Unset,
         rightIdx |-> Unset, aggVal |-> Tot(fn, lg, F, Len(lg))]
  BY <1>1, <1>2, Before
<1> QED
  BY <1>2, <1>3

\* The index fields of the nodes on the way point along it.
LEMMA WayFields ==
  ASSUME NEW lg, NEW s, NEW t, NEW q, NEW v, Appending(lg, s, t, q, v),
         s # 0 => Len(lg) > s + 3 * Quarter, NEW m \in 0 .. maxDepth - 3
  PROVE  /\ q[m + 1] = "L" => t[Above(q, m)].midIdx = Unset
         /\ q[m + 1] = "R" => t[Above(q, m)].midIdx # Unset /\ t[Above(q, m)].rightIdx = Unset
<1> DEFINE p == Above(q, m)
           c == Above(q, m + 1)
           F == First(p) + s
           h == Span(m + 1)
           n == Len(lg)
<1>1. aggFunc \in Fns /\ lg \in Seq(Nat) /\ Shape(aggFunc, lg, s, t)
  BY DEF Appending
<1>2. /\ m \in 0 .. maxDepth - 2 /\ m \in 0 .. maxDepth - 1 /\ m + 1 \in 0 .. maxDepth - 1
      /\ m + 1 \in 0 .. maxDepth - 2 /\ (m + 1) + 1 \in 0 .. maxDepth - 1
  BY Spans
<1>3. h \in Nat /\ h >= 2
  <2>1. h = 2 * Span((m + 1) + 1)
    BY <1>2, Spans
  <2>2. Span((m + 1) + 1) \in Nat \ {0}
    BY <1>2, Spans
  <2> QED
    BY <2>1, <2>2
<1>4. WayStep(lg, s, t, q, m)
  BY <1>2, WaySteps
<1>5. OnWay(lg, s, t, q, m) /\ OnWay(lg, s, t, q, m + 1)
  BY <1>2, WayFacts
<1>6. /\ q[m + 1] = "L" => First(c) + s = F /\ Regular(p, s)
      /\ q[m + 1] = "R" => First(c) + s = F + h
      /\ Regular(p, s) => t[p] = NodeAt(aggFunc, lg, F, 2 * h)
      /\ q[m + 1] \in Side /\ n \in Nat /\ s \in Nat /\ Span(m) = 2 * h
  BY <1>4 DEF WayStep
<1>7. /\ F \in Nat /\ F >= 1 /\ F <= n + 1 /\ n + 1 <= F + 2 * h - 1 /\ F + 2 * h <= Unset
      /\ Regular(p, s) \/ (s # 0 /\ p = <<>> /\ m = 0) \/ (s # 0 /\ p = <<"R">> /\ m = 1)
  BY <1>5, <1>6 DEF OnWay
<1>8. First(c) + s <= n + 1 /\ n + 1 <= First(c) + s + h - 1
  BY <1>5 DEF OnWay
<1>9. Unset \in Nat /\ s + 4 * Quarter < Unset /\ Quarter \in Nat /\ Quarter >= 2
  BY <1>1, RolledNumbers
<1> HIDE DEF p, c, F, h, n
<1>10. CASE Regular(p, s) /\ q[m + 1] = "L"
  <2>1. F <= n + 1 /\ n + 1 <= F + h - 1
    BY <1>6, <1>8, <1>10, <1>7
  <2>2. t[p].midIdx = Unset
    BY <1>1, <1>3, <1>6, <1>7, <1>10, <2>1, NextLeft DEF n
  <2> QED
    BY <1>10, <2>2 DEF p
<1>11. CASE Regular(p, s) /\ q[m + 1] = "R"
  <2>1. F + h <= n + 1 /\ n + 1 <= F + 2 * h - 1
    BY <1>6, <1>7, <1>8, <1>11
  <2>2. t[p].midIdx = F + h /\ t[p].rightIdx = Unset
    BY <1>1, <1>3, <1>6, <1>7, <1>11, <2>1, NextRight DEF n
  <2>3. F + h # Unset
    BY <1>3, <1>7, <1>9
  <2> QED
    BY <1>11, <2>2, <2>3 DEF p
<1>12. CASE s # 0 /\ ((p = <<>> /\ m = 0) \/ (p = <<"R">> /\ m = 1))
  <2>1. q[1] = "R" /\ q[2] = "R"
    BY <1>12, NewestQuarter
  <2>2. q[m + 1] = "R"
    <3>1. CASE m = 0
      BY <2>1, <3>1
    <3>2. CASE m = 1
      <4>1. m + 1 = 2
        BY <3>2
      <4> QED
        BY <2>1, <4>1
    <3> QED
      BY <1>12, <3>1, <3>2
  <2>3. TopRight(s, n) = Unset
    <3>1. n > s + 3 * Quarter
      BY <1>12 DEF n
    <3>2. n # s + 4 * Quarter
      <4>1. NumLeaves = 4 * Quarter
        BY Spans
      <4>2. n + 1 <= s + NumLeaves
        BY PlacesAppended DEF n
      <4> QED
        BY <1>6, <1>9, <4>1, <4>2
    <3>3. n # s + 3 * Quarter
      BY <1>6, <1>9, <3>1
    <3> QED
      BY <3>2, <3>3 DEF TopRight
  <2>4. t[<<>>] = Root(aggFunc, lg, s) /\ t[<<"R">>] = RootRight(aggFunc, lg, s)
    BY <1>1, <1>12 DEF Shape
  <2>5. /\ t[<<>>].midIdx = s + 2 * Quarter /\ t[<<>>].rightIdx = Unset
        /\ t[<<"R">>].midIdx = s + 3 * Quarter /\ t[<<"R">>].rightIdx = Unset
    BY <2>3, <2>4 DEF Root, RootRight, n
  <2>6. s + 2 * Quarter # Unset /\ s + 3 * Quarter # Unset
    BY <1>6, <1>9
  <2> QED
    BY <1>12, <2>2, <2>5, <2>6 DEF p
<1>13. q[m + 1] = "L" \/ q[m + 1] = "R"
  BY <1>6 DEF Side
<1> QED
  BY <1>7, <1>10, <1>11, <1>12, <1>13

\* No path is the flag for full.
LEMMA NotFull ==
  ASSUME NEW n \in Nat, NEW p \in Path(n)
  PROVE  p # Full
<1> SUFFICES ASSUME p = Full PROVE FALSE
  OBVIOUS
<1>1. Len(p) = n /\ \A i \in 1 .. n : p[i] \in {"L", "R"}
  BY PathType
<1>2. Len(Full) = 1 /\ Full[1] = "full"
  BY DEF Full
<1>3. n = 1
  BY <1>1, <1>2
<1>4. 1 \in 1 .. n
  BY <1>3
<1>5. p[1] \in {"L", "R"}
  BY <1>1, <1>4
<1> QED
  BY <1>2, <1>5

\* While there is place Spot is the parent of the next leaf.
LEMMA SpotOpen ==
  ASSUME NEW lg, NEW s, NEW t, NEW q, NEW v, Appending(lg, s, t, q, v),
         s # 0 => Len(lg) > s + 3 * Quarter
  PROVE  Spot(t) = Above(q, maxDepth - 2) /\ Spot(t) # Full
<1> DEFINE g == [m \in 0 .. maxDepth - 2 |-> Above(q, m)]
<1>1. /\ aggFunc \in Fns /\ lg \in Seq(Nat) /\ Shape(aggFunc, lg, s, t)
      /\ q \in Path(maxDepth - 1)
  BY DEF Appending
<1>2. maxDepth \in Nat /\ maxDepth >= 4 /\ maxDepth - 1 \in Nat
  BY Spans
<1>3. ASSUME NEW m \in 0 .. maxDepth - 3 PROVE Down(t, Above(q, m)) = Above(q, m + 1)
  <2> DEFINE p == Above(q, m)
  <2>1. /\ m \in 0 .. maxDepth - 2 /\ m \in 0 .. maxDepth - 1 /\ m + 1 \in 0 .. maxDepth - 1
        /\ m + 1 # maxDepth - 1 /\ m \in Nat
    BY <1>2
  <2>2. p \in Path(m)
    <3>1. OnWay(lg, s, t, q, m)
      BY <2>1, WayFacts
    <3> QED
      BY <3>1 DEF OnWay
  <2>3. q[m + 1] \in Side /\ Above(q, m + 1) = p \o <<q[m + 1]>>
    <3>1. WayStep(lg, s, t, q, m)
      BY <2>1, WaySteps
    <3> QED
      BY <3>1 DEF WayStep
  <2>4. /\ q[m + 1] = "L" => t[p].midIdx = Unset
        /\ q[m + 1] = "R" => t[p].midIdx # Unset /\ t[p].rightIdx = Unset
    BY WayFields
  <2> HIDE DEF p
  <2>5. \A x \in Side : p \o <<x>> \in DOMAIN t
    <3> TAKE x \in Side
    <3>1. p \o <<x>> \in Path(m + 1)
      BY <2>1, <2>2, Child
    <3>2. DOMAIN t = Places(s, Len(lg))
      BY <1>1, RolledNumbers
    <3> QED
      BY <2>1, <3>1, <3>2, PlaceIs
  <2>6. "L" \in Side /\ "R" \in Side /\ (q[m + 1] = "L" \/ q[m + 1] = "R")
    BY <2>3 DEF Side
  <2>7. Down(t, p) = p \o <<q[m + 1]>>
    <3>1. p \o <<"L">> \in DOMAIN t /\ p \o <<"R">> \in DOMAIN t
      BY <2>5, <2>6
    <3>2. CASE q[m + 1] = "L"
      <4>1. Down(t, p) = p \o <<"L">>
        BY <2>4, <3>1, <3>2 DEF Down
      <4> QED
        BY <3>2, <4>1
    <3>3. CASE q[m + 1] = "R"
      <4>1. Down(t, p) = p \o <<"R">>
        BY <2>4, <3>1, <3>3 DEF Down
      <4> QED
        BY <3>3, <4>1
    <3> QED
      BY <2>6, <3>2, <3>3
  <2> QED
    BY <2>3, <2>7 DEF p
<1>4. ASSUME NEW m \in 0 .. maxDepth - 2 PROVE Above(q, m) # Full
  <2>1. m \in 0 .. maxDepth - 1 /\ m \in Nat
    BY <1>2
  <2>2. Above(q, m) \in Path(m)
    BY <1>1, <1>2, <2>1, Prefix DEF Above
  <2> QED
    BY <2>1, <2>2, NotFull
<1>5. g[0] = <<>>
  <2>1. 0 \in 0 .. maxDepth - 2
    BY <1>2
  <2>2. Above(q, 0) = <<>>
    BY <1>1, <1>2, PrefixAll DEF Above
  <2> QED
    BY <2>1, <2>2
<1>6. ASSUME NEW m \in 1 .. maxDepth - 2
      PROVE  g[m] = IF g[m - 1] = Full THEN Full ELSE Down(t, g[m - 1])
  <2>1. m - 1 \in 0 .. maxDepth - 3 /\ m - 1 \in 0 .. maxDepth - 2 /\ m \in 0 .. maxDepth - 2
        /\ (m - 1) + 1 = m
    BY <1>2
  <2>2. g[m] = Above(q, m) /\ g[m - 1] = Above(q, m - 1)
    BY <2>1
  <2>3. Down(t, Above(q, m - 1)) = Above(q, m)
    BY <1>3, <2>1
  <2>4. Above(q, m - 1) # Full
    BY <1>4, <2>1
  <2> QED
    BY <2>2, <2>3, <2>4
<1>7. g = [m \in 0 .. maxDepth - 2 |-> g[m]] /\ maxDepth - 2 \in 0 .. maxDepth - 2
  BY <1>2
<1>8. g[maxDepth - 2] = Above(q, maxDepth - 2)
  BY <1>7
<1> HIDE DEF g
<1>9. Spot(t) = g[maxDepth - 2]
  <2>1. Downward(t, g)
    BY <1>5, <1>6, <1>7 DEF Downward
  <2> QED
    BY <2>1, SpotIs
<1> QED
  BY <1>4, <1>7, <1>8, <1>9

\* The parent of the next leaf has room for it, and for no other.
LEMMA LeafPlace ==
  ASSUME NEW lg, NEW s, NEW t, NEW q, NEW v, Appending(lg, s, t, q, v)
  PROVE  LET p == Above(q, maxDepth - 2)
         IN  HasFreeChild(t, p) /\ FreeChild(t, p) = q
<1> DEFINE m == maxDepth - 2
           p == Above(q, m)
           l == p \o <<"L">>
           r == p \o <<"R">>
           n == Len(lg)
<1>1. /\ aggFunc \in Fns /\ lg \in Seq(Nat) /\ Shape(aggFunc, lg, s, t)
      /\ q \in Path(maxDepth - 1) /\ First(q) + s = n + 1
  BY DEF Appending
<1>2. /\ m \in 0 .. maxDepth - 2 /\ m + 1 = maxDepth - 1 /\ m \in Nat
      /\ maxDepth - 1 \in 0 .. maxDepth - 1 /\ maxDepth - 1 \in Nat
      /\ m \in 0 .. (maxDepth - 1) - 1 /\ m \in 0 .. maxDepth - 1
  BY Spans
<1>3. s \in Nat /\ n \in Nat /\ DOMAIN t = Places(s, n)
  BY <1>1, RolledNumbers
<1>4. p \in Path(m)
  BY <1>1, <1>2, Prefix DEF Above
<1>5. q[m + 1] \in Side /\ q = p \o <<q[m + 1]>>
  <2>1. SubSeq(q, 1, m + 1) = p \o <<q[m + 1]>>
    BY <1>1, <1>2, PrefixStep DEF Above
  <2>2. SubSeq(q, 1, maxDepth - 1) = q
    BY <1>1, <1>2, PrefixAll
  <2>3. q[maxDepth - 1] \in Side
    <3>1. maxDepth - 1 \in 1 .. maxDepth - 1
      BY <1>2
    <3> QED
      BY <1>1, <1>2, <3>1, PathType DEF Side
  <2> QED
    BY <1>2, <2>1, <2>2, <2>3
<1>6. l # r
  <2>1. "L" \in Side /\ "R" \in Side
    BY DEF Side
  <2> HIDE DEF p, m
  <2>2. l[m + 1] = "L" /\ r[m + 1] = "R"
    BY <1>2, <1>4, <2>1, Child
  <2> HIDE DEF l, r
  <2>3. "L" # "R"
    OBVIOUS
  <2> QED
    BY <2>2, <2>3
<1>7. q \notin DOMAIN t
  <2> SUFFICES ASSUME q \in DOMAIN t PROVE FALSE
    OBVIOUS
  <2>1. Len(q) = maxDepth - 1
    BY <1>1, <1>2, PathType
  <2>2. First(q) + s <= n
    BY <1>3, <2>1, PlaceFacts
  <2> QED
    BY <1>1, <1>3, <2>2
<1>8. CASE q[m + 1] = "L"
  <2>1. q = l
    BY <1>5, <1>8
  <2> HIDE DEF l, r, p
  <2>2. \A c \in {l, r} : (c \notin DOMAIN t /\ (c = r => l \in DOMAIN t)) <=> c = l
    BY <1>6, <1>7, <2>1
  <2>3. FreeChild(t, p) = l
    <3>1. FreeChild(t, p) = CHOOSE c \in {l, r} : c \notin DOMAIN t /\ (c = r => l \in DOMAIN t)
      BY DEF FreeChild, l, r
    <3> QED
      BY <2>2, <3>1
  <2>4. HasFreeChild(t, p)
    BY <1>7, <2>1 DEF HasFreeChild, l
  <2> QED
    BY <2>1, <2>3, <2>4 DEF p, m
<1>9. CASE q[m + 1] = "R"
  <2>1. q = r
    BY <1>5, <1>9
  <2>2. First(l) = First(p) /\ First(r) = First(p) + 1 /\ First(p) \in Nat
    <3>1. Span(m + 1) = 1
      BY <1>2, Spans
    <3>2. First(l) = First(p) /\ First(r) = First(p) + Span(m + 1) /\ First(p) \in Nat
      <4> HIDE DEF m
      <4> QED
        BY <1>2, <1>4, FirstChild
    <3> QED
      BY <3>1, <3>2
  <2>3. l \in DOMAIN t
    <3>1. l \in Path(m + 1)
      <4>1. "L" \in Side
        BY DEF Side
      <4> HIDE DEF m
      <4> QED
        BY <1>2, <1>4, <4>1, Child
    <3>2. First(l) + s <= n
      <4> DEFINE A == First(l)
                 B == First(p)
                 C == First(r)
      <4>1. A = B /\ C = B + 1 /\ B \in Nat /\ C + s = n + 1 /\ n \in Nat /\ s \in Nat
        BY <1>1, <1>3, <2>1, <2>2
      <4> HIDE DEF A, B, C, n
      <4>2. A + s <= n
        BY <4>1
      <4> QED
        BY <4>2 DEF A
    <3> QED
      BY <1>2, <1>3, <3>1, <3>2, PlaceIs
  <2> HIDE DEF l, r, p
  <2>4. \A c \in {l, r} : (c \notin DOMAIN t /\ (c = r => l \in DOMAIN t)) <=> c = r
    BY <1>6, <1>7, <2>1, <2>3
  <2>5. FreeChild(t, p) = r
    <3>1. FreeChild(t, p) = CHOOSE c \in {l, r} : c \notin DOMAIN t /\ (c = r => l \in DOMAIN t)
      BY DEF FreeChild, l, r
    <3> QED
      BY <2>4, <3>1
  <2>6. HasFreeChild(t, p)
    BY <1>7, <2>1 DEF HasFreeChild, r
  <2> QED
    BY <2>1, <2>5, <2>6 DEF p, m
<1> QED
  BY <1>5, <1>8, <1>9 DEF Side

\* A full tree is seen to be full at the root.
LEMMA SpotFull ==
  ASSUME NEW lg \in Seq(Nat), NEW s, NEW t, aggFunc \in Fns, Shape(aggFunc, lg, s, t),
         Len(lg) = s + NumLeaves
  PROVE  Spot(t) = Full
<1> DEFINE n == Len(lg)
           g == [m \in 0 .. maxDepth - 2 |-> IF m = 0 THEN <<>> ELSE Full]
<1>1. /\ s \in Nat /\ n \in Nat /\ Quarter \in Nat /\ Quarter >= 2 /\ n = s + 4 * Quarter
      /\ Unset \in Nat /\ s + 4 * Quarter < Unset /\ DOMAIN t = Places(s, n)
  <2>1. /\ s \in Nat /\ n \in Nat /\ Quarter \in Nat /\ Quarter >= 2 /\ NumLeaves = 4 * Quarter
        /\ Unset \in Nat /\ s + 4 * Quarter < Unset /\ DOMAIN t = Places(s, n)
    BY RolledNumbers
  <2> QED
    BY <2>1
<1>2. t[<<>>].midIdx # Unset /\ t[<<>>].rightIdx # Unset
  <2>1. <<>> \in DOMAIN t
    BY <1>1, TopPlaces
  <2>2. t[<<>>].rightIdx # Unset
    <3>1. Filled(aggFunc, lg, t, <<>>)
      BY <2>1, ShapeGood
    <3>2. t[<<>>].leftIdx \in 1 .. n /\ t[<<>>].rightIdx \in t[<<>>].leftIdx .. n
      BY <3>1 DEF Filled
    <3> HIDE DEF n
    <3>3. t[<<>>].rightIdx <= n
      BY <3>2
    <3> QED
      BY <1>1, <3>2, <3>3
  <2>3. t[<<>>].midIdx # Unset
    <3>1. CASE s = 0
      <4>1. t[<<>>] = NodeAt(aggFunc, lg, 1, 2 * (2 * Quarter))
        <5>1. Regular(<<>>, s)
          BY <3>1 DEF Regular
        <5>2. t[<<>>] = NodeAt(aggFunc, lg, First(<<>>) + s, Span(Len(<<>>)))
          BY <2>1, <5>1 DEF Shape
        <5>3. First(<<>>) + s = 1
          BY <3>1, TopFirst
        <5>4. Span(Len(<<>>)) = 2 * (2 * Quarter)
          <6>1. Span(0) = NumLeaves /\ NumLeaves = 4 * Quarter
            BY Spans
          <6>2. Len(<<>>) = 0
            OBVIOUS
          <6> QED
            BY <1>1, <6>1, <6>2
        <5> QED
          BY <5>2, <5>3, <5>4
      <4> DEFINE h == 2 * Quarter
      <4>2. h \in Nat \ {0} /\ ~(1 > n) /\ n >= 1 + greatest(1, h - 1) /\ 1 + h # Unset /\ 1 \in Nat
        <5> HIDE DEF n
        <5> QED
          BY <1>1, <3>1 DEF greatest
      <4> HIDE DEF h
      <4>3. NodeAt(aggFunc, lg, 1, 2 * h) =
              [leftIdx  |-> 1,
               midIdx   |-> IF Len(lg) >= 1 + greatest(1, h - 1) THEN 1 + h ELSE Unset,
               rightIdx |-> IF Len(lg) >= 1 + 2 * h - 1 THEN 1 + 2 * h - 1 ELSE Unset,
               aggVal   |-> Tot(aggFunc, lg, 1, least(Len(lg), 1 + 2 * h - 1))]
        BY <4>2, NodeInner
      <4>4. NodeAt(aggFunc, lg, 1, 2 * h).midIdx = 1 + h
        BY <4>2, <4>3
      <4> QED
        BY <4>1, <4>2, <4>4 DEF h
    <3>2. CASE s # 0
      <4>1. t[<<>>] = Root(aggFunc, lg, s)
        BY <3>2 DEF Shape
      <4>2. t[<<>>].midIdx = s + 2 * Quarter
        BY <4>1 DEF Root
      <4> QED
        BY <1>1, <4>2
    <3> QED
      BY <3>1, <3>2
  <2> QED
    BY <2>2, <2>3
<1>3. Down(t, <<>>) = Full
  BY <1>2 DEF Down
<1>4. <<>> # Full
  BY DEF Full
<1>5. maxDepth \in Nat /\ maxDepth >= 4
  BY Spans
<1>6. ASSUME NEW m \in 1 .. maxDepth - 2
      PROVE  g[m] = IF g[m - 1] = Full THEN Full ELSE Down(t, g[m - 1])
  <2>1. m - 1 \in 0 .. maxDepth - 2 /\ m \in 0 .. maxDepth - 2 /\ m # 0
    BY <1>5
  <2>2. g[m] = Full /\ g[m - 1] = IF m - 1 = 0 THEN <<>> ELSE Full
    BY <2>1
  <2> HIDE DEF g
  <2> QED
    BY <1>3, <1>4, <2>2
<1>7. g = [m \in 0 .. maxDepth - 2 |-> g[m]] /\ g[0] = <<>> /\ g[maxDepth - 2] = Full
  BY <1>5
<1> HIDE DEF g
<1>8. Downward(t, g)
  BY <1>6, <1>7 DEF Downward
<1> QED
  BY <1>7, <1>8, SpotIs

\* The first leaf of the newest quarter is below the node that rollup returns.
LEMMA RollupPlace ==
  ASSUME NEW q \in Path(maxDepth - 1), First(q) = 3 * Quarter + 1
  PROVE  RollupSpot = Above(q, maxDepth - 2)
<1> DEFINE m == maxDepth - 2
           r == RollupSpot
           c == Above(q, m)
           i == 3 * Quarter + 1
<1>1. /\ m \in Nat /\ m >= 2 /\ m \in 0 .. maxDepth - 1 /\ maxDepth - 1 \in Nat /\ m \in 2 .. maxDepth - 1
      /\ maxDepth - 1 \in 0 .. maxDepth - 1 /\ m \in 0 .. maxDepth - 1 /\ 2 \in 0 .. m
      /\ Quarter \in Nat /\ Span(m) \in Nat \ {0} /\ Span(maxDepth - 1) = 1 /\ i \in Nat
      /\ 1 \in 1 .. m /\ 2 \in 1 .. m /\ m \in 0 .. maxDepth - 1
  BY Spans
<1>2. r \in Path(m) /\ \A k \in 1 .. m : r[k] = IF k <= 2 THEN "R" ELSE "L"
  BY DEF RollupSpot, Path, Side
<1> HIDE DEF r
<1>3. c \in Path(m)
  BY <1>1, Prefix DEF Above
<1>4. Covers(c, m, i)
  <2>1. First(c) \in Nat /\ First(c) <= First(q)
        /\ First(q) + Span(maxDepth - 1) <= First(c) + Span(m)
    <3> HIDE DEF m
    <3> QED
      BY <1>1, Nested
  <2> HIDE DEF c, m
  <2>2. First(c) <= i /\ i + 1 <= First(c) + Span(m)
    BY <1>1, <2>1
  <2> DEFINE A == First(c)
             B == Span(m)
  <2>3. A \in Nat /\ B \in Nat /\ A <= i /\ i + 1 <= A + B
    BY <1>1, <2>1, <2>2
  <2> HIDE DEF A, B, i
  <2>4. A <= i /\ i < A + B
    BY <1>1, <2>3
  <2> QED
    BY <2>4 DEF Covers, A, B
<1> HIDE DEF c
<1>5. First(r) = i
  <2> DEFINE S == {k \in 0 .. m : k >= 2 => First(Above(r, k)) = i}
  <2>1. 0 \in S
    BY <1>1
  <2>2. \A k \in 1 .. m : k - 1 \in S => k \in S
    <3> SUFFICES ASSUME NEW k \in 1 .. m, k - 1 \in S, k >= 2 PROVE First(Above(r, k)) = i
      <4>1. \A k \in 1 .. m : k \in 0 .. m
        BY <1>1
      <4> QED
        BY <4>1
    <3>1. CASE k = 2
      <4>1. Above(r, 2) = <<r[1], r[2]>>
        <5> HIDE DEF m
        <5> QED
          BY <1>1, <1>2, PathStarts
      <4>2. r[1] = "R" /\ r[2] = "R"
        BY <1>1, <1>2
      <4>3. Above(r, k) = <<"R", "R">>
        BY <3>1, <4>1, <4>2
      <4> QED
        BY <4>3, TopFirst
    <3>2. CASE k # 2
      <4>1. k - 1 \in 0 .. m - 1 /\ (k - 1) + 1 = k /\ k - 1 >= 2 /\ ~(k <= 2)
        BY <1>1, <3>2
      <4>2. First(Above(r, k - 1)) = i
        BY <4>1
      <4>3. r[k] = "L"
        BY <1>2, <4>1
      <4> DEFINE j == k - 1
      <4>4. First(Above(r, j + 1)) = First(Above(r, j)) + (IF r[j + 1] = "L" THEN 0 ELSE Span(j + 1))
            /\ First(Above(r, j)) \in Nat
        <5>1. j \in 0 .. m - 1
          BY <4>1
        <5> HIDE DEF j, m
        <5> QED
          BY <1>1, <1>2, <5>1, Halves
      <4>5. j + 1 = k
        BY <4>1
      <4>6. First(Above(r, k)) = First(Above(r, j))
        <5> HIDE DEF j
        <5> QED
          BY <4>3, <4>4, <4>5
      <4> QED
        BY <4>2, <4>6
    <3> QED
      BY <1>1, <3>1, <3>2
  <2>3. \A k \in 0 .. m : k \in S
    <3> HIDE DEF S, m
    <3> QED
      BY <1>1, <2>1, <2>2, IntervalInduction
  <2>4. m \in 0 .. m
    BY <1>1
  <2>5. First(Above(r, m)) = i
    BY <1>1, <2>3, <2>4
  <2>6. Above(r, m) = r
    <3> HIDE DEF m
    <3> QED
      BY <1>1, <1>2, PrefixAll DEF Above
  <2> QED
    BY <2>5, <2>6
<1>6. Covers(r, m, i)
  <2> DEFINE B == Span(m)
  <2>1. B \in Nat \ {0}
    BY <1>1
  <2> HIDE DEF B, i
  <2>2. i <= i /\ i < i + B
    BY <1>1, <2>1
  <2> QED
    BY <1>5, <2>2 DEF Covers, B
<1> HIDE DEF m, i
<1>7. r = c
  BY <1>1, <1>2, <1>3, <1>4, <1>6, OneAbove
<1> QED
  BY <1>7 DEF r, c, m

-----------------------------------------------------------------------------
(* The initial states                                                      *)

\* Total is Tot, of the tree's aggregate and values.
LEMMA TotalIs == \A l, r : Total(l, r) = Tot(aggFunc, log, l, r)
BY DEF Total, Tot, computeAggregate, Agg

\* Values are natural numbers.
LEMMA ValuesType ==
  \A i \in 1 .. MaxAppends + NumLeaves : \A val \in Values(i) : val \in Nat
BY ConstantsAssumption DEF NumLeaves

\* Logs(n) holds sequences of n values.
OfLength(n) == {l \in Seq(Nat) : Len(l) = n /\ \A i \in 1 .. n : l[i] \in Values(i)}

\* A sequence with one more value.
LEMMA OneMore ==
  ASSUME NEW n \in 1 .. MaxAppends + NumLeaves, NEW l \in OfLength(n - 1), NEW val \in Values(n)
  PROVE  Append(l, val) \in OfLength(n)
<1>1. n \in Nat /\ n - 1 \in Nat
  BY Spans
<1>2. val \in Nat
  BY ValuesType
<1>3. l \in Seq(Nat) /\ Len(l) = n - 1 /\ \A i \in 1 .. n - 1 : l[i] \in Values(i)
  BY DEF OfLength
<1> DEFINE e == Append(l, val)
<1>4. e \in Seq(Nat) /\ Len(e) = n /\ e[n] = val /\ \A i \in 1 .. n - 1 : e[i] = l[i]
  BY <1>1, <1>2, <1>3
<1> HIDE DEF e
<1>5. ASSUME NEW i \in 1 .. n PROVE e[i] \in Values(i)
  <2>1. CASE i = n
    <3>1. e[i] = val
      BY <1>4, <2>1
    <3>2. val \in Values(i)
      BY <2>1
    <3> QED
      BY <3>1, <3>2
  <2>2. CASE i # n
    <3>1. i \in 1 .. n - 1
      BY <1>1, <2>2
    <3> QED
      BY <1>3, <1>4, <3>1
  <2> QED
    BY <2>1, <2>2
<1> QED
  BY <1>4, <1>5 DEF OfLength, e

Longer(n, S) == {Append(s, val) : s \in S, val \in Values(n)}

\* Logs adds one value at a time.
LEMMA LongerHas ==
  ASSUME NEW n, NEW S
  PROVE  \A x \in Longer(n, S) : \E l \in S : \E val \in Values(n) : x = Append(l, val)
BY DEF Longer

\* The sequences that the constructor takes.
LEMMA LogsType ==
  ASSUME NEW n \in 0 .. MaxAppends + NumLeaves
  PROVE  Logs(n) \subseteq OfLength(n)
<1> DEFINE T == SUBSET Seq(Nat)
           step == [i \in 1 .. n |-> [S \in T |-> Longer(i, S)]]
           e(f, i) == IF i = 0 THEN {<<>>} ELSE Longer(i, f[i - 1])
           logs == CHOOSE f : f = [i \in 0 .. n |-> e(f, i)]
<1>0. n \in Nat /\ \A i \in 1 .. n : i \in 1 .. MaxAppends + NumLeaves
  BY Spans
<1>1. step \in Steps(n, T)
  <2>1. ASSUME NEW i \in 1 .. n, NEW S \in T PROVE Longer(i, S) \in T
    <3>1. \A s \in S : \A val \in Values(i) : Append(s, val) \in Seq(Nat)
      BY <1>0, ValuesType
    <3> QED
      BY <3>1 DEF Longer
  <2> HIDE DEF T
  <2>2. \A i \in 1 .. n : [S \in T |-> Longer(i, S)] \in [T -> T]
    BY <2>1
  <2> QED
    BY <2>2 DEF Steps
<1>2. {<<>>} \in T
  OBVIOUS
<1> HIDE DEF T
<1>3. PICK g : g \in Runs(n, T, {<<>>}, step)
  <2> HIDE DEF step
  <2> QED
    BY <1>0, <1>1, <1>2, Recursion, Zenon
<1>4. /\ g \in [0 .. n -> T] /\ g[0] = {<<>>}
      /\ \A i \in 1 .. n : g[i] = step[i][g[i - 1]]
  <2> HIDE DEF step
  <2> QED
    BY <1>3 DEF Runs
<1>5. \A i \in 1 .. n : g[i] = Longer(i, g[i - 1])
  <2> TAKE i \in 1 .. n
  <2>1. i - 1 \in 0 .. n
    BY <1>0
  <2>2. g[i - 1] \in T
    BY <1>4, <2>1
  <2>3. step[i][g[i - 1]] = Longer(i, g[i - 1])
    BY <2>2
  <2> QED
    BY <1>4, <2>3
<1> HIDE DEF step
<1>6. g = [i \in 0 .. n |-> e(g, i)]
  <2>1. \A i \in 0 .. n : i # 0 => i \in 1 .. n
    BY <1>0
  <2>2. \A i \in 0 .. n : g[i] = e(g, i)
    BY <1>4, <1>5, <2>1
  <2>3. g = [i \in 0 .. n |-> g[i]]
    BY <1>4
  <2> HIDE DEF e
  <2> QED
    BY <2>2, <2>3, Zenon
<1> HIDE DEF e
<1>7. logs = [i \in 0 .. n |-> e(logs, i)]
  BY <1>6, Zenon
<1>8. Logs(n) = logs[n]
  BY DEF Logs, e, Longer
<1> HIDE DEF logs
<1>9. \A i \in 0 .. n : logs[i] = e(logs, i)
  BY <1>7
<1> DEFINE H == {i \in 0 .. n : logs[i] \subseteq OfLength(i)}
<1>10. 0 \in H
  <2>1. 0 \in 0 .. n
    BY <1>0
  <2>2. logs[0] = {<<>>}
    <3>1. logs[0] = e(logs, 0)
      BY <1>9, <2>1
    <3>2. e(logs, 0) = {<<>>}
      BY DEF e
    <3> QED
      BY <3>1, <3>2
  <2>3. <<>> \in OfLength(0)
    <3>1. <<>> \in Seq(Nat) /\ Len(<<>>) = 0 /\ 1 .. 0 = {}
      OBVIOUS
    <3> QED
      BY <3>1 DEF OfLength
  <2> QED
    BY <2>1, <2>2, <2>3
<1>11. \A i \in 1 .. n : i - 1 \in H => i \in H
  <2> SUFFICES ASSUME NEW i \in 1 .. n, i - 1 \in H PROVE i \in H
    OBVIOUS
  <2>1. i \in 0 .. n /\ i # 0 /\ i \in 1 .. MaxAppends + NumLeaves
    BY <1>0
  <2>2. logs[i] = Longer(i, logs[i - 1])
    <3>1. logs[i] = e(logs, i)
      BY <1>9, <2>1
    <3> QED
      BY <2>1, <3>1 DEF e
  <2>3. \A l \in logs[i - 1] : \A val \in Values(i) : Append(l, val) \in OfLength(i)
    <3>1. logs[i - 1] \subseteq OfLength(i - 1)
      OBVIOUS
    <3> QED
      BY <2>1, <3>1, OneMore
  <2>4. Longer(i, logs[i - 1]) \subseteq OfLength(i)
    <3> DEFINE S == logs[i - 1]
    <3> HIDE DEF S
    <3>1. \A l \in S : \A val \in Values(i) : Append(l, val) \in OfLength(i)
      BY <2>3 DEF S
    <3>2. \A x \in Longer(i, S) : \E l \in S : \E val \in Values(i) : x = Append(l, val)
      BY LongerHas
    <3>3. Longer(i, S) \subseteq OfLength(i)
      BY <3>1, <3>2, Zenon
    <3> QED
      BY <3>3 DEF S
  <2> QED
    BY <2>1, <2>2, <2>4
<1>12. \A i \in 0 .. n : i \in H
  <2> HIDE DEF H
  <2> QED
    BY <1>0, <1>10, <1>11, IntervalInduction
<1>13. n \in 0 .. n
  BY <1>0
<1> QED
  BY <1>8, <1>12, <1>13

\* The constructor without values
LEMMA EmptyShape ==
  ASSUME NEW fn
  PROVE  Shape(fn, <<>>, 0, EmptyTree)
<1> DEFINE t == EmptyTree
           d == maxDepth - 1
<1>1. /\ d \in Nat /\ maxDepth - 2 \in Nat /\ d = (maxDepth - 2) + 1 /\ 0 \in 0 .. MaxAppends
      /\ NumLeaves \in Nat
  BY Spans
<1>2. Len(<<>>) = 0
  OBVIOUS
<1>3. t = [p \in PathsTo(maxDepth - 2) |-> EmptyNode] /\ DOMAIN t = PathsTo(maxDepth - 2)
  BY DEF EmptyTree
<1> HIDE DEF t
<1>4. ASSUME NEW p, Len(p) \in 0 .. d, p \in Path(Len(p)) PROVE First(p) \in Nat /\ First(p) >= 1
  <2> DEFINE k == Len(p)
  <2> HIDE DEF k
  <2>1. k \in 0 .. maxDepth - 1 /\ p \in Path(k)
    BY <1>4 DEF k
  <2> QED
    BY <2>1, FirstRange
<1>5. PathsTo(maxDepth - 2) = Places(0, 0)
  <2>1. ASSUME NEW p PROVE p \in PathsTo(maxDepth - 2) <=> p \in Places(0, 0)
    <3> DEFINE k == Len(p)
    <3>1. p \in PathsTo(maxDepth - 2) <=> k \in 0 .. maxDepth - 2 /\ p \in Path(k)
      BY <1>1, PathsSet
    <3>2. p \in PathsTo(d) <=> k \in 0 .. d /\ p \in Path(k)
      <4> HIDE DEF d
      <4> QED
        BY <1>1, PathsSet
    <3>3. k \in 0 .. maxDepth - 2 <=> k \in 0 .. d /\ k # d
      <4>1. ASSUME NEW j PROVE j \in 0 .. maxDepth - 2 <=> j \in 0 .. d /\ j # d
        BY <1>1
      <4> QED
        BY <4>1
    <3>4. p \in PathsTo(d) /\ k = d => ~(First(p) + 0 <= 0)
      BY <1>4, <3>2
    <3>5. p \in Places(0, 0) <=> p \in PathsTo(d) /\ (k = d => First(p) + 0 <= 0)
      BY DEF Places
    <3> HIDE DEF k, d
    <3> QED
      BY <3>1, <3>2, <3>3, <3>4, <3>5
  <2> QED
    BY <2>1
<1>6. ASSUME NEW p \in DOMAIN t
      PROVE  t[p] = NodeAt(fn, <<>>, First(p) + 0, Span(Len(p)))
  <2>1. Len(p) \in 0 .. d /\ p \in Path(Len(p))
    BY <1>3, <1>5, PlaceFacts
  <2>2. First(p) \in Nat /\ First(p) >= 1
    BY <1>4, <2>1
  <2>3. First(p) + 0 > Len(<<>>)
    <3> DEFINE F == First(p)
    <3>1. F \in Nat /\ F >= 1
      BY <2>2
    <3> HIDE DEF F
    <3>2. F + 0 > 0
      BY <3>1
    <3> QED
      BY <1>2, <3>2 DEF F
  <2>4. t[p] = EmptyNode
    BY <1>3
  <2> QED
    BY <2>3, <2>4 DEF NodeAt
<1>7. t = [p \in DOMAIN t |-> t[p]]
  BY <1>3
<1>8. DOMAIN t = Places(0, Len(<<>>))
  BY <1>2, <1>3, <1>5
<1>9. Len(<<>>) <= 0 + NumLeaves
  BY <1>1, <1>2
<1>10. Shape(fn, <<>>, 0, t)
  BY <1>1, <1>6, <1>7, <1>8, <1>9 DEF Shape
<1> QED
  BY <1>10 DEF t

\* The constructor with values
LEMMA FullNodes ==
  ASSUME log \in Seq(Nat), Len(log) = NumLeaves
  PROVE  /\ DOMAIN FullTree = Places(0, Len(log))
         /\ FullTree = [p \in DOMAIN FullTree |-> FullTree[p]]
         /\ \A p \in DOMAIN FullTree :
               FullTree[p] = NodeAt(aggFunc, log, First(p) + 0, Span(Len(p)))
<1> DEFINE t == FullTree
           d == maxDepth - 1
           n == Len(log)
           e(p) == LET l == First(p)
                       k == 2 ^ (maxDepth - 1 - Len(p))
                   IN  [leftIdx |-> l, midIdx |-> l + k \div 2, rightIdx |-> l + k - 1,
                        aggVal |-> Total(l, l + k - 1)]
<1>0. d \in Nat /\ NumLeaves \in Nat
  BY Spans
<1>1. t = [p \in PathsTo(d) |-> e(p)]
  BY DEF FullTree
<1>2. ASSUME NEW p \in PathsTo(d)
      PROVE  /\ Len(p) \in 0 .. d /\ p \in Path(Len(p))
             /\ First(p) \in Nat /\ First(p) >= 1 /\ First(p) + Span(Len(p)) <= NumLeaves + 1
             /\ Span(Len(p)) \in Nat \ {0} /\ Halved(Span(Len(p)))
  <2> DEFINE k == Len(p)
  <2>1. k \in 0 .. d /\ p \in Path(k)
    <3> HIDE DEF d
    <3> QED
      BY <1>0, PathsSet
  <2> HIDE DEF k
  <2>2. First(p) \in Nat /\ First(p) >= 1 /\ First(p) + Span(k) <= NumLeaves + 1
    BY <2>1, FirstRange
  <2>3. Span(k) \in Nat \ {0} /\ Halved(Span(k))
    BY <2>1, SpanHalved
  <2> QED
    BY <2>1, <2>2, <2>3 DEF k
<1>3. ASSUME NEW p \in PathsTo(d) PROVE e(p) = NodeAt(aggFunc, log, First(p) + 0, Span(Len(p)))
  <2> DEFINE F == First(p)
             k == Span(Len(p))
  <2>1. F \in Nat /\ F >= 1 /\ F + k <= NumLeaves + 1 /\ k \in Nat \ {0} /\ Halved(k)
    BY <1>2
  <2>2. e(p) = [leftIdx |-> F, midIdx |-> F + k \div 2, rightIdx |-> F + k - 1,
                aggVal |-> Tot(aggFunc, log, F, F + k - 1)]
    <3>1. k = 2 ^ (maxDepth - 1 - Len(p))
      BY DEF Span
    <3>2. Total(F, F + k - 1) = Tot(aggFunc, log, F, F + k - 1)
      BY TotalIs
    <3> QED
      BY <3>1, <3>2
  <2> HIDE DEF F, k, e
  <2>3. F + 0 = F
    BY <2>1
  <2>4. CASE k = 1
    <3>1. ~(F > n) /\ F + k - 1 = F /\ F + k \div 2 = F
      BY <1>0, <2>1, <2>4
    <3>2. NodeAt(aggFunc, log, F, 1) =
            [leftIdx |-> F, midIdx |-> F, rightIdx |-> F, aggVal |-> Tot(aggFunc, log, F, F)]
      BY <2>1, <3>1, NodeLeaf
    <3> QED
      BY <2>2, <2>3, <2>4, <3>1, <3>2 DEF F, k
  <2>5. CASE k # 1
    <3>1. PICK h \in Nat \ {0} : k = 2 * h
      BY <2>1, <2>5 DEF Halved
    <3>2. /\ ~(F > n) /\ n >= F + greatest(1, h - 1) /\ F + k \div 2 = F + h
          /\ n >= F + 2 * h - 1 /\ least(n, F + 2 * h - 1) = F + k - 1 /\ F + k - 1 = F + 2 * h - 1
      BY <1>0, <2>1, <3>1 DEF greatest, least
    <3>3. NodeAt(aggFunc, log, F, 2 * h) =
            IF F > Len(log) THEN EmptyNode
            ELSE [leftIdx  |-> F,
                  midIdx   |-> IF Len(log) >= F + greatest(1, h - 1) THEN F + h ELSE Unset,
                  rightIdx |-> IF Len(log) >= F + 2 * h - 1 THEN F + 2 * h - 1 ELSE Unset,
                  aggVal   |-> Tot(aggFunc, log, F, least(Len(log), F + 2 * h - 1))]
      BY <2>1, NodeInner
    <3>4. NodeAt(aggFunc, log, F, 2 * h) =
            [leftIdx |-> F, midIdx |-> F + h, rightIdx |-> F + k - 1,
             aggVal |-> Tot(aggFunc, log, F, F + k - 1)]
      BY <3>2, <3>3
    <3> QED
      BY <2>2, <2>3, <3>1, <3>2, <3>4 DEF F, k
  <2> QED
    BY <2>4, <2>5
<1> HIDE DEF e
<1>4. DOMAIN t = PathsTo(d) /\ t = [p \in DOMAIN t |-> t[p]] /\ \A p \in DOMAIN t : t[p] = e(p)
  <2> HIDE DEF t
  <2> QED
    BY <1>1
<1>5. PathsTo(d) = Places(0, n)
  <2>1. ASSUME NEW p \in PathsTo(d) PROVE Len(p) = d => First(p) + 0 <= n
    <3> SUFFICES ASSUME Len(p) = d PROVE First(p) + 0 <= n
      OBVIOUS
    <3>1. First(p) \in Nat /\ First(p) + Span(d) <= NumLeaves + 1 /\ Span(d) = 1
      BY <1>2, Spans
    <3> DEFINE F == First(p)
    <3>2. F \in Nat /\ F + 1 <= NumLeaves + 1
      BY <3>1
    <3> HIDE DEF F
    <3>3. F + 0 <= NumLeaves
      BY <1>0, <3>2
    <3> QED
      BY <3>3 DEF F
  <2> QED
    BY <2>1 DEF Places
<1> HIDE DEF t, d
<1>6. DOMAIN t = Places(0, n)
  BY <1>4, <1>5
<1>7. \A p \in DOMAIN t : t[p] = NodeAt(aggFunc, log, First(p) + 0, Span(Len(p)))
  BY <1>3, <1>4
<1> QED
  BY <1>4, <1>6, <1>7 DEF t

-----------------------------------------------------------------------------
(* The inductive invariant                                                 *)

\* Both constructors build a tree of that shape.
LEMMA InitIInv == Init => IInv
<1> SUFFICES ASSUME Init PROVE IInv
  OBVIOUS
<1>0. NumLeaves \in Nat /\ MaxAppends \in Nat
  BY Spans
<1>1. aggFunc \in {"sum", "mx", "mn"}
  BY DEF Init
<1>2. CASE log = <<>> /\ tree = EmptyTree
  <2>1. Shape(aggFunc, log, 0, tree)
    BY <1>2, EmptyShape
  <2>2. LogOK /\ Len(log) = 0
    <3>1. log \in Seq(Nat) /\ Len(log) = 0 /\ DOMAIN log = {}
      BY <1>2
    <3> QED
      BY <3>1 DEF LogOK
  <2>3. 0 \in 0 .. MaxAppends /\ Len(log) <= MaxAppends + NumLeaves
    BY <1>0, <2>2
  <2> QED
    BY <1>1, <2>1, <2>2, <2>3 DEF IInv
<1>3. CASE log \in Logs(NumLeaves) /\ tree = FullTree
  <2>1. log \in Seq(Nat) /\ Len(log) = NumLeaves /\ \A i \in 1 .. NumLeaves : log[i] \in Values(i)
    <3>1. NumLeaves \in 0 .. MaxAppends + NumLeaves
      BY <1>0
    <3>2. log \in OfLength(NumLeaves)
      BY <1>3, <3>1, LogsType
    <3> QED
      BY <3>2 DEF OfLength
  <2>2. LogOK
    BY <2>1 DEF LogOK
  <2>3. 0 \in 0 .. MaxAppends /\ Len(log) <= MaxAppends + NumLeaves /\ Len(log) <= 0 + NumLeaves
    BY <1>0, <2>1
  <2>4. Shape(aggFunc, log, 0, tree)
    <3>1. /\ DOMAIN tree = Places(0, Len(log)) /\ tree = [p \in DOMAIN tree |-> tree[p]]
          /\ \A p \in DOMAIN tree : tree[p] = NodeAt(aggFunc, log, First(p) + 0, Span(Len(p)))
      BY <1>3, <2>1, FullNodes
    <3> QED
      BY <2>3, <3>1 DEF Shape
  <2> QED
    BY <1>1, <2>1, <2>2, <2>3, <2>4 DEF IInv
<1> QED
  BY <1>2, <1>3 DEF Init

\* The next value has a leaf of its own.
LEMMA NextLeaf ==
  ASSUME NEW lg \in Seq(Nat), NEW s, NEW t, aggFunc \in Fns, Shape(aggFunc, lg, s, t),
         Len(lg) < s + NumLeaves, NEW v \in Nat
  PROVE  \E q : Appending(lg, s, t, q, v)
<1>1. /\ s \in Nat /\ Len(lg) \in Nat /\ Quarter \in Nat /\ NumLeaves \in Nat
      /\ (s # 0 => Len(lg) >= s + 3 * Quarter)
  <2>1. s \in Nat /\ Len(lg) \in Nat /\ Quarter \in Nat /\ (s # 0 => Len(lg) >= s + 3 * Quarter)
    BY RolledNumbers
  <2> QED
    BY <2>1, Spans
<1>2. Len(lg) + 1 - s \in 1 .. NumLeaves
  BY <1>1
<1>3. PICK q \in Path(maxDepth - 1) : First(q) = Len(lg) + 1 - s
  BY <1>2, LeafOf
<1>4. First(q) + s = Len(lg) + 1
  <2> DEFINE F == First(q)
             n == Len(lg)
  <2>1. F = n + 1 - s /\ n \in Nat /\ s \in Nat
    BY <1>1, <1>3
  <2> HIDE DEF F, n
  <2>2. F + s = n + 1
    BY <2>1
  <2> QED
    BY <2>2 DEF F, n
<1> QED
  BY <1>3, <1>4 DEF Appending

\* A value is appended to a tree with room left.
LEMMA OpenStep ==
  ASSUME NEW lg \in Seq(Nat), NEW s, NEW t, aggFunc \in Fns, Shape(aggFunc, lg, s, t),
         Len(lg) < s + NumLeaves, s # 0 => Len(lg) > s + 3 * Quarter, NEW v \in Nat
  PROVE  /\ Spot(t) # Full /\ HasFreeChild(t, Spot(t))
         /\ Shape(aggFunc, Append(lg, v), s,
                  AppendFromParent(t, FreeChild(t, Spot(t)), Len(lg) + 1, v))
<1>1. PICK q : Appending(lg, s, t, q, v)
  BY NextLeaf
<1>2. Spot(t) = Above(q, maxDepth - 2) /\ Spot(t) # Full
  BY <1>1, SpotOpen
<1>3. HasFreeChild(t, Spot(t)) /\ FreeChild(t, Spot(t)) = q
  BY <1>1, <1>2, LeafPlace
<1>4. Shape(aggFunc, Append(lg, v), s, AppendFromParent(t, q, Len(lg) + 1, v))
  BY <1>1, AppendShape
<1> QED
  BY <1>2, <1>3, <1>4

\* A value is appended to a full tree.
LEMMA FullStep ==
  ASSUME NEW lg \in Seq(Nat), NEW s, NEW t, aggFunc \in Fns, Shape(aggFunc, lg, s, t),
         Len(lg) = s + NumLeaves, s + Quarter <= MaxAppends, NEW v \in Nat
  PROVE  LET t2 == Rollup(t)
         IN  /\ HasFreeChild(t2, RollupSpot)
             /\ Shape(aggFunc, Append(lg, v), s + Quarter,
                      AppendFromParent(t2, FreeChild(t2, RollupSpot), Len(lg) + 1, v))
<1> DEFINE t2 == Rollup(t)
           u == s + Quarter
<1>1. Shape(aggFunc, lg, u, t2)
  BY RollupShape
<1>2. s \in Nat /\ Quarter \in Nat /\ Quarter >= 2 /\ NumLeaves = 4 * Quarter
  BY RolledNumbers
<1> HIDE DEF t2
<1>3. PICK q : Appending(lg, u, t2, q, v)
  <2>1. Len(lg) < u + NumLeaves
    BY <1>2
  <2> HIDE DEF u
  <2> QED
    BY <1>1, <2>1, NextLeaf
<1>4. q \in Path(maxDepth - 1) /\ First(q) = 3 * Quarter + 1
  <2>1. q \in Path(maxDepth - 1) /\ First(q) + u = Len(lg) + 1
    BY <1>3 DEF Appending
  <2>2. First(q) \in Nat
    <3>1. maxDepth - 1 \in 0 .. maxDepth - 1
      BY Spans
    <3> QED
      BY <2>1, <3>1, FirstRange
  <2> DEFINE F == First(q)
             n == Len(lg)
  <2>3. F \in Nat /\ F + (s + Quarter) = n + 1 /\ n = s + NumLeaves
    BY <2>1, <2>2
  <2> HIDE DEF F, n
  <2>4. F = 3 * Quarter + 1
    BY <1>2, <2>3
  <2> QED
    BY <2>1, <2>4 DEF F
<1>5. RollupSpot = Above(q, maxDepth - 2)
  BY <1>4, RollupPlace
<1> HIDE DEF u
<1>6. HasFreeChild(t2, RollupSpot) /\ FreeChild(t2, RollupSpot) = q
  BY <1>3, <1>5, LeafPlace
<1>7. Shape(aggFunc, Append(lg, v), u, AppendFromParent(t2, q, Len(lg) + 1, v))
  BY <1>3, AppendShape
<1> QED
  BY <1>6, <1>7 DEF t2, u

\* Whether there is room is what Spot says.
LEMMA SpotSays ==
  ASSUME NEW lg \in Seq(Nat), NEW s, NEW t, aggFunc \in Fns, Shape(aggFunc, lg, s, t),
         s # 0 => Len(lg) > s + 3 * Quarter
  PROVE  /\ Spot(t) = Full <=> Len(lg) = s + NumLeaves
         /\ Spot(t) # Full => Len(lg) < s + NumLeaves /\ HasFreeChild(t, Spot(t))
<1>1. Len(lg) \in Nat /\ s \in Nat /\ NumLeaves \in Nat /\ Len(lg) <= s + NumLeaves
  <2>1. Len(lg) \in Nat /\ s \in Nat
    BY RolledNumbers
  <2> QED
    BY <2>1, Spans DEF Shape
<1>2. CASE Len(lg) = s + NumLeaves
  BY <1>2, SpotFull
<1>3. CASE Len(lg) # s + NumLeaves
  <2>1. Len(lg) < s + NumLeaves /\ 0 \in Nat
    BY <1>1, <1>3
  <2>2. Spot(t) # Full /\ HasFreeChild(t, Spot(t))
    BY <2>1, OpenStep
  <2> QED
    BY <1>3, <2>1, <2>2
<1> QED
  BY <1>2, <1>3

\* append keeps the shape, with a rollup before it when the tree is full.
LEMMA NextIInv == IInv /\ [Next]_vars => IInv'
<1> SUFFICES ASSUME IInv, [Next]_vars PROVE IInv'
  OBVIOUS
<1> DEFINE n == Len(log)
<1>1. aggFunc \in Fns /\ log \in Seq(Nat) /\ n \in Nat /\ LogOK /\ n <= MaxAppends + NumLeaves
  BY LogType DEF IInv, LogOK, Fns
<1>2. PICK s \in 0 .. MaxAppends :
         Shape(aggFunc, log, s, tree) /\ (s # 0 => n > s + 3 * Quarter)
  BY DEF IInv
<1>3. /\ s \in Nat /\ MaxAppends \in Nat /\ NumLeaves \in Nat /\ NumLeaves = 4 * Quarter
      /\ Quarter \in Nat /\ Quarter >= 2
  BY <1>2, Spans
<1>4. ASSUME NEW val \in Values(n + 1), append(val) PROVE IInv'
  <2>1. /\ n < MaxAppends /\ log' = Append(log, val) /\ aggFunc' = aggFunc
    BY <1>4 DEF append
  <2>2. n + 1 \in 1 .. MaxAppends + NumLeaves /\ n + 1 <= MaxAppends + NumLeaves
    BY <1>1, <1>3, <2>1
  <2>3. val \in Nat
    BY <2>2, ValuesType
  <2>4. log' \in Seq(Nat) /\ Len(log') = n + 1 /\ DOMAIN log' = 1 .. n + 1
        /\ log'[n + 1] = val /\ \A i \in 1 .. n : log'[i] = log[i]
    <3> DEFINE e == Append(log, val)
    <3>1. e \in Seq(Nat) /\ Len(e) = n + 1 /\ e[n + 1] = val /\ \A i \in 1 .. n : e[i] = log[i]
      BY <1>1, <2>3
    <3> HIDE DEF e
    <3>2. DOMAIN e = 1 .. n + 1
      BY <1>1, <3>1
    <3> QED
      BY <2>1, <3>1, <3>2 DEF e
  <2>5. LogOK'
    <3> SUFFICES ASSUME NEW i \in 1 .. n + 1 PROVE log'[i] \in Values(i)
      BY <2>4 DEF LogOK
    <3>1. CASE i = n + 1
      <4>1. val \in Values(i)
        BY <3>1
      <4>2. log'[i] = val
        BY <2>4, <3>1
      <4> QED
        BY <4>1, <4>2
    <3>2. CASE i # n + 1
      <4>1. i \in 1 .. n /\ DOMAIN log = 1 .. n
        BY <1>1, <3>2, LogType
      <4>2. log[i] \in Values(i)
        BY <1>1, <4>1 DEF LogOK
      <4> QED
        BY <2>4, <4>1, <4>2
    <3> QED
      BY <3>1, <3>2
  <2>6. ASSUME NEW u \in 0 .. MaxAppends, Shape(aggFunc, log', u, tree'),
               u # 0 => n + 1 > u + 3 * Quarter
        PROVE  IInv'
    <3>1. Shape(aggFunc', log', u, tree')
      BY <2>1, <2>6
    <3>2. aggFunc' \in {"sum", "mx", "mn"}
      BY <1>1, <2>1 DEF Fns
    <3>3. Len(log') <= MaxAppends + NumLeaves /\ (u # 0 => Len(log') > u + 3 * Quarter)
      BY <2>2, <2>4, <2>6
    <3> QED
      BY <2>5, <3>1, <3>2, <3>3 DEF IInv
  <2>7. CASE Spot(tree) # Full
    <3>1. n < s + NumLeaves
      BY <1>1, <1>2, <2>7, SpotSays
    <3>2. tree' = AppendFromParent(tree, FreeChild(tree, Spot(tree)), n + 1, val)
      BY <1>4, <2>7 DEF append
    <3>3. Shape(aggFunc, Append(log, val), s,
                AppendFromParent(tree, FreeChild(tree, Spot(tree)), n + 1, val))
      BY <1>1, <1>2, <2>3, <3>1, OpenStep
    <3>4. s # 0 => n + 1 > s + 3 * Quarter
      BY <1>1, <1>2, <1>3
    <3> QED
      BY <1>2, <2>1, <2>6, <3>2, <3>3, <3>4
  <2>8. CASE Spot(tree) = Full
    <3> DEFINE u == s + Quarter
               t2 == Rollup(tree)
    <3>1. n = s + NumLeaves
      BY <1>1, <1>2, <2>8, SpotSays
    <3>2. tree' = AppendFromParent(t2, FreeChild(t2, RollupSpot), n + 1, val)
      BY <1>4, <2>8 DEF append
    <3>3. u \in 0 .. MaxAppends /\ u <= MaxAppends /\ n + 1 > u + 3 * Quarter
      BY <1>1, <1>3, <2>1, <3>1
    <3>4. Shape(aggFunc, Append(log, val), u,
                AppendFromParent(t2, FreeChild(t2, RollupSpot), n + 1, val))
      BY <1>1, <1>2, <2>3, <3>1, <3>3, FullStep
    <3> HIDE DEF u, t2
    <3> QED
      BY <2>1, <2>6, <3>2, <3>3, <3>4
  <2> QED
    BY <2>7, <2>8
<1>5. CASE UNCHANGED vars
  BY <1>5 DEF vars, IInv, LogOK
<1>6. CASE Done
  BY <1>5, <1>6 DEF Done
<1> QED
  BY <1>4, <1>5, <1>6 DEF Next

-----------------------------------------------------------------------------
(* What it implies                                                         *)

\* The invariant with its number of indices moved
Now(s) ==
  /\ aggFunc \in Fns /\ log \in Seq(Nat) /\ Len(log) \in Nat /\ LogOK
  /\ s \in Nat /\ Shape(aggFunc, log, s, tree)
  /\ s # 0 => Len(log) > s + 3 * Quarter

\* The invariant for the number of rollups there have been.
LEMMA NowIs ==
  ASSUME IInv
  PROVE  \E s \in 0 .. MaxAppends : Now(s)
<1>1. aggFunc \in Fns /\ log \in Seq(Nat) /\ Len(log) \in Nat /\ LogOK
  BY LogType DEF IInv, LogOK, Fns
<1>2. PICK s \in 0 .. MaxAppends :
         Shape(aggFunc, log, s, tree) /\ (s # 0 => Len(log) > s + 3 * Quarter)
  BY DEF IInv
<1>3. s \in Nat
  BY Spans
<1> QED
  BY <1>1, <1>2, <1>3 DEF Now

\* The types, and the tree's paths.
LEMMA IInvTypes == IInv => TypeOK
<1> SUFFICES ASSUME IInv PROVE TypeOK
  OBVIOUS
<1>1. PICK s \in 0 .. MaxAppends : Now(s)
  BY NowIs
<1>2. /\ aggFunc \in Fns /\ log \in Seq(Nat) /\ Shape(aggFunc, log, s, tree) /\ LogOK
      /\ DOMAIN tree = Places(s, Len(log))
  BY <1>1 DEF Now, Shape
<1>3. DOMAIN tree \subseteq PathsTo(maxDepth - 1)
  BY <1>2 DEF Places
<1>4. ASSUME NEW p \in DOMAIN tree, NEW n \in 0 .. Len(p) PROVE SubSeq(p, 1, n) \in DOMAIN tree
  <2> DEFINE k == Len(p)
  <2>1. k \in 0 .. maxDepth - 1 /\ p \in Path(k) /\ k \in Nat
    BY <1>2, PlaceFacts
  <2>2. maxDepth \in Nat
    BY Spans
  <2>3. n \in 0 .. k
    OBVIOUS
  <2> HIDE DEF k
  <2>4. CASE n = k
    BY <2>1, <2>4, PrefixAll
  <2>5. CASE n # k
    <3>1. n \in 0 .. maxDepth - 1 /\ n # maxDepth - 1
      BY <2>1, <2>2, <2>3, <2>5
    <3>2. SubSeq(p, 1, n) \in Path(n)
      BY <2>1, <2>3, Prefix
    <3> QED
      BY <1>2, <3>1, <3>2, PlaceIs
  <2> QED
    BY <2>4, <2>5
<1>5. ASSUME NEW p \in DOMAIN tree
      PROVE  tree[p] \in [leftIdx : Index, midIdx : Index, rightIdx : Index,
                          aggVal : Nat \cup {NoVal}]
  <2>1. NodeOK(aggFunc, log, tree, p)
    BY <1>2, ShapeGood
  <2> QED
    BY <2>1 DEF NodeOK, NodeSet, Sums
<1> QED
  BY <1>2, <1>3, <1>4, <1>5 DEF TypeOK, LogOK

\* AggregatesExact, from the shape.
LEMMA IInvAggregates == IInv => AggregatesExact
<1> SUFFICES ASSUME IInv, NEW p \in DOMAIN tree, tree[p].leftIdx # Unset
             PROVE  tree[p].aggVal = Total(tree[p].leftIdx, End(tree[p]))
  BY DEF AggregatesExact
<1>1. PICK s \in 0 .. MaxAppends : Now(s)
  BY NowIs
<1>2. NodeOK(aggFunc, log, tree, p)
  BY <1>1, ShapeGood DEF Now
<1>3. tree[p].aggVal = Tot(aggFunc, log, tree[p].leftIdx, End(tree[p]))
  BY <1>2 DEF NodeOK, End
<1> QED
  BY <1>3, TotalIs

\* ValuesCovered, from the shape.
LEMMA IInvCovers == IInv => ValuesCovered
<1> SUFFICES ASSUME IInv PROVE ValuesCovered
  OBVIOUS
<1>1. PICK s \in 0 .. MaxAppends : Now(s)
  BY NowIs
<1> DEFINE n == Len(log)
<1>2. /\ aggFunc \in Fns /\ log \in Seq(Nat) /\ Shape(aggFunc, log, s, tree)
      /\ n \in Nat /\ s \in Nat
  BY <1>1 DEF Now
<1>3. ChildrenSplit
  <2>1. ASSUME NEW p \in DOMAIN tree PROVE Split(tree, p)
    BY <1>2, ShapeGood
  <2> QED
    BY <2>1 DEF ChildrenSplit, Split
<1>4. RootCoversAll
  <2> SUFFICES ASSUME log # <<>>
               PROVE  tree[<<>>].leftIdx = 1 /\ tree[<<>>].aggVal = Total(1, n)
    BY DEF RootCoversAll
  <2>1. n >= 1
    BY <1>2
  <2>2. tree[<<>>].leftIdx = 1 /\ tree[<<>>].aggVal = Tot(aggFunc, log, 1, n)
    <3>1. CASE s = 0
      <4>1. <<>> \in DOMAIN tree /\ Regular(<<>>, s)
        BY <1>2, <3>1, RolledNumbers, TopPlaces DEF Regular
      <4>2. RegularNode(aggFunc, log, s, tree, <<>>)
        BY <1>2, <4>1, RegularFacts
      <4>3. n <= NumLeaves /\ NumLeaves \in Nat
        BY <1>2, <3>1, Spans DEF Shape
      <4>4. First(<<>>) + s = 1 /\ Span(Len(<<>>)) = NumLeaves
        <5>1. Len(<<>>) = 0
          OBVIOUS
        <5> QED
          BY <3>1, <5>1, TopFirst, Spans
      <4>5. /\ tree[<<>>] = NodeAt(aggFunc, log, 1, NumLeaves) /\ NumLeaves \in Nat \ {0}
            /\ Halved(NumLeaves) /\ 1 + NumLeaves <= Unset
        <5>1. LET F == First(<<>>) + s
                  m == Span(Len(<<>>))
              IN  /\ tree[<<>>] = NodeAt(aggFunc, log, F, m) /\ m \in Nat \ {0}
                  /\ Halved(m) /\ F + m <= s + NumLeaves + 1 /\ s + NumLeaves + 1 <= Unset
          BY <4>2 DEF RegularNode
        <5>2. s + NumLeaves + 1 = 1 + NumLeaves
          BY <3>1, <4>3
        <5> QED
          BY <4>4, <5>1, <5>2
      <4>6. Says(aggFunc, log, 1, NumLeaves, NodeAt(aggFunc, log, 1, NumLeaves))
        <5>1. 1 \in Nat /\ 1 >= 1
          OBVIOUS
        <5> QED
          BY <1>2, <4>5, <5>1, NodeGood
      <4>7. least(n, 1 + NumLeaves - 1) = n
        <5> HIDE DEF n
        <5> QED
          BY <1>2, <4>3 DEF least
      <4>8. tree[<<>>].leftIdx = 1
            /\ tree[<<>>].aggVal = Tot(aggFunc, log, 1, least(n, 1 + NumLeaves - 1))
        BY <2>1, <4>5, <4>6 DEF Says
      <4> QED
        BY <4>7, <4>8
    <3>2. CASE s # 0
      <4>1. tree[<<>>] = Root(aggFunc, log, s)
        BY <1>2, <3>2 DEF Shape
      <4> QED
        BY <4>1 DEF Root
    <3> QED
      BY <3>1, <3>2
  <2> QED
    BY <2>2, TotalIs
<1> QED
  BY <1>3, <1>4 DEF ValuesCovered

\* rollup leaves no leaves in the newest quarter.
LEMMA RollupRoom ==
  ASSUME NEW t
  PROVE  HasFreeChild(Rollup(t), RollupSpot)
<1> DEFINE m == maxDepth - 2
           r == RollupSpot
           l == r \o <<"L">>
<1>1. m \in Nat /\ m >= 2 /\ m + 1 \in Nat /\ 1 \in 1 .. m /\ 2 \in 1 .. m /\ 2 \in Nat
      /\ m + 1 > 2 /\ ~(m + 1 <= maxDepth - 2)
  BY Spans
<1>2. r \in Path(m) /\ r[1] = "R" /\ r[2] = "R"
  BY <1>1 DEF RollupSpot, Path, Side
<1> HIDE DEF r
<1>3. l \in Path(m + 1) /\ l[1] = "R" /\ l[2] = "R"
  <2>1. "L" \in Side
    BY DEF Side
  <2>2. l \in Path(m + 1) /\ \A i \in 1 .. m : l[i] = r[i]
    <3> HIDE DEF m
    <3> QED
      BY <1>1, <1>2, <2>1, Child
  <2> QED
    BY <1>1, <1>2, <2>2
<1> HIDE DEF l
<1>4. Len(l) = m + 1
  <2> DEFINE k == m + 1
  <2>1. k \in Nat /\ l \in Path(k)
    BY <1>1, <1>3
  <2> HIDE DEF k
  <2>2. Len(l) = k
    BY <2>1, PathType
  <2> QED
    BY <2>2 DEF k
<1>5. l \notin PathsTo(2)
  <2>1. l \in PathsTo(2) => Len(l) \in 0 .. 2
    BY <1>1, PathsSet
  <2> QED
    BY <1>1, <1>4, <2>1
<1>6. l \notin RolledPaths
  BY <1>1, <1>3, <1>4, <1>5 DEF RolledPaths
<1>7. DOMAIN Rollup(t) = RolledPaths
  BY RollupNodes DEF RolledNodes
<1> QED
  BY <1>6, <1>7 DEF HasFreeChild, l, r

\* SpotIsFree, from the shape.
LEMMA IInvSpot == IInv => SpotIsFree
<1> SUFFICES ASSUME IInv PROVE SpotIsFree
  OBVIOUS
<1>1. PICK s \in 0 .. MaxAppends : Now(s)
  BY NowIs
<1>2. /\ aggFunc \in Fns /\ log \in Seq(Nat) /\ Shape(aggFunc, log, s, tree)
      /\ (s # 0 => Len(log) > s + 3 * Quarter)
  BY <1>1 DEF Now
<1>3. CASE Spot(tree) # Full
  <2>1. HasFreeChild(tree, Spot(tree))
    BY <1>2, <1>3, SpotSays
  <2> QED
    BY <1>3, <2>1 DEF SpotIsFree
<1>4. CASE Spot(tree) = Full
  <2>1. HasFreeChild(Rollup(tree), RollupSpot)
    BY RollupRoom
  <2> QED
    BY <1>4, <2>1 DEF SpotIsFree
<1> QED
  BY <1>3, <1>4

\* AppendsBuildFullTree, from the shape.
LEMMA IInvBuilt == IInv => AppendsBuildFullTree
<1> SUFFICES ASSUME IInv, Len(log) = NumLeaves PROVE tree = FullTree
  BY DEF AppendsBuildFullTree
<1>1. PICK s \in 0 .. MaxAppends : Now(s)
  BY NowIs
<1>2. /\ aggFunc \in Fns /\ log \in Seq(Nat) /\ Shape(aggFunc, log, s, tree) /\ s \in Nat
      /\ (s # 0 => Len(log) > s + 3 * Quarter)
  BY <1>1 DEF Now
<1>3. s = 0
  <2>1. Quarter \in Nat /\ NumLeaves = 4 * Quarter /\ (s # 0 => s >= Quarter)
    BY <1>2, RolledNumbers
  <2> QED
    BY <1>2, <2>1
<1>4. /\ DOMAIN tree = Places(0, Len(log)) /\ tree = [p \in DOMAIN tree |-> tree[p]]
      /\ \A p \in DOMAIN tree : tree[p] = NodeAt(aggFunc, log, First(p) + 0, Span(Len(p)))
  BY <1>2, <1>3 DEF Shape, Regular
<1> DEFINE f == FullTree
           P == Places(0, Len(log))
           e(p) == NodeAt(aggFunc, log, First(p) + 0, Span(Len(p)))
<1>5. DOMAIN f = P /\ f = [p \in DOMAIN f |-> f[p]] /\ \A p \in DOMAIN f : f[p] = e(p)
  BY <1>2, FullNodes
<1>6. DOMAIN tree = P /\ tree = [p \in DOMAIN tree |-> tree[p]] /\ \A p \in DOMAIN tree : tree[p] = e(p)
  BY <1>4
<1> HIDE DEF f, e, P
<1>7. tree = [p \in P |-> e(p)] /\ f = [p \in P |-> e(p)]
  <2>1. tree = [p \in P |-> tree[p]] /\ \A p \in P : tree[p] = e(p)
    BY <1>6, Zenon
  <2>2. f = [p \in P |-> f[p]] /\ \A p \in P : f[p] = e(p)
    BY <1>5, Zenon
  <2> QED
    BY <2>1, <2>2, Zenon
<1> QED
  BY <1>7, Zenon DEF f

\* RecentKept, from the shape.
LEMMA IInvRecent == IInv => RecentKept
<1> SUFFICES ASSUME IInv, NEW i \in DOMAIN log, i > Len(log) - NumLeaves \div 2
             PROVE  \E p \in DOMAIN tree : Len(p) = maxDepth - 1 /\ tree[p] = Leaf(i, log[i])
  BY DEF RecentKept
<1>1. PICK s \in 0 .. MaxAppends : Now(s)
  BY NowIs
<1> DEFINE n == Len(log)
           d == maxDepth - 1
<1>2. /\ aggFunc \in Fns /\ log \in Seq(Nat) /\ Shape(aggFunc, log, s, tree) /\ s \in Nat
      /\ n \in Nat /\ (s # 0 => n > s + 3 * Quarter)
  BY <1>1 DEF Now
<1>3. /\ Quarter \in Nat /\ Quarter >= 2 /\ NumLeaves = 4 * Quarter /\ n <= s + 4 * Quarter
      /\ DOMAIN tree = Places(s, n)
  BY <1>2, RolledNumbers
<1>4. i \in 1 .. n /\ i > n - 2 * Quarter
  <2>1. NumLeaves \div 2 = 2 * Quarter
    BY <1>3
  <2>2. DOMAIN log = 1 .. n
    BY <1>2, LogType
  <2> QED
    BY <2>1, <2>2
<1>5. d \in Nat /\ d >= 3 /\ d \in 0 .. maxDepth - 1 /\ d \in 2 .. maxDepth - 1 /\ Span(d) = 1
  BY Spans
<1> HIDE DEF d, n
<1>6. i - s \in 1 .. NumLeaves /\ (s # 0 => i - s > Quarter) /\ i \in Nat
  BY <1>2, <1>3, <1>4
<1>7. PICK p \in Path(maxDepth - 1) : First(p) = i - s
  BY <1>6, LeafOf
<1>8. p \in Path(d) /\ Len(p) = d
  BY <1>5, <1>7, PathType DEF d
<1>9. First(p) + s = i /\ First(p) + s <= n /\ First(p) \in Nat
  <2> DEFINE F == First(p)
  <2>1. F = i - s /\ i \in Nat /\ s \in Nat /\ i - s \in 1 .. NumLeaves
    BY <1>2, <1>6, <1>7
  <2> HIDE DEF F
  <2>2. F + s = i /\ F + s <= n /\ F \in Nat
    BY <1>2, <1>3, <1>4, <2>1
  <2> QED
    BY <2>2 DEF F
<1>10. p \in DOMAIN tree
  BY <1>3, <1>5, <1>7, <1>9, PlaceIs DEF d
<1>11. Regular(p, s)
  <2> SUFFICES ASSUME s # 0 PROVE Len(p) >= 2 /\ ~Old(p)
    BY DEF Regular
  <2>1. Len(p) >= 2
    BY <1>5, <1>8
  <2>2. ASSUME p[1] = "L" /\ p[2] = "L" PROVE FALSE
    <3>1. First(p) + Span(d) <= First(<<p[1], p[2]>>) + Quarter
      BY <1>5, <1>8, PathStarts
    <3>2. First(<<p[1], p[2]>>) = 1
      <4>1. <<p[1], p[2]>> = <<"L", "L">>
        BY <2>2
      <4> QED
        BY <4>1, TopFirst
    <3>3. First(p) > Quarter
      BY <1>6, <1>7
    <3> QED
      BY <1>3, <1>5, <1>9, <3>1, <3>2, <3>3
  <2> QED
    BY <2>1, <2>2 DEF Old
<1>12. tree[p] = NodeAt(aggFunc, log, i, 1)
  <2>1. tree[p] = NodeAt(aggFunc, log, First(p) + s, Span(Len(p)))
    BY <1>2, <1>10, <1>11 DEF Shape
  <2> QED
    BY <1>5, <1>8, <1>9, <2>1
<1>13. tree[p] = [leftIdx |-> i, midIdx |-> i, rightIdx |-> i, aggVal |-> Tot(aggFunc, log, i, i)]
  <2>1. ~(i > Len(log))
    BY <1>2, <1>4 DEF n
  <2> QED
    BY <1>2, <1>6, <1>12, <2>1, NodeLeaf
<1>14. Tot(aggFunc, log, i, i) = log[i]
  <2>1. i \in 1 .. Len(log) + 1 /\ i \in i .. Len(log) /\ i \in 1 .. Len(log)
    BY <1>2, <1>4 DEF n
  <2>2. /\ Tot(aggFunc, log, i, i - 1) = NoVal
        /\ Tot(aggFunc, log, i, i) = Agg(aggFunc, Tot(aggFunc, log, i, i - 1), log[i])
    BY <1>2, <2>1, TotRules
  <2>3. log[i] \in Sums
    <3>1. log[i] \in Nat
      BY <1>2, <2>1, LogType
    <3> QED
      BY <3>1 DEF Sums
  <2> QED
    BY <1>2, <2>2, <2>3, AggRules
<1>15. tree[p] = Leaf(i, log[i])
  BY <1>13, <1>14 DEF Leaf
<1> QED
  BY <1>8, <1>10, <1>15 DEF d

-----------------------------------------------------------------------------
(* Theorems                                                                *)

\* The inductive invariant: after any number of appends and rollups the tree has the
\* shape that the number of rollups and of values determine.
THEOREM Invariant == Spec => []IInv
<1>1. Init => IInv
  BY InitIInv
<1>2. IInv /\ [Next]_vars => IInv'
  BY NextIInv
<1> QED
  BY <1>1, <1>2, PTL DEF Spec

\* The state keeps its types; the tree hangs together (Tree.cpp's nodes and links).
THEOREM Types == Spec => []TypeOK
<1> QED
  BY Invariant, IInvTypes, PTL

\* Every node that has begun holds the aggregate of exactly the values between its
\* indices, after any number of appends and rollups: appendFromParent and rollup keep
\* aggVal, leftIdx and rightIdx in step.
THEOREM Exact == Spec => []AggregatesExact
<1> QED
  BY Invariant, IInvAggregates, PTL

\* The root covers every value that was ever appended and the children of a node split
\* its values: rollup forgets none and counts none twice.
THEOREM Covered == Spec => []ValuesCovered
<1> QED
  BY Invariant, IInvCovers, PTL

\* What getAppendParent reads off the index fields is a node with a free child: the
\* assert(false) of appendFromParent is never reached.
THEOREM Free == Spec => []SpotIsFree
<1> QED
  BY Invariant, IInvSpot, PTL

\* Appending one by one builds the tree that the constructor builds at once.
THEOREM Built == Spec => []AppendsBuildFullTree
<1> QED
  BY Invariant, IInvBuilt, PTL

\* The newest half of what fits is there as leaves: rollup takes only leaves of older
\* values.
THEOREM Recent == Spec => []RecentKept
<1> QED
  BY Invariant, IInvRecent, PTL
=============================================================================
