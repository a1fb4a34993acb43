------------------------------- MODULE AggTree -------------------------------
(***************************************************************************)
(* The tree of secure-indices/core/Tree.cpp that keeps aggregates of a     *)
(* growing sequence of values.  Leaves are filled from left to right; when *)
(* there is no place left, rollup rotates the tree to the left, drops the  *)
(* leaves of the oldest half, whose sums stay, and makes room on the right.*)
(* Where to append is read off the index fields of the nodes alone.        *)
(*                                                                         *)
(* A node is named by its path from the root, a sequence of "L" and "R";   *)
(* the children, the parent and the depth, which the code keeps as fields, *)
(* follow from it.                                                         *)
(***************************************************************************)
EXTENDS Integers, Sequences

CONSTANTS maxDepth,    \* levels of the tree
          Values(_),   \* the values that may be appended at an index
          MaxAppends   \* bound on the values in all

\* rollup of a smaller tree would not end: fillEmptySubtree starts at depth 2 and
\* stops at depth maxDepth - 2.
ASSUME ConstantsAssumption ==
  maxDepth \in Nat /\ maxDepth >= 4 /\ MaxAppends \in Nat
  /\ \A i \in 1 .. MaxAppends + 2 ^ (maxDepth - 1) : Values(i) \subseteq Nat

VARIABLES tree,     \* the nodes, by path
          aggFunc,  \* the aggregate
          log       \* the values appended so far, the i-th with index i

vars == <<tree, aggFunc, log>>

Side == {"L", "R"}

PathsTo(depth) == UNION {[1 .. n -> Side] : n \in 0 .. depth}

NumLeaves == 2 ^ (maxDepth - 1)

\* The index -1 of an empty node: the largest uint64_t.
Unset == MaxAppends + NumLeaves + 1

Inc(idx) == (idx + 1) % (Unset + 1)

\* The aggregate -1 of an empty node.
NoVal == -1

EmptyNode ==
  [leftIdx |-> Unset, midIdx |-> Unset, rightIdx |-> Unset, aggVal |-> NoVal]

Leaf(idx, val) ==
  [leftIdx |-> idx, midIdx |-> idx, rightIdx |-> idx, aggVal |-> val]

least(a, b) == IF a <= b THEN a ELSE b

greatest(a, b) == IF a <= b THEN b ELSE a

computeAggregate(a, b) ==
  CASE a = NoVal -> b
    [] a # NoVal /\ b = NoVal -> a
    [] a # NoVal /\ b # NoVal /\ aggFunc = "sum" -> a + b
    [] a # NoVal /\ b # NoVal /\ aggFunc = "mx" -> greatest(a, b)
    [] a # NoVal /\ b # NoVal /\ aggFunc = "mn" -> least(a, b)

-----------------------------------------------------------------------------

\* The sequences of n values.
Logs(n) ==
  LET logs[i \in 0 .. n] ==
        IF i = 0 THEN {<<>>}
        ELSE {Append(s, val) : s \in logs[i - 1], val \in Values(i)}
  IN  logs[n]

\* The aggregate of the values with indices l .. r.
Total(l, r) ==
  LET total[i \in l - 1 .. r] ==
        IF i = l - 1 THEN NoVal ELSE computeAggregate(total[i - 1], log[i])
  IN  total[r]

\* The constructor without values: all levels but that of the leaves.
EmptyTree == [p \in PathsTo(maxDepth - 2) |-> EmptyNode]

\* The indices below path p of a full tree.
First(p) ==
  LET first[n \in 0 .. Len(p)] ==
        IF n = 0 THEN 1
        ELSE first[n - 1] + (IF p[n] = "L" THEN 0 ELSE 2 ^ (maxDepth - 1 - n))
  IN  first[Len(p)]

\* The constructor with values joins the leaves two by two, level by level.
FullTree ==
  [p \in PathsTo(maxDepth - 1) |->
     LET l == First(p)
         n == 2 ^ (maxDepth - 1 - Len(p))
     IN  [leftIdx |-> l, midIdx |-> l + n \div 2, rightIdx |-> l + n - 1,
          aggVal |-> Total(l, l + n - 1)]]

Init ==
  /\ aggFunc \in {"sum", "mx", "mn"}
  /\ \/ log = <<>> /\ tree = EmptyTree
     \/ log \in Logs(NumLeaves) /\ tree = FullTree

-----------------------------------------------------------------------------

\* getAppendParent goes down where an index is still missing; "full" is its flag.
Full == <<"full">>

\* Mutant of Down: the left child is taken until the node is full.
DownByRight(t, p) ==
  IF p \o <<"L">> \in DOMAIN t /\ t[p].rightIdx = Unset THEN p \o <<"L">>
  ELSE Full

Down(t, p) ==
  IF p \o <<"L">> \in DOMAIN t /\ t[p].midIdx = Unset THEN p \o <<"L">>
  ELSE IF p \o <<"R">> \in DOMAIN t /\ t[p].rightIdx = Unset THEN p \o <<"R">>
  ELSE Full

Spot(t) ==
  LET down[n \in 0 .. maxDepth - 2] ==
        IF n = 0 THEN <<>>
        ELSE IF down[n - 1] = Full THEN Full ELSE Down(t, down[n - 1])
  IN  down[maxDepth - 2]

\* Mutant of RolledPaths: the nodes below the last level stay.
RolledPathsAll ==
  PathsTo(2) \cup
  {p \in PathsTo(maxDepth) :
     /\ Len(p) >= 2
     /\ Len(p) = maxDepth => p[1] = "L" /\ p[2] = "L"
     /\ p[1] = "R" /\ p[2] = "R" => Len(p) <= maxDepth - 2}

\* Mutant of RolledPaths: the left half loses two levels.
RolledPathsShort ==
  PathsTo(2) \cup
  {p \in PathsTo(maxDepth - 1) :
     Len(p) >= 2 /\ (p[1] = "L" \/ p[2] = "R" => Len(p) <= maxDepth - 2)}

\* The places after the rotation, and below where the nodes come from: the right
\* child becomes the root, the root its left child, which keeps its own left child
\* and takes the new root's; the new root's right child gets a parent of its own.
\* Nodes that come to lie at depth maxDepth are deleted, and the new right part is
\* filled down to the level above the leaves.
RolledPaths ==
  PathsTo(2) \cup
  {p \in PathsTo(maxDepth - 1) :
     Len(p) >= 2 /\ (p[1] = "R" /\ p[2] = "R" => Len(p) <= maxDepth - 2)}

Origin(p) ==
  LET below == SubSeq(p, 3, Len(p))
  IN  CASE p[1] = "L" /\ p[2] = "L" -> <<"L">> \o below
        [] p[1] = "L" /\ p[2] = "R" -> <<"R", "L">> \o below
        [] p[1] = "R" /\ p[2] = "L" -> <<"R", "R">> \o below

\* Mutant of OldRoot: the aggregate still covers the part that was moved away.
OldRootKeeps(t) ==
  [t[<<>>] EXCEPT !.midIdx = t[<<"R", "L">>].leftIdx,
                  !.rightIdx = t[<<"R", "L">>].rightIdx]

\* Mutant of OldRoot: the index fields are not brought up to date.
OldRootIndices(t) ==
  [t[<<>>] EXCEPT
     !.aggVal = computeAggregate(t[<<"L">>].aggVal, t[<<"R", "L">>].aggVal)]

OldRoot(t) ==
  [t[<<>>] EXCEPT
     !.midIdx = t[<<"R", "L">>].leftIdx,
     !.rightIdx = t[<<"R", "L">>].rightIdx,
     !.aggVal = computeAggregate(t[<<"L">>].aggVal, t[<<"R", "L">>].aggVal)]

\* Mutant of NewRoot: the aggregate is that of the former right child.
NewRootStale(t) ==
  [t[<<"R">>] EXCEPT
     !.leftIdx = OldRoot(t).leftIdx,
     !.midIdx = least(OldRoot(t).rightIdx, t[<<"R", "R">>].leftIdx)]

NewRoot(t) ==
  LET left == OldRoot(t)
      right == t[<<"R", "R">>]
  IN  [t[<<"R">>] EXCEPT
         !.leftIdx = left.leftIdx,
         !.midIdx = least(left.rightIdx, right.leftIdx),
         !.aggVal = computeAggregate(left.aggVal, right.aggVal)]

NewRightChild(t) ==
  LET left == t[<<"R", "R">>]
  IN  [leftIdx |-> left.leftIdx, midIdx |-> left.rightIdx,
       rightIdx |-> left.rightIdx, aggVal |-> left.aggVal]

Rollup(t) ==
  [p \in RolledPaths |->
     CASE p = <<>> -> NewRoot(t)
       [] p = <<"L">> -> OldRoot(t)
       [] p = <<"R">> -> NewRightChild(t)
       [] Len(p) >= 2 /\ p[1] = "R" /\ p[2] = "R" -> EmptyNode
       [] Len(p) >= 2 /\ ~(p[1] = "R" /\ p[2] = "R") -> t[Origin(p)]]

RollupSpot == [n \in 1 .. maxDepth - 2 |-> IF n <= 2 THEN "R" ELSE "L"]

\* Mutant of LeftUpdated: midIdx is the end of the left half.
LeftUpdatedEnd(node, child, grandchildDone) ==
  [node EXCEPT !.leftIdx = least(@, child.leftIdx),
               !.midIdx = IF ~grandchildDone THEN @
                          ELSE IF @ = Unset THEN child.rightIdx
                          ELSE greatest(@, child.rightIdx)]

\* A parent after its left child has changed.
LeftUpdated(node, child, grandchildDone) ==
  [node EXCEPT !.leftIdx = least(@, child.leftIdx),
               !.midIdx = IF ~grandchildDone THEN @
                          ELSE IF @ = Unset THEN Inc(child.rightIdx)
                          ELSE greatest(@, Inc(child.rightIdx))]

\* A parent after its right child has changed.
RightUpdated(node, child) ==
  [node EXCEPT !.midIdx = least(@, child.leftIdx),
               !.rightIdx = IF @ = Unset THEN child.rightIdx
                            ELSE greatest(@, child.rightIdx)]

\* appendFromParent: a leaf at path leaf, and then its ancestors, from the lowest
\* to the root; newAggVals are the aggregates that append computes beforehand.
AppendFromParent(t, leaf, idx, val) ==
  LET side(n) == leaf[n]
      at(n) == SubSeq(leaf, 1, n)
      new[k \in 0 .. maxDepth - 1] ==
        LET n == maxDepth - 1 - k
            child == new[k - 1]
            sibling == at(n + 1) \o <<"R">>
            grandchildDone ==
              IF k >= 2 /\ leaf[n + 2] = "R" THEN new[k - 2].rightIdx # Unset
              ELSE sibling \in DOMAIN t /\ t[sibling].rightIdx # Unset
            node == [t[at(n)] EXCEPT !.aggVal = computeAggregate(@, val)]
        IN  CASE k = 0 -> Leaf(idx, val)
              [] k > 0 /\ side(n + 1) = "L" -> LeftUpdated(node, child, grandchildDone)
              [] k > 0 /\ side(n + 1) = "R" -> RightUpdated(node, child)
  IN  [p \in DOMAIN t \cup {leaf} |->
         IF Len(p) <= Len(leaf) /\ p = at(Len(p)) THEN new[maxDepth - 1 - Len(p)]
         ELSE t[p]]

FreeChild(t, p) ==
  CHOOSE q \in {p \o <<"L">>, p \o <<"R">>} :
    q \notin DOMAIN t /\ (q = p \o <<"R">> => p \o <<"L">> \in DOMAIN t)

HasFreeChild(t, p) == p \o <<"L">> \notin DOMAIN t \/ p \o <<"R">> \notin DOMAIN t

append(val) ==
  LET rolled == Spot(tree) = Full
      t == IF rolled THEN Rollup(tree) ELSE tree
      parent == IF rolled THEN RollupSpot ELSE Spot(tree)
  IN  /\ Len(log) < MaxAppends
      /\ HasFreeChild(t, parent)
      /\ tree' = AppendFromParent(t, FreeChild(t, parent), Len(log) + 1, val)
      /\ log' = Append(log, val)
      /\ UNCHANGED aggFunc

Done == Len(log) >= MaxAppends /\ UNCHANGED vars

Next == (\E val \in Values(Len(log) + 1) : append(val)) \/ Done

Spec == Init /\ [][Next]_vars

-----------------------------------------------------------------------------

Index == 1 .. MaxAppends + NumLeaves + 1

\* The types of the state; the tree hangs together and has at most maxDepth levels.
TypeOK ==
  /\ DOMAIN tree \subseteq PathsTo(maxDepth - 1)
  /\ \A p \in DOMAIN tree :
        /\ \A n \in 0 .. Len(p) : SubSeq(p, 1, n) \in DOMAIN tree
        /\ tree[p] \in [leftIdx : Index, midIdx : Index, rightIdx : Index,
                        aggVal : Nat \cup {NoVal}]
  /\ \A i \in DOMAIN log : log[i] \in Values(i)

\* Where a node's indices end: an unfinished node ends with the newest value.
End(node) == IF node.rightIdx = Unset THEN Len(log) ELSE node.rightIdx

\* Every node that has begun holds the aggregate of exactly the values between
\* its indices, through all appends and rollups; RollUpUnitTest checks it for sums
\* of ones.
AggregatesExact ==
  \A p \in DOMAIN tree :
     tree[p].leftIdx # Unset =>
        tree[p].aggVal = Total(tree[p].leftIdx, End(tree[p]))

RootCoversAll ==
  log # <<>> => tree[<<>>].leftIdx = 1 /\ tree[<<>>].aggVal = Total(1, Len(log))

ChildrenSplit ==
  \A p \in DOMAIN tree :
     LET l == p \o <<"L">>
         r == p \o <<"R">>
     IN  r \in DOMAIN tree /\ tree[r].leftIdx # Unset =>
           /\ tree[l].leftIdx = tree[p].leftIdx
           /\ tree[r].leftIdx = tree[l].rightIdx + 1
           /\ tree[p].midIdx \in {tree[l].rightIdx, tree[r].leftIdx}

\* Nothing is forgotten and nothing is counted twice, through all rollups: the root
\* covers every value ever appended, and the children of a node split its values,
\* the right one beginning where the left one ends with midIdx, which
\* getAppendParent looks at, between them.
ValuesCovered == RootCoversAll /\ ChildrenSplit

\* appendFromParent never comes to its assert(false): what the index fields call a
\* place is one.
SpotIsFree ==
  LET s == Spot(tree)
  IN  IF s = Full THEN HasFreeChild(Rollup(tree), RollupSpot) ELSE HasFreeChild(tree, s)

\* Appending one by one builds the tree that the constructor builds at once.
AppendsBuildFullTree == Len(log) = NumLeaves => tree = FullTree

\* The newest half of what fits in the tree is there as leaves: rollup only takes
\* the leaves of older values.
RecentKept ==
  \A i \in DOMAIN log :
     i > Len(log) - NumLeaves \div 2 =>
        \E p \in DOMAIN tree : Len(p) = maxDepth - 1 /\ tree[p] = Leaf(i, log[i])
=============================================================================
