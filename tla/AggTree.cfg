SPECIFICATION Spec
CONSTANTS
  maxDepth = 5
  Values <- MCValues
  MaxAppends = 34
INVARIANTS
  TypeOK
  AggregatesExact
  ValuesCovered
  SpotIsFree
  RecentKept
  AppendsBuildFullTree
