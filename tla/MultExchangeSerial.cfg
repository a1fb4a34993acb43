CONSTANTS
  NUM_SERVERS = 3
  q1 = q1
  q2 = q2
  Query <- TwoQueries
  NumFilters <- TwoFilters
  Serial = TRUE
  Flaky = {}
  NULL = NULL
  CQ = CQ
SPECIFICATION Spec
INVARIANTS TypeOK SharesPaired ServerReachable BoundedSkew
PROPERTIES SlotHandoff StepsAreRounds
