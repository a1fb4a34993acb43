CONSTANTS
  NUM_SERVERS = 2
  q1 = q1
  q2 = q2
  Query <- TwoQueries
  NumFilters <- TwoFilters
  Serial = FALSE
  Flaky = {}
  NULL = NULL
  CQ = CQ
SPECIFICATION Spec
INVARIANTS ShareInOnePlace NoLostWakeup
SYMMETRY QuerySymmetry
