CONSTANTS
  NUM_SERVERS = 3
  q1 = q1
  q2 = q2
  Query <- OneQuery
  NumFilters <- TwoFilters
  Serial = TRUE
  Flaky = {0}
  NULL = NULL
  CQ = CQ
SPECIFICATION Spec
INVARIANTS ShareNeverDuplicated
CHECK_DEADLOCK FALSE
