CONSTANTS
  NUM_SERVERS = 3
  q1 = q1
  q2 = q2
  Query <- OneQuery
  NumFilters <- TwoFilters
  Serial = TRUE
  Flaky = {}
  NULL = NULL
  CQ = CQ
SPECIFICATION FairSpec
PROPERTIES QueriesAnswered ImplementsRoundExchange
