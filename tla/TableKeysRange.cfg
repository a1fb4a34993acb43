SPECIFICATION Spec
CONSTANTS
  p1 = p1
  r1 = r1
  r2 = r2
  DPFTables = {p1}
  DCFTables = {r1}
  Requests <- RangeQueries
  MaxRequests = 3
INVARIANTS
  FiltersAnswered
CHECK_DEADLOCK FALSE
