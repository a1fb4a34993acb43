SPECIFICATION Spec
CONSTANTS
  p1 = p1
  r1 = r1
  r2 = r2
  DPFTables = {p1}
  DCFTables = {r1, r2}
  Requests <- OneTableOrRange
  MaxRequests = 4
INVARIANTS
  TypeOK
  FreshAnswered
  KeysConsumed
  EvalInBounds
CHECK_DEADLOCK FALSE
