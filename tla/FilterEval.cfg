SPECIFICATION Spec
CONSTANTS
  Modulus = 16
  NumQueries = 2
  NumFilters <- OneThenThree
  Modes = {TRUE, FALSE}
  WindowSize = 8
  Row = 5
  Alpha = 5
  Seeds = {3, 6}
  PrfInputs = 256
  Prf <- MCPrf
  KeyRings <- SameOrOwn
INVARIANTS
  TypeOK
  Replicated
  AggregateCorrect
  MacCheckHolds
