SPECIFICATION Spec
CONSTANTS
  Depth = 3
  Word = 8
  Modulus = 4
  SeedBits <- MCSeedBits
  Expand <- MCExpand
  ConvertV <- MCConvertV
  Convert <- MCConvert
  WindowSize = 1
  Settings <- MCSettings
  Tables <- MCTables
  Queries <- MCQueries
  Draws <- MCDraws
INVARIANT ChunksBalanced
CHECK_DEADLOCK FALSE
