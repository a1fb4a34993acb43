SPECIFICATION QuerySpec
CONSTANTS
  NUM_SERVERS = 3
  Unset = Unset
  c1 = c1
  c2 = c2
  dcf = dcf
  list = list
  other = other
  Client = {c1, c2}
  Tables <- MCTables
  MaxCalls <- MCMaxCalls
  WindowSize = 2
  Places = {0}
  APPEND_LOC = APPEND_LOC
  Idle = Idle
  Query = {q1}
  Words = 3
  Buffer = 1
  Capacity = 1
  Asker = c1
  FilterTable = dcf
  ValList = list
INVARIANTS
  InitNeverLost
  KeyRing
  QueryTypeOK
  ServersAgree
  AnswersConsistent
PROPERTIES
  SetupEnds
  EmpStepsAreRounds
