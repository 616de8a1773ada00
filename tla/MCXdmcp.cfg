SPECIFICATION FairSpec
CONSTANTS
  MaxId = 2
  MaxKey = 3
  Capacity = 2
  RtxLimit = 2
  KaRtxLimit = 2
  Scenarios <- MCScenarios
INVARIANTS
  KeyPassed
  SessionHasSocket
PROPERTIES
  ImplementsSessions
CHECK_DEADLOCK FALSE
