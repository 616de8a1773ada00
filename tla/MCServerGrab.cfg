SPECIFICATION FairSpec
CONSTANTS
  Clients <- MCClients
  Nobody = nobody
  Scenarios <- MCScenarios
INVARIANTS
  InputRemembered
  Heard
  WaiterHasTurn
  NoStaleDescriptor
PROPERTIES
  GrabExcludes
  GoneIsClosed
CHECK_DEADLOCK FALSE
