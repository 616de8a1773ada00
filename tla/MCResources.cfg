SPECIFICATION Spec
CONSTANTS
  c1 = c1
  c2 = c2
  Clients = {c1, c2}
  Server = server
  None = none
  Ids = 2
  Fill = 2
  InitBuckets = 1
  MaxBuckets = 2
  Setups <- MCSetups
INVARIANTS
  WalksGoOn
  NothingDangles
  TablesAgree
  IdsFresh
  SavedSurvive
