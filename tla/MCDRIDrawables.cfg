SPECIFICATION FairSpec
CONSTANTS
  c1 = c1
  c2 = c2
  w1 = w1
  w2 = w2
  Server = x
  Clients = {c1, c2}
  Windows = {w1, w2}
  None = none
  Setups <- MCSetups
  Modulus = 16
  Start = 14
  MaxStamps = 2
INVARIANTS
  RenderCurrent
  TableConsistent
  DrawableLockExcludes
CHECK_DEADLOCK FALSE
PROPERTIES
  ServerReturns
  ClientRenders
