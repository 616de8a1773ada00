SPECIFICATION FairSpec
CONSTANTS
  a = a
  b = b
  Client = {a, b}
  Guest = {a}
  Nobody = nobody
  Key = {k}
  Passives <- BothGrabs
  AutoRepeat = TRUE
  MaxEvents = 2
INVARIANTS
  FreezeHasGrab
  NothingStuck
PROPERTIES
  OnlyTheFreezerThaws
  ImplementsFrozenDevices
CHECK_DEADLOCK FALSE
