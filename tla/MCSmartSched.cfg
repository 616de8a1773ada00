SPECIFICATION SchedSpec
CONSTANTS
  Indices = {1, 2, 5}
  NoClient = none
  MinPriority <- MCMinPriority
  MaxPriority = 0
  MaxSlice = 2
  LongTime = 1
  Modulus = 8
INVARIANTS
  RoundRobin
  BusyShare
CHECK_DEADLOCK FALSE
