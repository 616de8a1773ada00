SPECIFICATION Spec
CONSTANTS
  c1 = c1
  c2 = c2
  k1 = k1
  k2 = k2
  Word = 2
  Clients = {c1, c2}
  Counters = {k1, k2}
  Alarms = {a1}
  None = none
  Freed = freed
  WaitValues <- MCSigns
  Deltas <- MCDeltas
  Scenarios <- MCScenarios
SYMMETRY Symmetry
INVARIANTS
  ListsExact
  WalkSound
  NothingDue
  TransitionsSeen
CHECK_DEADLOCK FALSE
