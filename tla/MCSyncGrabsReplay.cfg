SPECIFICATION Spec
CONSTANTS
  a = a
  b = b
  Client = {a, b}
  Guest = {a}
  Nobody = nobody
  Key = {k}
  Passives <- OneLowGrab
  AutoRepeat = FALSE
  MaxEvents = 2
INVARIANT PassiveGrabEnds
CHECK_DEADLOCK FALSE
