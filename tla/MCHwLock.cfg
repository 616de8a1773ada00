SPECIFICATION Spec
CONSTANTS
  Proc = {x, a, b}
  Server = x
  Ctx = {x0, c1, c2}
  ServerCtx = x0
  Kernel = kernel
  NoProc = nobody
SYMMETRY ClientSymmetry
INVARIANTS
  MutualExclusion
  NoLostWakeup
  StoppedNeverHolds
CHECK_DEADLOCK FALSE
