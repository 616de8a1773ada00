SPECIFICATION FairSpec
CONSTANTS
  Proc = {x, a}
  Server = x
  Ctx = {x0, c1}
  ServerCtx = x0
  Kernel = kernel
  NoProc = nobody
PROPERTIES
  ImplementsRobustLock
  SleeperWoken
CHECK_DEADLOCK FALSE
