SPECIFICATION Spec
CONSTANTS
  t1 = t1
  t2 = t2
  t3 = t3
  Threads = {t1, t2}
  GetId <- PoolIds2
  FlagMod = 4
  InitId <- ZeroedLock
  Reentrant = FALSE
INVARIANT NoSpuriousAssert
CHECK_DEADLOCK FALSE
