SPECIFICATION FairSpecAny
CONSTANTS
  t1 = t1
  t2 = t2
  t3 = t3
  Threads = {t1, t2, t3}
  GetId <- PoolIds3
  FlagMod = 4
  InitId <- UsedLock
  Reentrant = TRUE
  c1 = c1
  a = a
  b = b
  d = d
  Null = Null
INVARIANTS
  MutualExclusion
  NoSpuriousAssert
  RelockIsCaught
PROPERTIES
  LockIsHandedOut
  ImplementsFairTaskFifo
  NothingIsOverslept
CHECK_DEADLOCK FALSE
