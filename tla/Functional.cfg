SPECIFICATION FairSpecAny
CONSTANTS
  c1 = c1
  f1 = f1
  f2 = f2
  Null = Null
  Cpus = {c1}
  Functionals = {f1, f2}
  CpuOf <- BothOnOneCpu
  Clients = {k1, k2}
  Capacity = 1
  Threads = {t1, t2}
  Strings = {s1, s2, s3}
  Length = 2
  cpu1 = c1
  tty = f1
INVARIANTS
  StateIsTheTask
  OutputIsInOrder
PROPERTIES
  EveryPushIsServed
  EveryStringIsPrinted
