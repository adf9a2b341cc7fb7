SPECIFICATION SpecAny
CONSTANTS
  Threads = {t1, t2}
  T = {x, y}
  S = 4
  Unset = Unset
  QueueThreads = {t1, t2, t3}
  Containers = {n1, n2, n3}
  First = First
  Null = Null
  Writers = {t1, t2}
  Readers = {t3, t4}
  cpu_nums = 3
  Outsiders = {9}
  Garbage = {100}
  Cpus = {0, 1}
  Locks = {1, 2}
  Handled = {0}
  MaxDepth = 1
  FlagMod = 2
  Trying = TRUE
INVARIANTS
  EachContainerHasOneOwner
  ReadersSeeTheList
  EachCpuHasItsNumber
  MutualExclusion
  InterruptsOffUnlessMisled
PROPERTIES
  ImplementsBoundedFifo
  QueueImplementsBoundedFifo
