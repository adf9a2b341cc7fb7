SPECIFICATION FairSpecAny
CONSTANTS
  c1 = c1
  c2 = c2
  a = a
  b = b
  d = d
  Null = Null
  Cpus = {c1, c2}
  Tasks = {a, b, d}
  CpuOf <- TwoAndOne
  MaxCnt = 3
  PollCpus = {c1}
  Pollings = {a, b}
  PollCpuOf <- BothOnOne
  Callers = {c1, x1, x2}
  CallCpus = {c1}
  Callouts = {a, b}
  CallCpuOf <- BothOnOne
  Lcks = {a}
  Clients = {x1}
  Delays <- PastAndLater
  Interval = 2
  NullReads = {"value"}
  PastCrossing = FALSE
INVARIANTS
  CountIsTheTask
  NothingIsForgotten
PROPERTIES
  ImplementsFairPending
  PollingFollowsItsState
  ExecutedWhenAsked
  EveryCallReturns
  ExecutedOnceOthersAreQuiet
