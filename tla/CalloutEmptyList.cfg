SPECIFICATION Spec
CONSTANTS
  Cpus = {c1}
  Callouts = {k}
  CpuOf <- OneCpu
  Lcks = {}
  Clients = {x}
  Delays = {0, 3}
  Interval = 2
  NullReads = {"fault", "value"}
  Null = Null
INVARIANTS
  NoNullPointerIsFollowed
