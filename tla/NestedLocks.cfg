SPECIFICATION Spec
CONSTANTS
  Cpus = {0, 1}
  Locks = {1, 2}
  Handled = {0}
  MaxDepth = 1
  FlagMod = 2
  Trying = FALSE
INVARIANT LockedWithInterruptsOff
