\* Without a sweep.
SPECIFICATION Spec
CONSTANTS
  Backends <- MCBackends
  Warmups = 1
  Repeats = 2
  MemSweep <- MCNoSweep
INVARIANTS
  SomePromiseIsKept
CHECK_DEADLOCK FALSE
