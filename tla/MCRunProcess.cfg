\* The call, a child and two descendants.
SPECIFICATION Spec
CONSTANTS
  child = child
  d1 = d1
  d2 = d2
  Procs = {child, d1, d2}
  Child = child
  PipeSize = 2
  Chunk = 2
  MaxOutput = 3
  Timeout = 2
  MaxInterrupts = 1
INVARIANTS
  AbortLeavesNoGroup
  ResultIsWhole
PROPERTIES
  KeepsPromise
  Finishes
\* The call ends, and then its processes do: the system really stops.
CHECK_DEADLOCK FALSE
