\* Three units from each end, buffers of two: threads meet empty and full sockets, and
\* hold more than one unit.
SPECIFICATION Spec
CONSTANTS
  Room = 2
  MaxSent = 3
INVARIANTS
  LossIsExplained
PROPERTIES
  KeepsChannel
  EndsAreSeen
CHECK_DEADLOCK FALSE
