CONSTANTS
  Producers = {p1, p2, p3}
  Bufs = {b1, b2, b3}
  MaxBatch = 2
  None = None
SPECIFICATION Spec
INVARIANTS
  BuffersPartitioned
  SlotsExclusive
  BatchIsComplete
  NoMissedWakeup
  ExitMeansDrained
CHECK_DEADLOCK FALSE
