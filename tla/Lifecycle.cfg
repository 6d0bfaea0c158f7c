CONSTANTS
  LineCapacity = 2
  MaxLines = 3
  Callers = {c1, c2}
  Destructor = dtor
SPECIFICATION FairSpec
INVARIANTS
  LinesAccounted
  StopReturnsQuiet
PROPERTIES
  EveryStopReturns
CHECK_DEADLOCK FALSE
