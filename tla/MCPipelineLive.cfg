CONSTANTS
  Streams <- OneStream
  Bufs = {b1}
  None = None
  MaxBatch = 2
  Depth = 2
  Dims = {d1, d2}
  NoDims = NoDims
  Capacity = 1
  Modes = {FALSE}
  Pollers = {c1}
  HoldFrames = FALSE
  Skip = 2
  MaxFrames = 8
  MayThrow = FALSE
  MayStop = TRUE
SPECIFICATION FairSpec
PROPERTIES
  PublishedIsShown
  StopCompletes
CHECK_DEADLOCK FALSE
