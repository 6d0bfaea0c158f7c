CONSTANTS
  Streams <- OneStream
  Bufs = {b1, b2, b3}
  None = None
  MaxBatch = 2
  Depth = 2
  Dims = {d1, d2}
  NoDims = NoDims
  Capacity = 1
  Modes = {TRUE, FALSE}
  Pollers = {c1}
  HoldFrames = TRUE
  Skip = 1
  MaxFrames = 3
  MayThrow = TRUE
  MayStop = TRUE
SPECIFICATION Spec
SYMMETRY BufSymmetry
INVARIANTS
  SlotHasOneOwner
  FrameCopyIntact
PROPERTIES
  DeliversInOrder
CHECK_DEADLOCK FALSE
