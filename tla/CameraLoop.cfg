CONSTANTS
  Streams = {s1}
  Cam = s1
  Depth = 2
  Dims = {d1, d2}
  NoDims = NoDims
  AllocFails = TRUE
  FrameLimit = 6
  PacketFrames = 2
  SkipFactor = 2
  FirstBackoff = 1
  BackoffMax = 3
  GiveUp = 4
SPECIFICATION CameraSpec
INVARIANTS
  SurfacesOwned
  CameraKept
PROPERTIES
  CameraEnds
CHECK_DEADLOCK FALSE
