CONSTANTS
  RingSeconds = 1
  MaxPackets = 4
  MaxGap = 1
  FirstDelta = 1
SPECIFICATION RelaySpec
INVARIANTS
  ClipCoversWindow
  PublishedSeamlessly
CHECK_DEADLOCK FALSE
