CONSTANTS
  Streams = {cam}
  Results <- MCResults
  NoResult = NoResult
  Capacity = 2
  Modes = {TRUE, FALSE}
  Pollers = {main}
  Timer = timer
  Nobody = Nobody
  Depth = 3
  MaxPushes = 3
  MaxLogs = 1
SPECIFICATION PySpec
INVARIANT HeldFramesLive
CHECK_DEADLOCK FALSE
