CONSTANTS
  Streams = {cam}
  Results <- MCResults
  NoResult = NoResult
  Capacity = 2
  Modes = {TRUE, FALSE}
  Pollers = {main, worker}
  Timer = timer
  Nobody = Nobody
  Depth = 3
  MaxPushes = 3
  MaxLogs = 1
SPECIFICATION PyFairSpec
INVARIANTS
  NothingVanishes
  NoStaleDelivery
  FetchReadsLiveRing
PROPERTIES
  FinishedIsFinal
  DroppedIsDestroyed
CHECK_DEADLOCK FALSE
