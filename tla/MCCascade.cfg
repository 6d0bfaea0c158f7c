CONSTANTS
  Configs <- MCConfigs
  Scenes <- MCScenes
  MaxSlots = 2
  ReadBatch = 2
  MaxTakes = 2
  Net = 24
  MinSide = 8
  MaxCands = 16
  TileSide = 4
  TileOverlap = 50
  FloatShort = {}
  IouThresh = 45
  MergeIou = 50
  None = None
SPECIFICATION Spec
INVARIANTS
  AcceptedIffTree
  ObjectsFoundOnce
  OutputsFollowWires
CHECK_DEADLOCK FALSE
