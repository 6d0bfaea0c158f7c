SPECIFICATION AppSpec

CONSTANTS
  Settled = settled
  OtherNames = {"r8k", "nonkey"}
  NotANumber = notanumber
  NaN = nan
  VectorLen = 3
  GALLERY_PER_STREAM = 1
  MaxResults = 3
  EngineFiles <- MCEngineFiles
  Logits <- MCLogits
  Reading <- MCReading
  ProgramsToRun <- MCPrograms
  Frames <- MCFrames
  Requests <- MCRequests
  FloatShort <- MCFloatShort
  DoubleShort <- MCDoubleShort

INVARIANTS
  OutcomesAsExpected
  GraphIsTheObjects
  OutputsFollowNames
  ProgramsCountRight
  TilesAsPredicted
  BindingIsTheLimit

PROPERTY DialsSuffice

CHECK_DEADLOCK FALSE
