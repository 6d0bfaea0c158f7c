SPECIFICATION Spec
CONSTANTS
  c1 = c1
  c2 = c2
  s1 = s1
  s2 = s2
  Cameras = {c1, c2}
  Dataset <- MCDataset
  Outs = {o1, o2}
  Gops = {10, 30}
  Jobs = 2
  MaxRuns = 3
  MaxFaults = 2
  None = None
INVARIANTS
  ManifestRemembersDisk
  ForcedRunRepairs
  EntriesSurvive
CHECK_DEADLOCK FALSE
