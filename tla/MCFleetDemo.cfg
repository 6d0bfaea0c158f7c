SPECIFICATION FleetSpec
CONSTANTS
  Posts = {p1, p2}
  Bodies <- MCBodies
  Clients = {c1}
  Capacity = 1
  MaxDial = 2
  MaxGens = 4
  MaxEvents = 2
  Nobody = Nobody
INVARIANTS
  PostTakesEffect
  EngineOutlivesPosts
  BrowserSeesNewest
PROPERTIES
  PostReturns
CHECK_DEADLOCK FALSE
