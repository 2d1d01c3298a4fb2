CONSTANTS
  p1 = p1
  p2 = p2
  p3 = p3
  Nobody = Nobody
  NoTrain = NoTrain
  Players <- ThreePlayers
  Reports = {}
  SceneryCount = 2
  MayExit = FALSE
  MaxInFlight = 1
SYMMETRY Symmetry
SPECIFICATION Spec
INVARIANT WorldStateComplete
CHECK_DEADLOCK FALSE
