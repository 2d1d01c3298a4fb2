CONSTANTS
  p1 = p1
  p2 = p2
  p3 = p3
  A = A
  B = B
  Nobody = Nobody
  NoTrain = NoTrain
  Players <- Connections
  Mine <- AConnects
  Leavers <- Once
  NameOf <- Names
  Reports = {}
  SceneryCount = 2
  MayExit = FALSE
  MaxInFlight = 1
SPECIFICATION FairSessionSpec
INVARIANTS ClientTypeOK NeverOwnTrain
PROPERTY LaterIsSeen
CHECK_DEADLOCK FALSE
