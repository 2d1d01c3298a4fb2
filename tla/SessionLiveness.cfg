CONSTANTS
  p1 = p1
  p2 = p2
  p3 = p3
  Nobody = Nobody
  NoTrain = NoTrain
  Players <- TwoPlayers
  Reports = {"MOVETO", "EVENT"}
  SceneryCount = 2
  MayExit = TRUE
  MaxInFlight = 1
SPECIFICATION FairSpec
PROPERTIES DepartureIsHandled ShutdownEnds
CHECK_DEADLOCK FALSE
