CONSTANTS
  main = main
  str = str
  left = left
  v1 = v1
  NoTrack = NoTrack
  Tracks <- TheTracks
  Length <- Lengths
  Vehicles = {v1}
  Offsets <- Axles2
  Loaded <- AsLoaded
  Switches <- Commands
  Distances <- Steps
  MaxCount = 2
SPECIFICATION Spec
INVARIANT DistanceIsFromMiddle
CHECK_DEADLOCK FALSE
