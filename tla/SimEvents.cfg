CONSTANTS
  rep = rep
  push = push
  clock = clock
  lever = lever
  styczniki = styczniki
  czuwak = czuwak
  NoEvent = NoEvent
  NoHolder = NoHolder
  Events <- MCEvents
  Holders <- MCHolders
  Commands <- MCCommands
  Body <- MCBody
  Launches <- MCLaunches
  StateEvents <- MCStateEvents
  Momentary <- MCMomentary
  Delays = {0, 1, 2}
  States = {0, 1, 2}
  FrameTimes = {1, 2}
  MaxTime = 3
SPECIFICATION FairSpec
INVARIANTS TypeOK QueueIndexed
PROPERTIES TimersSpec FrameEnds KeepsRepeating ForgottenOnlyForAnother
