CONSTANTS
  t1 = t1
  t2 = t2
  t3 = t3
  created = created
  destroyed = destroyed
  NoLine = NoLine
  Nobody = Nobody
  Threads <- ThreeThreads
  Lines <- TwoLines
SPECIFICATION FairSpec
INVARIANT WritersKeepOut
PROPERTIES SlotSpec CallReturns
