CONSTANTS
  c1 = c1
  c2 = c2
  Clients = {c1, c2}
  Wakeup = Wakeup
  sub = sub
  Dirs = {root, sub}
  Root = root
  None = None
  NoConn = NoConn
  Asks <- GoesAndTries
  MaxSent <- TwoAndOne
SPECIFICATION FairSpec
INVARIANT TypeOK
PROPERTIES AnswerIsMine Answered CloseReturns
CHECK_DEADLOCK FALSE
