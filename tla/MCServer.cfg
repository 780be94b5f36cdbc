SPECIFICATION FairSpec
CONSTANTS
  p1 = p1
  p2 = p2
  Proc <- TwoProcs
  Acceptor = {p1}
  Client = {k1, k2}
  MaxFd = 1
  FirstSize = 1
  Rounds = 2
  None = None
INVARIANTS
  FileWhileHeld
  CountTouchedByOne
  WaitersAreHeard
  TimesCountsServed
  AnswerIsHeard
PROPERTIES
  ConnectionEnds
CHECK_DEADLOCK FALSE
