SPECIFICATION FairSpec
CONSTANTS
  o1 = o1
  o2 = o2
  o3 = o3
  f1 = f1
  f2 = f2
  t1 = t1
  t2 = t2
  Others = {t1, t2}
  Loop = Loop
  Object <- ThreeObjects
  Fd = {f1, f2}
  NoCo = NoCo
  NoFd = NoFd
INVARIANTS
  TypeOK
  OnePlace
PROPERTIES
  WakesRun
  ImplementsLife
  DueRuns
  DeadReclaimed
