SPECIFICATION Spec
CONSTANTS
  o1 = o1
  o2 = o2
  o3 = o3
  f1 = f1
  f2 = f2
  t1 = t1
  t2 = t2
  Others = {t1}
  Loop = Loop
  Object <- TwoObjects
  Fd = {f1}
  NoCo = NoCo
  NoFd = NoFd
INVARIANTS
  EventIsAwaited
