SPECIFICATION Spec
CONSTANTS
  t1 = t1
  t2 = t2
  t3 = t3
  Thread <- ThreeThreads
  N = 2
  NoThread = NoThread
INVARIANTS
  ReadyWhenReturned
