SPECIFICATION PartsSpec
CONSTANTS
  Sleeper = {c1, c2, c3}
  Waker = {w1}
  Delays = {0, 2}
  Timeout = 3
  MaxBack = 1
  MaxLag = 1
  Off = Off
  Others = {t1, t2}
  Loop = Loop
  MallocCnt = 1
  MaxObjects = 5
  Data = Data
  Thread = {t1, t2}
  N = 3
  MaxCo = 4
INVARIANTS
  ArmedForEarliest
  WakeUpEndsPoll
  PoolTypeOK
  EachNodeOnce
  IndexInRange
  Balanced
  LeastWhenBelowZero
PROPERTIES
  SleeperExpires
  GrowsOnlyWhenFull
