SPECIFICATION FairSpec
CONSTANTS
    a = a
    b = b
    c = c
    p1 = p1
    p2 = p2
    Coroutine = {a, b, c}
    Processor = {p1, p2}
    Home <- TwoProcessors
    MaxLocks = 2
    NoCo = NoCo
INVARIANTS
    TypeOK
    StateAgrees
    WaitsInOnePlace
    NoWaiterLeftBehind
PROPERTIES
    ImplementsRWLock
    EverybodyEnds
