SPECIFICATION FairSpec
CONSTANTS
    p1 = p1
    p2 = p2
    a = a
    b = b
    c = c
    Producers = {p1, p2}
    Loop = loop
    Coroutine = {a, b, c}
    Batches <- SinglesAndAPair
    NoCo = NoCo
INVARIANTS
    NoQueueRace
PROPERTIES
    ImplementsFifo
    QueuedRuns
    DrainEnds
