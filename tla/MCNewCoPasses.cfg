SPECIFICATION PassesSpec
CONSTANTS
    p1 = p1
    a = a
    b = b
    c = c
    Producers = {p1}
    Loop = loop
    Coroutine = {a, b, c}
    Batches <- SinglesAndAPair
    NoCo = NoCo
INVARIANTS
    RunInNextPass
