SPECIFICATION Spec
CONSTANTS
    t1 = t1  t2 = t2  c1 = c1  c2 = c2  c3 = c3  c4 = c4
    None = None
    Threads <- TwoThreads
    Callers <- MCCallers
    MinSizes = {0, 2}
    Kinds = {"client stream", "user stream", "object", "buffer"}
    Max = 3
INVARIANTS UniqueUntilRace Accounted OwnIndex WithinTable
PROPERTIES GrowsOnlyWhenExhausted ImplementsPool
