SPECIFICATION FairSpec
CONSTANTS
    Servicer = {s1, s2}
    Producer = {p1, p2}
    Shutter = shutter
    Limit = 0
    MaxCallbacks = 1
    None = None
INVARIANTS NotForgotten
PROPERTIES Serial SyncReturns Drains
CHECK_DEADLOCK FALSE
