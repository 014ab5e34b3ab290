SPECIFICATION Spec
CONSTANTS
    r1 = r1
    r2 = r2
    chain = chain
    mining = mining
    Null = Null
    Request <- MCRequest
    Method <- MCMethod
    TTL = 2
    MaxLatency = 1
    MaxTime = 5
SYMMETRY Symmetry
INVARIANT BoundedAge
