SPECIFICATION Spec
CONSTANTS
    g = g
    a1 = a1
    b1 = b1
    b2 = b2
    Block <- MCBlock
    Genesis = g
    Parent <- MCParent
    nHeight <- MCHeight
    None = None
    MaxQueue = 2
    MaxRestarts = 1
INVARIANT NeverRefused
