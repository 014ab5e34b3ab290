SPECIFICATION GapSpec
CONSTANTS
    G = G
    A1 = A1
    A2 = A2
    B2 = B2
    B3 = B3
    C1 = C1
    Null = Null
    Genesis = G
    Block <- MCBlock
    Parent <- MCParent
    Work <- MCWork
    Addr <- MCAddr
    Verdicts <- TwoVerdicts
    Invalidable <- OneA1
    Reconsiderable <- TwoReconsiderable
    Precious = {}
    MaxPrecious = 0
INVARIANTS
    FailureClosed
    TipValid
    TipMostWork
    BestHeaderKept
