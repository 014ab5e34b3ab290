SPECIFICATION FairSpec
CONSTANTS
    G = G
    A1 = A1
    A2 = A2
    B2 = B2
    B3 = B3
    C1 = C1
    Null = Null
    Genesis = G
    Block <- MCBlock
    Parent <- MCParent
    Work <- MCWork
    Addr <- MCAddr
    Verdicts <- MCVerdicts
    Invalidable <- OneA1
    Reconsiderable = {}
    Precious <- TwoPrecious
    MaxPrecious = 1
INVARIANTS
    TypeOK
    LinkedExact
    CandidatesSettled
    FailureCaused
    OnlyGuilty
    TipBest
PROPERTIES
    ForwardProgress
    Converges
