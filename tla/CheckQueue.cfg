SPECIFICATION FairSpec
CONSTANTS
    m1 = m1
    m2 = m2
    w1 = w1
    w2 = w2
    good1 = good1
    good2 = good2
    bad1 = bad1
    bad2 = bad2
    None = None
    Master <- MCMaster
    Worker <- MCWorker
    Check <- MCCheck
    Bad <- MCBad
    nBatchSize = 2
INVARIANTS CountsExact CompleteExact
PROPERTIES Completes Stops
CHECK_DEADLOCK FALSE
