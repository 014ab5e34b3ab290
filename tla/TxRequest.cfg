SPECIFICATION FairSpec
CONSTANTS
    p1 = p1
    p2 = p2
    p3 = p3
    t1 = t1
    t2 = t2
    Peer = {p1, p2, p3}
    Tx = {t1, t2}
    Time = {0, 1}
    Rank <- MCRank
    Preference = 3
    Announced <- MCAnnounced
    None = None
INVARIANTS SanityCheck OffersHold
PROPERTIES KeepsPromise Settles
