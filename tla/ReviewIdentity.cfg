\* The same instance: is a review always about the claim that has its id?
SPECIFICATION Spec
CONSTANTS
    Tenants = {t1, t2}
    Breaks = {b1, b2}
    Snapshots = {p2}
    PartyOf <- MCPartyOf
    Weekly = {}
    TenantOf <- MCTenantOf
    GroupOf <- MCGroupOf
    EndOf <- MCEndOf
    RankOf <- MCRankOf
    Window = 48
    None = None
    Pictures <- BreakPictures
    MaxId = 5
    MaxRuns = 5
    MaxVerdicts = 2
    t1 = t1
    t2 = t2
    b1 = b1
    b2 = b2
    b3 = b3
    d = d
    w1 = w1
    w2 = w2
    p2 = p2
    p3 = p3
    m = m
INVARIANTS ReviewIsOfItsClaim
CHECK_DEADLOCK FALSE
