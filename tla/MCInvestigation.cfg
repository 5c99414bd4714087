\* Detectors, clustering and verdicts: MaxRuns runs, MaxVerdicts verdicts, ids up to MaxId.
SPECIFICATION Spec
CONSTANTS
    Tenants = {t1, t2}
    Breaks = {b1, b3}
    Snapshots = {d, w1, w2, p2, p3}
    PartyOf <- MCPartyOf
    Weekly = {w1, w2}
    TenantOf <- MCTenantOf
    GroupOf <- MCGroupOf
    EndOf <- MCEndOf
    RankOf <- MCRankOf
    Window = 48
    None = None
    Pictures <- MCPictures
    MaxId = 5
    MaxRuns = 4
    MaxVerdicts = 2
    t1 = t1
    t2 = t2
    b1 = b1
    b2 = b2
    b3 = b3
    d = d
    w1 = w1
    w2 = w2
    p2 = p2
    p3 = p3
    m = m
INVARIANTS TypeOK OneRowPerSubject AlertsHaveTheirCase FreshCasesSplitClaims ChainsOfWindow ValidationReachesAlerts 
CHECK_DEADLOCK FALSE
