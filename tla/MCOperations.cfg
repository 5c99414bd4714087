\* What is there after up to three merges or weeks, one more change, and two detector runs.
SPECIFICATION Spec
CONSTANTS
    Tenants = {t1, t2}
    Arrivals <- MCArrivals
    Histories <- MCHistories
    Parties = {p1}
    PartyTenant <- MCPartyTenant
    Ratios = {0, 1, 9, None}
    Weeks <- MCWeeks
    Pasts <- MCPasts
    None = None
    MaxChanges = 1
    MaxRuns = 2
    t1 = t1
    t2 = t2
    p1 = p1
INVARIANTS TypeOK OverdueBatchesListed PaidTwiceIsListed SpikesJudgedByPast
PROPERTIES ScopedRebuild
CHECK_DEADLOCK FALSE
