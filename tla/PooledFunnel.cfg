\* The same instance: does the funnel drift look at the own weeks of a beneficiary?
SPECIFICATION Spec
CONSTANTS
    Tenants = {t1, t2}
    Events = {e1, e2, e3, e4, e5, e6, e7, e8, e9}
    Facts <- MCFacts
    Accounts = {"b"}
    Merchants = {m1, m2}
    Individuals = {i1, i2}
    PartyTenant <- MCPartyTenant
    Worlds <- MCWorlds
    None = None
    Unreadable = Unreadable
    MinWeekly = 2
    MinOwnModel = 4
    Labels <- MCLabels
    t1 = t1
    t2 = t2
    m1 = m1
    m2 = m2
    i1 = i1
    i2 = i2
    e1 = e1
    e2 = e2
    e3 = e3
    e4 = e4
    e5 = e5
    e6 = e6
    e7 = e7
    e8 = e8
    e9 = e9
INVARIANTS FunnelNeedsOwnHistory
CHECK_DEADLOCK FALSE
