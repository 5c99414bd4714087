\* One resolver; at most MaxArrivals merges, some in the middle of a run.
SPECIFICATION Spec
CONSTANTS
    Events = {e1, e2, e3}
    Tenants = {t1, t2}
    TenantOf <- MCTenantOf
    Sources = {s1, s2}
    Fields = {name}
    Vals = {ann, bob}
    None = None
    Arrivals <- MCArrivals
    MaxArrivals = 4
    e1 = e1
    e2 = e2
    e3 = e3
    t1 = t1
    t2 = t2
    s1 = s1
    s2 = s2
    name = name
    ann = ann
    bob = bob
INVARIANTS TypeOK MutuallyExclusive LinksLead QuietIsResolved
PROPERTIES ProfilesOnlyGrow ImplementsRegister
