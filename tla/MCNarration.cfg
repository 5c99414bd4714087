\* Two requests open at once, MaxOpened in all; two keys; MaxVersions rows over two ids.
SPECIFICATION FairSpec
CONSTANTS
    Requests = {r1, r2}
    Keys = 2
    MaxAttempts = 2
    MaxId = 2
    MaxVersions = 2
    MaxOpened = 3
    None = None
INVARIANTS TypeOK NoKeyLeftUntried CaseNarrativeCurrent
PROPERTIES CacheStable EveryRequestAnswered
CHECK_DEADLOCK FALSE
