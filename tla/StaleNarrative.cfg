\* A narrative of a case rebuilt while the API was being asked.
SPECIFICATION Spec
CONSTANTS
    Requests = {r1, r2}
    Keys = 2
    MaxAttempts = 2
    MaxId = 2
    MaxVersions = 2
    MaxOpened = 3
    None = None
CHECK_DEADLOCK FALSE
INVARIANTS NeverServedAgainstOtherCase
SYMMETRY Symmetry
