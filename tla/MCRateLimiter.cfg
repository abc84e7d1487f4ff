SPECIFICATION Spec
CONSTANTS
    Requests = {r1, r2, r3}
    Quota <- MCQuota
    Window <- MCWindow
    Ttl <- MCTtl
    Second = 2
    Skew = 0
    Horizon = 4
    MaxLost = 1
SYMMETRY RequestSymmetry
INVARIANTS
    TypeOK
    AdmittedWithinQuota
    RejectedOnlyWhenFull
    RetryAfterWithinASecond
CHECK_DEADLOCK FALSE
