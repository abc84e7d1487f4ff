SPECIFICATION Spec
CONSTANTS
    Requests = {r1, r2}
    Keys = {k1, k2, k3}
    FirstKey = k1
    Rotations = {t1, t2}
    MaxConns = 3
    Ttl = 0
    MaxDelay = 1
    MaxStarted = 3
    Horizon = 2
INVARIANTS
    TypeOK
    NoConnectionLeaks
    RotationRevokesAll
    RefusedOnlyForCause
PROPERTIES
    StaleForAtMost
    AuthenticationEnds
CHECK_DEADLOCK FALSE
