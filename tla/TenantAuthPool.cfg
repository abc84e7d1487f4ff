SPECIFICATION Spec
CONSTANTS
    Requests = {r1, r2}
    Keys = {k1, k2}
    FirstKey = k1
    Rotations = {t1}
    MaxConns = 2
    Ttl = 1
    MaxDelay = 1
    MaxStarted = 3
    Horizon = 2
PROPERTY MatchIsAuthenticated
CHECK_DEADLOCK FALSE
