SPECIFICATION Spec
CONSTANTS
    cached = cached
    uncached = uncached
    Requests = {r1, r2}
    Networks = {1, 2}
    Methods = {cached, uncached}
    Ttl <- MCTtl
    MaxDelay = 1
    MaxChanges = 1
    Horizon = 3
SYMMETRY RequestSymmetry
INVARIANT CacheHoldsSuccesses
CHECK_DEADLOCK FALSE
