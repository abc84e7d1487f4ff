SPECIFICATION Spec
CONSTANTS
    Gateways = {g1}
    Rows = {r1}
    Queries = {q1}
    Ranges = {1, 2, 3}
    Minute = 3
    Phase = 1
    Recent = 0
    CommitDelay = 1
    MaxOrphans = 1
    Horizon = 2
INVARIANTS
    TypeOK
    SummaryIsExplained
PROPERTIES
    ViewFollowsLog
    ShutdownEnds
CHECK_DEADLOCK FALSE
