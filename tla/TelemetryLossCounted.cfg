SPECIFICATION Spec
CONSTANTS
    Jobs = {j1, j2}
    NoJob = NoJob
    BufferSize = 1
INVARIANT EveryLossCounted
CHECK_DEADLOCK FALSE
