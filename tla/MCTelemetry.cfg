SPECIFICATION Spec
CONSTANTS
    Jobs = {j1, j2}
    NoJob = NoJob
    BufferSize = 1
INVARIANTS
    TypeOK
    ReportedOnce
    NoSilentLossBeforeStop
    CleanDrainLeavesOnlyRacers
PROPERTIES
    NoWriteAfterCleanStop
    WorkerEnds
    LedgerSpec
CHECK_DEADLOCK FALSE
