SPECIFICATION Spec
CONSTANTS
    e1 = e1
    e2 = e2
    Endpoints = {e1, e2}
    N = 2
    Configurations <- Lists
    Slots = {s1}
    Latencies = {0, 1}
    MaxFails = 3
    Settling = {e1}
INVARIANTS
    TypeOK
    OneEndpointIsEnough
PROPERTIES
    QuietAfterStop
    RequestsReturn
    ChecksSpec
    SteadyRecovers
CHECK_DEADLOCK FALSE
