SPECIFICATION Spec
CONSTANTS
    Networks = {n1}
    Signatures = {"a", "b"}
    Clients = {c1, c2, c3}
    NoClient = NoClient
    Handlers = {h1}
    MaxChanges = 2
    MaxFaults = 1
INVARIANTS
    TypeOK
    NoStrayChecks
PROPERTIES
    DirectorySpec
    ReloadsConverge
    GetReturns
    StopEndsChecks
