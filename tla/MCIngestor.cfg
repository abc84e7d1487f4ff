SPECIFICATION Spec
CONSTANTS
    Ingestors = {i1}
    Gateways = {g1, g2}
    Networks = {n1, n2}
    Settling = {n1}
    NoNetwork = NoNetwork
    NoBlock = NoBlock
    MaxNumber = 2
    Versions = {1, 2}
    MaxNews = 1
INVARIANTS
    TypeOK
    SeededHasDefault
PROPERTIES
    ArchiveSpec
    CatchesUp
CHECK_DEADLOCK FALSE
