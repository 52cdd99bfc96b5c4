SPECIFICATION FairSpec
CONSTANTS
    Fn <- Everything
    Lookup <- MCLookup
    Fixed <- MCFixed
    Missing <- MCMissing
    Shape <- MCShape
    ReqBytes <- MCReqBytes
    ParBytes <- MCParBytes
    DatBytes <- MCDatBytes
    NoId = NoId
    Alien = Alien
    WCap = 3
    RCap = 2
    Wide = 8
    Junk = 1
    MaxCalls = 3
    MaxFaults = 0
    Faults <- NoFaults
INVARIANTS
    TypeOK
PROPERTIES
    StubsEnd
    FlushedRuns
