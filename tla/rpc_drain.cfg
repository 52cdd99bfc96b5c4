SPECIFICATION Spec
CONSTANTS
    Fn <- Data
    Lookup <- MCLookup
    Fixed <- MCFixed
    Missing <- MCMissing
    Shape <- MCShape
    ReqBytes <- MCReqBytes
    ParBytes <- MCParBytes
    DatBytes <- MCDatBytes
    NoId = NoId
    Alien = Alien
    WCap = 3
    RCap = 2
    Wide = 2
    Junk = 1
    MaxCalls = 3
    MaxFaults = 1
    Faults <- LateOrWrite
INVARIANTS
    MessageBoundary
