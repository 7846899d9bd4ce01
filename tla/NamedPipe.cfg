SPECIFICATION FairSpec
CONSTANTS
    Clients = {c1, c2, c3}
    Instances = {i1, i2}
    NoClient = NoClient
    NoInstance = NoInstance
INVARIANTS
    NoInstanceLeaks
    StopIsClean
PROPERTIES
    HandledIsAnswered
    CallEnds
    StopReturns
