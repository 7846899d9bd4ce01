SPECIFICATION FairSpec
CONSTANTS
    MaxLaunches = 2
    Faults = {"dies", "channelLost", "unkillable"}
INVARIANTS
    OneProcess
    FailureTerminates
PROPERTIES
    CallReturns
    LostProcessEnds
