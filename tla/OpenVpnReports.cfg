SPECIFICATION Spec
CONSTANTS
    MaxLaunches = 3
    Faults = {"dies", "channelLost", "unkillable"}
PROPERTIES
    SuccessMeansConnected
    KillsItsOwn
    EngineSpec
