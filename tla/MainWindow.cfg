SPECIFICATION FairSpec
CONSTANTS
    None = None
    Failed = Failed
    Sessions <- StartSessions
    MaxActions = 2
    MaxDialogs = 1
    Faults = {"serviceStops"}
INVARIANTS
    OneOperation
    SignedOutShowsLogin
    ChoiceIsCurrent
    OneAutoConnect
PROPERTIES
    StatusConverges
