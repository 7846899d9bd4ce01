SPECIFICATION FairSpec
CONSTANTS
    Commands = {m1}
    Names = {"install", "uninstall", "start", "stop", "restart"}
    Calls = {k1}
    Console = Console
    Nobody = Nobody
    MaxLaunches = 3
    Faults = {"crash", "start", "scm", "recovery", "console"}
INVARIANTS
    StoppedMeansReleased
    
    AtMostOnce
PROPERTIES
    CallsAnswered
    ComesBack
