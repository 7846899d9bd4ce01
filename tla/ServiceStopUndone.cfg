SPECIFICATION Spec
CONSTANTS
    Commands = {m1}
    Names = {"stop"}
    Calls = {k1}
    Console = Console
    Nobody = Nobody
    MaxLaunches = 2
    Faults = {}
PROPERTIES
    StopSticks
CHECK_DEADLOCK FALSE
