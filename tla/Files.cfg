SPECIFICATION Spec
CONSTANTS
    Threads = {t1, t2, tunnel}
    Tunnel = tunnel
    Session = session
    Config = config
    Paths = {session, config}
    Values = {a, b}
    None = None
    Torn = Torn
    MaxCalls = 2
    MaxOps = 2
    DiskFaults = {"io", "crash", "power"}
    TunnelFaults = {"install", "remove", "start", "scm", "missing"}
SYMMETRY Symmetric
INVARIANTS
    OnlyWholeFiles
    ResultIsTrue
    ServiceHasItsFile
PROPERTIES
    StoreIsAtomic
CHECK_DEADLOCK FALSE
