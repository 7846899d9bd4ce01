SPECIFICATION Spec
CONSTANTS
    Users = {alice, bob}
    NoUser = NoUser
    Workers = {w1, w2}
    Main = Main
    NoThread = NoThread
    Tokens = {token}
    Methods = {"connect", "login", "disconnect", "logout"}
    Faults = {"crash", "reboot", "throw", "stopFails", "fileFails"}
SYMMETRY Symmetric
INVARIANTS
    ServerIsPrivate
    OwnerPersisted
