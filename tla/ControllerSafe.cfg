SPECIFICATION Spec
CONSTANTS
    Users = {alice, bob}
    NoUser = NoUser
    Workers = {w1, w2}
    Main = Main
    NoThread = NoThread
    Tokens = {token}
    Methods = {"connect", "login", "saveSettings", "disconnect"}
    Faults = {"fileFails"}
SYMMETRY Symmetric
INVARIANTS
    ChangeHoldsLock
    OwnerTracksTunnel
    OneEngine
    TechnologyAgrees
PROPERTIES
    NoTakeover
