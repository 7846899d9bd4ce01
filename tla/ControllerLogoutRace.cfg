SPECIFICATION Spec
CONSTANTS
    Users = {alice}
    NoUser = NoUser
    Workers = {w1, w2}
    Main = Main
    NoThread = NoThread
    Tokens = {token}
    Methods = {"login", "logout", "quickConnect"}
    Faults = {}
INVARIANTS
    SignedOutIsDown
