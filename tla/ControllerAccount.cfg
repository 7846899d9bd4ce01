SPECIFICATION FairSpec
CONSTANTS
    Users = {alice, bob}
    NoUser = NoUser
    Workers = {w1, w2}
    Main = Main
    NoThread = NoThread
    Tokens = {token}
    Methods = {"login", "logout", "servers", "quickConnect"}
    Faults = {"fileFails"}
PROPERTIES
    LogoutLeavesNoTunnel
    StopCompletes
