SPECIFICATION Spec
CONSTANTS
    Messages <- MCMessages
    DisconnectsIn = {"error", "input", "preWrite", "postWrite", "disconnect",
                     "time", "init", "cgmessage", "cgtick"}
    Timeout = 3
    SlowInterval = 2
    FastInterval = 1
    MaxAtOnce = 2
    MaxInbox = 2
CHECK_DEADLOCK FALSE
INVARIANTS
    KickEndsConnection
    SafeToDisconnectInHandler
    ToldOnceOfTheEnd
