SPECIFICATION FairSpec
CONSTANTS
    Messages <- MCMessages
    DisconnectsIn = {"timeout", "error", "print", "command", "gamestate", "snapshot"}
    Timeout = 2
    SlowInterval = 2
    FastInterval = 1
    MaxAtOnce = 2
    MaxInbox = 2
CHECK_DEADLOCK FALSE
INVARIANTS
    SafeToDisconnectInHandler
    NeverHalfClosed
    ToldOnceOfTheEnd
PROPERTIES
    SilenceEndsConnection
    DueIsSent
