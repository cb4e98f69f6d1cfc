CONSTANTS
    NumEntities = 2
    PacketBackup = 3
    CommandRing = 2
    Scenes <- MCScenes
    MaxCommands = 3
    MaxMessages = 4
    MaxMaps = 1

SPECIFICATION FairSpec
CHECK_DEADLOCK FALSE
INVARIANTS
    ValidIsInTheWorld
    AddedAreInTheWorld
    ParsedIsAnnounced
    MonitorsFollowTheGame
    SnapNumNeverGoesBackward
    ActiveHasEntered
PROPERTIES
    BackwardIsNoIssue
