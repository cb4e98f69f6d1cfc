CONSTANTS
    NumEntities = 2
    PacketBackup = 3
    CommandRing = 2
    Scenes <- MCScenes
    MaxCommands = 3
    MaxMessages = 4
    MaxMaps = 1

SPECIFICATION FairSpec
INVARIANTS
    EntitiesAreTheSnapshots
    ToldIsTheWorld
    CommandsExecutedAsSent
    CommandsMatchTheSnapshot
PROPERTIES
    EventuallyShown
CHECK_DEADLOCK FALSE
