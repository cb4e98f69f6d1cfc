SPECIFICATION Spec
CONSTANTS
    NumEntities = 2
    Fields = {1, 2}
    Values = {0, 1}
    PacketBackup = 2
    MaxParseEntities = 4
    MaxSnapshotEntities = 2
    Frames <- MCFramesWithNothing
    Aborts = FALSE
    MaxMessages = 3
    MaxParsed = 6
CHECK_DEADLOCK FALSE
INVARIANT SnapshotsAreTheServers
