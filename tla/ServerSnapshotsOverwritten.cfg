SPECIFICATION Spec
CONSTANTS
    NumEntities = 2
    Fields = {1, 2}
    Values = {0, 1}
    PacketBackup = 2
    MaxParseEntities = 4
    MaxSnapshotEntities = 2
    Frames <- MCFrames
    Aborts = TRUE
    MaxMessages = 4
    MaxParsed = 8
CHECK_DEADLOCK FALSE
INVARIANT SnapshotsAreTheServers
