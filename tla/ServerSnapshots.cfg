SPECIFICATION Spec
CONSTANTS
    NumEntities = 2
    Fields = {1, 2}
    Values = {0, 1}
    PacketBackup = 2
    MaxParseEntities = 7
    MaxSnapshotEntities = 5
    Frames <- MCFrames
    Aborts = TRUE
    MaxMessages = 4
    MaxParsed = 7
CHECK_DEADLOCK FALSE
INVARIANTS
    SnapshotsAreTheServersUntilAbort
    DeltaBasesAreIntact
    DeltaBasesAreHeld
