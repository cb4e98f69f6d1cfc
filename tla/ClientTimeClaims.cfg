SPECIFICATION Spec
CONSTANTS
    ResetTime = 4
    MaxDeltaTime = 1
    Margin = 0
    SlowDown = 1
    SpeedUp = 1
    Nudges = {}
    FirstServerCount = 1
    ServerTimeRestarts = FALSE
    MaxTime = 7
    MaxRestarts = 1
    MaxSnapshots = 3
CHECK_DEADLOCK FALSE
INVARIANTS
    RestartsAreReal
    FastAdjustBringsNearer
PROPERTY
    TimeNeverFlowsBackwards
