\* A unit stands for about 100 ms: a clock can be in each of the three ranges of adjustTimeDelta.
SPECIFICATION Spec
CONSTANTS
    ResetTime = 3
    MaxDeltaTime = 1
    Margin = 0
    SlowDown = 1
    SpeedUp = 1
    Nudges = {1}
    FirstServerCount = 0
    ServerTimeRestarts = TRUE
    MaxTime = 5
    MaxRestarts = 1
    MaxSnapshots = 3
CHECK_DEADLOCK FALSE
INVARIANTS
    RestartsAreReal
PROPERTIES
    OnlyResetsTurnBack
    NearAfterSnapshot
