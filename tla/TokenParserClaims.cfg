SPECIFICATION Spec
CONSTANTS
    Texts <- MCTexts
    Behind <- MCBehind
    MaxLength = 3
    MaxCalls = 3
CHECK_DEADLOCK FALSE
INVARIANTS
    AvailableMeansToken
    StaysOnTheLine
    GivenBackIsAvailable
PROPERTY
    UngetIsReported
