SPECIFICATION Spec
CONSTANTS
    Texts <- MCTexts
    Behind <- MCBehind
    MaxLength = 3
    MaxCalls = 3
CHECK_DEADLOCK FALSE
INVARIANTS
    TokensAreTheWords
    NothingLeftUnread
    LineIsThePositions
