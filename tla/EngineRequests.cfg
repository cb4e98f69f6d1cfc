CHECK_DEADLOCK FALSE
SPECIFICATION FairSpec
CONSTANTS
    Calls <- MCConnectThenStatus
    InfoTimeout = 2
    ChallengeTimeout = 2
    AuthorizeTimeout = 3
    ConnectTimeout = 2
    DeferredTime = 1
    MaxRetries = 2
    MaxAuthorizations = 1
    OtherRequesting = FALSE
INVARIANTS EndsExactlyOnce
PROPERTIES EveryCallEnds
