SPECIFICATION FairSpec
CONSTANTS
    PollTimes = {"none", "some"}
    InboundLoss = TRUE
    EnableOOD = TRUE
    MaxArrivals = 1
    MaxSends = 2
CHECK_DEADLOCK FALSE
INVARIANTS
    OnlyEmptyIsIgnored
PROPERTIES
    OutOfOrderOvertakes
    DestructorReturns
