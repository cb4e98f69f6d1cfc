\* Two datagrams and two packets: a queue can hold one while a thread has another in hand.
SPECIFICATION FairSpec
CONSTANTS
    PollTimes = {"none", "some"}
    InboundLoss = TRUE
    EnableOOD = TRUE
    MaxArrivals = 2
    MaxSends = 2
CHECK_DEADLOCK FALSE
INVARIANTS
    NothingLostBetweenThreads
    ReceiveFindsAPacket
PROPERTIES
    SentIsTransmitted
    DestructorReturnsOutsideWindow
