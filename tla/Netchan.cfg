\* Two units make a fragment: messages of 1, 2, 3 and 5 units are one packet, a full
\* fragment and an empty one, two fragments and three.
SPECIFICATION FairSpec
CONSTANTS
    Writers = {"server", "Netchan"}
    FragmentSize = 2
    Lengths = {1, 2, 3, 5}
    Modulus = 4
    Networks = {"lossy", "fifo"}
    MaxMessages = 3
    MaxDeliveries = 4
CHECK_DEADLOCK FALSE
INVARIANTS
    DeliveredIntact
    DeliveredInOrder
PROPERTIES
    EventuallyDelivered
