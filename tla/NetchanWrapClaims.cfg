SPECIFICATION Spec
CONSTANTS
    Writers = {"server"}
    FragmentSize = 2
    Lengths = {1, 3}
    Modulus = 4
    Networks = {"lossy", "fifo"}
    MaxMessages = 5
    MaxDeliveries = 5
CHECK_DEADLOCK FALSE
INVARIANTS
    DeliveredInOrder
    DrainedMeansDelivered
