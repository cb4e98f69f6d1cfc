SPECIFICATION Spec
CONSTANTS
    Writers = {"server", "Netchan"}
    FragmentSize = 2
    Lengths = {1, 3, 5}
    Modulus = 65536
    Networks = {"lossy"}
    MaxMessages = 2
    MaxDeliveries = 3
CHECK_DEADLOCK FALSE
INVARIANTS
    FragmentsCarryTheMessage
    LengthFieldIsDataLength
    DeliveredOnce
