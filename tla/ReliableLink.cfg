SPECIFICATION Spec
CONSTANTS
    Commands = {c1, c2}
    NoCommand = NoCommand
    MaxElements = 2
    Modulus = 65536
    MaxCommands = 4
    MaxPackets = 3
SYMMETRY CommandSymmetry
CHECK_DEADLOCK FALSE
INVARIANTS
    ExecutedAsAdded
    LinkInv
PROPERTIES
    AcknowledgeNeverGoesBack
    ImplementsQueue
