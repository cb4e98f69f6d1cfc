SPECIFICATION Spec
CONSTANTS
    ByteBits = 2
    BufferBytes <- MCBufferBytes
    Lens = {3, 5}
    Sizes = {2, 3}
    Training <- MCTraining
    Formats = {"bits", "oob", "compressed"}
    MaxValues <- MCMaxValues
CHECK_DEADLOCK FALSE
INVARIANT
    CompressedCanBeRead
    BufferIsLargeEnough
    NulIsLast
