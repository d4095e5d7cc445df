SPECIFICATION Spec
CONSTANTS
    LastChunk = 4
    Ends = {3, 4}
    BufferSize = 1
    InitialCwnd = 2
    Limited = FALSE
    MaxT3 = 0
    SackBound = 2
    Duplicates = FALSE
PROPERTY Delivered
CHECK_DEADLOCK FALSE
