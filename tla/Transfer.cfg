SPECIFICATION Spec
CONSTANTS
    LastChunk = 4
    Ends = {1, 4}
    BufferSize = 4
    InitialCwnd = 4
    Limited = TRUE
    MaxT3 = 1
    SackBound = 1
    Duplicates = TRUE
INVARIANTS NothingReleasedEarly T3Armed FlowControlled
CHECK_DEADLOCK FALSE
