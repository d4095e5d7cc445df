SPECIFICATION SctpSpec
CONSTANTS
    Components = {"shutdown", "partial", "handler", "crossing"}
    MaxT2 = 1
    Assocs = {a, b}
    NetBound = 2
SYMMETRY Symmetry
INVARIANTS ClosedAgree ResponderDrained T2Covers PartialDelivery ResetsOrdered
CHECK_DEADLOCK FALSE
