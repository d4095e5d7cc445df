SPECIFICATION InterceptorsSpec
CONSTANTS
    Components = {"feedback", "pacer", "gcc"}
    SeqSpace = 12
    Capacity = 4
    CycleSpace = 2
    MAX_LOST = 4
    TsSpace = 8
    StartTime = 6
    Interval = 1
    FirstPacket = 9
    Reorder = 1
    InFlight = 1
    Plans <- ReportPlans
PROPERTIES VerdictsTrue PacedOut RateCautious
CHECK_DEADLOCK FALSE
