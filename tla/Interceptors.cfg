SPECIFICATION InterceptorsSpec
CONSTANTS
    Components = {"nack", "reports", "jitter", "fec", "chain"}
    SeqSpace = 12
    Capacity = 4
    CycleSpace = 2
    MAX_LOST = 4
    TsSpace = 8
    StartTime = 6
    Interval = 1
    FirstPacket = 9
    Reorder = 1
    InFlight = 1
    Plans <- ReportPlans
INVARIANTS PlayedOut LossRepaired NoBypass
PROPERTIES GapsAsked ReportsExact
CHECK_DEADLOCK FALSE
