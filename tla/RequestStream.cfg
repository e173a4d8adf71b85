SPECIFICATION MCSpec
CONSTANTS
    Requests <- MCEveryRequest
    MaxEvents = 2
    MaxSignals = 2
    FrameLimit = 8
    MaxU32 = 20
    Served = {g1, g2}
    Watchers = {w1}
    Backlog = 1
INVARIANTS
    StreamIsWellFormed
    OutcomeIsTrue
    
    TelemetryIsTrue
PROPERTIES
    AccountedBeforeRelease
    EveryRequestEnds
CHECK_DEADLOCK FALSE
