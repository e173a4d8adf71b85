SPECIFICATION MCSpec
CONSTANTS
    MaxJobs = 3
    Watchers = {w1}
    Stages = {"reading"}
    Transfers = {"downloading", "hashing"}
    Percents = {0}
    KeepFinished = 1
    UpdateBacklog = 2
    PumpBacklog = 2
    MaxReports = 3
    MaxAttempts = 3
    TailLines = 2
    MaxLines = 3
    MaxProcesses = 2
    MaxTerminals = 1
    RouterPorts = {"gateway", "router"}
    MaxGatewayCalls = 2
    MaxRouterCalls = 2
INVARIANTS
    NoOrphan
PROPERTIES
    JobsAreReported
    FailureIsExplained
    EveryWaitEnds
CHECK_DEADLOCK FALSE
