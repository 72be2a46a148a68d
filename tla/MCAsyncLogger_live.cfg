SPECIFICATION FairSpec
CONSTANTS
    Producers = {p1}
    Flushers = {f1}
    Worker = worker
    Host = host
    None = none
    AsyncModes = {TRUE, FALSE}
    Caps = {1}
    BatchMax = 1
    Kinds = {"log", "sync"}
    MaxCalls = 1
    FaultKinds <- Clean
    MaxFaults = 1
CHECK_DEADLOCK FALSE
PROPERTIES
    FlushReturns
    LogReturns
    DestroyReturns
