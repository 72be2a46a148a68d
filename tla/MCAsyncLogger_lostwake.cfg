SPECIFICATION Spec
CONSTANTS
    Producers = {p1, p2}
    Flushers = {f1}
    Worker = worker
    Host = host
    None = none
    AsyncModes = {TRUE}
    Caps = {1}
    BatchMax = 1
    Kinds = {"log", "sync"}
    MaxCalls = 1
    FaultKinds <- EmitUnlock
    MaxFaults = 1
CHECK_DEADLOCK FALSE
INVARIANTS
    ExitWakesWaiters
