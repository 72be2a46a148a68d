SPECIFICATION Spec
CONSTANTS
    Producers = {p1}
    Flushers = {f1}
    Worker = worker
    Host = host
    None = none
    AsyncModes = {TRUE}
    Caps = {1}
    BatchMax = 1
    Kinds = {"log"}
    MaxCalls = 1
    FaultKinds <- ProgressUnlock
    MaxFaults = 1
CHECK_DEADLOCK FALSE
INVARIANTS
    UnprovenLockUntouched
