SPECIFICATION Spec
CONSTANTS
    Producers = {p1, p2}
    Flushers = {f1}
    Worker = worker
    Host = host
    None = none
    AsyncModes = {TRUE, FALSE}
    Caps = {1, 2}
    BatchMax = 2
    Kinds = {"log", "sync"}
    MaxCalls = 1
    FaultKinds <- Faults
    MaxFaults = 1
SYMMETRY Symmetric
CHECK_DEADLOCK FALSE
INVARIANTS
    TypeOK
    FlushIsHonest
    ConfirmedIsDurable
    EveryRecordCounted
    LifetimesNest
    DestroyIsHonest
