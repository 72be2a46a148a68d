SPECIFICATION FairSpec
CONSTANTS
    Producers = {p1, p2}
    MaxPos = 2
    Worker = worker
    Stopper = stopper
    Stop = stop
    Free = free
CHECK_DEADLOCK FALSE
INVARIANTS
    NoLostWakeup
    NothingLeftBehind
PROPERTIES
    HeadIsConsumed
    StopIsObeyed
