SPECIFICATION FairSpec
CONSTANTS
    Producers = {p1, p2, p3}
    Observers = {}
    Stalled = {p1}
    Cap = 2
    PosMod = 16
    SpillLimit = 2
    WordBits = 1
    Start = 14
    MaxPos = 17
    MaxCalls = 1
    StallWindow = 4
    None = None
CHECK_DEADLOCK FALSE
PROPERTIES
    ReservedIsConsumed
    PushReturns
