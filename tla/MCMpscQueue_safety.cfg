SPECIFICATION Spec
CONSTANTS
    Producers = {p1, p2}
    Observers = {o1}
    Stalled = {}
    Cap = 2
    PosMod = 16
    SpillLimit = 2
    WordBits = 4
    Start = 14
    MaxPos = 18
    MaxCalls = 2
    StallWindow = 4
    None = None
SYMMETRY Symmetric
CHECK_DEADLOCK FALSE
INVARIANTS
    TypeOK
    SlotExclusive
    DeliveredInOrder
    SpillBlocksOwned
    ReportsAreHonest
    IndInv
PROPERTIES
    RejectOnlyWhenFull
    RefinesFifo
