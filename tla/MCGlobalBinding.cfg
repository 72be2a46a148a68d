SPECIFICATION FairSpec
CONSTANTS
    Readers = {r1}
    Controllers = {c1, c2}
    Instances = {i1}
    NULL = NULL
    MaxGeneration = 3
    MaxFaults = 1
CHECK_DEADLOCK FALSE
INVARIANTS
    TypeOK
    BorrowedIsAlive
    ReaderKeepsGeneration
    RebindIsFresh
PROPERTIES
    RebindReturns
