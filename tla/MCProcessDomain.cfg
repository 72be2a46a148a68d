SPECIFICATION FairSpec
CONSTANTS
    Threads = {t1, t2}
    Fds = {d1}
    Maps = {m1}
    None = none
    Lost = lost
    MaxObjects = 1
    MaxForks = 2
    MaxFaults = 1
CHECK_DEADLOCK FALSE
INVARIANTS
    ChildIsClean
    DomainIsSound
PROPERTIES
    ForkReturns
