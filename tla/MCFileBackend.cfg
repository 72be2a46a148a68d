SPECIFICATION Spec
CONSTANTS
    Instances = {i1, i2}
    None = none
    Rotations <- EveryPolicy
    Attempts = 2
    Sizes = {2}
    DayLength = 2
    MaxClock = 2
    MaxStamp = 4
    MaxInodes = 4
    MaxWrites = 4
    MaxControls = 2
    MaxFaults = 1
    MaxCrashes = 1
CONSTRAINT Explored
SYMMETRY Symmetric
CHECK_DEADLOCK FALSE
INVARIANTS
    TypeOK
    OneWriter
    ConfirmedSurvives
    ArchivesInOrder
    SizeBounded
PROPERTIES
    ArchivesAreSealed
