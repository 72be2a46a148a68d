SPECIFICATION FairSpec
CONSTANTS
    Startups = {"REQUIRED", "DEFERRED"}
    Interval = 2
    SendAttempts = 4
    MaxClock = 5
    MaxFaults = 4
CHECK_DEADLOCK FALSE
INVARIANTS
    OneDatagramPerRecord
PROPERTIES
    NoReconnectStorm
    DeliveryResumes
