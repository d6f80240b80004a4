SPECIFICATION FairSpec
CONSTANTS
    Events = {1, 2}
    Workers = {w1}
    Consumers = {c1}
    NoRow = NoRow
    MaxAttempts = 2
    Keep = 1
    Deployed = TRUE
    LongOutage = FALSE
    WideTrim = FALSE
    MaxReplays = 0
    MaxStops = 1
    MaxTrims = 1
    MaxSweeps = 0
    MaxErrors = 0
    MaxFaults = 1
INVARIANTS
    AckedWasDelivered
    NotLost
PROPERTIES
    AtLeastOnce
CHECK_DEADLOCK FALSE
