SPECIFICATION Spec
CONSTANTS
    Events = {1}
    Workers = {w1}
    Consumers = {c1}
    NoRow = NoRow
    MaxAttempts = 2
    Keep = 1
    Deployed = TRUE
    LongOutage = FALSE
    WideTrim = FALSE
    MaxReplays = 0
    MaxStops = 0
    MaxTrims = 0
    MaxSweeps = 0
    MaxErrors = 1
    MaxFaults = 0
INVARIANTS
    NotLost
CHECK_DEADLOCK FALSE
