SPECIFICATION Spec
CONSTANTS
    Events = {1}
    Workers = {w1, w2}
    Consumers = {c1, c2}
    NoRow = NoRow
    MaxAttempts = 2
    Keep = 1
    Deployed = FALSE
    LongOutage = TRUE
    WideTrim = TRUE
    MaxReplays = 1
    MaxStops = 1
    MaxTrims = 1
    MaxSweeps = 1
    MaxErrors = 1
    MaxFaults = 2
INVARIANTS
    TypeOK
    OneHome
PROPERTIES
    KeepsDelivery
CHECK_DEADLOCK FALSE
