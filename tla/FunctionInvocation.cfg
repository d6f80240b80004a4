SPECIFICATION FairSpec
CONSTANTS
    Invocations = {i1}
    Consumers = {c1, c2}
    MaxProcessAttempts = 1
    Keep = 0
    MaxErrors = 3
    MaxCrashes = 1
    MaxTakeovers = 1
    MaxTrims = 1
INVARIANTS
    TypeOK
    QueuedIsBacked
PROPERTIES
    KeepsContract
    QueueServes
CHECK_DEADLOCK FALSE
