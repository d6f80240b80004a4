SPECIFICATION Spec
CONSTANTS
    Invocations = {i1}
    Consumers = {c1}
    MaxProcessAttempts = 1
    Keep = 1
    MaxErrors = 3
    MaxCrashes = 1
    MaxTakeovers = 1
    MaxTrims = 1
INVARIANTS
    RetryKeepsMetadata
CHECK_DEADLOCK FALSE
