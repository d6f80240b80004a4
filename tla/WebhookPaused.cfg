SPECIFICATION Spec
CONSTANTS
    Hooks = {h1}
    Events = {e1}
    Scanners = {w1}
    NoRow = NoRow
    Backoff <- BackoffValue
    MaxAttempts = 2
    RetryWindow = 3
    Retention = 1
    MaxTime = 3
    Horizon = 0
    MaxId = 1
    MaxResets = 0
    MaxFaults = 0
PROPERTIES PausedNotDelivered
CHECK_DEADLOCK FALSE
