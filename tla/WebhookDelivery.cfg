SPECIFICATION FairSpec
CONSTANTS
    Hooks = {h1}
    Events = {e1}
    Scanners = {w1, w2}
    NoRow = NoRow
    Backoff <- BackoffValue
    MaxAttempts = 2
    RetryWindow = 3
    Retention = 1
    MaxTime = 3
    Horizon = 0
    MaxId = 1
    MaxResets = 1
    MaxFaults = 1
INVARIANTS TypeOK AttemptGrantedOnce BackoffRespected DeliveredWasTaken
PROPERTIES ClaimsOnlyPending OutcomeIsFinal EveryDeliverySettles
CHECK_DEADLOCK FALSE
