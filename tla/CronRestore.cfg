SPECIFICATION Spec
CONSTANTS
    Workers = {w1, w2, w3}
    Period = 2
    Grace = 3
    Budget = 1
    MaxClock = 5
    MaxErrors = 1
INVARIANT NeverTwice
CHECK_DEADLOCK FALSE
