SPECIFICATION MCSpec
CONSTANTS
    Owners = {a, b}
    Keys = {k1, k2}
    Txs = {t1, t2}
    MaxQuantity = 2
    GrantSizes = {1}
    MaxRows = 4
    MaxClock = 1
    Winners = {w1, w2}
    Actors = {x1, x2}
    MaxCalls = 3
    Callers = {c1, c2, c3}
    Bodies = {b1, b2}
    MaxRequests = 3
    Workers = {v1, v2, v3}
    Period = 2
    Grace = 3
    Budget = 1
    MaxInstant = 4
    MaxErrors = 1
    Refreshes = {r1, r2}
    MaxTokens = 4
    Servers = {s1, s2}
    Visitors = {u1}
    TTL = 1
    MarkerTTL = 5
    MaxTime = 6
SYMMETRY Symmetry
INVARIANTS
    AllTypesOK
    ZeroDrift
    Conserved
    RewardsAreBooked
    VoidedInAdvance
    OneHolder
    ReplayIsTrue
    AppliedPerClaim
    RunsOnce
    OneSuccessor
    ReuseIsGenuine
    RevokedIsRefused
PROPERTIES
    KeepsAccounts
CHECK_DEADLOCK FALSE
