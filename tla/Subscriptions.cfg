SPECIFICATION FairSpec
CONSTANTS
    MaxAttempts = 2
    MaxCycles = 2
    MaxErrors = 1
INVARIANTS
    TypeOK
    RenewalsPaid
    SingleCharge
    NothingNewAfterCancel
PROPERTIES
    DueIsResolved
CHECK_DEADLOCK FALSE
