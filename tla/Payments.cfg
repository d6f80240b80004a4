SPECIFICATION FairSpec
CONSTANTS
    Orders = {o1}
INVARIANTS
    TypeOK
    GoodsFollowMoney
PROPERTIES
    KeepsContract
    PaidIsResolved
    RefundReaches
CHECK_DEADLOCK FALSE
