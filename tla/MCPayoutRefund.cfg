CONSTANTS
    t1 = t1
    Txns = {t1}
    Deliveries = {d1, d2}
    RowOf <- MCRowOf
    Batches = {b1, b2}
    MaxAttempts = 2
    MaxFaults = 2
SPECIFICATION FairSpec
INVARIANTS PaidOnce PaidOrRefunded RefundedOnce
PROPERTIES FailedIsRefunded
CHECK_DEADLOCK FALSE
