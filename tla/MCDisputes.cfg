CONSTANTS
    Transactions = {t1}
    Requests = {r1, r2}
    Engines = {e1, e2}
    MaxDisputes = 2
    MaxReached = 2
    MaxFaults = 2
SPECIFICATION FairSpec
INVARIANTS OneActiveDispute PaidOncePerOpening
PROPERTIES MovedByVerdict OverdueIsClosed
CHECK_DEADLOCK FALSE
