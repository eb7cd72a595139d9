CONSTANTS
    Txns = {t1}
    NoTx = NoTx
    Workers = {a, b}
    Requests = {r1}
    MaxDuplicates = 1
    MaxAttempts = 2
    MaxFaults = 0
    Scenarios = {{}}
SPECIFICATION FairSpec
PROPERTY EveryTransactionSettles
CHECK_DEADLOCK FALSE
