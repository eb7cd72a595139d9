CONSTANTS
    Txns = {t1}
    NoTx = NoTx
    Workers = {a}
    Requests = {r1}
    MaxDuplicates = 0
    MaxAttempts = 2
    MaxFaults = 0
    Scenarios = {{"horizonRejects", "retryBatch"}}
SPECIFICATION Spec
INVARIANT RetrySendsStellarOnce
CHECK_DEADLOCK FALSE
