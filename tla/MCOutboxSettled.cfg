CONSTANTS
    Txns = {t1}
    Calls = {c1}
    Procs = {p1, p2}
    MaxAttempts = 2
    BatchSize = 1
    MemLevels = {"low", "mid", "high"}
    PgErrors = TRUE
    MaxFaults = 2
SPECIFICATION FairSpec
PROPERTY EventuallySettled
CHECK_DEADLOCK FALSE
