CONSTANTS
    Txns = {t1, t2}
    Threads = {a, b}
    NoThread = NoThread
    MaxCopies = 2
    MaxDispatch = 1
    MaxPauses = 2
    MaxFaults = 0
SPECIFICATION FairSpec
PROPERTY HoldDrains
CHECK_DEADLOCK FALSE
