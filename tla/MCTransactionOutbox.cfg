CONSTANTS
    Txns = {t1}
    Calls = {c1, c2}
    Procs = {p1, p2}
    MaxAttempts = 2
    BatchSize = 1
    MemLevels = {"low"}
    PgErrors = TRUE
    MaxFaults = 2
SPECIFICATION Spec
SYMMETRY Symmetry
INVARIANTS TypeOK NeverVanishes ExclusiveClaim OneOutstandingRow
CHECK_DEADLOCK FALSE
