CONSTANTS
    Txns = {t1}
    NoTx = NoTx
    Workers = {a, b}
    Requests = {r1}
    MaxDuplicates = 1
    MaxAttempts = 2
    MaxFaults = 2
    Scenarios = {{"faults", "horizonRejects"},
                 {"faults", "horizonRejects", "refund"},
                 {"faults", "horizonRejects", "alertThrows"},
                 {"horizonRejects", "retryBatch"},
                 {"horizonRejects", "replicaReads"},
                 {"faults", "noHash"},
                 {"metadataEdits"}}
SPECIFICATION Spec
SYMMETRY Symmetry
INVARIANTS TypeOK PaidOnce NoSecondSend HoldKeptOnPrimary CompletedMeansAccepted
PROPERTY FinalStatusStays
CHECK_DEADLOCK FALSE
