CONSTANTS
    Txns = {t1}
    Threads = {a, b, c}
    NoThread = NoThread
    MaxCopies = 2
    MaxDispatch = 1
    MaxPauses = 2
    MaxFaults = 1
SPECIFICATION Spec
SYMMETRY Symmetry
INVARIANTS TypeOK KeptUnlessSwallowed RunsAsDispatched
CHECK_DEADLOCK FALSE
