CONSTANTS
    p1 = p1
    p2 = p2
    c1 = c1
    c2 = c2
    c3 = c3
    Replicas = {p1, p2}
    Channels = {k1}
    Calls = {c1, c2, c3}
    Home <- TwoAndOne
    MaxAttempts = 2
    MaxInner = 1
    MaxFaults = 2
SPECIFICATION Spec
INVARIANTS TypeOK ToldTheTruth ChannelAccounted NoCollision
CHECK_DEADLOCK FALSE
