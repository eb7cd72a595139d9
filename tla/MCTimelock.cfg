SPECIFICATION Spec
CONSTANTS
    a1 = a1
    a2 = a2
    a3 = a3
    Addresses <- Accounts
    Recipients = {"treasury"}
    AdminLists <- Lists
    Amounts = {0, 1, 2}
    Minimums = {0, 2}
    Delay = 2
    MaxTime = 3
    MaxRequests = 2
    MaxReserve = 2
INVARIANTS TypeOK CancellationPossible CancelledByQuorum WaitedTheDelay FundsAccounted
PROPERTY ResolvedOnce
