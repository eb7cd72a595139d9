CONSTANTS
    r1 = r1
    r2 = r2
    Requests = {r1, r2}
    body1 = body1
    body2 = body2
    body3 = body3
    here = here
    there = there
    phone1 = phone1
    phone2 = phone2
    Payloads = {body1, body2, body3}
    Scopes = {here, there}
    ScopeOf <- TwoScopes
    Phones = {phone1, phone2}
    PhoneOf <- TwoPhones
    Cases <- Pairs
    Nobody = Nobody
    MaxFaults = 2
SPECIFICATION FairSpec
INVARIANTS OneRowPerKey ReuseRefused LocksReturned
PROPERTIES CacheKept EveryRequestEnds ImplementsOperation
CHECK_DEADLOCK FALSE
