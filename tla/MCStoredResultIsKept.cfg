SPECIFICATION ISpec
CONSTANTS
    r1 = r1
    r2 = r2
    r3 = r3
    r4 = r4
    p1 = p1
    p2 = p2
    Requests = {r1, r2, r3}
    Payloads = {p1, p2}
    PayloadOf <- TwoPayloads
    TTL = 2
    ProcessingTimeout = 1
    RetryBackoff = 1
    ExecutionTimeout = 1
    Grace = 1
    StrictLimit = {}
    MaxTime = 4
SYMMETRY EqualCommands
CHECK_DEADLOCK FALSE
PROPERTIES
    StoredResultIsKept
