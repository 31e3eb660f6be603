SPECIFICATION ISpec
CONSTANTS
    r1 = r1
    r2 = r2
    r3 = r3
    r4 = r4
    p1 = p1
    p2 = p2
    Requests = {r1, r2, r3, r4}
    Payloads = {p1, p2}
    PayloadOf <- TwoPayloads
    TTL = 1
    ProcessingTimeout = 1
    RetryBackoff = 1
    ExecutionTimeout = 1
    Grace = 1
    StrictLimit = {r4}
    MaxTime = 4
SYMMETRY EqualCommands
CHECK_DEADLOCK FALSE
INVARIANTS
    ITypeOK
    SingleOwner
    ReplayMatchesPayload
PROPERTIES
    BackoffHolds
    LaterRequestReplays
