SPECIFICATION FFairSpec
CONSTANTS
    Workers = {w1, w2}
    w1 = w1
    w2 = w2
    RebateEnabled = TRUE
    MaxFaults = 1
INVARIANT FTypeOK
PROPERTY KeepsPromise
