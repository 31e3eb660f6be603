SPECIFICATION CSpec
CONSTANTS
    w1 = w1
    w2 = w2
    r1 = r1
    Workers = {w1, w2}
    Reconcilers = {r1}
    MaxAttempts = 1
    UserMayVanish = TRUE
    MaxFaults = 1
SYMMETRY WorkerSymmetry
CHECK_DEADLOCK FALSE
INVARIANTS
    CTypeOK
    BillMatchesStatus
    OpenRunIsReachable
    InflightIsQueued
    HoldMovesOnce
PROPERTIES
    OnlyFailureDrops
