SPECIFICATION CSpec
CONSTANTS
    w1 = w1
    w2 = w2
    r1 = r1
    Workers = {w1}
    Reconcilers = {r1}
    MaxAttempts = 1
    UserMayVanish = FALSE
    MaxFaults = 0
CHECK_DEADLOCK FALSE
INVARIANTS
    FailureFreesHold
