SPECIFICATION CSpec
CONSTANTS
    w1 = w1
    w2 = w2
    r1 = r1
    Workers = {w1, w2}
    Reconcilers = {}
    MaxAttempts = 1
    UserMayVanish = FALSE
    MaxFaults = 1
CHECK_DEADLOCK FALSE
PROPERTIES
    AckedIsTerminal
