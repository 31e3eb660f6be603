SPECIFICATION FBackgroundSpec
CONSTANTS
    Workers = {w1, w2}
    w1 = w1
    w2 = w2
    RebateEnabled = TRUE
    MaxFaults = 1
CHECK_DEADLOCK FALSE
PROPERTY BegunIsDelivered
