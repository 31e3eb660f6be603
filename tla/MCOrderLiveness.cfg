SPECIFICATION FairSpec
CONSTANTS
    Workers = {w1}
    w1 = w1
    RebateEnabled = TRUE
    MaxFaults = 2
CHECK_DEADLOCK FALSE
PROPERTIES
    OverdueLeavesPending
    RecordedIsDelivered
