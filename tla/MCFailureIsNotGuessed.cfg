SPECIFICATION RSpec
CONSTANTS
    Admins = {a1, a2}
    a1 = a1
    a2 = a2
    Total = 2
    PayTotal = 3
    LatestOnly = TRUE
    MaxVersion = 4
    MaxFaults = 1
CHECK_DEADLOCK FALSE
INVARIANT FailureIsNotGuessed
