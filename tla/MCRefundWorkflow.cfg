SPECIFICATION RSpec
CONSTANTS
    Admins = {a1, a2}
    a1 = a1
    a2 = a2
    Total = 2
    PayTotal = 3
    LatestOnly = FALSE
    MaxVersion = 4
    MaxFaults = 1
SYMMETRY AdminSymmetry
CHECK_DEADLOCK FALSE
INVARIANTS
    RTypeOK
    RightsAccounted
PROPERTIES
    RefundedAtChannel
    RefundedIsFinal
