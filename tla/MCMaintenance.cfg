SPECIFICATION MFairSpec
CONSTANTS
    o1 = o1
    o2 = o2
    h1 = h1
    Ops = {o1, o2}
    Hosts = {h1}
    HostOf <- OneHost
    Lease = 2
    RowTTL = 2
    MaxTime = 2
    MaxFaults = 1
CHECK_DEADLOCK FALSE
INVARIANTS
    MTypeOK
    LeaseIsExclusive
    ExecutableKept
PROPERTIES
    LeaseProtocol
    LossIsNoticed
    StopDrains
