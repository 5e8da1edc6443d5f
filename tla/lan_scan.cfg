\* Six addresses, two workers, and a deadline just above the three rounds they need.
SPECIFICATION FairSpec
CONSTANTS
    w1 = w1
    w2 = w2
    None = None
    LastAddress = 6
    Workers <- TwoWorkers
    MayHang <- Second
    ProbeTime = 2
    ScanTimeout = 7
INVARIANTS
    TypeOK
    ScanComplete
PROPERTIES
    NoLateStart
    ScanReturns
\* The scan ends, and with it the system.
CHECK_DEADLOCK FALSE
