\* Poller and optimizer on one session, with every fault.
SPECIFICATION FairSpec
CONSTANTS
    poller = poller
    optimizer = optimizer
    s1 = s1
    s2 = s2
    a0 = a0
    a16 = a16
    FileFaults = {"write", "crash", "loss", "rival"}
    Pollers <- PollerJob
    Setters <- OptimizerJob
    Sessions <- TwoSessions
    Other = Other
    None = None
    Amps <- TwoSetpoints
INVARIANTS
    TypeOK
    LockDiscipline
    RequestsUseSession
    ConfirmedIsSet
    FailedReadIsError
PROPERTIES
    CallsReturn
    Recovers
