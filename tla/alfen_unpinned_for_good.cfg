\* Writing the certificate fails once.
SPECIFICATION FairSpec
CONSTANTS
    poller = poller
    optimizer = optimizer
    s1 = s1
    s2 = s2
    a0 = a0
    a16 = a16
    FileFaults = {"write"}
    Pollers <- PollerJob
    Setters <- OptimizerJob
    Sessions <- TwoSessions
    Other = Other
    None = None
    Amps <- OneSetpoint
PROPERTY
    PinnedInTheEnd
