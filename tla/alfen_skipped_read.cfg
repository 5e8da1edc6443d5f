\* A property read is answered with HTTP 500.
SPECIFICATION Spec
CONSTANTS
    poller = poller
    optimizer = optimizer
    s1 = s1
    s2 = s2
    a0 = a0
    a16 = a16
    FileFaults = {}
    Pollers <- PollerJob
    Setters <- OptimizerJob
    Sessions <- TwoSessions
    Other = Other
    None = None
    Amps <- TwoSetpoints
PROPERTY
    DataWasRead
