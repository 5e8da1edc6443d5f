\* Two callers, and no bound on how long a read or a write may block; nothing
\* is assumed of the thread that holds the lock.
SPECIFICATION StuckSpec
CONSTANTS
    t1 = t1
    t2 = t2
    t3 = t3
    p1 = p1
    p2 = p2
    Threads <- TwoThreads
    Ports <- TwoPorts
    None = None
    NCommands = 3
    Required <- SmallRequired
    LockTimeout = 1
    ReadTimeout = 1
    Punctual = FALSE
    MaxElapsed = 1
INVARIANTS
    LockDiscipline
    MissingExplained
    ClosedPortIsDropped
    OnePortInUse
    ErrorMeansNoPort
PROPERTY
    WaiterUnblocked
