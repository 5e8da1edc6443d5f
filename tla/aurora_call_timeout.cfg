\* Two callers with the delays of the code, against the contract's 15 s.
SPECIFICATION Spec
CONSTANTS
    t1 = t1
    t2 = t2
    t3 = t3
    p1 = p1
    p2 = p2
    Threads <- TwoThreads
    Ports <- TwoPorts
    None = None
    NCommands = 8
    Required <- SourceRequired
    LockTimeout = 10
    ReadTimeout = 1
    Punctual = TRUE
    MaxElapsed = 20
INVARIANT
    WithinCallTimeout
