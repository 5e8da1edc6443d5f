\* Three callers with the delays of the code: while two of them make their
\* calls the third waits longer than its timeout, and resets a healthy port.
SPECIFICATION Spec
CONSTANTS
    t1 = t1
    t2 = t2
    t3 = t3
    p1 = p1
    p2 = p2
    Threads <- ThreeThreads
    Ports <- TwoPorts
    None = None
    NCommands = 3
    Required <- SmallRequired
    LockTimeout = 4
    ReadTimeout = 1
    Punctual = TRUE
    MaxElapsed = 8
INVARIANT
    FailureHasReason
