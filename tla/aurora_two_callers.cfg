\* Two callers with the delays of the code: 8 commands of at most one second,
\* a ten second wait for the lock.
SPECIFICATION FairSpec
CONSTANTS
    t1 = t1
    t2 = t2
    t3 = t3
    p1 = p1
    p2 = p2
    Threads <- TwoThreads
    Ports <- TwoPorts
    None = None
    NCommands = 8
    Required <- SourceRequired
    LockTimeout = 10
    ReadTimeout = 1
    Punctual = TRUE
    MaxElapsed = 20
INVARIANTS
    TypeOK
    NoReset
    StatusTellsOutcome
    CallBounded
PROPERTY
    CallReturns
