\* Poller, two setters, and somebody with the remote; then commands end.
SPECIFICATION FairSpec
CONSTANTS
    poller = poller
    ui1 = ui1
    ui2 = ui2
    None = None
    Pollers <- Poller
    Setters <- TwoSetters
    Setpoints <- TwoSetpoints
    Fallback = "22.0"
    Rates <- TwoRates
    ModesUsed <- CoolAndFan
    Starts <- Cooling
    Remote <- Running
    MaxChanges = 2
INVARIANTS
    TypeOK
    SettingsWellFormed
    CacheIsDevice
PROPERTIES
    SettersMerge
    PollHealsCache
