\* A poll in flight while a setter writes, then the second setter.
SPECIFICATION Spec
CONSTANTS
    poller = poller
    ui1 = ui1
    ui2 = ui2
    None = None
    Pollers <- Poller
    Setters <- OneSetter
    Setpoints <- TwoSetpoints
    Fallback = "22.0"
    Rates <- TwoRates
    ModesUsed <- CoolAndFan
    Starts <- Cooling
    Remote <- Nobody
    MaxChanges = 2
PROPERTY
    SettersMergeWhilePolling
