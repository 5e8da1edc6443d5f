\* One run of the harness: any command, faulty drivers, buses and answers.
SPECIFICATION MCSpec
CONSTANTS
    Plugins <- TwoPlugins
    Names <- SomeNames
    Counts <- SomeCounts
    MaxReads = 2
    OtherReadings <- SomeReadings
    ChargerAnswers <- SomeCharger
    AdapterAnswers <- SomeAdapter
    Bodies <- SomeBodies
    LastPort = 3
    LastBaud = 2
    LastAddress = 2
    MaxChanges = 1
INVARIANTS
    HarnessTypeOK
    RegistryExact
    FindsFirstBus
    FoundIsReal
    StrongestWarning
    PortReleased
    StatusTellsRead
    ReadsWhatIsDocumented
    ConvertedConforms
    ExitTells
PROPERTIES
    CommandEnds
\* The process ends.
CHECK_DEADLOCK FALSE
