\* One run of the harness: an adapter that goes away, an answer out of order.
SPECIFICATION MCSpec
CONSTANTS
    Plugins <- TwoPlugins
    Names <- SomeNames
    Counts <- SomeCounts
    MaxReads = 2
    OtherReadings <- SomeReadings
    ChargerAnswers <- SomeCharger
    AdapterAnswers <- SomeAdapter
    Bodies <- SomeBodies
    LastPort = 3
    LastBaud = 2
    LastAddress = 2
    MaxChanges = 1
INVARIANT
    NeverRaises
\* The process ends.
CHECK_DEADLOCK FALSE
