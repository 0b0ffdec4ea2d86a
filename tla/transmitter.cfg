SPECIFICATION FairSpec
CONSTANTS
    Source <- ThreeBlocks
    IsStream = TRUE
    Redundant = 1
    HdrSize = 1
    Numbered = TRUE
    HasTimeout = TRUE
    StatMod = 16
    Faults = {"poll", "read", "inject"}
    MaxReadErrors = 2
    MaxStops = 2
    MaxCalls = 2
CHECK_DEADLOCK FALSE
INVARIANTS
    TypeOK
    AirWellFormed
    Bracketed
    NumbersArePlaces
    StopIsPrompt
PROPERTIES
    ImplementsTransmission
    TransmissionEnds
