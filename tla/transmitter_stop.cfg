SPECIFICATION Spec
CONSTANTS
    Source <- TwoBlocks
    IsStream = FALSE
    Redundant = 1
    HdrSize = 1
    Numbered = TRUE
    HasTimeout = FALSE
    StatMod = 16
    Faults = {}
    MaxReadErrors = 1
    MaxStops = 1
    MaxCalls = 1
CHECK_DEADLOCK FALSE
INVARIANTS
    StopIsPromptAlways
