SPECIFICATION FairSpec
CONSTANTS
    HdrSize = 1
    CtrlSize = 4
    PbSize = 8
    BufMax = 8
    BlockMin = 2
    StatMod = 64
    Frames <- StreamFrames
    DispatchCount = 1
    Ordered = FALSE
    AddNoise = FALSE
    HasTimeout = TRUE
    Faults = {"write", "device"}
    RingSize = 2
    MaxArrivals = 4
    MaxStops = 2
    MaxCaptures = 2
CHECK_DEADLOCK FALSE
INVARIANTS
    OutputInOrder
    EveryFrameKept
PROPERTIES
    ImplementsCapture
    SilenceEndsCapture
    StopEndsDeadCapture
