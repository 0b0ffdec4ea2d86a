SPECIFICATION Spec
CONSTANTS
    HdrSize = 1
    CtrlSize = 5
    PbSize = 8
    BufMax = 8
    BlockMin = 2
    StatMod = 64
    Frames <- DamagedFrames
    DispatchCount = 1
    Ordered = FALSE
    AddNoise = FALSE
    HasTimeout = FALSE
    Faults = {}
    RingSize = 3
    MaxArrivals = 3
    MaxStops = 0
    MaxCaptures = 1
CHECK_DEADLOCK FALSE
INVARIANTS
    ThresholdIsHonoured
