SPECIFICATION Spec
CONSTANTS
    HdrSize = 1
    CtrlSize = 4
    PbSize = 8
    BufMax = 8
    BlockMin = 2
    StatMod = 64
    Frames <- OrderedFrames
    DispatchCount = 2
    Ordered = TRUE
    AddNoise = TRUE
    HasTimeout = FALSE
    Faults = {"poll"}
    RingSize = 2
    MaxArrivals = 5
    MaxStops = 1
    MaxCaptures = 2
CHECK_DEADLOCK FALSE
INVARIANTS
    TypeOK
    BufferIntact
    HeapFits
    FlushedOnReturn
    OutputInOrder
    NoiseAligns
    LossesCounted
    StopIsPrompt
