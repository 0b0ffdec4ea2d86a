CONSTANTS
    CommandLines <- PathCommandLines
    Kind <- MCKind
    DirForm <- Inner
    Contents <- MCContents
    NewFiles = {"n1", "n2"}
    Matches <- MCMatches
    Faults = {}
    BufferMax = 2
    MaxStops = 0
    SentMax = 3
    BlockMin = 257
    BlockMax = 2048
    FileMax = 4
    UintMod = 65536
SPECIFICATION Spec
INVARIANT EverythingSent
CHECK_DEADLOCK FALSE
