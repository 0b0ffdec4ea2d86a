SPECIFICATION FairSpec
CONSTANTS
    a = a
    b = b
    c = c
    d = d
    NoName = NoName
    Files <- ThreeFiles
    Dirs <- OneDir
    Matching <- TwoFiles
    Slots = 2
    BufferMax = 2
    HasTimeout = TRUE
    MaxEvents = 6
    MaxStops = 1
CHECK_DEADLOCK FALSE
INVARIANTS
    TypeOK
    AllAnnounced
    StopWithinBuffer
PROPERTIES
    WatchEnds
