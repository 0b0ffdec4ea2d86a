SPECIFICATION Spec
CONSTANTS
    a = a
    b = b
    c = c
    d = d
    NoName = NoName
    Files <- ThreeFiles
    Dirs <- OneDir
    Matching <- TwoFiles
    Slots = 2
    BufferMax = 2
    HasTimeout = FALSE
    MaxEvents = 5
    MaxStops = 0
CHECK_DEADLOCK FALSE
INVARIANTS
    QuietMeansAnnounced
