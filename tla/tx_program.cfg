CONSTANTS
    CommandLines <- MCCommandLines
    Kind <- MCKind
    DirForm <- Plain
    Contents <- MCContents
    NewFiles = {"n1", "n2"}
    Matches <- MCMatches
    Faults = {"pcap", "poll", "opendir", "watch"}
    BufferMax = 2
    MaxStops = 2
    SentMax = 3
    BlockMin = 257
    BlockMax = 2048
    FileMax = 4
    UintMod = 65536
SPECIFICATION FairSpec
INVARIANTS TypeOK NothingAfterEnd EverythingSent
PROPERTIES KilledOnlyBetween StopEndsProgram NewFileSent
CHECK_DEADLOCK FALSE
