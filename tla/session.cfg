CONSTANTS
    CommandLines <- MCCommandLines
    Directories = {"dir"}
    OldFiles <- MCOld
    Faults = {"pcap", "open", "poll"}
    MaxStops = 1
    MaxFiles = 4
    PacketBufferMin = 7981
    PacketBufferMax = 5242880
    Sent <- MCSent
    ControlFrames = 2
    RingSize = 2
    MaxFaults = 2
SPECIFICATION FairSpec
INVARIANTS SeamsLoseNothing OneSourcePerFile OneFilePerTransmission Delivered
PROPERTIES SilenceEndsProgram
CHECK_DEADLOCK FALSE
