CONSTANTS
    PermitCount = 2
    Total = 3
    Self = 1
    Reader = reader
    Rival = rival
    Tasks = {reader, rival}
    NoTask = NoTask
    RivalSizes = {3}
    MaxRetries = 1
    Windows <- OneWindow
    FrameCounts = {1, 2}
    Batch = 1
    MaxPollOps = 3
    Modulus = 5
    MaxFrames = 2
    Faults = {"open"}
SPECIFICATION FairSpec
PROPERTIES
    FramesKeepComing
    StreamEnds
