CONSTANTS
    PermitCount = 1
    Total = 2
    Self = 1
    Reader = reader
    Rival = rival
    Tasks = {reader, rival}
    NoTask = NoTask
    RivalSizes = {2}
    MaxRetries = 0
    Windows <- TwoAhead
    FrameCounts = {1, 2}
    Batch = 1
    MaxPollOps = 3
    Modulus = 5
    MaxFrames = 6
    Faults = {"open", "read", "eof"}
    Block = 2
    FramesPerFile = 2
    Names = {1, 2, 3}
    FileSizes = {0, 2, 3, 4, 6}
    MetaSizes = {0, 3, 6, 7, 9, 11}
    NoMeta = NoMeta
SPECIFICATION DownloadFairSpec
INVARIANT SentIsRestored
PROPERTY DownloadEnds
CHECK_DEADLOCK FALSE
