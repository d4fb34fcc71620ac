CONSTANTS
    PermitCount = 2
    Total = 4
    Self = 1
    Writer = writer
    Rival = rival
    Tasks = {writer, rival}
    NoTask = NoTask
    RivalSizes = {3}
    MaxRetries = 0
    Windows <- TwoFiles
    FileCapacities = {2}
    MaxPollOps = 3
    MaxFrames = 3
    Faults = {"backend"}
    Block = 3
    FramesPerFile = 2
    MaxBytes = 7
SPECIFICATION UploadFairSpec
INVARIANT MetaTellsTheTruth
PROPERTY UploadEnds
