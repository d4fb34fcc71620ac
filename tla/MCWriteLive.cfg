CONSTANTS
    PermitCount = 2
    Total = 4
    Self = 1
    Writer = writer
    Rival = rival
    Tasks = {writer, rival}
    NoTask = NoTask
    RivalSizes = {3}
    FileCapacities = {2}
    MaxPollOps = 3
    MaxFrames = 2
    Faults = {"backend"}
SPECIFICATION FairSpec
PROPERTIES
    PollsReturn
    ClosingDrains
    FillProceeds
