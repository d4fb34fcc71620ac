CONSTANTS
    PermitCount = 1
    Total = 3
    Self = 1
    Writer = writer
    Rival = rival
    Tasks = {writer, rival}
    NoTask = NoTask
    RivalSizes = {2}
    MaxRetries = 0
    Windows <- TwoWindows
    FileCapacities = {1, 2}
    MaxPollOps = 3
    MaxFrames = 2
    Faults = {"backend", "input", "partial"}
SPECIFICATION Spec
VIEW LiveState
PROPERTY ShrinkTakesEffect
CHECK_DEADLOCK FALSE
