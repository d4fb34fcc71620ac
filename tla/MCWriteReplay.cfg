CONSTANTS
    PermitCount = 2
    Total = 3
    Self = 1
    Writer = writer
    Rival = rival
    Tasks = {writer, rival}
    NoTask = NoTask
    RivalSizes = {2}
    MaxRetries = 1
    Windows <- OneWindow
    FileCapacities = {1, 2}
    MaxPollOps = 3
    MaxFrames = 3
    Faults = {"backend", "input", "partial"}
SPECIFICATION Spec
VIEW LiveState
INVARIANTS
    UsedIsExact
    NoFrameLostOrReordered
    AttemptIsExact
    SleepsOnlyWhenStuck
