CONSTANTS
    PermitCount = 2
    Total = 3
    Self = 1
    Reader = reader
    Rival = rival
    Tasks = {reader, rival}
    NoTask = NoTask
    RivalSizes = {2}
    MaxRetries = 1
    Windows <- TwoWindows
    FrameCounts = {1, 2}
    Batch = 2
    MaxPollOps = 3
    Modulus = 4
    MaxFrames = 5
    Faults = {"open", "read", "eof"}
SPECIFICATION Spec
VIEW LiveState
INVARIANTS
    ReaderTypeOK
    WindowIsAligned
    FilesAreContiguous
    WindowIsGranted
    NothingKeptWithoutFiles
    SleepsOnlyWhenStuck
PROPERTY
    ImplementsOrderedRead
