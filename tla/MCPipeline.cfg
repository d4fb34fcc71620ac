CONSTANTS
    PermitCount = 2
    Total = 5
    Client = client
    Tasks = {client}
    NoTask = NoTask
    ReaderRetries = 1
    WriterRetries = 0
    ReaderWindows <- FourToRead
    WriterWindows <- ThreeToWrite
    ReaderFaults = {"open", "read"}
    WriterFaults = {"backend", "input"}
    FileCounts <- Sources
    FileCapacity = 2
    Batch = 2
    MaxPollOps = 3
    Modulus = 7
    MaxFrames = 5
SPECIFICATION FairSpec
INVARIANTS
    CopyIsFaithful
    NeverOvercommitted
PROPERTY PipelineDrains
CHECK_DEADLOCK FALSE
