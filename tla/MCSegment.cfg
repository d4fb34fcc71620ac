CONSTANTS
    Frames = 3
    Block = 3
    MaxRetries = 2
SPECIFICATION Spec
INVARIANTS
    ClosedFileIsWhole
    FramesReadAreExact
CHECK_DEADLOCK FALSE
