CONSTANTS
    max_frame_size = 3
    max_decompressed_size = 4
    max_buffered_size = 6
    max_output_size = 5
    strict = TRUE
    MaxVarInt = 2
    InitialCapacity = 1
    SizeMax = 7
    Frame <- AllFrames
    Threshold <- OffOrTwo
    FrameCapacity = {0, 1, 2}
    MaxWire = 2
SPECIFICATION Spec
INVARIANTS
    OffsetCountsStream
    VerdictMatchesStream
    FullBufferDrains
PROPERTIES
    FailureIsSticky
    ProbeTellsOutcome
