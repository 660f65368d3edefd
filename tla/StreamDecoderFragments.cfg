CONSTANTS
    max_frame_size = 3
    max_decompressed_size = 4
    max_buffered_size = 6
    max_output_size = 5
    strict = FALSE
    MaxVarInt = 2
    InitialCapacity = 1
    SizeMax = 7
    Frame <- GoodFrames
    Threshold <- OffOrTwo
    FrameCapacity = {0, 1, 3}
    MaxWire = 3
SPECIFICATION Spec
INVARIANTS
    TypeOK
    FramesInOrder
    BorrowedViewsIntact
PROPERTIES
    ModeChangesBetweenFrames
    ImplementsChannel
