CONSTANTS
    max_frame_size = 3
    max_decompressed_size = 4
    max_buffered_size = 12
    max_output_size = 5
    strict = TRUE
    MaxVarInt = 2
    InitialCapacity = 1
    SizeMax = 20
    Frame <- GoodFrames
    Threshold <- MCThreshold
    FrameCapacity = {1, 3}
    MaxWire = 3
SPECIFICATION Spec
INVARIANT
    SameFramesHoweverFed
