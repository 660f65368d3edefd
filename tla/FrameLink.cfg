CONSTANTS
    max_frame_size = 5
    max_decompressed_size = 5
    max_buffered_size = 11
    max_output_size = 5
    strict = TRUE
    MaxVarInt = 2
    InitialCapacity = 11
    SizeMax = 30
    Frame <- MCFrame
    FrameCapacity = {1}
    Threshold <- MCThreshold
    MaxWire = 3
    MC_MAX_PACKET = 5
    Base = 3
    Chunk = 5
    ZlibOverhead = 1
    PacketId = {1, 3}
    PayloadSize = {1, 4, 6}
SPECIFICATION LinkSpec
INVARIANTS
    PacketsArriveAsSent
    OnlyOversizeRefused
PROPERTIES
    EveryPacketReceived
CHECK_DEADLOCK FALSE
