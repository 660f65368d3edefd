SPECIFICATION FairSpec
CONSTANTS
    LoginPackets = 3
    ConfigPackets = 2
    HasConfiguration = TRUE
    InformationFirst = TRUE
    Level <- MCLevel
    MaxConnections = 2
    MaxInFlight = 2
INVARIANTS
    TypeOK
    NextFrameInDecoderMode
    SendsInPeerMode
    AnnouncedModeAccepted
    InformationOnce
    CallbackStopsRunCleanly
PROPERTY
    CallsReturn
