SPECIFICATION Spec
CONSTANTS
    Packet = {p}
    MaxFd = 3
    FrameUnits = 2
    Preferences = {"NONE"}
    MaxHandshake = 2
    MaxConnections = 1
    MaxCalls = 1
    MaxInterrupts = 1
    Interruptible = {"NONE"}
INVARIANT
    RingMappedWhileWaiting
CHECK_DEADLOCK FALSE
