SPECIFICATION Spec
CONSTANTS
    Packet = {p}
    MaxFd = 3
    FrameUnits = 2
    Preferences <- SomePreferences
    MaxHandshake = 2
    MaxConnections = 2
    MaxCalls = 2
    MaxInterrupts = 1
    Interruptible = {"POLL"}
INVARIANTS
    TypeOK SocketClosedOnce DescriptorsAccounted AcceptStopsAtFrame StreamMatchesCalls
    RingServesWaits
CHECK_DEADLOCK FALSE
