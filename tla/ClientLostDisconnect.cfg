SPECIFICATION Spec
CONSTANTS
    LoginPackets = 3
    ConfigPackets = 2
    HasConfiguration = TRUE
    InformationFirst = TRUE
    Level <- MCLevel
    MaxConnections = 1
    MaxInFlight = 2
INVARIANT
    DisconnectInterrupts
