SPECIFICATION Spec
CONSTANTS
    LoginPackets = 3
    ConfigPackets = 2
    HasConfiguration = FALSE
    InformationFirst = FALSE
    Level <- MCLevel
    MaxConnections = 1
    MaxInFlight = 2
INVARIANT
    PlayHasSocket
