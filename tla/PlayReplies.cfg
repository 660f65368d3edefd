SPECIFICATION Spec
CONSTANTS
    Protocol = 777
    Replies <- AllReplies
    Axis <- TwoAxes
    Coord <- MCCoord
    Token = {1}
    MaxPackets = 3
    MaxConnections = 2
INVARIANTS
    ConfirmationsMatchTeleports
    LoadedOncePerConnection
    TrackedIsServers
PROPERTY
    ConfirmationKeepsPosition
CHECK_DEADLOCK FALSE
