SPECIFICATION Spec
CONSTANTS
    Protocol = 47
    Replies <- AllReplies
    Axis <- OneAxis
    Coord <- MCCoord
    Token = {1}
    MaxPackets = 3
    MaxConnections = 2
INVARIANT
    EchoesAreAbsolute
CHECK_DEADLOCK FALSE
