SPECIFICATION Spec
CONSTANTS
    Normal = 3
    Extended = 5
    PacketSizes <- MCPacketSizes
    Octets <- MCOctets
    LocalParams <- MCSmallWindows
    Messages <- MCMessages
    PeerPackets <- MCPeerPackets
    LinkMayFail = TRUE
    KeepOut = FALSE
    MaxSendQueue = 3
    MaxRecvQueue = 1
INVARIANTS
    TypeOK
    WindowRespected
    WindowAssertionHolds
CHECK_DEADLOCK FALSE
