SPECIFICATION Spec
CONSTANTS
    Normal = 3
    Extended = 5
    PacketSizes <- MCPacketSizes
    Octets <- MCOctets
    LocalParams <- MCLargeWindow
    Messages <- MCMessages
    PeerPackets <- MCPeerPackets
    LinkMayFail = TRUE
    KeepOut = FALSE
    MaxSendQueue = 3
    MaxRecvQueue = 1
INVARIANTS
    WindowAssertionHolds
CHECK_DEADLOCK FALSE
