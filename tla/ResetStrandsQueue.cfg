SPECIFICATION Spec
CONSTANTS
    Normal = 3
    Extended = 5
    PacketSizes <- MCPacketSizes
    Octets <- MCOctets
    LocalParams <- MCOneParams
    Messages <- MCMessages
    LinkMayFail = FALSE
    MaxSendQueue = 4
    MaxMessages <- MCTwoEach
    MaxResets = 1
    MayClear = FALSE
    MayExpire = FALSE
INVARIANTS
    QueuedDataWaitsForWindow
CHECK_DEADLOCK FALSE
