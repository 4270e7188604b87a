SPECIFICATION Spec
CONSTANTS
    Normal = 3
    Extended = 5
    PacketSizes <- MCPacketSizes
    Octets <- MCOctets
    LocalParams <- MCOneParams
    Messages <- MCMessages
    LinkMayFail = FALSE
    MaxSendQueue = 4
    MaxMessages <- MCNoMessage
    MaxResets = 0
    MayClear = TRUE
    MayExpire = FALSE
PROPERTIES
    ClearReturns
CHECK_DEADLOCK FALSE
