SPECIFICATION Spec
CONSTANTS
    Normal = 3
    Extended = 5
    PacketSizes <- MCPacketSizes
    Octets <- MCOctets
    LocalParams <- MCNarrowParams
    Messages <- MCLongMessage
    LinkMayFail = FALSE
    MaxSendQueue = 4
    MaxMessages <- MCTwoOne
    MaxResets = 2
    MayClear = TRUE
    MayExpire = TRUE
INVARIANTS
    NothingLostBeforeClear
    ConfirmedClearEndsBoth
    ReceivedInOrder
    ResetsLeaveStep
CHECK_DEADLOCK FALSE
