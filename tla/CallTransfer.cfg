SPECIFICATION Spec
CONSTANTS
    Normal = 3
    Extended = 5
    PacketSizes <- MCPacketSizes
    Octets <- MCOctets
    LocalParams <- MCLocalParams
    Messages <- MCMessages
    LinkMayFail = TRUE
    MaxSendQueue = 4
    MaxMessages <- MCTwoOne
    MaxResets = 0
    MayClear = FALSE
    MayExpire = FALSE
INVARIANTS
    ParamsAgree
    NeverOutOfStep
    InFlightWithinWindow
    QueuedDataWaitsForWindow
PROPERTIES
    DeliversMessages
    EveryMessageArrives
CHECK_DEADLOCK FALSE
