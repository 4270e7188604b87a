SPECIFICATION Spec
CONSTANTS
    CR = 13
    LF = 10
    Texts <- MCTexts
    PadParams <- MCPlainParams
    PacketSize = 3
    ReadSize = 4
    SuppressEcho = TRUE
    PeerMessages <- MCDataOnly
    MainOps = {}
    MaxOps = 0
    MaxInput = 1
    MaxInbox = 1
PROPERTIES
    EndReachesReader
CHECK_DEADLOCK FALSE
