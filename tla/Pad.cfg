SPECIFICATION Spec
CONSTANTS
    CR = 13
    LF = 10
    Texts <- MCTexts
    PadParams <- MCPadParams
    PacketSize = 2
    ReadSize = 4
    SuppressEcho = TRUE
    PeerMessages <- MCPeerMessages
    MainOps = {"write", "flush", "ask", "invite", "clear"}
    MaxOps = 2
    MaxInput = 2
    MaxInbox = 1
INVARIANTS
    SleepingReaderHasNothing
    NothingTypedIsLost
    AnswersMatch
CHECK_DEADLOCK FALSE
