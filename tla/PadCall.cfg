SPECIFICATION Spec
CONSTANTS
    CR = 13
    LF = 10
    Texts <- MCTexts
    PadParams <- MCPadParams
    PacketSize = 3
    ReadSize = 1
    SuppressEcho = TRUE
    Requests <- MCRequests
    AOps = {"write", "flush", "ask", "invite", "clear"}
    BOps = {"write"}
    MaxAOps = 2
    MaxBOps = 1
    LinkMayFail = FALSE
INVARIANTS
    RestIsDelivered
    InvitationLosesNothing
PROPERTIES
    CarriesOctets
CHECK_DEADLOCK FALSE
