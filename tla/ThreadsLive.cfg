SPECIFICATION ThreadSpec
CONSTANTS
    main = main
    pad = pad
    Normal = 2
    Extended = 3
    PacketSizes <- MCPacketSizes
    Octets <- MCOctets
    LocalParams <- MCLocalParams
    Messages <- MCOneMessage
    PeerPackets <- MCSomePackets
    LinkMayFail = TRUE
    KeepOut = FALSE
    MaxSendQueue = 1
    MaxRecvQueue = 1
    Threads <- MCThreads
    Opener = main
    Roles = {"call"}
    Ops <- MCPadResetOps
    Malformed = TRUE
    MaxInput = 1
PROPERTIES
    LinkLossReleases
    TimedOutCallEnds
CHECK_DEADLOCK FALSE
