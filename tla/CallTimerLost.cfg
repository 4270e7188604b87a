SPECIFICATION ThreadSpec
CONSTANTS
    main = main
    pad = pad
    Normal = 2
    Extended = 3
    PacketSizes <- MCPacketSizes
    Octets <- MCOctets
    LocalParams <- MCLocalParams
    Messages <- MCOneMessage
    PeerPackets <- MCSilentPeer
    LinkMayFail = FALSE
    KeepOut = FALSE
    MaxSendQueue = 1
    MaxRecvQueue = 1
    Threads <- MCThreads
    Opener = main
    Roles = {"call"}
    Ops <- MCNoOps
    Malformed = FALSE
    MaxInput = 1
PROPERTIES
    CallRequestTimesOut
CHECK_DEADLOCK FALSE
