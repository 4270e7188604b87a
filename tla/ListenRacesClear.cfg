SPECIFICATION ThreadSpec
CONSTANTS
    main = main
    pad = pad
    Normal = 2
    Extended = 3
    PacketSizes <- MCPacketSizes
    Octets <- MCOctets
    LocalParams <- MCLocalParams
    Messages <- MCOneMessage
    PeerPackets <- MCCaller
    LinkMayFail = FALSE
    KeepOut = FALSE
    MaxSendQueue = 1
    MaxRecvQueue = 1
    Threads <- MCThreads
    Opener = main
    Roles = {"listen"}
    Ops <- MCNoOps
    Malformed = FALSE
    MaxInput = 1
INVARIANTS
    ListenFindsKnownState
CHECK_DEADLOCK FALSE
