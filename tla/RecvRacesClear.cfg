SPECIFICATION ThreadSpec
CONSTANTS
    main = main
    pad = pad
    Normal = 2
    Extended = 3
    PacketSizes <- MCPacketSizes
    Octets <- MCOctets
    LocalParams <- MCLocalParams
    Messages <- MCOneMessage
    PeerPackets <- MCConfirmer
    LinkMayFail = FALSE
    KeepOut = FALSE
    MaxSendQueue = 1
    MaxRecvQueue = 1
    Threads <- MCThreads
    Opener = main
    Roles = {"call"}
    Ops <- MCClearOps
    Malformed = FALSE
    MaxInput = 1
INVARIANTS
    RecvFindsKnownState
CHECK_DEADLOCK FALSE
