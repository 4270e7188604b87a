SPECIFICATION ThreadSpec
CONSTANTS
    main = main
    pad = pad
    Normal = 2
    Extended = 3
    PacketSizes <- MCPacketSizes
    Octets <- MCOctets
    LocalParams <- MCLocalParams
    Messages <- MCMessages
    PeerPackets <- MCAnyPacket
    LinkMayFail = TRUE
    KeepOut = FALSE
    MaxSendQueue = 2
    MaxRecvQueue = 2
    Threads <- MCThreads
    Opener = main
    Roles = {"call", "listen"}
    Ops <- MCAllOps
    Malformed = TRUE
    MaxInput = 1
INVARIANTS
    SleepersHaveCause
    ResultsExpected
    FailedAnswerExplained
    EngineServes
PROPERTIES
    ImplementsVc
CHECK_DEADLOCK FALSE
