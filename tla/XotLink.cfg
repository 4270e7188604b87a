SPECIFICATION Spec
CONSTANTS
    Base = 3
    MinLen = 2
    MaxLen = 3
    Chunk = 5
    Packets <- MCPackets
    NonFrames <- MCNonFrames
    MaxFrames = 3
INVARIANTS
    InStep
    ShutdownLosesNothing
PROPERTIES
    ImplementsChannel
    EveryPacketArrives
CHECK_DEADLOCK FALSE
