SPECIFICATION Spec
CONSTANTS
    Modes = {"one-shot", "listening"}
    Octets <- MCOctets
    MaxCalls = 2
    MaxInput = 4
    MaxChannel = 2
    MaxData = 1
INVARIANTS
    DataStateHasCall
    EveryCallIsRead
    ConnectedBeforeData
CHECK_DEADLOCK FALSE
