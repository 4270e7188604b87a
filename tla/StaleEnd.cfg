SPECIFICATION Spec
CONSTANTS
    Modes = {"listening"}
    Octets = {"^P", "CR", "x"}
    MaxCalls = 2
    MaxInput = 3
    MaxChannel = 2
    MaxData = 1
INVARIANTS
    EndMeansCleared
CHECK_DEADLOCK FALSE
