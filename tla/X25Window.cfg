SPECIFICATION WindowSpec
CONSTANTS
    Modulo = 8
    Size = 5
    MaxSent = 24
INVARIANTS
    NumbersStandForCounts
    HonestAckUnderstood
PROPERTIES
    ImplementsCredit
CHECK_DEADLOCK FALSE
