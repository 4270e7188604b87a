SPECIFICATION Spec
CONSTANTS
    Packets <- MCPackets
    Frames <- MCFrames
    Headers <- MCCallHeaders
    Pieces <- MCPieces
    MessageHeads <- MCMessageHeads
    MessageOctets <- MCMessageOctets
    ParamSets <- MCParamSets
    Requests <- MCRequests
    Responses <- MCResponses
    CallData <- MCCallData
    Commands <- MCCommands
    Separators <- MCSeparators
    Blanks <- MCBlanks
    MaxPieces = 3
INVARIANTS
    EncodedReadsBack
    AcceptedCouldBeSent
    AnswersTellTheTruth
    LineReadsBack
CHECK_DEADLOCK FALSE
