SPECIFICATION LiveSpec
CONSTANTS
    HeaderSize = 1
    MaxBody = 2
    Length <- Lengths
    Chunk = 2
    MaxSent = 4
    MaxAnswered = 2
INVARIANTS
    TypeOK
    EveryPacketFits
    TargetGetsStream
    LoggedIsForwarded
    ClientGetsStream
    ClosedLast
PROPERTIES
    SessionEnds
    EveryPacketForwarded
    AnswersArrive
