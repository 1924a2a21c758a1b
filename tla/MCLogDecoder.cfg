SPECIFICATION DecoderSpec
CONSTANTS
    MaxHour = 2
    MaxRecords = 3
    MaxOpens = 4
    Fields = 2
    Garbage = Garbage
    MaxGarbage = 2
    None = None
INVARIANTS
    TypeOK
    CleanFilesDecode
    PrintsWhatWasEncoded
PROPERTIES
    CleanEndMeansAll
    DecodedOnlyGrows
    ImplementsSink
