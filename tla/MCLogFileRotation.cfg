SPECIFICATION TickingSpec
CONSTANTS
    MaxHour = 2
    MaxRecords = 2
    MaxOpens = 2
    None = None
PROPERTY
    RotationMovesOn
