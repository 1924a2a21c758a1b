SPECIFICATION Spec
CONSTANTS
    MaxHour = 2
    MaxRecords = 2
    MaxOpens = 3
    None = None
INVARIANT
    CompleteMembersDecode
