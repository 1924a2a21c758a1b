SPECIFICATION LiveSpec
CONSTANTS
    Sessions = {s1}
    Buffers = {b1, b2, b3}
    Cap = 2
    MaxPackets = 2
    None = None
INVARIANTS
    WellFormedTrail
PROPERTIES
    ShutdownCompletes
    EventuallyLogged
    EventuallyDisconnected
    ImplementsTrail
