SPECIFICATION Spec
CONSTANTS
    Sessions = {s1, s2}
    Buffers = {b1, b2, b3}
    Cap = 1
    MaxPackets = 1
    None = None
SYMMETRY
    Symmetry
INVARIANTS
    TypeOK
    ExclusiveBuffers
    WellFormedTrail
    NoOperationUnaudited
    CrashCause
PROPERTIES
    ImplementsTrail
