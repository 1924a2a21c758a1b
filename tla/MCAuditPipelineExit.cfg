SPECIFICATION Spec
CONSTANTS
    Sessions = {s1}
    Buffers = {b1, b2, b3}
    Cap = 1
    MaxPackets = 1
    None = None
SYMMETRY
    Symmetry
INVARIANTS
    AuditedAtExit
