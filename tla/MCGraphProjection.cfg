SPECIFICATION Spec
CONSTANTS
    Fact = {f1, f2}
    Rebuild = {r1, r2}
    Initial = Initial
    Keep = 2
    MaxFaults = 1
    None = None
SYMMETRY MCSymmetry
INVARIANTS
    TypeOK
    QuietGraphIsComplete
PROPERTIES
    ActiveKeepsFacts
    NewestIsPublished
CHECK_DEADLOCK FALSE
