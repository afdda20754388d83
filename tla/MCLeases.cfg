SPECIFICATION Spec
CONSTANTS
    Session = {s1, s2}
    LeaseId = {l1, l2}
    Path <- MCNested
    Duration = {2}
    Caller = {c1, c2}
    MaxActive = 2
    SweepBatch = 1
    MaxClock = 2
    MaxRestarts = 0
    None = None
SYMMETRY MCSymmetry
INVARIANTS
    IndexesAgree
    TimelyRenewalsExclude
PROPERTIES
    TimelyHolderKeepsPath
CHECK_DEADLOCK FALSE
