SPECIFICATION FairSpec
CONSTANTS
    Session = {s1}
    LeaseId = {l1, l2}
    Path <- MCDisjoint
    Duration = {2}
    Caller = {c1}
    MaxActive = 1
    SweepBatch = 1
    MaxClock = 2
    MaxRestarts = 1
    None = None
INVARIANT
    LiveWithinLimit
PROPERTIES
    LapsedIsFreed
CHECK_DEADLOCK FALSE
