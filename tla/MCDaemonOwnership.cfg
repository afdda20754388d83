SPECIFICATION FairSpec
CONSTANTS
    Daemon = {d1, d2}
    None = None
    MaxFaults <- MCMaxFaults
    MaxLapses <- MCMaxLapses
INVARIANTS
    ActiveIsOwner
    LossIsRecovered
    NoOrphanedKey
PROPERTIES
    OwnershipIsSettled
CHECK_DEADLOCK FALSE
