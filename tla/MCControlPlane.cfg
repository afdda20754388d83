SPECIFICATION Spec
CONSTANTS
    Definition = {d1, d2}
    Assignment = {x}
    MaxWrites = 3
    MaxWaiting = 2
    MaxFaults = 2
    None = None
INVARIANTS
    AcknowledgedIsKept
PROPERTIES
    ReconcileRestores
CHECK_DEADLOCK FALSE
