SPECIFICATION ScreenSpec
CONSTANTS
    Kind = {k}
    Page = c
    Client = {c}
    QueueLimit = 1
    MaxEvents = 2
    MaxWire = 2
    None = None
INVARIANTS
    ScreenCatchesUp
CHECK_DEADLOCK FALSE
