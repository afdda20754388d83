SPECIFICATION FairSpec
CONSTANTS
    Kind = {k}
    Client = {}
    Batch = 2
    MaxLength = 1
    QueueLimit = 1
    MaxEvents = 2
    MaxFaults = 4
    MaxWire = 0
    None = None
INVARIANTS
    NothingIsDropped
PROPERTIES
    KeepsPromise
    EventsSettle
CHECK_DEADLOCK FALSE
