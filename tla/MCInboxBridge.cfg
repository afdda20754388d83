SPECIFICATION BridgeSpec
CONSTANTS
    Session = {s1, s2}
    Message = {m1}
    Key = {k1}
    Asks <- MCAsks
    s1 = s1
    s2 = s2
    k1 = k1
    Claimer = {own, other}
    Own = own
    Home = {s2}
    Limit = 1
    ClaimsMayBeLost = TRUE
    MaxFaults = 1
    None = None
INVARIANTS
    RunsOnce
PROPERTIES
    RunIsClosed
    EveryAskIsDecidedBySweep
CHECK_DEADLOCK FALSE
