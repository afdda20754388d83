SPECIFICATION FairSpec
CONSTANTS
    Session = {s1, s2}
    Binding = {b1}
    Caller = {c1, c2}
    RetentionMax = 1
    MaxDeadline = 1
    None = None
INVARIANTS
    OpenLinkAgrees
    PresenceFollowsStatus
    ReverseNamesALink
PROPERTIES
    LiveHolderKeepsReference
    LinkHistoryKept
    SilentSessionEnds
CHECK_DEADLOCK FALSE
