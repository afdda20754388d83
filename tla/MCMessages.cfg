SPECIFICATION Spec
CONSTANTS
    Session = {s1, s2}
    Message = {m1, m2}
    Key = {k1}
    Asks <- MCAsks
    s1 = s1
    s2 = s2
    k1 = k1
    Claimer = {c1}
    Limit = 2
    ClaimsMayBeLost = TRUE
    None = None
SYMMETRY MCSymmetry
INVARIANTS
    UnfinishedIsRecoverable
    OutcomeIsPosted
    KeyFindsItsMessage
PROPERTIES
    ImplementsAskReply
CHECK_DEADLOCK FALSE
