SPECIFICATION Spec
CONSTANTS
    file1 = file1
    file2 = file2
    render = render
    rollback = rollback
    new = new
    old = old
    Path = {file1, file2}
    Content = {new, old}
    Absent = Absent
    Found = old
    Plan = {render, rollback}
    Want <- MCWant
    Caller = {c1, c2}
    None = None
    MaxOps = 2
    MaxFaults = 1
SYMMETRY MCSymmetry
INVARIANTS
    TypeOK
    JournalCoversWrites
    NoFalseDrift
    HeldWithReason
PROPERTIES
    ReplacesOnlyApproved
    RecordedIsWritten
CHECK_DEADLOCK FALSE
