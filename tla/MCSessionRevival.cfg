SPECIFICATION RevivalSpec
CONSTANTS
    Client = {attach, b1, b2}
    Attach = attach
    RecoverUnready = {}
    Reporting = {attach}
    Session = {s1, s2, s3}
    ToolCaller = {j, t}
    Joiner = {j}
    MaxFaults = 1
    None = None
    Silent = Silent
SYMMETRY MCSymmetry
INVARIANTS
    NoSessionLeaks
    NoRunawaySuccessor
