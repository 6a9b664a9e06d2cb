SPECIFICATION Spec
CONSTANTS
    N = 1
    DependsOn <- MCNoDependencies
    Elevated = {1}
    ReviewBeforeReplay = {1}
    Grants = {g1, g2}
    None = None
    Procs = {p1}
    Commands = {"resume", "approve"}
    Payloads = {v1}
    Editable = {}
    Approvals = {a1}
    Faults = {}
SYMMETRY Symmetry
INVARIANTS
    NoSilentReplay
CHECK_DEADLOCK FALSE
