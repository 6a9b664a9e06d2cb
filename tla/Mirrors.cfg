SPECIFICATION Spec
CONSTANTS
    N = 1
    DependsOn <- MCNoDependencies
    Elevated = {1}
    ReviewBeforeReplay = {1}
    Grants = {}
    None = None
    Runs = {r1, r2}
    Procs = {p1, p2}
    Commands = {"resume", "approve", "cancel", "recover", "sync"}
    SharedRoot = FALSE
    Times = {0, 1}
    MaxWrites = 3
SYMMETRY Symmetry
INVARIANTS
    MirrorNeverAhead
    MirrorFollowsLedger
    IndexIsComplete
CHECK_DEADLOCK FALSE
