SPECIFICATION Spec
CONSTANTS
    N = 2
    DependsOn <- MCDependsOn
    Elevated <- MCElevated
    ReviewBeforeReplay <- MCReview
    Grants = {g1, g2}
    None = None
    Procs = {p1, p2}
    Commands = {"resume", "approve", "recover"}
    Payloads = {v1}
    Editable = {}
    Approvals = {a1}
    Faults = {}
SYMMETRY Symmetry
INVARIANTS
    DependenciesFirst
    SuccessIsEarned
    WaitingNamesAStep
PROPERTIES
    RecoverySettles
CHECK_DEADLOCK FALSE
