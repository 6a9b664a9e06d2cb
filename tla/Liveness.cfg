SPECIFICATION FairSpec
CONSTANTS
    N = 2
    DependsOn <- MCDependsOn
    Elevated <- MCElevated
    ReviewBeforeReplay <- MCReview
    Grants = {g1, g2}
    None = None
    Procs = {p1}
    Commands = {"resume", "approve", "recover"}
    Payloads = {v1, v2}
    Editable = {2}
    Approvals = {a1}
    Faults = {"crash"}
PROPERTIES
    ImplementsApprovalGate
    CommandsReturn
    RunReachesAnEnd
CHECK_DEADLOCK FALSE
