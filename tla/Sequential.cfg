SPECIFICATION Spec
CONSTANTS
    N = 2
    DependsOn <- MCDependsOn
    Elevated <- MCElevated
    ReviewBeforeReplay <- MCReview
    Grants = {g1, g2, g3}
    None = None
    Procs = {p1}
    Commands = {"resume", "approve", "cancel", "recover"}
    Payloads = {v1}
    Editable = {}
    Approvals = {a1, a2}
    Faults = {"crash", "power_loss"}
SYMMETRY Symmetry
INVARIANTS
    SequentialInv
    OnlyOutcomeIsReported
    QuarantineMeansLostReceipt
PROPERTIES
    OnlyRecoverRevives
    ConsumedWorkIsNotRedone
CHECK_DEADLOCK FALSE
