SPECIFICATION TornSpec
CONSTANTS
    N = 1
    DependsOn <- MCNoDependencies
    Elevated = {1}
    ReviewBeforeReplay = {1}
    Grants = {g1}
    None = None
    Procs = {p1, p2}
    Commands = {"resume", "approve"}
    Payloads = {v1, v2}
    Editable = {1}
    Approvals = {a1}
    Faults = {"crash", "power_loss"}
SYMMETRY Symmetry
INVARIANTS
    LedgerInv
    ApprovedPayloadOnly
PROPERTIES
    TornRunIsFrozen
CHECK_DEADLOCK FALSE
