SPECIFICATION Spec
CONSTANTS
    N = 3
    Workflows <- MCWorkflows
    Lanes <- MCLanes
    None = None
INVARIANTS
    CyclesAreFound
    AcceptedNeverStalls
    OnlyAllowedSucceed
    DryRunForetells
PROPERTIES
    Terminates
CHECK_DEADLOCK FALSE
