SPECIFICATION Spec
CONSTANTS
    N = 1
    DependsOn <- MCNoDependencies
    Elevated = {1}
    ReviewBeforeReplay = {1}
    Grants = {}
    None = None
    Flows = {f1}
    Runs = {r1, r2}
    Launches = {t1, t2}
    MaxOutside = 2
SYMMETRY Symmetry
INVARIANTS
    IndexIsTrue
    LinksAreKept
    WaitsAreNamed
PROPERTIES
    LastStopDecides
CHECK_DEADLOCK FALSE
