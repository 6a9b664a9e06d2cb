SPECIFICATION Spec
CONSTANTS
    Runs = {r1, r2}
    Wakes = {w1, w2}
    Statuses = {"running", "awaiting_approval", "quarantined"}
    MaxRevision = 3
    None = None
SYMMETRY Symmetry
INVARIANTS
    LinksNameRuns
    EveryRunIsReferenced
PROPERTIES
    LinksAreNeverLost
    DoneIsReviewed
CHECK_DEADLOCK FALSE
