SPECIFICATION Spec
CONSTANTS
    Runs = {1, 2}
    Cli = {c1}
    Plugin = {p1}
    Secrets = {s1, s2, s3}
    None = None
SYMMETRY Symmetry
INVARIANTS
    OnlyManifestFails
    HoldersAgree
PROPERTIES
    KeysAreKept
CHECK_DEADLOCK FALSE
