\* One run over three nodes, each of which may fail on its own.
SPECIFICATION Spec
CONSTANTS
    Run = {r1}
    Node = {n1, n2, n3}
    Expires = TRUE
    Faults = {"crash", "giveup", "restart", "drop", "nocancel"}
SYMMETRY Symmetry
INVARIANTS
    MigrateOnlyWhenPaused
    CleanupSent
    SafetyBelt
PROPERTIES
    RunsPipeline
\* Once every process is gone and every timer has fired nothing is left to do.
CHECK_DEADLOCK FALSE
