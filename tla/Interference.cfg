\* Two runs over two nodes: what the first leaves behind meets the second.
SPECIFICATION Spec
CONSTANTS
    Run = {r1, r2}
    Node = {n1, n2}
    Expires = TRUE
    Faults = {"drop"}
SYMMETRY Symmetry
INVARIANTS
    PauseHeldUnlessStale
    DrainedUnlessLeft
    PausedHasOwner
    ConstraintHeld
    ConstraintHasOwner
\* Once every process is gone and every timer has fired nothing is left to do.
CHECK_DEADLOCK FALSE
