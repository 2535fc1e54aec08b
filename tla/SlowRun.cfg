\* A run of more than ten seconds that nobody interrupts.
SPECIFICATION Spec
CONSTANTS
    Run = {r1}
    Node = {n1}
    Expires = TRUE
    Faults = {"slow"}
SYMMETRY Symmetry
INVARIANTS
    CleanupSent
\* Once every process is gone and every timer has fired nothing is left to do.
CHECK_DEADLOCK FALSE
