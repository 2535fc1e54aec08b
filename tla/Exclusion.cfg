\* Two runs compete for the lock; leases lapse, runs are slow and do not release it, and
\* timeouts end as the answer comes.
SPECIFICATION Spec
CONSTANTS
    Run = {r1, r2}
    Node = {n1}
    Expires = TRUE
    Faults = {"slow", "late", "lapse"}
SYMMETRY Symmetry
INVARIANTS
    TypeOK
    KeyExclusion
    LockMovesOn
\* Once every process is gone and every timer has fired nothing is left to do.
CHECK_DEADLOCK FALSE
