\* Two runs that may die anywhere: one failover at a time, and in the end traffic flows,
\* the lock is free and every run has returned or died.
SPECIFICATION Spec
CONSTANTS
    Run = {r1, r2}
    Node = {n1}
    Expires = TRUE
    Faults = {"crash"}
INVARIANTS
    MutualExclusion
PROPERTIES
    TrafficResumes
    LockFreed
    EveryRunEnds
\* Once every process is gone and every timer has fired nothing is left to do.
CHECK_DEADLOCK FALSE
