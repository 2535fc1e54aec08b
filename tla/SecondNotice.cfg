\* etcd leaves the target and comes back to it while the run cleans up.
SPECIFICATION Spec
CONSTANTS
    MaxRev = 3
    Node = {n1, n2}
    None = None
INVARIANTS
    ResumeAttempted
\* A process that has returned does nothing more.
CHECK_DEADLOCK FALSE
