\* A reload fails while the proxy shuts down.
SPECIFICATION Spec
CONSTANTS
    MaxRev = 1
    MaxStarts = 1
INVARIANTS
    OnlyKvs
\* A process that has returned does nothing more.
CHECK_DEADLOCK FALSE
