\* Three changes of the primary while the proxy starts, stops, fails and restarts.
SPECIFICATION Spec
CONSTANTS
    MaxRev = 3
    MaxStarts = 2
INVARIANTS
    TypeOK
    Applied
PROPERTIES
    FoldedInOrder
    NeverBack
    Converges
    ShutsDown
\* A process that has returned does nothing more.
CHECK_DEADLOCK FALSE
