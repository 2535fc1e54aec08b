\* The primary moves away and back; one of two supervisors is killed, told to stop or
\* loses its API at any time, and may start again.
SPECIFICATION Spec
CONSTANTS
    Supervisor = {s1, s2}
    Node = {n1, n2}
    None = None
    MaxMoves = 2
    MaxFaults = 1
INVARIANTS
    TypeOK
    Settled
PROPERTIES
    KeyKept
    Converges
    ShutsDown
\* A process that has returned does nothing more.
CHECK_DEADLOCK FALSE
