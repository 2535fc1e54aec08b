\* The standby is promoted, with others before and after it, while etcd lags.
SPECIFICATION Spec
CONSTANTS
    MaxRev = 4
    Node = {n1, n2}
    None = None
INVARIANTS
    TypeOK
    WaitsForMigrated
    ObservedCurrent
    PanicOnlyOnReturn
PROPERTIES
    NoticedIfPromoted
\* A process that has returned does nothing more.
CHECK_DEADLOCK FALSE
