\* More steps than the failover has, two of them with nothing deferred.
SPECIFICATION Spec
CONSTANTS
    N = 16
    Deferred = {2, 3, 4, 5, 6, 7, 9, 10, 11, 12, 13, 14, 15, 16}
INVARIANTS
    TypeOK
    CleanupInReverse
    DeferredRan
PROPERTIES
    Terminates
\* A pipeline that has returned does nothing more.
CHECK_DEADLOCK FALSE
