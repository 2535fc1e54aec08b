\* The acceptance test: a failover against an open transaction, then one without.
SPECIFICATION Scenario
CONSTANTS
    Master = m
    Sync = s
    Async = a
    First = r1
    Second = r2
    None = None
    Node = {a}
    Run = {r1, r2}
    Expires = TRUE
    Faults = {"slow", "late"}
INVARIANTS
    ScenarioTypeOK
    TransactionKept
    PassedIsFailover
PROPERTIES
    ConnectionServed
\* The script ends with a verdict.
CHECK_DEADLOCK FALSE
