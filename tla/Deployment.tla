------------------------------ MODULE Deployment ------------------------------
(***************************************************************************)
(* The constants that the parts of the failover share: who runs it, on     *)
(* which nodes, with which options, and what may go wrong meanwhile.       *)
(***************************************************************************)
CONSTANTS Run,        \* executions of `pgcm failover`
          Node,       \* Postgres nodes, each with a failover API and a PgBouncer
          Expires,    \* PauseRequest.Expiry > 0: pause-expiry is 1 s or more
          Faults      \* what may go wrong

\* What may go wrong beyond an error answer:
\*   crash     a run's process dies
\*   giveup    a call errs at its caller (timeout, lost answer, SIGINT)
\*             whatever the server does with the request
\*   slow      a run takes longer than the 10 s after which its deferCtx ends
\*   late      a timeout ends just as what it waits for (the lock, the answer of
\*             PgBouncer) is there
\*   lapse     etcd drops the lease of a run that is alive
\*   restart   a supervise process restarts
\*   drop      a scheduled RESUME fails
\*   nocancel  the cancel request for a PAUSE is lost
FaultKinds == {"crash", "giveup", "slow", "late", "lapse", "restart", "drop",
               "nocancel"}

ASSUME DeploymentAssumption ==
    /\ Node # {}
    /\ Expires \in BOOLEAN
    /\ Faults \in SUBSET FaultKinds
=============================================================================
