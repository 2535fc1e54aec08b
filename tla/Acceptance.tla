------------------------------ MODULE Acceptance ------------------------------
(***************************************************************************)
(* RunAcceptance (pkg/acceptance/acceptance.go) over a whole cluster: two  *)
(* runs of Failover, the first against an open transaction, with Pacemaker,*)
(* the supervise processes and the proxies as the script sees them, and    *)
(* the script's own verdict.                                               *)
(*                                                                         *)
(* Node is the set of failover-api-endpoints, that of Async among them.    *)
(***************************************************************************)
EXTENDS Failover

CONSTANTS Master, Sync, Async,      \* the members, by their roles at the start
          First, Second,            \* the runs
          None

Member == {Master, Sync, Async}

ASSUME AcceptanceAssumption ==
    /\ Master # Sync /\ Async \notin {Master, Sync} /\ None \notin Member
    /\ Node \subseteq Member /\ Async \in Node
    /\ Run = {First, Second} /\ First # Second

VARIABLES at,         \* where the script is
          unseen,     \* members whose PgBouncer it has not connected through
          open,       \* its transaction is open, on the PgBouncer of Async
          primary,    \* the node that Pacemaker reports
          etcd,       \* the node whose address the supervise processes wrote
          host,       \* host[n]: the node to which PgBouncer on n connects
          noticed     \* runs that saw their target in etcd

scriptVars == <<at, unseen, open>>
clusterVars == <<primary, etcd, host>>
allVars == <<vars, scriptVars, clusterVars, noticed>>

Verdicts == {"passed", "failed"}

ScenarioTypeOK ==
    /\ TypeOK
    /\ at \in {"master", "proxies", "first", "rollback", "second", "query", "result"}
              \cup Verdicts
    /\ unseen \in SUBSET Member
    /\ open \in BOOLEAN /\ (open => at \in {"first", "rollback", "failed"})
    /\ primary \in Member /\ etcd \in Member \cup {None}
    /\ host \in [Member -> Member \cup {None}]
    /\ noticed \in SUBSET Run

\* The containers are up, and the members have the roles that cluster.Roles() answers.
StartCluster ==
    /\ Init
    /\ at = "master" /\ unseen = Member /\ open = FALSE
    /\ primary = Master /\ etcd = None /\ host = [n \in Member |-> None]
    /\ noticed = {}

-----------------------------------------------------------------------------
(* Pacemaker obeys the constraint; supervise and proxy follow it *)

Promote ==
    /\ prefer /\ primary = Master
    /\ primary' = Sync
    /\ UNCHANGED <<vars, scriptVars, etcd, host, noticed>>

Supervise ==
    /\ etcd # primary
    /\ etcd' = primary
    /\ UNCHANGED <<vars, scriptVars, primary, host, noticed>>

\* Of the others the script asks only once.
Proxy(n) ==
    /\ n = Async \/ n \in unseen
    /\ etcd \notin {None, host[n]}
    /\ host' = [host EXCEPT ![n] = etcd]
    /\ UNCHANGED <<vars, scriptVars, primary, etcd, noticed>>

-----------------------------------------------------------------------------
(* What the script runs and asks *)

\* `go failover(failoverResults, ...)`.
Launched(r) == at \in IF r = First THEN {"first"} ELSE {"second", "query", "result"}

\* A step of `pgcm failover`.  Its wait ends without an error when etcd has the
\* target, unless PauseExpiry has passed.
Failover(r) ==
    /\ Launched(r) /\ Client(r)
    /\ noticed' \in {noticed} \cup
            (IF pc[r] = "watch" /\ etcd = Sync THEN {noticed \cup {r}} ELSE {})
    /\ UNCHANGED <<scriptVars, clusterVars>>

\* CombinedOutput returns once the process has ended: with an error unless it
\* exited with 0.
Ran0(r) == pc[r] = "returned" /\ r \in noticed
RanErr(r) == Gone(r) /\ ~Ran0(r)

\* What inet_server_addr() answers through the PgBouncer on n, when it answers.
Answers(n) == host[n] # None /\ (n \in Node => bouncer[n] = "active")

GoOn(l) == at' = l /\ UNCHANGED <<vars, clusterVars, noticed>>

-----------------------------------------------------------------------------
(* The script *)

SeesMaster ==
    /\ at = "master" /\ etcd = Master
    /\ GoOn("proxies") /\ UNCHANGED <<unseen, open>>

Connects(n) ==
    /\ at = "proxies" /\ n \in unseen /\ Answers(n) /\ host[n] = Master
    /\ unseen' = unseen \ {n}
    /\ GoOn("proxies") /\ UNCHANGED open

\* "start transaction, preventing PgBouncer pause"
Begins ==
    /\ at = "proxies" /\ unseen = {}
    /\ open' = TRUE
    /\ GoOn("first") /\ UNCHANGED unseen

\* "this failover should fail, due to the PgBouncer pause timeout"
FirstFailed ==
    /\ at = "first" /\ RanErr(First)
    /\ GoOn("rollback") /\ UNCHANGED <<unseen, open>>

\* Mutant: the transaction stays open.
SkipsRollback ==
    /\ at = "rollback"
    /\ GoOn("second") /\ UNCHANGED <<unseen, open>>

\* "rollback transaction, allowing PgBouncer pause"
RollsBack ==
    /\ at = "rollback"
    /\ open' = FALSE
    /\ GoOn("second") /\ UNCHANGED unseen

\* "expecting the old sync node should become master"
SeesSync ==
    /\ at = "second" /\ primary = Sync
    /\ GoOn("query") /\ UNCHANGED <<unseen, open>>

\* "our connection via the async PgBouncer should proxy to new master"
SeesNewMaster ==
    /\ at = "query" /\ Answers(Async) /\ host[Async] = Sync
    /\ GoOn("result") /\ UNCHANGED <<unseen, open>>

\* The PgBouncer that was resumed still connects to the old primary: the query errs,
\* for which the Expect inside Eventually does not wait.
QueryErrs ==
    /\ at = "query" /\ Answers(Async) /\ host[Async] # primary
    /\ GoOn("failed") /\ UNCHANGED <<unseen, open>>

\* Mutant: `Receive()`, whatever the result.
PassesAny ==
    /\ at = "result" /\ Gone(Second)
    /\ GoOn("passed") /\ UNCHANGED <<unseen, open>>

\* The result of the second failover is there, and it is nil.
Passes ==
    /\ at = "result" /\ Ran0(Second)
    /\ GoOn("passed") /\ UNCHANGED <<unseen, open>>

\* Receive does not wait: the result is an error, or not there yet.
NoResult ==
    /\ at = "result"
    /\ GoOn("failed") /\ UNCHANGED <<unseen, open>>

\* Eventually ends after a minute.
GivesUp ==
    /\ at \in {"master", "proxies", "first", "second", "query"}
    /\ GoOn("failed") /\ UNCHANGED <<unseen, open>>

Script ==
    \/ SeesMaster \/ Begins \/ FirstFailed \/ RollsBack
    \/ SeesSync \/ SeesNewMaster \/ QueryErrs \/ Passes \/ NoResult \/ GivesUp
    \/ \E n \in Member : Connects(n)

-----------------------------------------------------------------------------
Cluster == Promote \/ Supervise \/ \E n \in Member : Proxy(n)

Serves(r) == Server(r) /\ UNCHANGED <<scriptVars, clusterVars, noticed>>

\* The rest of the failover, the death of a run included; an open transaction keeps
\* its PgBouncer from draining.
Background ==
    /\ \/ \E r \in Run : DeferCtxEnds(r) \/ LeaseEnds(r) \/ Crash(r)
       \/ \E n \in Node : Bouncer(n) /\ (n = Async /\ open => bouncer'[n] # "paused")
    /\ UNCHANGED <<scriptVars, clusterVars, noticed>>

\* With the verdict the containers are removed (`defer cluster.Shutdown()`).
ScenarioNext ==
    /\ at \notin Verdicts
    /\ Script \/ Cluster \/ Background \/ \E r \in Run : Failover(r) \/ Serves(r)

\* The servers, Pacemaker's followers and the script go on, whatever becomes of the runs.
ScenarioFairness ==
    /\ \A r \in Run : WF_allVars(Serves(r))
    /\ WF_allVars(Supervise) /\ WF_allVars(Proxy(Async))
    /\ WF_allVars(SeesNewMaster)

Scenario == StartCluster /\ [][ScenarioNext]_allVars /\ ScenarioFairness

-----------------------------------------------------------------------------
(* Properties *)

\* "preventing PgBouncer pause": as long as the transaction is open nothing moves the
\* primary under it, nor asks Pacemaker to.
TransactionKept ==
    open => primary = Master /\ ~prefer /\ \A r \in Run : mig[r] = "idle"

\* What the script takes for a successful failover is one: the first run moved
\* nothing, Pacemaker obeyed the second, and the clients follow.
PassedIsFailover ==
    at = "passed" =>
        /\ mig[First] = "idle" /\ mig[Second] = "done"
        /\ primary = Sync /\ etcd = Sync /\ host[Async] = Sync

\* Why these hold.  As long as its transaction is open the script has launched one run,
\* the PAUSE of which is not answered on the node of the transaction, so that its pause
\* step fails.
Unlaunched(r) ==
    /\ pc[r] = "init"
    /\ \A n \in Node : pause[r][n] = "idle" /\ r \notin cancel[n]

Pinned ==
    /\ Unlaunched(Second)
    /\ bouncer[Async] # "paused"
    /\ pause[First][Async] \in {"idle", "sent"} => bouncer[Async] = "active"
    /\ pause[First][Async] \notin {"armed", "held", "expired"}
    /\ pc[First] \in Before => pause[First][Async] = "idle"
    /\ primary = Master /\ ~prefer /\ \A r \in Run : mig[r] = "idle"

OpenInv ==
    /\ at \in {"first", "rollback"} => open
    /\ open => at \in {"first", "rollback", "failed"}
    /\ at \in {"master", "proxies"} => Unlaunched(First)
    /\ at \in {"master", "proxies"} \/ open => Pinned

\* What a run has seen it has asked for, and what the clients follow came from Pacemaker.
PassedInv ==
    /\ etcd = Sync => primary = Sync
    /\ \A n \in Member : host[n] = Sync => etcd = Sync
    /\ at \in {"result", "passed"} => host[Async] = Sync
    /\ at \in {"rollback", "second", "query", "result", "passed"} =>
            mig[First] = "idle"
    /\ at = "passed" => Second \in noticed
    /\ \A r \in Run : pc[r] = "watch" => mig[r] = "done"
    /\ \A r \in noticed : mig[r] = "done" /\ pc[r] \in {"unmigrate"} \cup After

\* Once the old sync node is the master, the connection is not held back for ever by
\* what either run left at the PgBouncer of Async.
ConnectionServed == at = "query" ~> at # "query"
=============================================================================
