--------------------------- MODULE AcceptanceProofs ---------------------------
(***************************************************************************)
(* The acceptance test under every combination of faults and every choice  *)
(* of failover endpoints that has the async member: its runs are runs of   *)
(* Failover, its transaction is kept, and what it passes is a failover.    *)
(***************************************************************************)
EXTENDS Acceptance, FailoverProofs

\* What a step of a run does to its place, its pauses and its migration.
Moves(r) ==
    /\ pc[r] # "returned"
    /\ UNCHANGED <<bouncer, cancel, prefer>>
    /\ \A q \in Run \ {r} : pc'[q] = pc[q] /\ pause'[q] = pause[q] /\ mig'[q] = mig[q]
    /\ \/ pause'[r] = pause[r]
       \/ /\ pc[r] \in {"lock", "waiting"} /\ pc'[r] = "pause"
          /\ \A n \in Node : pause'[r][n] = "sent"
    /\ \/ mig'[r] = mig[r]
       \/ pc[r] = "pause" /\ pause' = pause /\ step'[r] = 4
    /\ pc'[r] \in Before => pc[r] \in Before
    /\ pc'[r] = "watch" => mig[r] = "done" /\ mig'[r] = mig[r]
    /\ pc[r] \in {"watch", "unmigrate"} \cup After =>
            pc'[r] \in {"unmigrate"} \cup After /\ mig'[r] = mig[r]

LEMMA ClientMoves ==
    ASSUME TypeOK, NEW r \in Run, Client(r)
    PROVE  Moves(r)
<1> USE DEF Moves, Before, After, TypeOK, ServerTypeOK, At, Goto, EnterStep, EnterPause,
            Await, BeginUnmigrate, BeginResume,
            bouncerVars, crmVars, serverVars, clientVars
<1>1. CASE Start(r)
  BY <1>1 DEF Start
<1>2. CASE StartFails(r)
  BY <1>2 DEF StartFails
<1>3. CASE HealthCheckFails(r)
  BY <1>3 DEF HealthCheckFails
<1>4. CASE HealthChecked(r)
  BY <1>4 DEF HealthChecked
<1>5. CASE LockTxn(r)
  BY <1>5 DEF LockTxn
<1>6. CASE LockTxnFails(r)
  BY <1>6 DEF LockTxnFails
<1>7. CASE LockAcquired(r)
  BY <1>7 DEF LockAcquired
<1>8. CASE LockAcquiredLate(r)
  BY <1>8 DEF LockAcquiredLate
<1>9. CASE LockTimesOut(r)
  BY <1>9 DEF LockTimesOut
<1>10. CASE PauseFails(r)
  BY <1>10 DEF PauseFails
<1>11. CASE Paused(r)
  BY <1>11 DEF Paused
<1>12. CASE Migrated(r)
  BY <1>12 DEF Migrated
<1>13. CASE MigrateErrs(r)
  BY <1>13 DEF MigrateErrs
<1>14. CASE WatchEnds(r)
  BY <1>14 DEF WatchEnds
<1>15. CASE UnmigrateReturns(r)
  BY <1>15 DEF UnmigrateReturns
<1>16. CASE Resumed(r)
  BY <1>16 DEF Resumed
<1>17. CASE ReleaseLock(r)
  BY <1>17 DEF ReleaseLock
<1>18. ASSUME NEW n \in Node, HealthCheck(r, n) PROVE Moves(r)
  BY <1>18 DEF HealthCheck
<1>19. ASSUME NEW n \in Node, PauseReturns(r, n) PROVE Moves(r)
  BY <1>19 DEF PauseReturns
<1>20. ASSUME NEW n \in Node, ResumeReturns(r, n) PROVE Moves(r)
  BY <1>20 DEF ResumeReturns
<1> QED
  BY <1>1, <1>2, <1>3, <1>4, <1>5, <1>6, <1>7, <1>8, <1>9, <1>10, <1>11,
     <1>12, <1>13, <1>14, <1>15, <1>16, <1>17, <1>18, <1>19, <1>20 DEF Client

\* What a step at the servers or of the environment does to migrations.
LEMMA ServerMoves ==
    ASSUME TypeOK,
           \/ \E r \in Run : Server(r) \/ DeferCtxEnds(r) \/ LeaseEnds(r) \/ Crash(r)
           \/ \E n \in Node : Bouncer(n)
    PROVE  /\ pc' = pc
           /\ \A q \in Run : mig[q] # "sent" => mig'[q] = mig[q]
           /\ (\A q \in Run : mig[q] # "sent") /\ ~prefer => ~prefer'
<1> USE DEF TypeOK, ServerTypeOK
<1>1. ASSUME NEW r \in Run, HandleCrm(r), UNCHANGED clientVars
      PROVE  /\ pc' = pc
             /\ \A q \in Run : mig[q] # "sent" => mig'[q] = mig[q]
             /\ (\A q \in Run : mig[q] # "sent") /\ ~prefer => ~prefer'
  <2> USE DEF clientVars
  <2>1. CASE MigrateExec(r)
    BY <1>1, <2>1 DEF MigrateExec, bouncerVars
  <2>2. CASE MigrateFail(r)
    BY <1>1, <2>2 DEF MigrateFail, bouncerVars
  <2>3. CASE UnmigrateExec(r)
    BY <1>1, <2>3 DEF UnmigrateExec, bouncerVars
  <2>4. CASE UnmigrateFail(r)
    <3>1. ~prefer => ~prefer'
      BY <2>4, Zenon DEF UnmigrateFail
    <3> QED
      BY <1>1, <2>4, <3>1 DEF UnmigrateFail, bouncerVars
  <2> QED
    BY <1>1, <2>1, <2>2, <2>3, <2>4 DEF HandleCrm
<1>2. ASSUME NEW r \in Run, NEW n \in Node,
             \/ Handle(r, n) \/ CancelArrives(r, n) \/ TimerFires(r, n)
             \/ Bouncer(n)
      PROVE  UNCHANGED crmVars
  BY <1>2 DEF Handle, PauseExec, PauseFail, PauseSucceeds, PauseTimeout, ResumeExec,
              ResumeFail, CancelArrives, TimerFires,
              Bouncer, BouncerDrains, ServerRestart
<1>3. ASSUME NEW r \in Run, DeferCtxEnds(r) \/ LeaseEnds(r) \/ Crash(r)
      PROVE  UNCHANGED <<pc, serverVars>>
  BY <1>3 DEF DeferCtxEnds, LeaseEnds, Crash, clientVars
<1>4. ASSUME NEW n \in Node, Bouncer(n) PROVE UNCHANGED <<pc, crmVars>>
  BY <1>4 DEF Bouncer, BouncerDrains, ServerRestart, clientVars
<1>5. ASSUME NEW r \in Run, Server(r)
      PROVE  /\ pc' = pc
             /\ \A q \in Run : mig[q] # "sent" => mig'[q] = mig[q]
             /\ (\A q \in Run : mig[q] # "sent") /\ ~prefer => ~prefer'
  <2>1. UNCHANGED clientVars /\ (HandleCrm(r) \/ UNCHANGED crmVars)
    BY <1>2, <1>5 DEF Server
  <2> QED
    BY <1>1, <2>1 DEF crmVars, clientVars
<1> QED
  BY <1>3, <1>4, <1>5 DEF crmVars, serverVars

\* A step of the script's cluster is a step of Failover, or none (failoverCommand.Run,
\* which the script executes twice).
LEMMA Simulates ==
    ASSUME [ScenarioNext]_allVars
    PROVE  [Next]_vars
BY DEF ScenarioNext, allVars,
       Script, SeesMaster, Connects, Begins, FirstFailed, RollsBack, SeesSync,
       SeesNewMaster, QueryErrs, Passes, NoResult, GivesUp, GoOn, Cluster,
       Promote, Supervise, Proxy, Failover, Serves, Background, Next

\* The runs of the script are runs of Failover: what is proved of those by their steps
\* alone holds in the test.
LEMMA Behaves == Scenario => Init /\ [][Next]_vars
<1>1. StartCluster => Init
  BY DEF StartCluster
<1>2. [ScenarioNext]_allVars => [Next]_vars
  BY Simulates
<1> QED
  BY <1>1, <1>2, PTL DEF Scenario

-----------------------------------------------------------------------------
(* While the transaction is open *)

\* What no step of the servers or of the environment undoes, at a PgBouncer that does
\* not drain (Server.Pause answers when it has).
Shut ==
    /\ bouncer[Async] # "paused"
    /\ pause[First][Async] \in {"idle", "sent"} => bouncer[Async] = "active"
    /\ pause[First][Async] \notin {"armed", "held", "expired"}

LEMMA ServersKeep ==
    ASSUME TypeOK, Unlaunched(Second), Shut,
           \/ \E r \in Run : Server(r) \/ DeferCtxEnds(r) \/ LeaseEnds(r) \/ Crash(r)
           \/ \E n \in Node : Bouncer(n) /\ (n = Async => bouncer'[n] # "paused")
    PROVE  /\ Unlaunched(Second)' /\ Shut' /\ (Unlaunched(First) => Unlaunched(First)')
           /\ pause[First][Async] = "idle" => pause'[First][Async] = "idle"
<1>a. Async \in Node /\ Run = {First, Second} /\ First # Second
  BY AcceptanceAssumption
<1> USE <1>a DEF TypeOK, ServerTypeOK, SetPause, SetResume, SetBouncer
<1> DEFINE Kept == /\ \A q \in Run, m \in Node :
                          pause[q][m] = "idle" =>
                              /\ pause'[q][m] = "idle"
                              /\ q \notin cancel[m] => q \notin cancel'[m]
                   /\ Shut'
<1>1. ASSUME UNCHANGED bouncerVars PROVE Kept
  BY <1>1 DEF Shut, bouncerVars
<1>2. ASSUME NEW r \in Run, NEW n \in Node, PauseExec(r, n) PROVE Kept
  BY <1>2 DEF PauseExec, Shut, Unlaunched, Scheduled
<1>3. ASSUME NEW r \in Run, NEW n \in Node, PauseFail(r, n) PROVE Kept
  BY <1>3 DEF PauseFail, Shut, Unlaunched, Scheduled
<1>4. ASSUME NEW r \in Run, NEW n \in Node, PauseSucceeds(r, n) PROVE Kept
  BY <1>4 DEF PauseSucceeds, Shut, Unlaunched, Scheduled
<1>5. ASSUME NEW r \in Run, NEW n \in Node, PauseTimeout(r, n) PROVE Kept
  BY <1>5 DEF PauseTimeout, Shut, Unlaunched, Scheduled
<1>6. ASSUME NEW r \in Run, NEW n \in Node, ResumeExec(r, n) PROVE Kept
  BY <1>6 DEF ResumeExec, Shut, Unlaunched, Scheduled
<1>7. ASSUME NEW r \in Run, NEW n \in Node, ResumeFail(r, n) PROVE Kept
  BY <1>7 DEF ResumeFail, Shut, Unlaunched, Scheduled
<1>8. ASSUME NEW r \in Run, NEW n \in Node, CancelArrives(r, n) PROVE Kept
  BY <1>8 DEF CancelArrives, Shut, Unlaunched, Scheduled
<1>9. ASSUME NEW r \in Run, NEW n \in Node, TimerFires(r, n) PROVE Kept
  BY <1>9 DEF TimerFires, Shut, Unlaunched, Scheduled
<1>10. ASSUME NEW n \in Node, BouncerDrains(n), n = Async => bouncer'[n] # "paused"
       PROVE  Kept
  BY <1>10 DEF BouncerDrains, Shut
<1>11. ASSUME NEW n \in Node, ServerRestart(n) PROVE Kept
  BY <1>11 DEF ServerRestart, Shut, Unlaunched
<1>12. Kept
  <2>1. ASSUME NEW r \in Run, Server(r) PROVE Kept
    <3>1. CASE HandleCrm(r)
      <4>1. UNCHANGED bouncerVars
        BY <3>1 DEF HandleCrm, MigrateExec, MigrateFail, UnmigrateExec, UnmigrateFail,
                    bouncerVars
      <4> QED
        BY <1>1, <4>1
    <3> QED
      BY <1>2, <1>3, <1>4, <1>5, <1>6, <1>7, <1>8, <1>9, <2>1, <3>1 DEF Server, Handle
  <2>2. ASSUME NEW r \in Run, DeferCtxEnds(r) \/ LeaseEnds(r) \/ Crash(r) PROVE Kept
    <3>1. UNCHANGED bouncerVars
      BY <2>2 DEF DeferCtxEnds, LeaseEnds, Crash, serverVars
    <3> QED
      BY <1>1, <3>1
  <2> QED
    BY <1>10, <1>11, <2>1, <2>2 DEF Bouncer
<1>13. pc' = pc
  BY ServerMoves
<1> QED
  BY <1>a, <1>12, <1>13 DEF Unlaunched

LEMMA OpenStep ==
    ASSUME ScenarioTypeOK, OpenInv, MigrateOnlyWhenPaused', [ScenarioNext]_allVars
    PROVE  OpenInv'
<1>a. Async \in Node /\ Run = {First, Second} /\ First # Second /\ TypeOK
  BY AcceptanceAssumption DEF ScenarioTypeOK
<1>1. CASE UNCHANGED allVars
  BY <1>1 DEF allVars, vars, mutexVars, serverVars, bouncerVars, crmVars, clientVars,
              scriptVars, clusterVars, OpenInv, Pinned, Unlaunched
<1>2. CASE Script
  <2>1. UNCHANGED <<bouncer, pause, cancel, prefer, mig, pc, primary>>
    BY <1>2 DEF Script, SeesMaster, Connects, Begins, FirstFailed, RollsBack, SeesSync,
                SeesNewMaster, QueryErrs, Passes, NoResult, GivesUp, GoOn, vars,
                serverVars, bouncerVars, crmVars, clientVars, clusterVars
  <2>2. (Pinned <=> Pinned') /\ (Unlaunched(First) <=> Unlaunched(First)')
    BY <2>1 DEF Pinned, Unlaunched
  <2>3. /\ at' \in {"first", "rollback"} => open'
        /\ open' => at' \in {"first", "rollback", "failed"}
        /\ at' \in {"master", "proxies"} => at \in {"master", "proxies"}
        /\ at' \in {"master", "proxies"} \/ open' =>
                at \in {"master", "proxies"} \/ open
    BY <1>2 DEF OpenInv, Script, SeesMaster, Connects, Begins, FirstFailed, RollsBack,
                SeesSync, SeesNewMaster, QueryErrs, Passes, NoResult, GivesUp, GoOn
  <2> QED
    BY <2>2, <2>3 DEF OpenInv
<1>3. CASE Cluster
  <2>1. /\ UNCHANGED <<bouncer, pause, cancel, prefer, mig, pc, at, open>>
        /\ ~prefer => primary' = primary
    BY <1>3 DEF Cluster, Promote, Supervise, Proxy, vars, serverVars, bouncerVars,
                crmVars, clientVars, scriptVars
  <2> QED
    BY <2>1 DEF OpenInv, Pinned, Unlaunched
<1>4. ASSUME NEW r \in Run, Failover(r) PROVE OpenInv'
  <2>1. /\ UNCHANGED <<at, open, primary>>
        /\ Launched(r) /\ Client(r)
    BY <1>4 DEF Failover, scriptVars, clusterVars
  <2>2. CASE ~open
    BY <2>1, <2>2, <1>a DEF Launched, OpenInv
  <2>3. CASE open
    <3>1. r = First /\ Pinned
      BY <2>1, <2>3, <1>a DEF Launched, OpenInv
    <3>2. Moves(First)
      BY <1>a, <2>1, <3>1, ClientMoves
    <3>3. Unlaunched(Second)'
      BY <1>a, <3>1, <3>2 DEF Moves, Pinned, Unlaunched
    <3>4. mig'[First] = mig[First]
      <4>1. SUFFICES ASSUME pause' = pause, step'[First] = 4 PROVE FALSE
        BY <3>2 DEF Moves
      <4> QED
        BY <1>a, <3>1, <4>1 DEF Pinned, MigrateOnlyWhenPaused
    <3>5. /\ bouncer'[Async] # "paused"
          /\ pause'[First][Async] \in {"idle", "sent"} => bouncer'[Async] = "active"
          /\ pause'[First][Async] \notin {"armed", "held", "expired"}
          /\ pc'[First] \in Before => pause'[First][Async] = "idle"
      BY <1>a, <3>1, <3>2 DEF Moves, Pinned, Before
    <3>6. primary' = Master /\ ~prefer' /\ \A q \in Run : mig'[q] = "idle"
      BY <1>a, <2>1, <3>1, <3>2, <3>4 DEF Moves, Pinned
    <3> QED
      BY <2>1, <2>3, <3>3, <3>5, <3>6 DEF OpenInv, Pinned
  <2> QED
    BY <2>2, <2>3
<1>5. ASSUME Background \/ \E r \in Run : Serves(r) PROVE OpenInv'
  <2>1. UNCHANGED <<at, open, primary>>
    BY <1>5 DEF Background, Serves, scriptVars, clusterVars
  <2>2. CASE ~(at \in {"master", "proxies"} \/ open)
    BY <2>1, <2>2 DEF OpenInv
  <2>3. CASE at \in {"master", "proxies"} \/ open
    <3>1. Pinned
      BY <2>3 DEF OpenInv
    <3>2. \/ \E r \in Run : Server(r) \/ DeferCtxEnds(r) \/ LeaseEnds(r) \/ Crash(r)
          \/ \E n \in Node : Bouncer(n) /\ (n = Async => bouncer'[n] # "paused")
      <4>1. CASE open
        BY <1>5, <4>1 DEF Background, Serves
      <4>2. CASE ~open
        <5>1. bouncer[Async] = "active"
          BY <1>a, <2>3, <3>1, <4>2 DEF OpenInv, Pinned, Unlaunched
        <5>2. ASSUME NEW n \in Node, Bouncer(n), n = Async PROVE bouncer'[n] # "paused"
          BY <1>a, <5>1, <5>2 DEF Bouncer, BouncerDrains, ServerRestart, SetBouncer,
                                  TypeOK, ServerTypeOK
        <5> QED
          BY <1>5, <5>2 DEF Background, Serves
      <4> QED
        BY <4>1, <4>2
    <3>3. /\ Unlaunched(Second)' /\ Shut' /\ (Unlaunched(First) => Unlaunched(First)')
          /\ pause[First][Async] = "idle" => pause'[First][Async] = "idle"
      BY <1>a, <3>1, <3>2, ServersKeep DEF Pinned, Shut
    <3>4. pc' = pc /\ ~prefer' /\ \A q \in Run : mig'[q] = "idle"
      BY <1>a, <3>1, <3>2, ServerMoves DEF Pinned
    <3> QED
      BY <1>a, <2>1, <2>3, <3>1, <3>3, <3>4 DEF OpenInv, Pinned, Shut
  <2> QED
    BY <2>2, <2>3
<1> QED
  BY <1>1, <1>2, <1>3, <1>4, <1>5 DEF ScenarioNext

-----------------------------------------------------------------------------
(* What the script passes *)

LEMMA PassedStep ==
    ASSUME ScenarioTypeOK, OpenInv, PassedInv, [ScenarioNext]_allVars
    PROVE  PassedInv'
<1>a. /\ Async \in Member /\ Sync \in Member /\ Run = {First, Second} /\ First # Second
      /\ None \notin Member /\ Master # Sync /\ TypeOK
      /\ mig \in [Run -> CallStatus]
  BY AcceptanceAssumption DEF ScenarioTypeOK, Member, TypeOK, ServerTypeOK
<1>1. CASE UNCHANGED allVars
  BY <1>1 DEF allVars, vars, serverVars, crmVars, clientVars, scriptVars, clusterVars,
              PassedInv
<1>2. CASE Script
  <2>1. UNCHANGED <<mig, pc, primary, etcd, host, noticed>>
    BY <1>2 DEF Script, SeesMaster, Connects, Begins, FirstFailed, RollsBack, SeesSync,
                SeesNewMaster, QueryErrs, Passes, NoResult, GivesUp, GoOn, vars,
                serverVars, crmVars, clientVars, clusterVars
  <2>2. CASE FirstFailed
    <3>1. mig[First] = "idle" /\ at' = "rollback"
      BY <1>a, <2>2 DEF FirstFailed, GoOn, OpenInv, Pinned
    <3> QED
      BY <2>1, <3>1 DEF PassedInv
  <2>3. CASE ~FirstFailed
    <3>1. /\ at' \in {"result", "passed"} =>
                at \in {"result", "passed"} \/ host[Async] = Sync
          /\ at' \in {"rollback", "second", "query", "result", "passed"} =>
                at \in {"rollback", "second", "query", "result", "passed"}
          /\ at' = "passed" => at = "passed" \/ Second \in noticed
      BY <1>2, <2>3 DEF Script, SeesMaster, Connects, Begins, RollsBack, SeesSync,
                        SeesNewMaster, QueryErrs, Passes, NoResult, GivesUp, GoOn, Ran0
    <3> QED
      BY <2>1, <3>1 DEF PassedInv
  <2> QED
    BY <2>2, <2>3
<1>3. CASE Cluster
  <2>1. UNCHANGED <<mig, pc, at, noticed>>
    BY <1>3 DEF Cluster, Promote, Supervise, Proxy, vars, serverVars, crmVars,
                clientVars, scriptVars
  <2>2. /\ etcd' = Sync => primary' = Sync
        /\ \A n \in Member : host'[n] = Sync => etcd' = Sync
        /\ host[Async] = Sync => host'[Async] = Sync
    <3>1. CASE Promote
      BY <3>1 DEF Promote, PassedInv
    <3>2. CASE Supervise
      BY <1>a, <3>2 DEF Supervise, PassedInv
    <3>3. ASSUME NEW n \in Member, Proxy(n)
          PROVE  /\ etcd' = Sync => primary' = Sync
                 /\ \A m \in Member : host'[m] = Sync => etcd' = Sync
                 /\ host[Async] = Sync => host'[Async] = Sync
      BY <1>a, <3>3 DEF Proxy, PassedInv, ScenarioTypeOK
    <3> QED
      BY <1>3, <3>1, <3>2, <3>3 DEF Cluster
  <2> QED
    BY <2>1, <2>2 DEF PassedInv
<1>4. ASSUME NEW r \in Run, Failover(r) PROVE PassedInv'
  <2>1. UNCHANGED <<at, primary, etcd, host>> /\ Launched(r) /\ Moves(r)
    BY <1>4, <1>a, ClientMoves DEF Failover, scriptVars, clusterVars
  <2>2. /\ noticed' \in {noticed, noticed \cup {r}}
        /\ noticed' = noticed \/ pc[r] = "watch"
    BY <1>4 DEF Failover
  <2>3. at \in {"rollback", "second", "query", "result", "passed"} => r # First
    BY <2>1 DEF Launched
  <2>4. \A q \in Run : pc'[q] = "watch" => mig'[q] = "done"
    BY <2>1 DEF Moves, PassedInv
  <2>5. ASSUME NEW q \in noticed'
        PROVE  mig'[q] = "done" /\ pc'[q] \in {"unmigrate"} \cup After
    <3>1. q \in Run
      BY <2>2, <2>5 DEF ScenarioTypeOK
    <3>2. CASE q = r
      BY <2>1, <2>2, <2>5, <3>2 DEF Moves, PassedInv
    <3>3. CASE q # r
      BY <2>1, <2>2, <2>5, <3>1, <3>3 DEF Moves, PassedInv
    <3> QED
      BY <3>2, <3>3
  <2> QED
    BY <1>a, <2>1, <2>2, <2>3, <2>4, <2>5 DEF Moves, PassedInv
<1>5. ASSUME Background \/ \E r \in Run : Serves(r) PROVE PassedInv'
  <2>1. UNCHANGED <<at, primary, etcd, host, noticed>>
    BY <1>5 DEF Background, Serves, scriptVars, clusterVars
  <2>2. pc' = pc /\ \A q \in Run : mig[q] # "sent" => mig'[q] = mig[q]
    BY <1>5, <1>a, ServerMoves DEF Background, Serves
  <2> QED
    BY <1>a, <2>1, <2>2 DEF PassedInv, ScenarioTypeOK
<1> QED
  BY <1>1, <1>2, <1>3, <1>4, <1>5 DEF ScenarioNext

-----------------------------------------------------------------------------
(* The theorems *)

\* The types (RunAcceptance).
THEOREM ScenarioTypes == Scenario => []ScenarioTypeOK
<1> DEFINE ScriptOK ==
        /\ at \in {"master", "proxies", "first", "rollback",
                   "second", "query", "result"} \cup Verdicts
        /\ unseen \in SUBSET Member
        /\ open \in BOOLEAN /\ (open => at \in {"first", "rollback", "failed"})
        /\ primary \in Member /\ etcd \in Member \cup {None}
        /\ host \in [Member -> Member \cup {None}]
        /\ noticed \in SUBSET Run
<1>1. StartCluster => ScriptOK
  BY DEF StartCluster, Member
<1>2. ASSUME ScriptOK, [ScenarioNext]_allVars PROVE ScriptOK'
  <2>1. CASE UNCHANGED allVars
    BY <1>2, <2>1 DEF allVars, scriptVars, clusterVars
  <2>2. CASE Script
    <3>1. UNCHANGED <<clusterVars, noticed>>
      BY <2>2 DEF Script, SeesMaster, Connects, Begins, FirstFailed, RollsBack,
                  SeesSync, SeesNewMaster, QueryErrs, Passes, NoResult, GivesUp, GoOn
    <3>2. at' \in {"master", "proxies", "first", "rollback",
                   "second", "query", "result"} \cup Verdicts
      BY <2>2 DEF Script, SeesMaster, Connects, Begins, FirstFailed, RollsBack,
                  SeesSync, SeesNewMaster, QueryErrs, Passes, NoResult, GivesUp, GoOn,
                  Verdicts
    <3>4. \/ open' = TRUE /\ at' = "first"
          \/ open' = FALSE
          \/ open' = open /\ (at' \in {"rollback", "failed"} \/ ~open)
      <4>1. CASE Begins \/ RollsBack
        BY <4>1, Zenon DEF Begins, RollsBack, GoOn
      <4>2. CASE ~(Begins \/ RollsBack)
        <5>1. open' = open
          BY <2>2, <4>2 DEF Script, SeesMaster, Connects, FirstFailed, SeesSync,
                      SeesNewMaster, QueryErrs, Passes, NoResult, GivesUp, GoOn
        <5>2. at' \in {"rollback", "failed"} \/ ~open
          BY <1>2, <2>2, <4>2 DEF Script, SeesMaster, Connects, FirstFailed, SeesSync,
                      SeesNewMaster, QueryErrs, Passes, NoResult, GivesUp, GoOn
        <5> QED
          BY <5>1, <5>2
      <4> QED
        BY <4>1, <4>2
    <3>5. open' \in BOOLEAN /\ (open' => at' \in {"first", "rollback", "failed"})
      <4>1. open \in BOOLEAN
        BY <1>2
      <4>2. open' \in BOOLEAN
        BY <3>4, <4>1, Zenon
      <4>3. open' => at' \in {"first", "rollback", "failed"}
        BY <3>4, Zenon
      <4> QED
        BY <4>2, <4>3
    <3>3. unseen' \subseteq unseen
      BY <2>2 DEF Script, SeesMaster, Connects, Begins, FirstFailed, RollsBack,
                  SeesSync, SeesNewMaster, QueryErrs, Passes, NoResult, GivesUp
    <3> QED
      BY <1>2, <3>1, <3>2, <3>3, <3>5 DEF clusterVars
  <2>3. CASE Cluster
    BY <1>2, <2>3 DEF Cluster, Promote, Supervise, Proxy, scriptVars, Member
  <2>4. ASSUME NEW r \in Run, Failover(r) PROVE ScriptOK'
    BY <1>2, <2>4 DEF Failover, scriptVars, clusterVars
  <2>5. CASE Background \/ \E r \in Run : Serves(r)
    BY <1>2, <2>5 DEF Background, Serves, scriptVars, clusterVars
  <2> QED
    BY <1>2, <2>1, <2>2, <2>3, <2>4, <2>5 DEF ScenarioNext
<1>3. ScriptOK /\ TypeOK => ScenarioTypeOK
  BY DEF ScenarioTypeOK
<1> HIDE DEF ScriptOK
<1> QED
  BY <1>1, <1>2, <1>3, Behaves, TypesKept, PTL DEF Scenario

\* What the test relies on by its open transaction.
LEMMA OpenKept == Scenario => []OpenInv
<1>1. StartCluster => OpenInv
  BY AcceptanceAssumption
     DEF StartCluster, Init, ServerInit, OpenInv, Pinned, Unlaunched
<1>2. ScenarioTypeOK /\ OpenInv /\ MigrateOnlyWhenPaused' /\ [ScenarioNext]_allVars
        => OpenInv'
  BY OpenStep
<1> QED
  BY <1>1, <1>2, ScenarioTypes, Behaves, PausedFirst, PTL DEF Scenario

\* "start transaction, preventing PgBouncer pause": whatever fails, nothing moves the
\* primary under the transaction (RunAcceptance).
THEOREM Kept == Scenario => []TransactionKept
<1>1. OpenInv => TransactionKept
  BY DEF OpenInv, Pinned, TransactionKept
<1> QED
  BY <1>1, OpenKept, PTL

\* Whatever fails, the verdict of the test is right when it passes (RunAcceptance).
THEOREM PassedRight == Scenario => []PassedIsFailover
<1>1. StartCluster => PassedInv
  BY AcceptanceAssumption DEF StartCluster, Init, PassedInv, Member
<1>2. ScenarioTypeOK /\ OpenInv /\ PassedInv /\ [ScenarioNext]_allVars => PassedInv'
  BY PassedStep
<1>3. PassedInv => PassedIsFailover
  BY AcceptanceAssumption DEF PassedInv, PassedIsFailover, Member
<1> QED
  BY <1>1, <1>2, <1>3, ScenarioTypes, OpenKept, PTL DEF Scenario
=============================================================================
