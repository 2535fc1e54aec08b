------------------------------- MODULE Failover -------------------------------
(***************************************************************************)
(* `pgcm failover` (pkg/cmd/failover.go, pkg/failover/failover.go): several*)
(* executions of it, over the lock in etcd (EtcdMutex) and the failover API*)
(* of the nodes (FailoverServer).                                          *)
(*                                                                         *)
(* A run is a Pipeline of four steps:                                      *)
(*   1 health check   2 lock, deferring its release                        *)
(*   3 pause, deferring the resume   4 migrate, deferring the unmigrate    *)
(* A call may fail at its caller while the server still works on it, and   *)
(* a server goes on when the caller is dead.                               *)
(***************************************************************************)
EXTENDS EtcdMutex, FailoverServer, Naturals

VARIABLES pc,         \* where the run is
          step,       \* index of the step its Pipeline entered last
          todo,       \* nodes whose answer it waits for
          err,        \* runs in which a call of the current step failed
          ctxDone,    \* runs whose deferCtx was cancelled
          crashed     \* runs whose process died

clientVars == <<pc, step, todo, err, ctxDone, crashed>>
vars == <<mutexVars, serverVars, clientVars>>

Label == {"init", "health", "lock", "waiting", "pause", "migrate", "watch",
          "unmigrate", "resume", "release", "returned"}

TypeOK ==
    /\ MutexTypeOK
    /\ ServerTypeOK
    /\ pc \in [Run -> Label]
    /\ step \in [Run -> 0 .. 4]
    /\ todo \in [Run -> SUBSET Node]
    /\ err \in SUBSET Run
    /\ ctxDone \in SUBSET Run
    /\ crashed \in SUBSET Run

Init ==
    /\ MutexInit
    /\ ServerInit
    /\ pc = [r \in Run |-> "init"]
    /\ step = [r \in Run |-> 0]
    /\ todo = [r \in Run |-> {}]
    /\ err = {}
    /\ ctxDone = {}
    /\ crashed = {}

\* The process of r is at l.
At(r, l) == pc[r] = l /\ r \notin crashed

Goto(r, l) == pc' = [pc EXCEPT ![r] = l]

\* Pipeline enters step i, which starts at l and waits for the nodes in S.
EnterStep(r, i, l, S) ==
    /\ Goto(r, l)
    /\ step' = [step EXCEPT ![r] = i]
    /\ todo' = [todo EXCEPT ![r] = S]
    /\ err' = err \ {r}
    /\ UNCHANGED <<ctxDone, crashed>>

-----------------------------------------------------------------------------
(* The session, and step 1 *)

Start(r) ==
    /\ At(r, "init")
    /\ NewSession(r)
    /\ EnterStep(r, 1, "health", Node)
    /\ UNCHANGED serverVars

\* etcd gives no session, or an endpoint cannot be dialled: no pipeline.
StartFails(r) ==
    /\ At(r, "init")
    /\ Goto(r, "returned")
    /\ UNCHANGED <<mutexVars, serverVars, step, todo, err, ctxDone, crashed>>

\* One endpoint after the other, in the order of a map.
HealthCheck(r, n) ==
    /\ At(r, "health") /\ n \in todo[r]
    /\ todo' = [todo EXCEPT ![r] = @ \ {n}]
    /\ UNCHANGED <<mutexVars, serverVars, pc, step, err, ctxDone, crashed>>

\* The first endpoint that is not healthy ends the run; nothing is deferred.
HealthCheckFails(r) ==
    /\ At(r, "health") /\ todo[r] # {}
    /\ Goto(r, "returned")
    /\ UNCHANGED <<mutexVars, serverVars, step, todo, err, ctxDone, crashed>>

HealthChecked(r) ==
    /\ At(r, "health") /\ todo[r] = {}
    /\ EnterStep(r, 2, "lock", {})
    /\ UNCHANGED <<mutexVars, serverVars>>

-----------------------------------------------------------------------------
(* Step 2: the lock *)

\* Pause of every endpoint is called at once.
EnterPause(r) ==
    /\ EnterStep(r, 3, "pause", Node)
    /\ pause' = [pause EXCEPT ![r] = [n \in Node |-> "sent"]]
    /\ UNCHANGED <<bouncer, resume, cancel, lost, crmVars>>

\* The transaction answers who the oldest contender is.
LockTxn(r) ==
    /\ At(r, "lock")
    /\ Enqueue(r)
    /\ \/ keys = {} /\ EnterPause(r)
       \/ /\ keys # {}
          /\ Goto(r, "waiting")
          /\ UNCHANGED <<serverVars, step, todo, err, ctxDone, crashed>>

\* The transaction errs, applied or not.
LockTxnFails(r) ==
    /\ At(r, "lock")
    /\ Enqueue(r) \/ UNCHANGED mutexVars
    /\ Goto(r, "release")
    /\ UNCHANGED <<serverVars, step, todo, err, ctxDone, crashed>>

\* waitDeletes saw every older key go.
LockAcquired(r) ==
    /\ At(r, "waiting") /\ Owns(r)
    /\ EnterPause(r)
    /\ UNCHANGED mutexVars

\* The lock timeout ends after waitDeletes returned and before Lock looks at
\* its context: Lock deletes the key, and returns the nil of waitDeletes.
LockAcquiredLate(r) ==
    /\ "late" \in Faults
    /\ At(r, "waiting") /\ Owns(r)
    /\ Unlock(r)
    /\ EnterPause(r)

\* Mutant: the error of Lock is dropped.
LockTimeoutIgnored(r) ==
    /\ At(r, "waiting")
    /\ Unlock(r)
    /\ EnterPause(r)

\* The lock timeout ends while waiting: Lock deletes the key and errs.
LockTimesOut(r) ==
    /\ At(r, "waiting")
    /\ \/ Unlock(r)
       \/ "giveup" \in Faults /\ UNCHANGED mutexVars
    /\ Goto(r, "release")
    /\ UNCHANGED <<serverVars, step, todo, err, ctxDone, crashed>>

-----------------------------------------------------------------------------
(* The calls that are deferred: with a deferCtx that is done nothing is sent *)

\* r is at l and waits for the nodes in S.
Await(r, l, S) ==
    /\ Goto(r, l)
    /\ todo' = [todo EXCEPT ![r] = S]
    /\ UNCHANGED <<step, err, ctxDone, crashed>>

BeginUnmigrate(r) ==
    /\ Await(r, "unmigrate", {})
    /\ unmig' = IF r \in ctxDone THEN unmig ELSE [unmig EXCEPT ![r] = "sent"]

BeginResume(r) ==
    \/ /\ r \in ctxDone
       /\ Await(r, "resume", {})
       /\ UNCHANGED resume
    \/ /\ r \notin ctxDone
       /\ Await(r, "resume", Node)
       /\ resume' = [resume EXCEPT ![r] = [n \in Node |-> "sent"]]

-----------------------------------------------------------------------------
(* Step 3: pause *)

\* The caller is told that its Pause failed.
Erred == {"failed", "cancelled"}

\* Mutant: the last answer decides (result = err for every endpoint).
PauseReturnsLast(r, n) ==
    /\ At(r, "pause") /\ n \in todo[r]
    /\ \/ pause[r][n] \in {"armed", "held", "expired"} /\ err' = err \ {r}
       \/ pause[r][n] \in Erred /\ err' = err \cup {r}
       \/ "giveup" \in Faults /\ err' = err \cup {r}
    /\ todo' = [todo EXCEPT ![r] = @ \ {n}]
    /\ UNCHANGED <<mutexVars, serverVars, pc, step, ctxDone, crashed>>

\* The call at n answers, or errs with its outcome unknown.
PauseReturns(r, n) ==
    /\ At(r, "pause") /\ n \in todo[r]
    /\ \/ pause[r][n] \in {"armed", "held", "expired"} /\ UNCHANGED err
       \/ pause[r][n] \in Erred /\ err' = err \cup {r}
       \/ "giveup" \in Faults /\ err' = err \cup {r}
    /\ todo' = [todo EXCEPT ![r] = @ \ {n}]
    /\ UNCHANGED <<mutexVars, serverVars, pc, step, ctxDone, crashed>>

\* Mutant: Resume is deferred only once Pause has succeeded.
PauseFailsUndeferred(r) ==
    /\ At(r, "pause") /\ todo[r] = {} /\ r \in err
    /\ Goto(r, "release")
    /\ UNCHANGED <<mutexVars, serverVars, step, todo, err, ctxDone, crashed>>

\* Mutant: EachClient returns with the first error.
PauseFailsFast(r) ==
    /\ At(r, "pause") /\ r \in err
    /\ BeginResume(r)
    /\ UNCHANGED <<mutexVars, bouncer, pause, cancel, lost, crmVars>>

\* EachClient waited for every endpoint; one error fails the step.
PauseFails(r) ==
    /\ At(r, "pause") /\ todo[r] = {} /\ r \in err
    /\ BeginResume(r)
    /\ UNCHANGED <<mutexVars, bouncer, pause, cancel, lost, crmVars>>

\* Migrate is called at one endpoint.
Paused(r) ==
    /\ At(r, "pause") /\ todo[r] = {} /\ r \notin err
    /\ EnterStep(r, 4, "migrate", {})
    /\ mig' = [mig EXCEPT ![r] = "sent"]
    /\ UNCHANGED <<mutexVars, bouncerVars, prefer, unmig>>

-----------------------------------------------------------------------------
(* Step 4: migrate *)

Migrated(r) ==
    /\ At(r, "migrate") /\ mig[r] = "done"
    /\ Goto(r, "watch")
    /\ UNCHANGED <<mutexVars, serverVars, step, todo, err, ctxDone, crashed>>

\* Mutant: the answer of Migrate is not waited for.
MigrateForgotten(r) ==
    /\ At(r, "migrate")
    /\ BeginUnmigrate(r)
    /\ UNCHANGED <<mutexVars, bouncerVars, prefer, mig>>

MigrateErrs(r) ==
    /\ At(r, "migrate") /\ (mig[r] = "failed" \/ "giveup" \in Faults)
    /\ BeginUnmigrate(r)
    /\ UNCHANGED <<mutexVars, bouncerVars, prefer, mig>>

\* etcd shows the new master, or PauseExpiry has passed: both end the step.
WatchEnds(r) ==
    /\ At(r, "watch")
    /\ BeginUnmigrate(r)
    /\ UNCHANGED <<mutexVars, bouncerVars, prefer, mig>>

-----------------------------------------------------------------------------
(* The deferred actions; Pipeline drops what they return *)

\* A deferred call ended for the caller.
Ended(r, status) ==
    status \in {"done", "failed"} \/ r \in ctxDone \/ "giveup" \in Faults

\* Mutant: nor that of Unmigrate.
UnmigrateForgotten(r) ==
    /\ At(r, "unmigrate")
    /\ BeginResume(r)
    /\ UNCHANGED <<mutexVars, bouncer, pause, cancel, lost, crmVars>>

UnmigrateReturns(r) ==
    /\ At(r, "unmigrate") /\ Ended(r, unmig[r])
    /\ BeginResume(r)
    /\ UNCHANGED <<mutexVars, bouncer, pause, cancel, lost, crmVars>>

ResumeReturns(r, n) ==
    /\ At(r, "resume") /\ n \in todo[r] /\ Ended(r, resume[r][n])
    /\ todo' = [todo EXCEPT ![r] = @ \ {n}]
    /\ UNCHANGED <<mutexVars, serverVars, pc, step, err, ctxDone, crashed>>

\* Mutant: EachClient does not wait for its goroutines.
ResumeForgotten(r) ==
    /\ At(r, "resume")
    /\ Goto(r, "release")
    /\ UNCHANGED <<mutexVars, serverVars, step, todo, err, ctxDone, crashed>>

\* Mutant: the lock is not released.
ResumedUnreleased(r) ==
    /\ At(r, "resume") /\ todo[r] = {}
    /\ Goto(r, "returned")
    /\ UNCHANGED <<mutexVars, serverVars, step, todo, err, ctxDone, crashed>>

Resumed(r) ==
    /\ At(r, "resume") /\ todo[r] = {}
    /\ Goto(r, "release")
    /\ UNCHANGED <<mutexVars, serverVars, step, todo, err, ctxDone, crashed>>

ReleaseLock(r) ==
    /\ At(r, "release")
    /\ \/ r \notin ctxDone /\ Unlock(r)
       \/ (r \in ctxDone \/ "giveup" \in Faults) /\ UNCHANGED mutexVars
    /\ Goto(r, "returned")
    /\ UNCHANGED <<serverVars, step, todo, err, ctxDone, crashed>>

-----------------------------------------------------------------------------
(* The environment *)

\* The goroutine that ends deferCtx does not wait for ctx: `ctx.Done()` alone
\* receives nothing, and its 10 s start with the run.
DeferCtxEnds(r) ==
    /\ "slow" \in Faults
    /\ pc[r] \notin {"init", "returned"} /\ r \notin crashed \cup ctxDone
    /\ ctxDone' = ctxDone \cup {r}
    /\ UNCHANGED <<mutexVars, serverVars, pc, step, todo, err, crashed>>

Crash(r) ==
    /\ "crash" \in Faults
    /\ pc[r] \notin {"init", "returned"} /\ r \notin crashed
    /\ crashed' = crashed \cup {r}
    /\ UNCHANGED <<mutexVars, serverVars, pc, step, todo, err, ctxDone>>

\* The process is gone; it never closes its session.
Gone(r) == pc[r] = "returned" \/ r \in crashed

LeaseEnds(r) ==
    /\ Gone(r) \/ "lapse" \in Faults
    /\ LeaseExpires(r)
    /\ UNCHANGED <<serverVars, clientVars>>

Client(r) ==
    \/ Start(r) \/ StartFails(r)
    \/ HealthCheckFails(r) \/ HealthChecked(r)
    \/ LockTxn(r) \/ LockTxnFails(r)
    \/ LockAcquired(r) \/ LockAcquiredLate(r) \/ LockTimesOut(r)
    \/ PauseFails(r) \/ Paused(r)
    \/ Migrated(r) \/ MigrateErrs(r) \/ WatchEnds(r)
    \/ UnmigrateReturns(r) \/ Resumed(r) \/ ReleaseLock(r)
    \/ \E n \in Node : HealthCheck(r, n) \/ PauseReturns(r, n) \/ ResumeReturns(r, n)

Server(r) ==
    /\ \/ HandleCrm(r)
       \/ \E n \in Node : Handle(r, n) \/ CancelArrives(r, n) \/ TimerFires(r, n)
    /\ UNCHANGED <<mutexVars, clientVars>>

Bouncer(n) ==
    /\ BouncerDrains(n) \/ ServerRestart(n)
    /\ UNCHANGED <<mutexVars, clientVars>>

Next ==
    \/ \E r \in Run : Client(r) \/ Server(r)
    \/ \E r \in Run : DeferCtxEnds(r) \/ Crash(r) \/ LeaseEnds(r)
    \/ \E n \in Node : Bouncer(n)

\* A run's calls end by their timeouts, a server ends what it was asked and
\* fires its timers, and etcd drops the lease of a process that is gone.
\* Nothing makes a query end (BouncerDrains) or a fault happen.
Fairness ==
    \A r \in Run :
        /\ WF_vars(Client(r))
        /\ WF_vars(Server(r))
        /\ WF_vars(Gone(r) /\ LeaseEnds(r))

Spec == Init /\ [][Next]_vars /\ Fairness

-----------------------------------------------------------------------------
(* Safety *)

\* Between acquiring the lock and releasing it.
Critical(r) ==
    pc[r] \in {"pause", "migrate", "watch", "unmigrate", "resume"} /\ r \notin crashed

\* "Acquire lock in etcd (ensuring only one failover takes place at a time)":
\* no two live runs are between AcquireLock and ReleaseLock.
MutualExclusion ==
    \A r, q \in Run : Critical(r) /\ Critical(q) => r = q

\* The same of those that still have their key in etcd, whichever leases lapsed and
\* timeouts came late.
KeyExclusion ==
    \A r, q \in keys : Critical(r) /\ Critical(q) => r = q

\* Those who wait for the lock do not all wait for each other: r owns it, or a run ahead
\* of it does, whose key is in etcd and goes with its lease if it dies.
LockMovesOn ==
    \A r \in Run : At(r, "waiting") =>
        \E q \in {r} \cup (ahead[r] \cap keys) :
            Owns(q) /\ pc[q] \notin {"init", "health", "lock"}

\* First come, first served: while the key of r is in etcd nobody acquires the lock
\* whose key is not older.
NotOvertaken ==
    [][\A r \in keys \cap keys', q \in Run :
           Critical(q)' => Critical(q) \/ q = r \/ q \in ahead[r]]_vars

\* Pacemaker is told to move the primary only after PAUSE took hold on every
\* node: nothing is in flight at a server, or failed there, on that path.
MigrateOnlyWhenPaused ==
    \A r \in Run : step[r] = 4 =>
        \A n \in Node : pause[r][n] \in {"armed", "held", "expired"}

\* The safety belt of Server.Pause: as long as a bouncer holds traffic back,
\* a handler that will cancel, a cancel request on its way, or a timer that will
\* resume, is there.
SafetyBelt ==
    \A n \in Node : bouncer[n] # "active" =>
        n \in lost \/ \E r \in Run : Guards(r, n)

\* r migrates, and its own pause of n has not expired.
Relies(r, n) ==
    /\ pc[r] \in {"migrate", "watch"} /\ r \notin crashed
    /\ pause[r][n] = "armed"

\* While r relies on its pause of n the bouncer holds traffic back, unless another
\* run left a timer or a cancel request behind: nothing else lifts the pause.
PauseHeldUnlessStale ==
    \A r \in Run, n \in Node : Relies(r, n) /\ bouncer[n] = "active" =>
        \E q \in Run \ {r} : pause[q][n] \in {"expired", "cancelled"}

\* "first pausing PGBouncer, waiting until all queries have finished, then
\* performing a pacemaker resource migration": no query still runs at a bouncer that
\* r takes for paused, unless the PAUSE that it found there was another run's, whose
\* cancel request is still on its way.
DrainedUnlessLeft ==
    \A r \in Run, n \in Node : Relies(r, n) /\ bouncer[n] = "pausing" =>
        \E q \in Run \ {r} : q \in cancel[n]

\* A bouncer holds traffic back for a run that still owes it a resume: a run
\* that was answered "resumed" everywhere leaves nothing paused, also not
\* through a Pause of its own that was still on its way.
PausedHasOwner ==
    \A n \in Node : bouncer[n] # "active" =>
        \E r \in Run : /\ pause[r][n] \notin {"idle"} \cup Erred \/ r \in cancel[n]
                       /\ resume[r][n] # "done"

\* While r waits for the new master the constraint it asked for is there: the
\* Unmigrate of another run does not take it away.
ConstraintHeld ==
    \A r \in Run : pc[r] = "watch" /\ r \notin crashed => prefer

\* The constraint does not outlive the runs that migrated: one of them has
\* not been told that it was removed.
ConstraintHasOwner ==
    prefer => \E r \in Run : mig[r] # "idle" /\ unmig[r] # "done"

\* A run that returns has asked to undo all it asked for ("we attempt to run
\* cleanup tasks before actually quitting").
Undone(r) ==
    /\ mig[r] # "idle" => unmig[r] # "idle"
    /\ \A n \in Node : pause[r][n] # "idle" => resume[r][n] # "idle"

CleanupSent == \A r \in Run : pc[r] = "returned" => Undone(r)

\* The same of a run whose deferCtx outlived it, however long others take.
CleanupSentInTime == \A r \in Run \ ctxDone : pc[r] = "returned" => Undone(r)

-----------------------------------------------------------------------------
(* Why the lock and the belt hold: inductive strengthenings *)

\* The queue for the lock, whatever fails: a key that is still to be written is ahead
\* of nobody; the keys are ordered; and nobody older is left when a run is critical,
\* nor comes later.  (Mutex.Lock; waitDeletes.)
Early == {"init", "health", "lock"}

QueueInv ==
    /\ \A r \in Run : pc[r] \in Early =>
            r \notin keys /\ \A q \in Run : r \notin ahead[q]
    /\ \A r \in Run : r \notin ahead[r]
    /\ \A r, q \in keys : r # q => r \in ahead[q] \/ q \in ahead[r]
    /\ \A r, q \in Run : q \in ahead[r] \cap keys =>
            ahead[q] \cap keys \subseteq ahead[r]
    /\ \A r \in Run : Critical(r) => Owns(r)

\* As long as no lease of a live run lapses, whoever waits for the lock has its key
\* in etcd; and whoever is critical, as long as no timeout comes late either.
WaitInv == \A r \in Run : At(r, "waiting") => r \in keys
KeyInv == \A r \in Run : Critical(r) => r \in keys

\* A run asks for nothing before it has the lock, so that sending its Pause
\* forgets no timer.
BeltInv ==
    /\ SafetyBelt
    /\ \A r \in Run : pc[r] \in {"init", "health", "lock", "waiting"} =>
            \A n \in Node : pause[r][n] = "idle"

\* Every node that answered the pause step without an error is paused, or was
\* until its timer fired, and stays so while the run migrates.
MigrateInv ==
    /\ MigrateOnlyWhenPaused
    /\ \A r \in Run : pc[r] = "pause" /\ r \notin err =>
            \A n \in Node \ todo[r] : pause[r][n] \in {"armed", "held", "expired"}

\* Where a run is says which steps it has entered.
StepOK(r) ==
    /\ pc[r] = "init" => step[r] = 0
    /\ pc[r] = "health" => step[r] = 1
    /\ pc[r] \in {"lock", "waiting"} => step[r] = 2
    /\ pc[r] = "pause" => step[r] = 3
    /\ pc[r] \in {"migrate", "watch", "unmigrate"} => step[r] = 4
    /\ pc[r] = "resume" => step[r] \in 3 .. 4
    /\ pc[r] = "release" => step[r] \in 2 .. 4

StepInv == \A r \in Run : StepOK(r)

\* What the deferred calls can rely on (EachClient and Pipeline send them in their
\* order): nothing is asked before its step, nor forgotten after it.
Before == {"init", "health", "lock", "waiting"}
After == {"resume", "release", "returned"}

CleanupInv ==
    \A r \in Run \ ctxDone :
        /\ pc[r] \in Before => \A n \in Node : pause[r][n] = "idle"
        /\ pc[r] \in Before \cup {"pause"} => mig[r] = "idle"
        /\ pc[r] \in {"unmigrate"} \cup After /\ mig[r] # "idle" => unmig[r] # "idle"
        /\ pc[r] \in After =>
                \A n \in Node : pause[r][n] # "idle" => resume[r][n] # "idle"

\* Callers that wait for their answers: Pause and Migrate are at a server only while
\* their step lasts, and what undoes them is sent later.
SentInv ==
    \A r \in Run :
        /\ mig[r] = "sent" => pc[r] = "migrate"
        /\ pc[r] \in Before \cup {"pause", "migrate"} => unmig[r] = "idle"
        /\ \A n \in Node :
            /\ pause[r][n] \in {"sent", "draining"} => pc[r] = "pause" /\ n \in todo[r]
            /\ pc[r] \in Before \cup {"pause", "migrate", "watch", "unmigrate"} =>
                    resume[r][n] = "idle"
            /\ pc[r] \in Before => pause[r][n] = "idle"

\* The PAUSE of r holds the bouncer of n, or its cancel request will come.
Holds(r, n) ==
    /\ pause[r][n] \in {"draining", "armed", "held", "expired"} \/ r \in cancel[n]
    /\ resume[r][n] # "done"

HolderInv == \A n \in Node : bouncer[n] # "active" => \E r \in Run : Holds(r, n)

\* Runs that live until they have cleaned up: no Resume or Unmigrate of theirs is at
\* a server when the next run pauses and migrates.
RivalInv ==
    /\ crashed = {} /\ ctxDone = {}
    /\ \A r \in Run :
        /\ unmig[r] = "sent" => pc[r] = "unmigrate"
        /\ pc[r] = "watch" \/ (pc[r] = "migrate" /\ mig[r] = "done") => prefer
        /\ \A n \in Node : resume[r][n] = "sent" => pc[r] = "resume" /\ n \in todo[r]

\* PgBouncer waits for queries because of a PAUSE whose handler waits for it too, or
\* whose cancel request will come.
DrainInv ==
    \A n \in Node : bouncer[n] = "pausing" =>
        \E q \in Run : pause[q][n] = "draining" \/ q \in cancel[n]

\* Nobody relies on a pause whose cancel request is on its way.
CancelInv == \A n \in Node, r \in Run : r \in cancel[n] => pause[r][n] \in Erred

\* From its success on, what lifts the pause of a run that has not begun to undo its
\* migration is the timer or the cancel request of another, which then has fired.
LiftInv ==
    \A r \in Run, n \in Node :
        /\ pc[r] \in {"pause", "migrate", "watch"}
        /\ pause[r][n] = "armed" /\ bouncer[n] = "active"
        => \E q \in Run \ {r} : pause[q][n] \in {"expired", "cancelled"}

-----------------------------------------------------------------------------
(* Why a run ends: what it waits for was asked for, and no step takes it back *)

\* Whoever waits for an answer has sent its call, or has a deferCtx that ends the wait:
\* the server, which always can end what it was asked, or the timeout of the call
\* frees it.
WaitsForCalls ==
    \A r \in Run :
        /\ pc[r] = "migrate" => mig[r] # "idle"
        /\ pc[r] = "unmigrate" => unmig[r] # "idle" \/ r \in ctxDone
        /\ \A n \in todo[r] :
            /\ pc[r] = "pause" => pause[r][n] # "idle"
            /\ pc[r] = "resume" => resume[r][n] # "idle" \/ r \in ctxDone

\* How far a run has come.
Position(l) ==
    CASE l = "init" -> 0 [] l = "health" -> 1 [] l = "lock" -> 2 [] l = "waiting" -> 3
      [] l = "pause" -> 4 [] l = "migrate" -> 5 [] l = "watch" -> 6
      [] l = "unmigrate" -> 7 [] l = "resume" -> 8 [] l = "release" -> 9
      [] l = "returned" -> 10

\* Every step of a run takes it further, or leaves fewer answers to wait for.
RunsOnward ==
    [][\A r \in Run : Client(r) =>
           \/ Position(pc[r]) < Position(pc'[r])
           \/ /\ pc'[r] = pc[r]
              /\ todo'[r] \subseteq todo[r] /\ todo'[r] # todo[r]]_vars

-----------------------------------------------------------------------------
(* Liveness *)

\* Every run that starts returns, unless it dies: no call, lock or wait keeps
\* it for ever.
EveryRunEnds == \A r \in Run : pc[r] # "init" ~> Gone(r)

\* The lock of a run is free in the end, whether it released it or not.
LockFreed == \A r \in Run : r \in keys ~> r \notin keys

\* "ensuring that we resume traffic regardless of client failure": in the end
\* every bouncer is active and stays so.
TrafficResumes == \A n \in Node : <>[](bouncer[n] = "active")

-----------------------------------------------------------------------------
(* Refinement: the client of each run is a Pipeline *)

Unwinding(r) == step[r] > 0 /\ pc[r] \in {"unmigrate", "resume", "release", "returned"}

\* The deferred actions that have run, and those registered that have not.
Ran(r) == {i \in 2 .. step[r] : \/ pc[r] = "returned"
                                \/ pc[r] = "release" /\ i > 2
                                \/ pc[r] = "resume" /\ i = 4}
Pending(r) == (2 .. step[r]) \ Ran(r)

P(r) == INSTANCE Pipeline WITH
            N <- 4, Deferred <- 2 .. 4,
            step <- step[r], unwinding <- Unwinding(r),
            pending <- Pending(r), ran <- Ran(r)

\* Each run goes through its steps and deferred actions as Pipeline does, in
\* spite of errors, timeouts and a crash (after which it stutters).
RunsPipeline ==
    /\ \A r \in Run : P(r)!Init
    /\ [][\A r \in Run : P(r)!Next \/ UNCHANGED P(r)!vars]_vars
=============================================================================
