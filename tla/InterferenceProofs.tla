-------------------------- MODULE InterferenceProofs --------------------------
(***************************************************************************)
(* What runs that follow each other leave behind, for every set of runs and*)
(* nodes: the clean-up is asked for, constraints and pauses have an owner, *)
(* and only timers and cancel requests of another run disturb a migration. *)
(* Each theorem names the faults that it excludes.                         *)
(***************************************************************************)
EXTENDS FailoverProofs

\* A step of a Pause asks nothing of Resume, Migrate or Unmigrate.
LEMMA PauseLeaves ==
    ASSUME NEW r \in Run, NEW n \in Node, PauseStep(r, n)
    PROVE  UNCHANGED <<resume, crmVars>>
BY DEF PauseStep, PauseExec, PauseFail, PauseSucceeds, PauseTimeout, TimerFires,
       CancelArrives, crmVars

\* As long as deferCtx is alive the deferred calls are sent.
LEMMA ResumeSent ==
    ASSUME NEW r \in Run, r \notin ctxDone, BeginResume(r)
    PROVE  /\ pc' = [pc EXCEPT ![r] = "resume"]
           /\ todo' = [todo EXCEPT ![r] = Node]
           /\ resume' = [resume EXCEPT ![r] = [n \in Node |-> "sent"]]
           /\ UNCHANGED <<step, err, ctxDone, crashed>>
BY DEF BeginResume, Await, Goto

LEMMA UnmigrateSent ==
    ASSUME NEW r \in Run, r \notin ctxDone, BeginUnmigrate(r)
    PROVE  /\ pc' = [pc EXCEPT ![r] = "unmigrate"]
           /\ todo' = [todo EXCEPT ![r] = {}]
           /\ unmig' = [unmig EXCEPT ![r] = "sent"]
           /\ UNCHANGED <<step, err, ctxDone, crashed>>
BY DEF BeginUnmigrate, Await, Goto

\* The steps that begin a deferred call, of a run whose deferCtx may have ended.
LEMMA ResumeKeeps ==
    ASSUME TypeOK, CleanupInv, NEW r \in Run, BeginResume(r),
           pc[r] \in {"pause", "unmigrate"}, UNCHANGED <<pause, mig, unmig>>
    PROVE  CleanupInv'
<1>1. pc' = [pc EXCEPT ![r] = "resume"] /\ ctxDone' = ctxDone
  BY DEF BeginResume, Await, Goto
<1>2. resume' \in [Run -> [Node -> CallStatus]]
      /\ \A q \in Run \ {r} : resume'[q] = resume[q]
  BY DEF BeginResume, TypeOK, ServerTypeOK, CallStatus
<1>3. r \notin ctxDone => \A n \in Node : resume'[r][n] = "sent"
  BY ResumeSent DEF TypeOK, ServerTypeOK
<1> QED
  BY <1>1, <1>2, <1>3 DEF CleanupInv, Before, After, TypeOK

LEMMA UnmigrateKeeps ==
    ASSUME TypeOK, CleanupInv, NEW r \in Run, BeginUnmigrate(r),
           UNCHANGED <<pause, resume, mig>>
    PROVE  CleanupInv'
<1>1. pc' = [pc EXCEPT ![r] = "unmigrate"] /\ ctxDone' = ctxDone
  BY DEF BeginUnmigrate, Await, Goto
<1>2. \A q \in Run \ {r} : unmig'[q] = unmig[q]
  BY DEF BeginUnmigrate, TypeOK, ServerTypeOK
<1>3. r \notin ctxDone => unmig'[r] = "sent"
  BY UnmigrateSent DEF TypeOK, ServerTypeOK
<1> QED
  BY <1>1, <1>2, <1>3 DEF CleanupInv, Before, After, TypeOK

\* "We attempt to run cleanup tasks before actually quitting" (cmd/failover.go): true
\* of every run that returns before its deferCtx ends, whatever becomes of the others,
\* and in spite of lost answers, lost leases and servers that restart.
THEOREM CleanedInTime == Spec => []CleanupSentInTime
<1> USE DEF CleanupInv, Before, After
<1>1. Init => CleanupInv
  <2> SUFFICES ASSUME Init, NEW r \in Run
               PROVE  /\ pc[r] = "init" /\ mig[r] = "idle"
                      /\ \A n \in Node : pause[r][n] = "idle"
    OBVIOUS
  <2> QED
    BY DEF Init, ServerInit
<1>2. TypeOK /\ CleanupInv /\ [Next]_vars => CleanupInv'
  <2> SUFFICES ASSUME TypeOK, CleanupInv, [Next]_vars PROVE CleanupInv'
    OBVIOUS
  <2> USE DEF TypeOK, ServerTypeOK, At, Goto, EnterStep, EnterPause, Await,
              SetPause, SetResume, SetBouncer,
              bouncerVars, crmVars, serverVars, clientVars
  <2>1. ASSUME NEW r \in Run, Start(r) PROVE CleanupInv'
    BY <2>1 DEF Start
  <2>2. ASSUME NEW r \in Run, StartFails(r) PROVE CleanupInv'
    BY <2>2 DEF StartFails
  <2>3. ASSUME NEW r \in Run, HealthCheckFails(r) PROVE CleanupInv'
    BY <2>3 DEF HealthCheckFails
  <2>4. ASSUME NEW r \in Run, HealthChecked(r) PROVE CleanupInv'
    BY <2>4 DEF HealthChecked
  <2>5. ASSUME NEW r \in Run, LockTxn(r) PROVE CleanupInv'
    <3>1. CASE EnterPause(r)
      BY <3>1, <2>5 DEF LockTxn
    <3>2. CASE ~EnterPause(r)
      <4>1. /\ pc' = [pc EXCEPT ![r] = "waiting"] /\ pc[r] = "lock"
            /\ UNCHANGED <<serverVars, step, todo, err, ctxDone, crashed>>
        BY <2>5, <3>2 DEF LockTxn
      <4> QED
        BY <4>1
    <3> QED
      BY <3>1, <3>2
  <2>6. ASSUME NEW r \in Run, LockTxnFails(r) PROVE CleanupInv'
    BY <2>6 DEF LockTxnFails
  <2>7. ASSUME NEW r \in Run, LockAcquired(r) PROVE CleanupInv'
    BY <2>7 DEF LockAcquired
  <2>8. ASSUME NEW r \in Run, LockAcquiredLate(r) PROVE CleanupInv'
    BY <2>8 DEF LockAcquiredLate
  <2>9. ASSUME NEW r \in Run, LockTimesOut(r) PROVE CleanupInv'
    BY <2>9 DEF LockTimesOut
  <2>10. ASSUME NEW r \in Run, PauseFails(r) PROVE CleanupInv'
    <3>1. BeginResume(r) /\ pc[r] = "pause" /\ UNCHANGED <<pause, mig, unmig>>
      BY <2>10 DEF PauseFails
    <3> QED
      BY <3>1, ResumeKeeps
  <2>11. ASSUME NEW r \in Run, Paused(r) PROVE CleanupInv'
    BY <2>11 DEF Paused
  <2>12. ASSUME NEW r \in Run, Migrated(r) PROVE CleanupInv'
    BY <2>12 DEF Migrated
  <2>13. ASSUME NEW r \in Run, MigrateErrs(r) PROVE CleanupInv'
    <3>1. BeginUnmigrate(r) /\ UNCHANGED <<pause, resume, mig>>
      BY <2>13 DEF MigrateErrs
    <3> QED
      BY <3>1, UnmigrateKeeps
  <2>14. ASSUME NEW r \in Run, WatchEnds(r) PROVE CleanupInv'
    <3>1. BeginUnmigrate(r) /\ UNCHANGED <<pause, resume, mig>>
      BY <2>14 DEF WatchEnds
    <3> QED
      BY <3>1, UnmigrateKeeps
  <2>15. ASSUME NEW r \in Run, UnmigrateReturns(r) PROVE CleanupInv'
    <3>1. BeginResume(r) /\ pc[r] = "unmigrate" /\ UNCHANGED <<pause, mig, unmig>>
      BY <2>15 DEF UnmigrateReturns
    <3> QED
      BY <3>1, ResumeKeeps
  <2>16. ASSUME NEW r \in Run, Resumed(r) PROVE CleanupInv'
    BY <2>16 DEF Resumed
  <2>17. ASSUME NEW r \in Run, ReleaseLock(r) PROVE CleanupInv'
    BY <2>17 DEF ReleaseLock
  <2>18. ASSUME NEW r \in Run, NEW n \in Node, HealthCheck(r, n) PROVE CleanupInv'
    BY <2>18 DEF HealthCheck
  <2>19. ASSUME NEW r \in Run, NEW n \in Node, PauseReturns(r, n)
         PROVE  CleanupInv'
    BY <2>19 DEF PauseReturns
  <2>20. ASSUME NEW r \in Run, NEW n \in Node, ResumeReturns(r, n)
         PROVE  CleanupInv'
    BY <2>20 DEF ResumeReturns
  <2>21. ASSUME NEW r \in Run, MigrateExec(r),
           UNCHANGED <<mutexVars, clientVars>>
         PROVE  CleanupInv'
    BY <2>21 DEF MigrateExec
  <2>22. ASSUME NEW r \in Run, MigrateFail(r),
           UNCHANGED <<mutexVars, clientVars>>
         PROVE  CleanupInv'
    BY <2>22 DEF MigrateFail
  <2>23. ASSUME NEW r \in Run, UnmigrateExec(r),
           UNCHANGED <<mutexVars, clientVars>>
         PROVE  CleanupInv'
    BY <2>23 DEF UnmigrateExec
  <2>24. ASSUME NEW r \in Run, UnmigrateFail(r),
           UNCHANGED <<mutexVars, clientVars>>
         PROVE  CleanupInv'
    BY <2>24 DEF UnmigrateFail
  <2>25. ASSUME NEW r \in Run, NEW n \in Node, PauseStep(r, n),
           UNCHANGED <<mutexVars, clientVars>>
         PROVE  CleanupInv'
    <3>1. \A q \in Run, m \in Node : pause[q][m] = "idle" => pause'[q][m] = "idle"
      BY <2>25, PauseSteps
    <3>2. UNCHANGED <<resume, crmVars>>
      BY <2>25, PauseLeaves
    <3> QED
      BY <2>25, <3>1, <3>2
  <2>26. ASSUME NEW r \in Run, NEW n \in Node, ResumeExec(r, n),
           UNCHANGED <<mutexVars, clientVars>>
         PROVE  CleanupInv'
    BY <2>26 DEF ResumeExec
  <2>27. ASSUME NEW r \in Run, NEW n \in Node, ResumeFail(r, n),
           UNCHANGED <<mutexVars, clientVars>>
         PROVE  CleanupInv'
    BY <2>27 DEF ResumeFail
  <2>28. ASSUME NEW r \in Run, DeferCtxEnds(r) PROVE CleanupInv'
    BY <2>28 DEF DeferCtxEnds
  <2>29. ASSUME NEW r \in Run, Crash(r) PROVE CleanupInv'
    BY <2>29 DEF Crash
  <2>30. ASSUME NEW r \in Run, LeaseEnds(r) PROVE CleanupInv'
    BY <2>30 DEF LeaseEnds
  <2>31. ASSUME NEW n \in Node, BouncerDrains(n),
           UNCHANGED <<mutexVars, clientVars>>
         PROVE  CleanupInv'
    BY <2>31 DEF BouncerDrains
  <2>32. ASSUME NEW n \in Node, ServerRestart(n),
           UNCHANGED <<mutexVars, clientVars>>
         PROVE  CleanupInv'
    BY <2>32 DEF ServerRestart
  <2>33. ASSUME UNCHANGED vars PROVE CleanupInv'
    BY <2>33 DEF vars
  <2> QED
    BY <2>1, <2>2, <2>3, <2>4, <2>5, <2>6, <2>7, <2>8, <2>9, <2>10, <2>11,
       <2>12, <2>13, <2>14, <2>15, <2>16, <2>17, <2>18, <2>19, <2>20, <2>21,
       <2>22, <2>23, <2>24, <2>25, <2>26, <2>27, <2>28, <2>29, <2>30, <2>31,
       <2>32, <2>33
    DEF Next, Client, Server, Bouncer, Handle, HandleCrm, PauseStep
<1>3. CleanupInv => CleanupSentInTime
  BY DEF CleanupSentInTime, Undone
<1> QED
  BY <1>1, <1>2, <1>3, TypeCorrect, PTL DEF Spec

\* Only the 10 s of its goroutine end a deferCtx.
LEMMA DeferCtxKept ==
    ASSUME "slow" \notin Faults, [Next]_vars
    PROVE  ctxDone' = ctxDone
BY DEF Next, Client, Server, Bouncer, vars, clientVars, EnterStep, EnterPause, Await,
       Start, StartFails, HealthCheckFails, HealthChecked, LockTxn, LockTxnFails,
       LockAcquired, LockAcquiredLate, LockTimesOut, PauseFails, Paused, Migrated,
       MigrateErrs, WatchEnds, UnmigrateReturns, Resumed, ReleaseLock, HealthCheck,
       PauseReturns, ResumeReturns, BeginResume, BeginUnmigrate, DeferCtxEnds, Crash,
       LeaseEnds

\* Runs that are faster than their deferCtx all clean up, after whatever other faults.
THEOREM Cleaned == "slow" \notin Faults => (Spec => []CleanupSent)
<1> SUFFICES ASSUME "slow" \notin Faults PROVE Spec => []CleanupSent
  OBVIOUS
<1>1. Init => ctxDone = {}
  BY DEF Init
<1>2. ctxDone = {} /\ [Next]_vars => (ctxDone = {})'
  BY DeferCtxKept
<1>3. ctxDone = {} /\ CleanupSentInTime => CleanupSent
  BY DEF CleanupSentInTime, CleanupSent
<1> QED
  BY <1>1, <1>2, <1>3, CleanedInTime, PTL DEF Spec

\* Nor does it ask for a Pause.
LEMMA PauseAsksNot ==
    ASSUME TypeOK, NEW r \in Run, NEW n \in Node, PauseStep(r, n),
           NEW q \in Run, NEW m \in Node, pause'[q][m] \in {"sent", "draining"}
    PROVE  pause[q][m] \in {"sent", "draining"}
<1>1. \/ pause' = pause
      \/ \E s : /\ SetPause(r, n, s)
               /\ \/ s \notin {"sent", "draining"}
                  \/ pause[r][n] \in {"sent", "draining"}
  <2>1. CASE PauseExec(r, n)
    BY <2>1 DEF PauseExec
  <2>2. CASE PauseFail(r, n)
    BY <2>2 DEF PauseFail
  <2>3. CASE PauseSucceeds(r, n)
    BY <2>3 DEF PauseSucceeds
  <2>4. CASE PauseTimeout(r, n)
    BY <2>4 DEF PauseTimeout
  <2>5. CASE TimerFires(r, n)
    BY <2>5 DEF TimerFires
  <2>6. CASE CancelArrives(r, n)
    <3>1. \/ pause' = pause
          \/ \E s : SetPause(r, n, s) /\ s \in {"cancelled", pause[r][n]}
      BY <2>6 DEF CancelArrives
    <3> QED
      BY <3>1
  <2> QED
    BY <2>1, <2>2, <2>3, <2>4, <2>5, <2>6 DEF PauseStep
<1>2. pause \in [Run -> [Node -> PauseStatus]]
  BY DEF TypeOK, ServerTypeOK
<1> QED
  BY <1>1, <1>2 DEF SetPause

\* Callers that wait for their answers (no "giveup") keep SentInv.
LEMMA SentStep ==
    ASSUME TypeOK, SentInv, [Next]_vars, "giveup" \notin Faults
    PROVE  SentInv'
<1> USE DEF SentInv, Before
<1> USE DEF TypeOK, ServerTypeOK, At, Goto, EnterStep, EnterPause, Await,
            BeginUnmigrate, BeginResume, SetPause, SetResume, SetBouncer,
            bouncerVars, crmVars, serverVars, clientVars
<1>1. ASSUME NEW r \in Run, Start(r) PROVE SentInv'
  BY <1>1 DEF Start
<1>2. ASSUME NEW r \in Run, StartFails(r) PROVE SentInv'
  BY <1>2 DEF StartFails
<1>3. ASSUME NEW r \in Run, HealthCheckFails(r) PROVE SentInv'
  BY <1>3 DEF HealthCheckFails
<1>4. ASSUME NEW r \in Run, HealthChecked(r) PROVE SentInv'
  BY <1>4 DEF HealthChecked
<1>5. ASSUME NEW r \in Run, LockTxn(r) PROVE SentInv'
  <2>1. CASE EnterPause(r)
    BY <2>1, <1>5 DEF LockTxn
  <2>2. CASE ~EnterPause(r)
    <3>1. /\ pc' = [pc EXCEPT ![r] = "waiting"] /\ pc[r] = "lock"
          /\ UNCHANGED <<serverVars, step, todo, err, ctxDone, crashed>>
      BY <1>5, <2>2 DEF LockTxn
    <3> QED
      BY <3>1
  <2> QED
    BY <2>1, <2>2
<1>6. ASSUME NEW r \in Run, LockTxnFails(r) PROVE SentInv'
  BY <1>6 DEF LockTxnFails
<1>7. ASSUME NEW r \in Run, LockAcquired(r) PROVE SentInv'
  BY <1>7 DEF LockAcquired
<1>8. ASSUME NEW r \in Run, LockAcquiredLate(r) PROVE SentInv'
  BY <1>8 DEF LockAcquiredLate
<1>9. ASSUME NEW r \in Run, LockTimesOut(r) PROVE SentInv'
  BY <1>9 DEF LockTimesOut
<1>10. ASSUME NEW r \in Run, PauseFails(r) PROVE SentInv'
  BY <1>10 DEF PauseFails
<1>11. ASSUME NEW r \in Run, Paused(r) PROVE SentInv'
  BY <1>11 DEF Paused
<1>12. ASSUME NEW r \in Run, Migrated(r) PROVE SentInv'
  BY <1>12 DEF Migrated
<1>13. ASSUME NEW r \in Run, MigrateErrs(r) PROVE SentInv'
  BY <1>13 DEF MigrateErrs
<1>14. ASSUME NEW r \in Run, WatchEnds(r) PROVE SentInv'
  BY <1>14 DEF WatchEnds
<1>15. ASSUME NEW r \in Run, UnmigrateReturns(r) PROVE SentInv'
  BY <1>15 DEF UnmigrateReturns
<1>16. ASSUME NEW r \in Run, Resumed(r) PROVE SentInv'
  BY <1>16 DEF Resumed
<1>17. ASSUME NEW r \in Run, ReleaseLock(r) PROVE SentInv'
  BY <1>17 DEF ReleaseLock
<1>18. ASSUME NEW r \in Run, NEW n \in Node, HealthCheck(r, n) PROVE SentInv'
  BY <1>18 DEF HealthCheck
<1>19. ASSUME NEW r \in Run, NEW n \in Node, PauseReturns(r, n) PROVE SentInv'
  BY <1>19 DEF PauseReturns, Erred
<1>20. ASSUME NEW r \in Run, NEW n \in Node, ResumeReturns(r, n) PROVE SentInv'
  BY <1>20 DEF ResumeReturns
<1>21. ASSUME NEW r \in Run, MigrateExec(r),
         UNCHANGED <<mutexVars, clientVars>>
       PROVE  SentInv'
  BY <1>21 DEF MigrateExec
<1>22. ASSUME NEW r \in Run, MigrateFail(r),
         UNCHANGED <<mutexVars, clientVars>>
       PROVE  SentInv'
  BY <1>22 DEF MigrateFail
<1>23. ASSUME NEW r \in Run, UnmigrateExec(r),
         UNCHANGED <<mutexVars, clientVars>>
       PROVE  SentInv'
  BY <1>23 DEF UnmigrateExec
<1>24. ASSUME NEW r \in Run, UnmigrateFail(r),
         UNCHANGED <<mutexVars, clientVars>>
       PROVE  SentInv'
  BY <1>24 DEF UnmigrateFail
<1>25. ASSUME NEW r \in Run, NEW n \in Node, PauseStep(r, n),
         UNCHANGED <<mutexVars, clientVars>>
       PROVE  SentInv'
  <2>1. \A q \in Run, m \in Node : pause[q][m] = "idle" => pause'[q][m] = "idle"
    BY <1>25, PauseSteps
  <2>2. UNCHANGED <<resume, crmVars>>
    BY <1>25, PauseLeaves
  <2>3. \A q \in Run, m \in Node : pause'[q][m] \in {"sent", "draining"} =>
            pause[q][m] \in {"sent", "draining"}
    BY <1>25, PauseAsksNot
  <2> QED
    BY <1>25, <2>1, <2>2, <2>3
<1>26. ASSUME NEW r \in Run, NEW n \in Node, ResumeExec(r, n),
         UNCHANGED <<mutexVars, clientVars>>
       PROVE  SentInv'
  BY <1>26 DEF ResumeExec
<1>27. ASSUME NEW r \in Run, NEW n \in Node, ResumeFail(r, n),
         UNCHANGED <<mutexVars, clientVars>>
       PROVE  SentInv'
  BY <1>27 DEF ResumeFail
<1>28. ASSUME NEW r \in Run, DeferCtxEnds(r) PROVE SentInv'
  BY <1>28 DEF DeferCtxEnds
<1>29. ASSUME NEW r \in Run, Crash(r) PROVE SentInv'
  BY <1>29 DEF Crash
<1>30. ASSUME NEW r \in Run, LeaseEnds(r) PROVE SentInv'
  BY <1>30 DEF LeaseEnds
<1>31. ASSUME NEW n \in Node, BouncerDrains(n),
         UNCHANGED <<mutexVars, clientVars>>
       PROVE  SentInv'
  BY <1>31 DEF BouncerDrains
<1>32. ASSUME NEW n \in Node, ServerRestart(n),
         UNCHANGED <<mutexVars, clientVars>>
       PROVE  SentInv'
  <2>1. /\ UNCHANGED <<crmVars, clientVars>>
        /\ \A q \in Run, m \in Node :
               /\ pause[q][m] = "idle" => pause'[q][m] = "idle"
               /\ resume[q][m] = "idle" => resume'[q][m] = "idle"
               /\ pause'[q][m] \in {"sent", "draining"} => pause'[q][m] = pause[q][m]
    BY <1>32 DEF ServerRestart
  <2> QED
    BY <2>1
<1>33. ASSUME UNCHANGED vars PROVE SentInv'
  BY <1>33 DEF vars
<1>34. ASSUME NEW r \in Run, Client(r) PROVE SentInv'
  BY <1>1, <1>2, <1>3, <1>4, <1>5, <1>6, <1>7, <1>8, <1>9, <1>10, <1>11,
     <1>12, <1>13, <1>14, <1>15, <1>16, <1>17, <1>18, <1>19, <1>20, <1>34
  DEF Client
<1>35. ASSUME NEW r \in Run, Server(r) PROVE SentInv'
  BY <1>21, <1>22, <1>23, <1>24, <1>25, <1>26, <1>27, <1>35
  DEF Server, Handle, HandleCrm, PauseStep
<1> QED
  BY <1>28, <1>29, <1>30, <1>31, <1>32, <1>33, <1>34, <1>35 DEF Next, Bouncer

LEMMA Sent == "giveup" \notin Faults => (Spec => []SentInv)
<1> SUFFICES ASSUME "giveup" \notin Faults PROVE Spec => []SentInv
  OBVIOUS
<1>1. Init => SentInv
  <2> SUFFICES ASSUME Init PROVE SentInv
    OBVIOUS
  <2>1. \A r \in Run : pc[r] = "init" /\ mig[r] = "idle" /\ unmig[r] = "idle"
    BY DEF Init, ServerInit
  <2>2. \A r \in Run, n \in Node : pause[r][n] = "idle" /\ resume[r][n] = "idle"
    BY DEF Init, ServerInit
  <2> QED
    BY <2>1, <2>2 DEF SentInv
<1>2. TypeOK /\ SentInv /\ [Next]_vars => SentInv'
  BY SentStep
<1> QED
  BY <1>1, <1>2, TypeCorrect, PTL DEF Spec

\* The constraint is written for a run that has yet to unmigrate, and every Unmigrate
\* that succeeds removes it.
LEMMA OwnerStep ==
    ASSUME TypeOK, SentInv, ConstraintHasOwner, [Next]_vars
    PROVE  ConstraintHasOwner'
<1> USE DEF ConstraintHasOwner
<1> USE DEF TypeOK, ServerTypeOK, At, Goto, EnterStep, EnterPause, Await,
            BeginUnmigrate, BeginResume, SetPause, SetResume, SetBouncer,
            bouncerVars, crmVars, serverVars, clientVars
<1>1. ASSUME NEW r \in Run, Start(r) PROVE ConstraintHasOwner'
  BY <1>1 DEF Start
<1>2. ASSUME NEW r \in Run, StartFails(r) PROVE ConstraintHasOwner'
  BY <1>2 DEF StartFails
<1>3. ASSUME NEW r \in Run, HealthCheckFails(r) PROVE ConstraintHasOwner'
  BY <1>3 DEF HealthCheckFails
<1>4. ASSUME NEW r \in Run, HealthChecked(r) PROVE ConstraintHasOwner'
  BY <1>4 DEF HealthChecked
<1>5. ASSUME NEW r \in Run, LockTxn(r) PROVE ConstraintHasOwner'
  BY <1>5 DEF LockTxn
<1>6. ASSUME NEW r \in Run, LockTxnFails(r) PROVE ConstraintHasOwner'
  BY <1>6 DEF LockTxnFails
<1>7. ASSUME NEW r \in Run, LockAcquired(r) PROVE ConstraintHasOwner'
  BY <1>7 DEF LockAcquired
<1>8. ASSUME NEW r \in Run, LockAcquiredLate(r) PROVE ConstraintHasOwner'
  BY <1>8 DEF LockAcquiredLate
<1>9. ASSUME NEW r \in Run, LockTimesOut(r) PROVE ConstraintHasOwner'
  BY <1>9 DEF LockTimesOut
<1>10. ASSUME NEW r \in Run, PauseFails(r) PROVE ConstraintHasOwner'
  BY <1>10 DEF PauseFails
<1>11. ASSUME NEW r \in Run, Paused(r) PROVE ConstraintHasOwner'
  BY <1>11 DEF Paused
<1>12. ASSUME NEW r \in Run, Migrated(r) PROVE ConstraintHasOwner'
  BY <1>12 DEF Migrated
<1>13. ASSUME NEW r \in Run, MigrateErrs(r) PROVE ConstraintHasOwner'
  BY <1>13 DEF MigrateErrs
<1>14. ASSUME NEW r \in Run, WatchEnds(r) PROVE ConstraintHasOwner'
  BY <1>14 DEF WatchEnds
<1>15. ASSUME NEW r \in Run, UnmigrateReturns(r) PROVE ConstraintHasOwner'
  BY <1>15 DEF UnmigrateReturns
<1>16. ASSUME NEW r \in Run, Resumed(r) PROVE ConstraintHasOwner'
  BY <1>16 DEF Resumed
<1>17. ASSUME NEW r \in Run, ReleaseLock(r) PROVE ConstraintHasOwner'
  BY <1>17 DEF ReleaseLock
<1>18. ASSUME NEW r \in Run, NEW n \in Node, HealthCheck(r, n)
       PROVE  ConstraintHasOwner'
  BY <1>18 DEF HealthCheck
<1>19. ASSUME NEW r \in Run, NEW n \in Node, PauseReturns(r, n)
       PROVE  ConstraintHasOwner'
  BY <1>19 DEF PauseReturns
<1>20. ASSUME NEW r \in Run, NEW n \in Node, ResumeReturns(r, n)
       PROVE  ConstraintHasOwner'
  BY <1>20 DEF ResumeReturns
<1>21. ASSUME NEW r \in Run, MigrateExec(r),
         UNCHANGED <<mutexVars, clientVars>>
       PROVE  ConstraintHasOwner'
  BY <1>21 DEF MigrateExec, SentInv
<1>22. ASSUME NEW r \in Run, MigrateFail(r),
         UNCHANGED <<mutexVars, clientVars>>
       PROVE  ConstraintHasOwner'
  BY <1>22 DEF MigrateFail, SentInv
<1>23. ASSUME NEW r \in Run, UnmigrateExec(r),
         UNCHANGED <<mutexVars, clientVars>>
       PROVE  ConstraintHasOwner'
  BY <1>23 DEF UnmigrateExec
<1>24. ASSUME NEW r \in Run, UnmigrateFail(r),
         UNCHANGED <<mutexVars, clientVars>>
       PROVE  ConstraintHasOwner'
  BY <1>24 DEF UnmigrateFail
<1>25. ASSUME NEW r \in Run, NEW n \in Node, PauseStep(r, n),
         UNCHANGED <<mutexVars, clientVars>>
       PROVE  ConstraintHasOwner'
  <2>1. UNCHANGED <<resume, crmVars>>
    BY <1>25, PauseLeaves
  <2> QED
    BY <1>25, <2>1
<1>26. ASSUME NEW r \in Run, NEW n \in Node, ResumeExec(r, n),
         UNCHANGED <<mutexVars, clientVars>>
       PROVE  ConstraintHasOwner'
  BY <1>26 DEF ResumeExec
<1>27. ASSUME NEW r \in Run, NEW n \in Node, ResumeFail(r, n),
         UNCHANGED <<mutexVars, clientVars>>
       PROVE  ConstraintHasOwner'
  BY <1>27 DEF ResumeFail
<1>28. ASSUME NEW r \in Run, DeferCtxEnds(r) PROVE ConstraintHasOwner'
  BY <1>28 DEF DeferCtxEnds
<1>29. ASSUME NEW r \in Run, Crash(r) PROVE ConstraintHasOwner'
  BY <1>29 DEF Crash
<1>30. ASSUME NEW r \in Run, LeaseEnds(r) PROVE ConstraintHasOwner'
  BY <1>30 DEF LeaseEnds
<1>31. ASSUME NEW n \in Node, BouncerDrains(n),
         UNCHANGED <<mutexVars, clientVars>>
       PROVE  ConstraintHasOwner'
  BY <1>31 DEF BouncerDrains
<1>32. ASSUME NEW n \in Node, ServerRestart(n),
         UNCHANGED <<mutexVars, clientVars>>
       PROVE  ConstraintHasOwner'
  BY <1>32 DEF ServerRestart
<1>33. ASSUME UNCHANGED vars PROVE ConstraintHasOwner'
  BY <1>33 DEF vars
<1> QED
  BY <1>1, <1>2, <1>3, <1>4, <1>5, <1>6, <1>7, <1>8, <1>9, <1>10, <1>11,
     <1>12, <1>13, <1>14, <1>15, <1>16, <1>17, <1>18, <1>19, <1>20, <1>21,
     <1>22, <1>23, <1>24, <1>25, <1>26, <1>27, <1>28, <1>29, <1>30, <1>31,
     <1>32, <1>33
  DEF Next, Client, Server, Bouncer, Handle, HandleCrm, PauseStep

\* A constraint of Pacemaker does not outlive the clean-up of the runs that may have
\* asked for it (Server.Migrate, Server.Unmigrate), also when they crash or lose
\* the lock, as long as no caller gives up a call that the server still works on.
THEOREM Owned == "giveup" \notin Faults => (Spec => []ConstraintHasOwner)
<1>1. Init => ConstraintHasOwner
  BY DEF Init, ServerInit, ConstraintHasOwner
<1> QED
  BY <1>1, OwnerStep, Sent, TypeCorrect, PTL DEF Spec

\* Asking for a Resume is not an answer to it.
LEMMA ResumeBegins ==
    ASSUME TypeOK, NEW r \in Run, BeginResume(r)
    PROVE  /\ pc' = [pc EXCEPT ![r] = "resume"]
           /\ \A q \in Run, n \in Node :
                  resume'[q][n] = "done" => resume[q][n] = "done"
<1>1. resume \in [Run -> [Node -> CallStatus]]
  BY DEF TypeOK, ServerTypeOK
<1>2. CASE r \in ctxDone
  BY <1>2 DEF BeginResume, Await, Goto
<1>3. CASE r \notin ctxDone
  BY <1>1, <1>3 DEF BeginResume, Await, Goto
<1> QED
  BY <1>2, <1>3

\* Sending Pause takes no hold away (Failover.Pause).
LEMMA HolderEnters ==
    ASSUME TypeOK, SentInv, HolderInv, NEW r \in Run, EnterPause(r), pc[r] \in Before
    PROVE  HolderInv'
<1>1. /\ UNCHANGED <<bouncer, resume, cancel>>
      /\ \A q \in Run \ {r} : pause'[q] = pause[q]
  BY DEF EnterPause, TypeOK, ServerTypeOK
<1>2. \A m \in Node : pause[r][m] = "idle"
  BY DEF SentInv
<1>3. ASSUME NEW q \in Run, NEW m \in Node, Holds(q, m) PROVE Holds(q, m)'
  BY <1>1, <1>2, <1>3 DEF Holds
<1> QED
  BY <1>1, <1>3 DEF HolderInv

\* Nor does a step of a Pause at n, which the handler hands over to the timer or to
\* the cancel request, as long as that one arrives.
LEMMA HolderPauses ==
    ASSUME TypeOK, SentInv, HolderInv, "nocancel" \notin Faults,
           NEW r \in Run, NEW n \in Node, PauseStep(r, n)
    PROVE  HolderInv'
<1>1. /\ \A q \in Run, m \in Node \ {n} : pause'[q][m] = pause[q][m]
      /\ \A m \in Node \ {n} : bouncer'[m] = bouncer[m] /\ cancel'[m] = cancel[m]
  BY PauseSteps
<1>2. UNCHANGED resume
  BY PauseLeaves
<1>3. bouncer'[n] = "active" \/ \E q \in Run : Holds(q, n)'
  <2> USE DEF TypeOK, ServerTypeOK, SetPause, SetBouncer, Scheduled
  <2> USE <1>2 DEF HolderInv, Holds
  <2>1. CASE PauseExec(r, n)
    <3>1. pause[r][n] = "sent" /\ resume[r][n] = "idle"
      BY <2>1 DEF PauseExec, SentInv, Before
    <3>2. pause'[r][n] \in {"draining", "armed", "held"}
      BY <2>1 DEF PauseExec
    <3> QED
      BY <3>1, <3>2
  <2>2. CASE PauseFail(r, n)
    BY <2>2 DEF PauseFail
  <2>3. CASE PauseSucceeds(r, n)
    BY <2>3 DEF PauseSucceeds
  <2>4. CASE PauseTimeout(r, n)
    BY <2>4 DEF PauseTimeout
  <2>5. CASE TimerFires(r, n)
    BY <2>5 DEF TimerFires
  <2>6. CASE CancelArrives(r, n)
    BY <2>6 DEF CancelArrives
  <2> QED
    BY <2>1, <2>2, <2>3, <2>4, <2>5, <2>6 DEF PauseStep
<1>4. ASSUME NEW m \in Node, m # n, bouncer'[m] # "active"
      PROVE  \E q \in Run : Holds(q, m)'
  BY <1>1, <1>2, <1>4 DEF HolderInv, Holds
<1> QED
  BY <1>3, <1>4 DEF HolderInv

\* Every step keeps a holder for every bouncer that is not active.
LEMMA HolderStep ==
    ASSUME TypeOK, SentInv, HolderInv, [Next]_vars,
           Faults \cap {"nocancel", "restart"} = {}
    PROVE  HolderInv'
<1> USE DEF HolderInv, Holds
<1> USE DEF TypeOK, ServerTypeOK, At, Goto, EnterStep, Await,
            BeginUnmigrate, SetPause, SetResume, SetBouncer,
            bouncerVars, crmVars, serverVars, clientVars
<1>1. ASSUME NEW r \in Run, Start(r) PROVE HolderInv'
  BY <1>1 DEF Start
<1>2. ASSUME NEW r \in Run, StartFails(r) PROVE HolderInv'
  BY <1>2 DEF StartFails
<1>3. ASSUME NEW r \in Run, HealthCheckFails(r) PROVE HolderInv'
  BY <1>3 DEF HealthCheckFails
<1>4. ASSUME NEW r \in Run, HealthChecked(r) PROVE HolderInv'
  BY <1>4 DEF HealthChecked
<1>5. ASSUME NEW r \in Run, LockTxn(r) PROVE HolderInv'
  <2>1. CASE EnterPause(r)
    BY <2>1, <1>5, HolderEnters DEF LockTxn, Before
  <2>2. CASE ~EnterPause(r)
    <3>1. /\ pc' = [pc EXCEPT ![r] = "waiting"]
          /\ UNCHANGED <<serverVars, step, todo, err, ctxDone, crashed>>
      BY <1>5, <2>2 DEF LockTxn
    <3> QED
      BY <3>1
  <2> QED
    BY <2>1, <2>2
<1>6. ASSUME NEW r \in Run, LockTxnFails(r) PROVE HolderInv'
  BY <1>6 DEF LockTxnFails
<1>7. ASSUME NEW r \in Run, LockAcquired(r) PROVE HolderInv'
  BY <1>7, HolderEnters DEF LockAcquired, Before
<1>8. ASSUME NEW r \in Run, LockAcquiredLate(r) PROVE HolderInv'
  BY <1>8, HolderEnters DEF LockAcquiredLate, Before
<1>9. ASSUME NEW r \in Run, LockTimesOut(r) PROVE HolderInv'
  BY <1>9 DEF LockTimesOut
<1>10. ASSUME NEW r \in Run, PauseFails(r) PROVE HolderInv'
  <2>1. UNCHANGED <<bouncer, pause, cancel>>
    BY <1>10 DEF PauseFails
  <2>2. /\ pc' = [pc EXCEPT ![r] = "resume"]
        /\ \A q \in Run, n \in Node :
              resume'[q][n] = "done" => resume[q][n] = "done"
    BY <1>10, ResumeBegins DEF PauseFails
  <2> QED
    BY <2>1, <2>2
<1>11. ASSUME NEW r \in Run, Paused(r) PROVE HolderInv'
  BY <1>11 DEF Paused
<1>12. ASSUME NEW r \in Run, Migrated(r) PROVE HolderInv'
  BY <1>12 DEF Migrated
<1>13. ASSUME NEW r \in Run, MigrateErrs(r) PROVE HolderInv'
  BY <1>13 DEF MigrateErrs
<1>14. ASSUME NEW r \in Run, WatchEnds(r) PROVE HolderInv'
  BY <1>14 DEF WatchEnds
<1>15. ASSUME NEW r \in Run, UnmigrateReturns(r) PROVE HolderInv'
  <2>1. UNCHANGED <<bouncer, pause, cancel>>
    BY <1>15 DEF UnmigrateReturns
  <2>2. /\ pc' = [pc EXCEPT ![r] = "resume"]
        /\ \A q \in Run, n \in Node :
              resume'[q][n] = "done" => resume[q][n] = "done"
    BY <1>15, ResumeBegins DEF UnmigrateReturns
  <2> QED
    BY <2>1, <2>2
<1>16. ASSUME NEW r \in Run, Resumed(r) PROVE HolderInv'
  BY <1>16 DEF Resumed
<1>17. ASSUME NEW r \in Run, ReleaseLock(r) PROVE HolderInv'
  BY <1>17 DEF ReleaseLock
<1>18. ASSUME NEW r \in Run, NEW n \in Node, HealthCheck(r, n) PROVE HolderInv'
  BY <1>18 DEF HealthCheck
<1>19. ASSUME NEW r \in Run, NEW n \in Node, PauseReturns(r, n) PROVE HolderInv'
  BY <1>19 DEF PauseReturns
<1>20. ASSUME NEW r \in Run, NEW n \in Node, ResumeReturns(r, n)
       PROVE  HolderInv'
  BY <1>20 DEF ResumeReturns
<1>21. ASSUME NEW r \in Run, MigrateExec(r),
         UNCHANGED <<mutexVars, clientVars>>
       PROVE  HolderInv'
  BY <1>21 DEF MigrateExec
<1>22. ASSUME NEW r \in Run, MigrateFail(r),
         UNCHANGED <<mutexVars, clientVars>>
       PROVE  HolderInv'
  BY <1>22 DEF MigrateFail
<1>23. ASSUME NEW r \in Run, UnmigrateExec(r),
         UNCHANGED <<mutexVars, clientVars>>
       PROVE  HolderInv'
  BY <1>23 DEF UnmigrateExec
<1>24. ASSUME NEW r \in Run, UnmigrateFail(r),
         UNCHANGED <<mutexVars, clientVars>>
       PROVE  HolderInv'
  BY <1>24 DEF UnmigrateFail
<1>25. ASSUME NEW r \in Run, NEW n \in Node, PauseStep(r, n),
         UNCHANGED <<mutexVars, clientVars>>
       PROVE  HolderInv'
  BY <1>25, HolderPauses
<1>26. ASSUME NEW r \in Run, NEW n \in Node, ResumeExec(r, n),
         UNCHANGED <<mutexVars, clientVars>>
       PROVE  HolderInv'
  BY <1>26 DEF ResumeExec
<1>27. ASSUME NEW r \in Run, NEW n \in Node, ResumeFail(r, n),
         UNCHANGED <<mutexVars, clientVars>>
       PROVE  HolderInv'
  BY <1>27 DEF ResumeFail
<1>28. ASSUME NEW r \in Run, DeferCtxEnds(r) PROVE HolderInv'
  BY <1>28 DEF DeferCtxEnds
<1>29. ASSUME NEW r \in Run, Crash(r) PROVE HolderInv'
  BY <1>29 DEF Crash
<1>30. ASSUME NEW r \in Run, LeaseEnds(r) PROVE HolderInv'
  BY <1>30 DEF LeaseEnds
<1>31. ASSUME NEW n \in Node, BouncerDrains(n),
         UNCHANGED <<mutexVars, clientVars>>
       PROVE  HolderInv'
  BY <1>31 DEF BouncerDrains
<1>32. ASSUME NEW n \in Node, ServerRestart(n),
         UNCHANGED <<mutexVars, clientVars>>
       PROVE  HolderInv'
  BY <1>32 DEF ServerRestart
<1>33. ASSUME UNCHANGED vars PROVE HolderInv'
  BY <1>33 DEF vars
<1> QED
  BY <1>1, <1>2, <1>3, <1>4, <1>5, <1>6, <1>7, <1>8, <1>9, <1>10, <1>11,
     <1>12, <1>13, <1>14, <1>15, <1>16, <1>17, <1>18, <1>19, <1>20, <1>21,
     <1>22, <1>23, <1>24, <1>25, <1>26, <1>27, <1>28, <1>29, <1>30, <1>31,
     <1>32, <1>33
  DEF Next, Client, Server, Bouncer, Handle, HandleCrm, PauseStep

\* A bouncer that holds traffic back does so for a run that has not been told of a
\* resume there (Server.Pause, Failover.Pause), as long as no caller gives up, no
\* cancel request is lost and no server restarts.
THEOREM PausesOwned ==
    Faults \cap {"giveup", "nocancel", "restart"} = {} => (Spec => []PausedHasOwner)
<1> SUFFICES ASSUME Faults \cap {"giveup", "nocancel", "restart"} = {}
             PROVE  Spec => []PausedHasOwner
  OBVIOUS
<1>1. Init => HolderInv
  BY DEF Init, ServerInit, HolderInv
<1>2. TypeOK /\ SentInv /\ HolderInv /\ [Next]_vars => HolderInv'
  BY HolderStep
<1>3. HolderInv => PausedHasOwner
  BY DEF HolderInv, Holds, PausedHasOwner, Erred
<1>4. Spec => []SentInv
  BY Sent
<1> QED
  BY <1>1, <1>2, <1>3, <1>4, TypeCorrect, PTL DEF Spec

\* Under the lock the Unmigrate of another run never meets a run that migrates.
LEMMA RivalStep ==
    ASSUME TypeOK, SentInv, MutualExclusion, RivalInv, [Next]_vars,
           Faults \cap {"crash", "giveup", "slow"} = {}
    PROVE  RivalInv'
<1> USE DEF RivalInv
<1> USE DEF TypeOK, ServerTypeOK, At, Goto, EnterStep, EnterPause, Await,
            BeginUnmigrate, BeginResume, SetPause, SetResume, SetBouncer,
            bouncerVars, crmVars, serverVars, clientVars
<1>1. ASSUME NEW r \in Run, Start(r) PROVE RivalInv'
  BY <1>1 DEF Start
<1>2. ASSUME NEW r \in Run, StartFails(r) PROVE RivalInv'
  BY <1>2 DEF StartFails
<1>3. ASSUME NEW r \in Run, HealthCheckFails(r) PROVE RivalInv'
  BY <1>3 DEF HealthCheckFails
<1>4. ASSUME NEW r \in Run, HealthChecked(r) PROVE RivalInv'
  BY <1>4 DEF HealthChecked
<1>5. ASSUME NEW r \in Run, LockTxn(r) PROVE RivalInv'
  BY <1>5 DEF LockTxn
<1>6. ASSUME NEW r \in Run, LockTxnFails(r) PROVE RivalInv'
  BY <1>6 DEF LockTxnFails
<1>7. ASSUME NEW r \in Run, LockAcquired(r) PROVE RivalInv'
  BY <1>7 DEF LockAcquired
<1>8. ASSUME NEW r \in Run, LockAcquiredLate(r) PROVE RivalInv'
  BY <1>8 DEF LockAcquiredLate
<1>9. ASSUME NEW r \in Run, LockTimesOut(r) PROVE RivalInv'
  BY <1>9 DEF LockTimesOut
<1>10. ASSUME NEW r \in Run, PauseFails(r) PROVE RivalInv'
  BY <1>10 DEF PauseFails
<1>11. ASSUME NEW r \in Run, Paused(r) PROVE RivalInv'
  BY <1>11 DEF Paused
<1>12. ASSUME NEW r \in Run, Migrated(r) PROVE RivalInv'
  BY <1>12 DEF Migrated
<1>13. ASSUME NEW r \in Run, MigrateErrs(r) PROVE RivalInv'
  BY <1>13 DEF MigrateErrs
<1>14. ASSUME NEW r \in Run, WatchEnds(r) PROVE RivalInv'
  BY <1>14 DEF WatchEnds
<1>15. ASSUME NEW r \in Run, UnmigrateReturns(r) PROVE RivalInv'
  <2>1. /\ pc[r] = "unmigrate" /\ unmig[r] # "sent"
        /\ UNCHANGED <<mig, unmig, prefer>>
    BY <1>15 DEF UnmigrateReturns, Ended
  <2>2. /\ pc' = [pc EXCEPT ![r] = "resume"]
        /\ todo' = [todo EXCEPT ![r] = Node]
        /\ resume' = [resume EXCEPT ![r] = [n \in Node |-> "sent"]]
        /\ UNCHANGED <<ctxDone, crashed>>
    BY <1>15, ResumeSent DEF UnmigrateReturns
  <2> QED
    BY <2>1, <2>2
<1>16. ASSUME NEW r \in Run, Resumed(r) PROVE RivalInv'
  BY <1>16 DEF Resumed
<1>17. ASSUME NEW r \in Run, ReleaseLock(r) PROVE RivalInv'
  BY <1>17 DEF ReleaseLock
<1>18. ASSUME NEW r \in Run, NEW n \in Node, HealthCheck(r, n) PROVE RivalInv'
  BY <1>18 DEF HealthCheck
<1>19. ASSUME NEW r \in Run, NEW n \in Node, PauseReturns(r, n) PROVE RivalInv'
  BY <1>19 DEF PauseReturns
<1>20. ASSUME NEW r \in Run, NEW n \in Node, ResumeReturns(r, n) PROVE RivalInv'
  BY <1>20 DEF ResumeReturns, Ended
<1>21. ASSUME NEW r \in Run, MigrateExec(r),
         UNCHANGED <<mutexVars, clientVars>>
       PROVE  RivalInv'
  BY <1>21 DEF MigrateExec
<1>22. ASSUME NEW r \in Run, MigrateFail(r),
         UNCHANGED <<mutexVars, clientVars>>
       PROVE  RivalInv'
  BY <1>22 DEF MigrateFail
<1>23. ASSUME NEW r \in Run, UnmigrateExec(r),
         UNCHANGED <<mutexVars, clientVars>>
       PROVE  RivalInv'
  <2>1. pc[r] = "unmigrate" /\ UNCHANGED <<pc, crashed, mig, resume, todo, ctxDone>>
    BY <1>23 DEF UnmigrateExec
  <2>2. ASSUME NEW q \in Run, pc[q] \in {"migrate", "watch"} PROVE FALSE
    BY <2>1, <2>2 DEF MutualExclusion, Critical
  <2>3. \A q \in Run : unmig'[q] = "sent" => unmig[q] = "sent"
    BY <1>23 DEF UnmigrateExec
  <2> QED
    BY <1>23, <2>1, <2>2, <2>3
<1>24. ASSUME NEW r \in Run, UnmigrateFail(r),
         UNCHANGED <<mutexVars, clientVars>>
       PROVE  RivalInv'
  <2>1. pc[r] = "unmigrate" /\ UNCHANGED <<pc, crashed, mig, resume, todo, ctxDone>>
    BY <1>24 DEF UnmigrateFail
  <2>2. ASSUME NEW q \in Run, pc[q] \in {"migrate", "watch"} PROVE FALSE
    BY <2>1, <2>2 DEF MutualExclusion, Critical
  <2>3. \A q \in Run : unmig'[q] = "sent" => unmig[q] = "sent"
    BY <1>24 DEF UnmigrateFail
  <2> QED
    BY <1>24, <2>1, <2>2, <2>3
<1>25. ASSUME NEW r \in Run, NEW n \in Node, PauseStep(r, n),
         UNCHANGED <<mutexVars, clientVars>>
       PROVE  RivalInv'
  <2>1. UNCHANGED <<resume, crmVars>>
    BY <1>25, PauseLeaves
  <2> QED
    BY <1>25, <2>1
<1>26. ASSUME NEW r \in Run, NEW n \in Node, ResumeExec(r, n),
         UNCHANGED <<mutexVars, clientVars>>
       PROVE  RivalInv'
  BY <1>26 DEF ResumeExec
<1>27. ASSUME NEW r \in Run, NEW n \in Node, ResumeFail(r, n),
         UNCHANGED <<mutexVars, clientVars>>
       PROVE  RivalInv'
  BY <1>27 DEF ResumeFail
<1>28. ASSUME NEW r \in Run, DeferCtxEnds(r) PROVE RivalInv'
  BY <1>28 DEF DeferCtxEnds
<1>29. ASSUME NEW r \in Run, Crash(r) PROVE RivalInv'
  BY <1>29 DEF Crash
<1>30. ASSUME NEW r \in Run, LeaseEnds(r) PROVE RivalInv'
  BY <1>30 DEF LeaseEnds
<1>31. ASSUME NEW n \in Node, BouncerDrains(n),
         UNCHANGED <<mutexVars, clientVars>>
       PROVE  RivalInv'
  BY <1>31 DEF BouncerDrains
<1>32. ASSUME NEW n \in Node, ServerRestart(n),
         UNCHANGED <<mutexVars, clientVars>>
       PROVE  RivalInv'
  BY <1>32 DEF ServerRestart
<1>33. ASSUME UNCHANGED vars PROVE RivalInv'
  BY <1>33 DEF vars
<1> QED
  BY <1>1, <1>2, <1>3, <1>4, <1>5, <1>6, <1>7, <1>8, <1>9, <1>10, <1>11,
     <1>12, <1>13, <1>14, <1>15, <1>16, <1>17, <1>18, <1>19, <1>20, <1>21,
     <1>22, <1>23, <1>24, <1>25, <1>26, <1>27, <1>28, <1>29, <1>30, <1>31,
     <1>32, <1>33
  DEF Next, Client, Server, Bouncer, Handle, HandleCrm, PauseStep

\* A run enters its pause step, or asks the bouncers for nothing and starts no
\* migration; or a bouncer, a server or a timer does something.
LEMMA BouncerSteps ==
    ASSUME TypeOK, [Next]_vars
    PROVE  \/ \E r \in Run : EnterPause(r) /\ pc[r] \in Before
           \/ /\ UNCHANGED <<bouncer, pause, cancel>>
              /\ \A q \in Run : pc'[q] \in {"pause", "migrate", "watch"} =>
                     pc[q] \in {"pause", "migrate", "watch"}
           \/ pc' = pc /\ \E r \in Run, n \in Node : PauseStep(r, n)
           \/ /\ UNCHANGED <<pc, pause, cancel>>
              /\ \E r \in Run, n \in Node : ResumeExec(r, n)
           \/ UNCHANGED <<pc, pause, cancel>> /\ \E n \in Node : BouncerDrains(n)
           \/ pc' = pc /\ \E n \in Node : ServerRestart(n)
<1> DEFINE Enters == \E r \in Run : EnterPause(r) /\ pc[r] \in Before
           Leaves == /\ UNCHANGED <<bouncer, pause, cancel>>
                     /\ \A q \in Run : pc'[q] \in {"pause", "migrate", "watch"} =>
                            pc[q] \in {"pause", "migrate", "watch"}
<1>1. ASSUME NEW r \in Run, Client(r) PROVE Enters \/ Leaves
  <2> USE DEF TypeOK, At, Goto, EnterStep, Await, BeginUnmigrate, BeginResume,
              serverVars, bouncerVars
  <2>1. CASE Start(r)
    BY <2>1 DEF Start
  <2>2. CASE StartFails(r) \/ HealthCheckFails(r) \/ HealthChecked(r)
    BY <2>2 DEF StartFails, HealthCheckFails, HealthChecked
  <2>3. CASE LockTxn(r)
    <3>1. CASE EnterPause(r)
      BY <2>3, <3>1 DEF LockTxn, Before
    <3>2. CASE ~EnterPause(r)
      BY <2>3, <3>2 DEF LockTxn
    <3> QED
      BY <3>1, <3>2
  <2>4. CASE LockAcquired(r) \/ LockAcquiredLate(r)
    BY <2>4 DEF LockAcquired, LockAcquiredLate, Before
  <2>5. CASE LockTxnFails(r) \/ LockTimesOut(r)
    BY <2>5 DEF LockTxnFails, LockTimesOut
  <2>6. CASE PauseFails(r)
    BY <2>6 DEF PauseFails
  <2>7. CASE Paused(r) \/ Migrated(r)
    BY <2>7 DEF Paused, Migrated
  <2>8. CASE MigrateErrs(r) \/ WatchEnds(r)
    BY <2>8 DEF MigrateErrs, WatchEnds
  <2>9. CASE UnmigrateReturns(r)
    BY <2>9 DEF UnmigrateReturns
  <2>10. CASE Resumed(r) \/ ReleaseLock(r)
    BY <2>10 DEF Resumed, ReleaseLock
  <2>11. CASE \E n \in Node : \/ HealthCheck(r, n) \/ PauseReturns(r, n)
                             \/ ResumeReturns(r, n)
    BY <2>11 DEF HealthCheck, PauseReturns, ResumeReturns
  <2> QED
    BY <1>1, <2>1, <2>2, <2>3, <2>4, <2>5, <2>6, <2>7, <2>8, <2>9, <2>10, <2>11
    DEF Client
<1>2. ASSUME NEW r \in Run, HandleCrm(r), UNCHANGED clientVars PROVE Leaves
  BY <1>2 DEF HandleCrm, MigrateExec, MigrateFail, UnmigrateExec, UnmigrateFail,
              bouncerVars, clientVars
<1>3. ASSUME NEW r \in Run, NEW n \in Node, ResumeFail(r, n), UNCHANGED clientVars
      PROVE  Leaves
  BY <1>3 DEF ResumeFail, clientVars
<1>4. ASSUME NEW r \in Run, DeferCtxEnds(r) \/ Crash(r) \/ LeaseEnds(r) PROVE Leaves
  BY <1>4 DEF DeferCtxEnds, Crash, LeaseEnds, serverVars, bouncerVars, clientVars
<1>5. ASSUME UNCHANGED vars PROVE Leaves
  BY <1>5 DEF vars, serverVars, bouncerVars, clientVars
<1>6. ASSUME NEW r \in Run, NEW n \in Node, ResumeExec(r, n), UNCHANGED clientVars
      PROVE  UNCHANGED <<pc, pause, cancel>>
  BY <1>6 DEF ResumeExec, clientVars
<1>7. ASSUME NEW n \in Node, BouncerDrains(n), UNCHANGED clientVars
      PROVE  UNCHANGED <<pc, pause, cancel>>
  BY <1>7 DEF BouncerDrains, clientVars
<1> QED
  BY <1>1, <1>2, <1>3, <1>4, <1>5, <1>6, <1>7
  DEF Next, Server, Bouncer, Handle, PauseStep, clientVars

\* A run that has asked for no Pause has neither a timer nor a cancel request to lose
\* when it does (Failover.Pause).
LEMMA PauseBegins ==
    ASSUME TypeOK, SentInv, NEW r \in Run, EnterPause(r), pc[r] \in Before
    PROVE  /\ UNCHANGED <<bouncer, cancel>>
           /\ pc' = [pc EXCEPT ![r] = "pause"]
           /\ \A q \in Run \ {r} : pause'[q] = pause[q]
           /\ \A m \in Node : pause[r][m] = "idle" /\ pause'[r][m] = "sent"
BY DEF EnterPause, EnterStep, Goto, TypeOK, ServerTypeOK, SentInv

\* Server.Pause says that it failed before its cancel request is on its way, as long
\* as no timeout comes late.
LEMMA CancelStep ==
    ASSUME TypeOK, SentInv, CancelInv, [Next]_vars, "late" \notin Faults
    PROVE  CancelInv'
<1> USE DEF CancelInv, Erred
<1>1. ASSUME NEW r \in Run, EnterPause(r), pc[r] \in Before PROVE CancelInv'
  <2>1. ASSUME NEW n \in Node, NEW q \in Run, q \in cancel'[n]
        PROVE  pause'[q][n] \in Erred
    BY <1>1, <2>1, PauseBegins
  <2> QED
    BY <2>1
<1>2. ASSUME NEW r \in Run, NEW n \in Node, PauseStep(r, n) PROVE CancelInv'
  <2>1. /\ \A q \in Run, m \in Node \ {n} : pause'[q][m] = pause[q][m]
        /\ \A m \in Node \ {n} : cancel'[m] = cancel[m]
    BY <1>2, PauseSteps
  <2>2. ASSUME NEW q \in Run, q \in cancel'[n] PROVE pause'[q][n] \in Erred
    <3> USE DEF TypeOK, ServerTypeOK, SetPause
    <3>1. CASE PauseExec(r, n) \/ PauseFail(r, n) \/ PauseSucceeds(r, n)
               \/ TimerFires(r, n)
      <4>1. UNCHANGED cancel /\ pause[r][n] \notin Erred
        BY <3>1 DEF PauseExec, PauseFail, PauseSucceeds, TimerFires
      <4>2. \E s : SetPause(r, n, s)
        BY <3>1 DEF PauseExec, PauseFail, PauseSucceeds, TimerFires
      <4> QED
        BY <2>2, <4>1, <4>2
    <3>2. CASE PauseTimeout(r, n)
      <4>1. /\ cancel' = [cancel EXCEPT ![n] = @ \cup {r}]
            /\ pause' = [pause EXCEPT ![r][n] = "failed"]
        BY <3>2 DEF PauseTimeout
      <4> QED
        BY <2>2, <4>1
    <3>3. CASE CancelArrives(r, n)
      <4>1. /\ cancel' = [cancel EXCEPT ![n] = @ \ {r}]
            /\ pause' = pause \/ \E s : SetPause(r, n, s)
        BY <3>3 DEF CancelArrives
      <4> QED
        BY <2>2, <4>1
    <3> QED
      BY <1>2, <3>1, <3>2, <3>3 DEF PauseStep
  <2> QED
    BY <2>1, <2>2
<1>3. ASSUME NEW n \in Node, ServerRestart(n) PROVE CancelInv'
  <2>1. /\ cancel' = [cancel EXCEPT ![n] = {}]
        /\ \A q \in Run, m \in Node \ {n} : pause'[q][m] = pause[q][m]
    BY <1>3 DEF ServerRestart, TypeOK, ServerTypeOK
  <2> QED
    BY <2>1 DEF TypeOK, ServerTypeOK
<1>4. ASSUME UNCHANGED <<pause, cancel>> PROVE CancelInv'
  BY <1>4
<1> QED
  BY <1>1, <1>2, <1>3, <1>4, BouncerSteps

\* The handler of a PAUSE waits as long as PgBouncer does, or sends the cancel request.
LEMMA DrainStep ==
    ASSUME TypeOK, SentInv, DrainInv, [Next]_vars,
           Faults \cap {"nocancel", "restart"} = {}
    PROVE  DrainInv'
<1> USE DEF DrainInv
<1>1. ASSUME NEW r \in Run, EnterPause(r), pc[r] \in Before PROVE DrainInv'
  <2>1. ASSUME NEW n \in Node, bouncer'[n] = "pausing"
        PROVE  \E q \in Run : pause'[q][n] = "draining" \/ q \in cancel'[n]
    <3>1. PICK q \in Run : pause[q][n] = "draining" \/ q \in cancel[n]
      BY <1>1, <2>1, PauseBegins
    <3>2. pause[q][n] = "draining" => q # r
      BY <1>1, PauseBegins
    <3> QED
      BY <1>1, <3>1, <3>2, PauseBegins
  <2> QED
    BY <2>1
<1>2. ASSUME NEW r \in Run, NEW n \in Node, PauseStep(r, n) PROVE DrainInv'
  <2>1. /\ \A q \in Run, m \in Node \ {n} : pause'[q][m] = pause[q][m]
        /\ \A m \in Node \ {n} : bouncer'[m] = bouncer[m] /\ cancel'[m] = cancel[m]
    BY <1>2, PauseSteps
  <2>2. ASSUME bouncer'[n] = "pausing"
        PROVE  \E q \in Run : pause'[q][n] = "draining" \/ q \in cancel'[n]
    <3> USE DEF TypeOK, ServerTypeOK, SetPause, SetBouncer
    <3>1. CASE PauseExec(r, n)
      <4>1. CASE bouncer[n] = "active"
        BY <3>1, <4>1 DEF PauseExec
      <4>2. CASE bouncer[n] # "active"
        <5>1. /\ UNCHANGED <<bouncer, cancel>> /\ pause[r][n] = "sent"
              /\ pause' = [pause EXCEPT ![r][n] = Scheduled]
          BY <3>1, <4>2 DEF PauseExec
        <5> QED
          BY <2>2, <5>1
      <4> QED
        BY <4>1, <4>2
    <3>2. CASE PauseFail(r, n)
      BY <2>2, <3>2 DEF PauseFail
    <3>3. CASE PauseSucceeds(r, n)
      BY <2>2, <3>3 DEF PauseSucceeds
    <3>4. CASE PauseTimeout(r, n)
      BY <3>4 DEF PauseTimeout
    <3>5. CASE TimerFires(r, n)
      BY <2>2, <3>5 DEF TimerFires
    <3>6. CASE CancelArrives(r, n)
      BY <2>2, <3>6 DEF CancelArrives
    <3> QED
      BY <1>2, <3>1, <3>2, <3>3, <3>4, <3>5, <3>6 DEF PauseStep
  <2> QED
    BY <2>1, <2>2
<1>3. ASSUME NEW r \in Run, NEW n \in Node, ResumeExec(r, n) \/ BouncerDrains(n),
             UNCHANGED <<pause, cancel>>
      PROVE  DrainInv'
  BY <1>3 DEF ResumeExec, BouncerDrains, SetBouncer, TypeOK, ServerTypeOK
<1>4. ASSUME NEW n \in Node, ServerRestart(n) PROVE FALSE
  BY <1>4 DEF ServerRestart
<1>5. ASSUME UNCHANGED <<bouncer, pause, cancel>> PROVE DrainInv'
  BY <1>5
<1>6. ASSUME NEW n \in Node, BouncerDrains(n), UNCHANGED <<pause, cancel>>
      PROVE  DrainInv'
  BY <1>6 DEF BouncerDrains, SetBouncer, TypeOK, ServerTypeOK
<1> QED
  BY <1>1, <1>2, <1>3, <1>4, <1>5, <1>6, BouncerSteps

\* Under the lock the Resume of another run never meets a run that migrates; timers and
\* cancel requests do.
LEMMA LiftStep ==
    ASSUME TypeOK, SentInv, MutualExclusion, RivalInv, CancelInv, LiftInv, [Next]_vars
    PROVE  LiftInv'
<1> USE DEF LiftInv
<1>1. ASSUME NEW r \in Run, EnterPause(r), pc[r] \in Before PROVE LiftInv'
  <2> SUFFICES ASSUME NEW p \in Run, NEW n \in Node,
                      pc'[p] \in {"pause", "migrate", "watch"},
                      pause'[p][n] = "armed", bouncer'[n] = "active"
               PROVE  \E q \in Run \ {p} : pause'[q][n] \in {"expired", "cancelled"}
    OBVIOUS
  <2>1. p # r
    BY <1>1, PauseBegins
  <2>2. /\ pc[p] \in {"pause", "migrate", "watch"}
        /\ pause[p][n] = "armed" /\ bouncer[n] = "active"
    BY <1>1, <2>1, PauseBegins DEF TypeOK
  <2>3. PICK q \in Run \ {p} : pause[q][n] \in {"expired", "cancelled"}
    BY <2>2
  <2> QED
    BY <1>1, <2>3, PauseBegins
<1>2. ASSUME NEW r \in Run, NEW n \in Node, PauseStep(r, n), pc' = pc PROVE LiftInv'
  <2>1. /\ \A q \in Run, m \in Node \ {n} : pause'[q][m] = pause[q][m]
        /\ \A m \in Node \ {n} : bouncer'[m] = bouncer[m]
    BY <1>2, PauseSteps
  <2>2. ASSUME NEW p \in Run, pc[p] \in {"pause", "migrate", "watch"},
               pause'[p][n] = "armed", bouncer'[n] = "active"
        PROVE  \E q \in Run \ {p} : pause'[q][n] \in {"expired", "cancelled"}
    <3> USE DEF TypeOK, ServerTypeOK, SetPause, SetBouncer
    <3>0. ASSUME pause' = [pause EXCEPT ![r][n] = "failed"],
                 pause[r][n] \in {"sent", "draining"}, UNCHANGED bouncer
          PROVE  \E q \in Run \ {p} : pause'[q][n] \in {"expired", "cancelled"}
      <4>1. pause[p][n] = "armed"
        BY <2>2, <3>0
      <4>2. PICK q \in Run \ {p} : pause[q][n] \in {"expired", "cancelled"}
        BY <2>2, <3>0, <4>1
      <4>3. q # r
        BY <3>0, <4>2
      <4> QED
        BY <3>0, <4>2, <4>3
    <3>1. CASE PauseExec(r, n)
      BY <2>2, <3>1 DEF PauseExec
    <3>2. CASE PauseFail(r, n)
      BY <3>0, <3>2 DEF PauseFail
    <3>3. CASE PauseSucceeds(r, n)
      BY <2>2, <3>3 DEF PauseSucceeds
    <3>4. CASE PauseTimeout(r, n)
      <4>1. /\ pause[r][n] \in {"sent", "draining"} /\ UNCHANGED bouncer
            /\ pause[r][n] = "sent" => bouncer[n] # "active"
            /\ \/ pause' = [pause EXCEPT ![r][n] = "failed"]
               \/ pause[r][n] = "draining" => bouncer[n] = "paused"
        BY <3>4 DEF PauseTimeout
      <4>2. pause' = [pause EXCEPT ![r][n] = "failed"]
        BY <2>2, <4>1
      <4> QED
        BY <3>0, <4>1, <4>2
    <3>5. CASE TimerFires(r, n)
      <4>1. pause' = [pause EXCEPT ![r][n] = "expired"]
        BY <3>5 DEF TimerFires
      <4> QED
        BY <2>2, <4>1
    <3>6. CASE CancelArrives(r, n)
      <4>1. pause[r][n] \in Erred
        BY <3>6 DEF CancelArrives, CancelInv
      <4>2. \/ UNCHANGED <<bouncer, pause>>
            \/ pause' = [pause EXCEPT ![r][n] = "cancelled"]
        BY <3>6, <4>1 DEF CancelArrives, Erred
      <4> QED
        BY <2>2, <4>1, <4>2 DEF Erred
    <3> QED
      BY <1>2, <3>1, <3>2, <3>3, <3>4, <3>5, <3>6 DEF PauseStep
  <2> QED
    BY <1>2, <2>1, <2>2
<1>3. ASSUME NEW r \in Run, NEW n \in Node, ResumeExec(r, n),
             UNCHANGED <<pc, pause, cancel>>
      PROVE  LiftInv'
  <2>1. pc[r] = "resume"
    BY <1>3 DEF ResumeExec, RivalInv
  <2>2. ASSUME NEW q \in Run, pc[q] \in {"pause", "migrate", "watch"} PROVE FALSE
    BY <2>1, <2>2 DEF MutualExclusion, Critical, RivalInv
  <2> QED
    BY <1>3, <2>2
<1>4. ASSUME NEW n \in Node, BouncerDrains(n), UNCHANGED <<pc, pause, cancel>>
      PROVE  LiftInv'
  BY <1>4 DEF BouncerDrains, SetBouncer, TypeOK, ServerTypeOK
<1>5. ASSUME NEW n \in Node, ServerRestart(n), pc' = pc PROVE LiftInv'
  <2>1. /\ \A q \in Run, m \in Node \ {n} : pause'[q][m] = pause[q][m]
        /\ \A m \in Node \ {n} : bouncer'[m] = bouncer[m]
        /\ \A q \in Run : pause'[q][n] # "armed"
    BY <1>5 DEF ServerRestart, SetBouncer, TypeOK, ServerTypeOK
  <2> QED
    BY <1>5, <2>1
<1>6. ASSUME UNCHANGED <<bouncer, pause, cancel>>,
             \A q \in Run : pc'[q] \in {"pause", "migrate", "watch"} =>
                 pc[q] \in {"pause", "migrate", "watch"}
      PROVE  LiftInv'
  BY <1>6
<1> QED
  BY <1>1, <1>2, <1>3, <1>4, <1>5, <1>6, BouncerSteps

\* A process dies of nothing but a crash.
LEMMA NobodyDies ==
    ASSUME "crash" \notin Faults, [Next]_vars
    PROVE  crashed' = crashed
BY DEF Next, Client, Server, Bouncer, vars, clientVars, EnterStep, EnterPause, Await,
       Start, StartFails, HealthCheckFails, HealthChecked, LockTxn, LockTxnFails,
       LockAcquired, LockAcquiredLate, LockTimesOut, PauseFails, Paused, Migrated,
       MigrateErrs, WatchEnds, UnmigrateReturns, Resumed, ReleaseLock, HealthCheck,
       PauseReturns, ResumeReturns, BeginResume, BeginUnmigrate, DeferCtxEnds, Crash,
       LeaseEnds

\* The faults by which a run loses the lock, or its calls outlive it.
Outliving == {"crash", "giveup", "slow", "late", "lapse"}

\* Those by which it loses the lock, or a PAUSE has nobody left who waits for it.
Abandoning == {"crash", "giveup", "late", "lapse", "nocancel", "restart"}

LEMMA Rivals ==
    Faults \cap Outliving = {} => (Spec => [](RivalInv /\ CancelInv /\ LiftInv))
<1> SUFFICES ASSUME Faults \cap Outliving = {}
             PROVE  Spec => [](RivalInv /\ CancelInv /\ LiftInv)
  OBVIOUS
<1> USE DEF Outliving
<1>1. Init => RivalInv /\ CancelInv /\ LiftInv
  BY DEF Init, ServerInit, RivalInv, CancelInv, LiftInv
<1>2. TypeOK /\ SentInv /\ MutualExclusion /\ RivalInv /\ [Next]_vars => RivalInv'
  BY RivalStep
<1>3. TypeOK /\ SentInv /\ CancelInv /\ [Next]_vars => CancelInv'
  BY CancelStep
<1>4. TypeOK /\ SentInv /\ MutualExclusion /\ RivalInv /\ CancelInv /\ LiftInv
          /\ [Next]_vars => LiftInv'
  BY LiftStep
<1>5. Spec => []SentInv
  BY Sent
<1>6. Spec => []MutualExclusion
  BY Exclusive
<1> QED
  BY <1>1, <1>2, <1>3, <1>4, <1>5, <1>6, TypeCorrect, PTL DEF Spec

\* While a run waits for the new master its constraint is there: no other run's
\* Unmigrate, which removes whatever it finds, takes it away (Server.Unmigrate), also
\* when servers restart and resumes or cancel requests are lost.
THEOREM ConstraintKept == Faults \cap Outliving = {} => (Spec => []ConstraintHeld)
<1>1. RivalInv => ConstraintHeld
  BY DEF RivalInv, ConstraintHeld
<1> QED
  BY <1>1, Rivals, PTL

\* The pause that a migrating run relies on is lifted only by a timer or a cancel
\* request that another run left behind (Server.Pause): never by a Resume, nor by a
\* server that restarts.
THEOREM OnlyStaleLifts ==
    Faults \cap Outliving = {} => (Spec => []PauseHeldUnlessStale)
<1>1. LiftInv => PauseHeldUnlessStale
  BY DEF LiftInv, PauseHeldUnlessStale, Relies
<1> QED
  BY <1>1, Rivals, PTL

\* No query runs at a bouncer that a migrating run takes for paused, unless it was
\* told so of the PAUSE of a run whose cancel request is on its way (Server.Pause,
\* "already suspended/paused"); true also of slow runs.
THEOREM Drained == Faults \cap Abandoning = {} => (Spec => []DrainedUnlessLeft)
<1> SUFFICES ASSUME Faults \cap Abandoning = {} PROVE Spec => []DrainedUnlessLeft
  OBVIOUS
<1> USE DEF Abandoning
<1>1. Init => DrainInv /\ CancelInv /\ crashed = {}
  BY DEF Init, ServerInit, DrainInv, CancelInv
<1>2. TypeOK /\ SentInv /\ DrainInv /\ [Next]_vars => DrainInv'
  BY DrainStep
<1>3. TypeOK /\ SentInv /\ CancelInv /\ [Next]_vars => CancelInv'
  BY CancelStep
<1>4. crashed = {} /\ [Next]_vars => (crashed = {})'
  BY NobodyDies
<1>5. SentInv /\ MutualExclusion /\ DrainInv /\ CancelInv /\ crashed = {}
      => DrainedUnlessLeft
  <2> SUFFICES ASSUME SentInv, MutualExclusion, DrainInv, CancelInv, crashed = {},
                      NEW r \in Run, NEW n \in Node,
                      Relies(r, n), bouncer[n] = "pausing"
               PROVE  \E q \in Run \ {r} : q \in cancel[n]
    BY DEF DrainedUnlessLeft
  <2>1. PICK q \in Run : pause[q][n] = "draining" \/ q \in cancel[n]
    BY DEF DrainInv
  <2>2. pause[q][n] # "draining"
    <3> SUFFICES ASSUME pause[q][n] = "draining" PROVE FALSE
      OBVIOUS
    <3>1. pc[q] = "pause"
      BY DEF SentInv
    <3>2. q = r
      BY <3>1 DEF Relies, MutualExclusion, Critical
    <3> QED
      BY <3>1, <3>2 DEF Relies
  <2>3. q # r
    BY <2>1, <2>2 DEF CancelInv, Relies, Erred
  <2> QED
    BY <2>1, <2>2, <2>3
<1>6. Spec => []SentInv
  BY Sent
<1>7. Spec => []MutualExclusion
  BY Exclusive
<1> QED
  BY <1>1, <1>2, <1>3, <1>4, <1>5, <1>6, <1>7, TypeCorrect, PTL DEF Spec
=============================================================================
