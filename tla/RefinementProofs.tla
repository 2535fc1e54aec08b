--------------------------- MODULE RefinementProofs ---------------------------
(***************************************************************************)
(* Every run of Failover implements Pipeline, for every set of runs and    *)
(* nodes and under every fault: it takes no step back, and waits for no    *)
(* answer to a call that it did not make.                                  *)
(***************************************************************************)
EXTENDS FailoverProofs

FromTo(r, l, m) == pc[r] = l /\ pc'[r] = m

\* A run goes on in its pipeline: it enters the next step,
Enters(r) ==
    /\ \/ FromTo(r, "init", "health") \/ FromTo(r, "health", "lock")
       \/ FromTo(r, "lock", "pause") \/ FromTo(r, "waiting", "pause")
       \/ FromTo(r, "pause", "migrate")
    /\ step'[r] = step[r] + 1

\* fails in the one it is in, or ends the last one,
Leaves(r) ==
    /\ \/ FromTo(r, "health", "returned") \/ FromTo(r, "lock", "release")
       \/ FromTo(r, "waiting", "release") \/ FromTo(r, "pause", "resume")
       \/ FromTo(r, "migrate", "unmigrate") \/ FromTo(r, "watch", "unmigrate")
    /\ step'[r] = step[r]

\* has run a deferred action,
Undoes(r) ==
    /\ \/ FromTo(r, "unmigrate", "resume") \/ FromTo(r, "resume", "release")
       \/ FromTo(r, "release", "returned")
    /\ step'[r] = step[r]

\* or does something that the pipeline does not see.
Stutters(r) ==
    /\ \/ pc'[r] = pc[r] \/ FromTo(r, "init", "returned")
       \/ FromTo(r, "lock", "waiting") \/ FromTo(r, "migrate", "watch")
    /\ step'[r] = step[r]

Moves(r) == Enters(r) \/ Leaves(r) \/ Undoes(r) \/ Stutters(r)

\* No action of Failover moves a run in any other way.
LEMMA OnlyMoves ==
    ASSUME TypeOK, StepInv, [Next]_vars PROVE \A q \in Run : Moves(q)
<1> DEFINE M == \A q \in Run : Moves(q)
<1> USE DEF TypeOK, StepInv, StepOK, Moves, Enters, Leaves, Undoes, Stutters, FromTo,
            At, Goto, EnterStep, Await, BeginUnmigrate, BeginResume, EnterPause,
            clientVars
<1>1. ASSUME NEW r \in Run, Start(r) PROVE M
  BY <1>1 DEF Start
<1>2. ASSUME NEW r \in Run, StartFails(r) PROVE M
  BY <1>2 DEF StartFails
<1>3. ASSUME NEW r \in Run, HealthCheckFails(r) PROVE M
  BY <1>3 DEF HealthCheckFails
<1>4. ASSUME NEW r \in Run, HealthChecked(r) PROVE M
  BY <1>4 DEF HealthChecked
<1>5. ASSUME NEW r \in Run, LockTxn(r) PROVE M
  BY <1>5 DEF LockTxn
<1>6. ASSUME NEW r \in Run, LockTxnFails(r) PROVE M
  BY <1>6 DEF LockTxnFails
<1>7. ASSUME NEW r \in Run, LockAcquired(r) PROVE M
  BY <1>7 DEF LockAcquired
<1>8. ASSUME NEW r \in Run, LockAcquiredLate(r) PROVE M
  BY <1>8 DEF LockAcquiredLate
<1>9. ASSUME NEW r \in Run, LockTimesOut(r) PROVE M
  BY <1>9 DEF LockTimesOut
<1>10. ASSUME NEW r \in Run, PauseFails(r) PROVE M
  BY <1>10 DEF PauseFails
<1>11. ASSUME NEW r \in Run, Paused(r) PROVE M
  BY <1>11 DEF Paused
<1>12. ASSUME NEW r \in Run, Migrated(r) PROVE M
  BY <1>12 DEF Migrated
<1>13. ASSUME NEW r \in Run, MigrateErrs(r) PROVE M
  BY <1>13 DEF MigrateErrs
<1>14. ASSUME NEW r \in Run, WatchEnds(r) PROVE M
  BY <1>14 DEF WatchEnds
<1>15. ASSUME NEW r \in Run, UnmigrateReturns(r) PROVE M
  BY <1>15 DEF UnmigrateReturns
<1>16. ASSUME NEW r \in Run, Resumed(r) PROVE M
  BY <1>16 DEF Resumed
<1>17. ASSUME NEW r \in Run, ReleaseLock(r) PROVE M
  BY <1>17 DEF ReleaseLock
<1>18. ASSUME NEW r \in Run, NEW n \in Node, HealthCheck(r, n) PROVE M
  BY <1>18 DEF HealthCheck
<1>19. ASSUME NEW r \in Run, NEW n \in Node, PauseReturns(r, n) PROVE M
  BY <1>19 DEF PauseReturns
<1>20. ASSUME NEW r \in Run, NEW n \in Node, ResumeReturns(r, n) PROVE M
  BY <1>20 DEF ResumeReturns
<1>21. ASSUME NEW r \in Run, DeferCtxEnds(r) PROVE M
  BY <1>21 DEF DeferCtxEnds
<1>22. ASSUME NEW r \in Run, Crash(r) PROVE M
  BY <1>22 DEF Crash
<1>23. ASSUME NEW r \in Run, LeaseEnds(r) PROVE M
  BY <1>23 DEF LeaseEnds
<1>24. ASSUME UNCHANGED clientVars PROVE M
  BY <1>24
<1> QED
  BY <1>1, <1>2, <1>3, <1>4, <1>5, <1>6, <1>7, <1>8, <1>9, <1>10, <1>11, <1>12,
     <1>13, <1>14, <1>15, <1>16, <1>17, <1>18, <1>19, <1>20, <1>21, <1>22,
     <1>23, <1>24
  DEF Next, Client, Server, Bouncer, vars

\* Where a run is says which steps it has entered.
LEMMA StepsKnown == Spec => []StepInv
<1>1. Init => StepInv
  BY DEF Init, StepInv, StepOK
<1>2. TypeOK /\ StepInv /\ [Next]_vars => StepInv'
  <2> SUFFICES ASSUME TypeOK, StepInv, [Next]_vars, NEW r \in Run PROVE StepOK(r)'
    BY DEF StepInv
  <2>1. Moves(r)
    BY OnlyMoves
  <2> QED
    BY <2>1 DEF StepInv, StepOK, TypeOK, Moves, Enters, Leaves, Undoes, Stutters, FromTo
<1> QED
  BY <1>1, <1>2, TypeCorrect, PTL DEF Spec

\* The pipeline of every run: what it enters, leaves and runs deferred, and in
\* which order, is what Pipeline allows, whatever fails or dies around it.
THEOREM Implements == Spec => RunsPipeline
<1> USE DEF Unwinding, Pending, Ran
<1>1. Init => \A r \in Run : P(r)!Init
  <2> SUFFICES ASSUME Init, NEW r \in Run PROVE P(r)!Init
    OBVIOUS
  <2>1. step[r] = 0 /\ pc[r] = "init" /\ 2 .. 0 = {}
    BY DEF Init
  <2> QED
    BY <2>1 DEF P!Init
<1>2. TypeOK /\ StepInv /\ [Next]_vars =>
        \A r \in Run : P(r)!Next \/ UNCHANGED P(r)!vars
  <2> SUFFICES ASSUME TypeOK, StepInv, [Next]_vars, NEW r \in Run
               PROVE  P(r)!Next \/ UNCHANGED P(r)!vars
    OBVIOUS
  <2> USE DEF TypeOK, StepInv, StepOK, FromTo
  <2>1. CASE Enters(r)
    <3>1. step[r] \in 0 .. 3 /\ step'[r] = step[r] + 1
      BY <2>1 DEF Enters
    <3>2. ~Unwinding(r) /\ ~Unwinding(r)'
      BY <2>1 DEF Enters
    <3>3. Ran(r) = {} /\ Ran(r)' = {}
      BY <2>1 DEF Enters
    <3>4. 2 .. (step[r] + 1) = (2 .. step[r]) \cup ((2 .. 4) \cap {step[r] + 1})
      <4>1. CASE step[r] = 0
        BY <4>1
      <4>2. CASE step[r] = 1
        BY <4>2
      <4>3. CASE step[r] = 2
        BY <4>3
      <4>4. CASE step[r] = 3
        BY <4>4
      <4> QED
        BY <3>1, <4>1, <4>2, <4>3, <4>4
    <3>5. Pending(r)' = Pending(r) \cup ((2 .. 4) \cap {step[r] + 1})
      BY <3>1, <3>3, <3>4
    <3> QED
      BY <3>1, <3>2, <3>3, <3>5 DEF P!Next, P!Enter
  <2>2. CASE Leaves(r)
    BY <2>2 DEF Leaves, P!Next, P!Leave
  <2>3. CASE Undoes(r)
    BY <2>3 DEF Undoes, P!Next, P!RunDeferred
  <2>4. CASE Stutters(r)
    BY <2>4 DEF Stutters, P!vars
  <2> QED
    BY <2>1, <2>2, <2>3, <2>4, OnlyMoves DEF Moves
<1> QED
  BY <1>1, <1>2, TypeCorrect, StepsKnown, PTL DEF Spec, RunsPipeline

\* A step of a run, other than an answer that it was waiting for, is a step in its
\* pipeline; and an answer is waited for once (EachClient, WaitGroup).
LEMMA ClientMoves ==
    ASSUME TypeOK, NEW r \in Run, Client(r)
    PROVE  \/ pc'[r] # pc[r]
           \/ todo'[r] \subseteq todo[r] /\ todo'[r] # todo[r]
<1> USE DEF TypeOK, At, Goto, EnterStep, Await, BeginUnmigrate, BeginResume, EnterPause
<1>1. CASE Start(r) \/ StartFails(r) \/ HealthCheckFails(r) \/ HealthChecked(r)
  BY <1>1 DEF Start, StartFails, HealthCheckFails, HealthChecked
<1>2. CASE LockTxn(r) \/ LockTxnFails(r)
  BY <1>2 DEF LockTxn, LockTxnFails
<1>3. CASE LockAcquired(r) \/ LockAcquiredLate(r) \/ LockTimesOut(r)
  BY <1>3 DEF LockAcquired, LockAcquiredLate, LockTimesOut
<1>4. CASE PauseFails(r) \/ Paused(r)
  BY <1>4 DEF PauseFails, Paused
<1>5. CASE Migrated(r) \/ MigrateErrs(r) \/ WatchEnds(r)
  BY <1>5 DEF Migrated, MigrateErrs, WatchEnds
<1>6. CASE UnmigrateReturns(r) \/ Resumed(r) \/ ReleaseLock(r)
  BY <1>6 DEF UnmigrateReturns, Resumed, ReleaseLock
<1>7. ASSUME NEW n \in Node,
             HealthCheck(r, n) \/ PauseReturns(r, n) \/ ResumeReturns(r, n)
      PROVE  todo'[r] \subseteq todo[r] /\ todo'[r] # todo[r]
  BY <1>7 DEF HealthCheck, PauseReturns, ResumeReturns
<1> QED
  BY <1>1, <1>2, <1>3, <1>4, <1>5, <1>6, <1>7 DEF Client

\* A run takes no step back and none for nothing, so that it takes at most ten and one
\* for every answer of the three steps that call all endpoints: with nothing to keep it
\* waiting for ever (LockNeverStuck, NeverWaitsInVain) it ends.
THEOREM NoStepBack == Spec => RunsOnward
<1> DEFINE Onward == \A r \in Run : Client(r) =>
                         \/ Position(pc[r]) < Position(pc'[r])
                         \/ /\ pc'[r] = pc[r]
                            /\ todo'[r] \subseteq todo[r] /\ todo'[r] # todo[r]
<1>1. TypeOK /\ StepInv /\ [Next]_vars => Onward
  <2> SUFFICES ASSUME TypeOK, StepInv, [Next]_vars, NEW r \in Run, Client(r)
               PROVE  \/ Position(pc[r]) < Position(pc'[r])
                      \/ /\ pc'[r] = pc[r]
                         /\ todo'[r] \subseteq todo[r] /\ todo'[r] # todo[r]
    OBVIOUS
  <2>1. Moves(r)
    BY OnlyMoves
  <2>2. pc'[r] # pc[r] => Position(pc[r]) < Position(pc'[r])
    BY <2>1 DEF Moves, Enters, Leaves, Undoes, Stutters, FromTo, Position
  <2> QED
    BY <2>2, ClientMoves
<1> QED
  BY <1>1, StepsKnown, TypeCorrect, PTL DEF Spec, RunsOnward

\* A Pause that was asked for is not forgotten (Server.Pause).
LEMMA PauseAsked ==
    ASSUME TypeOK, NEW r \in Run, NEW n \in Node, PauseStep(r, n),
           NEW q \in Run, NEW m \in Node, pause[q][m] # "idle"
    PROVE  pause'[q][m] # "idle"
<1>1. \/ pause' = pause
      \/ \E s : SetPause(r, n, s) /\ (s # "idle" \/ s = pause[r][n])
  <2>1. CASE PauseExec(r, n)
    BY <2>1 DEF PauseExec, Scheduled
  <2>2. CASE PauseFail(r, n)
    BY <2>2 DEF PauseFail
  <2>3. CASE PauseSucceeds(r, n)
    BY <2>3 DEF PauseSucceeds, Scheduled
  <2>4. CASE PauseTimeout(r, n)
    BY <2>4 DEF PauseTimeout, Scheduled
  <2>5. CASE TimerFires(r, n)
    BY <2>5 DEF TimerFires
  <2>6. CASE CancelArrives(r, n)
    BY <2>6 DEF CancelArrives
  <2> QED
    BY <2>1, <2>2, <2>3, <2>4, <2>5, <2>6 DEF PauseStep
<1>2. pause \in [Run -> [Node -> PauseStatus]]
  BY DEF TypeOK, ServerTypeOK
<1>3. ASSUME NEW s, SetPause(r, n, s), s # "idle" \/ s = pause[r][n]
      PROVE  pause'[q][m] # "idle"
  BY <1>2, <1>3 DEF SetPause
<1> QED
  BY <1>1, <1>3

\* Nobody waits for an answer to a call that was never sent (Failover.Pause, Migrate and
\* their deferred actions; EachClient).
THEOREM NeverWaitsInVain == Spec => []WaitsForCalls
<1> USE DEF WaitsForCalls
<1>1. Init => WaitsForCalls
  <2> SUFFICES ASSUME Init, NEW r \in Run PROVE pc[r] = "init"
    OBVIOUS
  <2> QED
    BY DEF Init
<1>2. TypeOK /\ WaitsForCalls /\ [Next]_vars => WaitsForCalls'
  <2> SUFFICES ASSUME TypeOK, WaitsForCalls, [Next]_vars PROVE WaitsForCalls'
    OBVIOUS
  <2> USE DEF TypeOK, ServerTypeOK, At, Goto, EnterStep, Await,
              SetPause, SetResume, serverVars, bouncerVars, crmVars, clientVars
  <2>1. ASSUME NEW r \in Run,
               Start(r) \/ StartFails(r) \/ HealthCheckFails(r) \/ HealthChecked(r)
        PROVE  WaitsForCalls'
    BY <2>1 DEF Start, StartFails, HealthCheckFails, HealthChecked
  <2>2. ASSUME NEW r \in Run, EnterPause(r) PROVE WaitsForCalls'
    <3>1. /\ pc'[r] = "pause" /\ \A n \in Node : pause'[r][n] = "sent"
          /\ \A q \in Run \ {r} :
                 pc'[q] = pc[q] /\ todo'[q] = todo[q] /\ pause'[q] = pause[q]
          /\ UNCHANGED <<resume, mig, unmig, ctxDone>> /\ todo'[r] \subseteq Node
      BY <2>2 DEF EnterPause
    <3> QED
      BY <3>1
  <2>3. ASSUME NEW r \in Run,
               Goto(r, "waiting") \/ Goto(r, "release") \/ Goto(r, "returned"),
               UNCHANGED <<serverVars, todo, ctxDone>>
        PROVE  WaitsForCalls'
    BY <2>3
  <2>4. ASSUME NEW r \in Run, BeginResume(r), UNCHANGED <<pause, crmVars>>
        PROVE  WaitsForCalls'
    <3>1. /\ pc'[r] = "resume" /\ UNCHANGED ctxDone
          /\ \A q \in Run \ {r} :
                 pc'[q] = pc[q] /\ todo'[q] = todo[q] /\ resume'[q] = resume[q]
          /\ \A n \in todo'[r] : resume'[r][n] = "sent"
      BY <2>4 DEF BeginResume
    <3> QED
      BY <2>4, <3>1
  <2>5. ASSUME NEW r \in Run, BeginUnmigrate(r), UNCHANGED <<pause, resume, mig>>
        PROVE  WaitsForCalls'
    <3>1. /\ pc'[r] = "unmigrate" /\ UNCHANGED ctxDone
          /\ \A q \in Run \ {r} :
                 pc'[q] = pc[q] /\ todo'[q] = todo[q] /\ unmig'[q] = unmig[q]
          /\ unmig'[r] = "sent" \/ r \in ctxDone
      BY <2>5 DEF BeginUnmigrate
    <3> QED
      BY <2>5, <3>1
  <2>6. ASSUME NEW r \in Run, Paused(r) PROVE WaitsForCalls'
    BY <2>6 DEF Paused
  <2>7. ASSUME NEW r \in Run, Migrated(r) PROVE WaitsForCalls'
    BY <2>7 DEF Migrated
  <2>8. ASSUME NEW r \in Run, NEW n \in Node,
               HealthCheck(r, n) \/ PauseReturns(r, n) \/ ResumeReturns(r, n)
        PROVE  WaitsForCalls'
    <3>1. UNCHANGED <<serverVars, pc, ctxDone>> /\ todo' = [todo EXCEPT ![r] = @ \ {n}]
      BY <2>8 DEF HealthCheck, PauseReturns, ResumeReturns
    <3> QED
      BY <3>1
  <2>9. ASSUME NEW r \in Run, DeferCtxEnds(r) PROVE WaitsForCalls'
    BY <2>9 DEF DeferCtxEnds
  <2>10. ASSUME UNCHANGED <<pc, todo, ctxDone>>,
                \A q \in Run :
                    /\ mig[q] # "idle" => mig'[q] # "idle"
                    /\ unmig[q] # "idle" => unmig'[q] # "idle"
                    /\ \A n \in Node :
                        /\ pause[q][n] # "idle" => pause'[q][n] # "idle"
                        /\ resume[q][n] # "idle" => resume'[q][n] # "idle"
         PROVE  WaitsForCalls'
    BY <2>10
  <2>11. ASSUME NEW r \in Run, HandleCrm(r), UNCHANGED clientVars PROVE WaitsForCalls'
    <3>1. UNCHANGED <<pause, resume>>
      BY <2>11 DEF HandleCrm, MigrateExec, MigrateFail, UnmigrateExec, UnmigrateFail
    <3>2. CASE MigrateExec(r) \/ MigrateFail(r)
      BY <2>10, <2>11, <3>1, <3>2 DEF MigrateExec, MigrateFail
    <3>3. CASE UnmigrateExec(r) \/ UnmigrateFail(r)
      BY <2>10, <2>11, <3>1, <3>3 DEF UnmigrateExec, UnmigrateFail
    <3> QED
      BY <2>11, <3>2, <3>3 DEF HandleCrm
  <2>12. ASSUME NEW r \in Run, NEW n \in Node, ResumeExec(r, n) \/ ResumeFail(r, n),
                UNCHANGED clientVars
         PROVE  WaitsForCalls'
    <3>1. UNCHANGED <<pause, crmVars>>
          /\ \E s \in {"done", "failed"} : SetResume(r, n, s)
      BY <2>12 DEF ResumeExec, ResumeFail
    <3>2. \A q \in Run, m \in Node : resume[q][m] # "idle" => resume'[q][m] # "idle"
      BY <3>1
    <3> QED
      BY <2>10, <2>12, <3>1, <3>2
  <2>13. ASSUME NEW r \in Run, NEW n \in Node, PauseStep(r, n), UNCHANGED clientVars
         PROVE  WaitsForCalls'
    <3>1. UNCHANGED <<resume, crmVars>>
      BY <2>13 DEF PauseStep, PauseExec, PauseFail, PauseSucceeds, PauseTimeout,
                   TimerFires, CancelArrives
    <3>2. \A q \in Run, m \in Node : pause[q][m] # "idle" => pause'[q][m] # "idle"
      BY <2>13, PauseAsked
    <3> QED
      BY <2>10, <2>13, <3>1, <3>2
  <2>14. ASSUME NEW n \in Node, ServerRestart(n), UNCHANGED clientVars
         PROVE  WaitsForCalls'
    <3>1. /\ UNCHANGED crmVars
          /\ \A q \in Run, m \in Node :
                 /\ pause[q][m] # "idle" => pause'[q][m] # "idle"
                 /\ resume[q][m] # "idle" => resume'[q][m] # "idle"
      BY <2>14 DEF ServerRestart
    <3> QED
      BY <2>10, <2>14, <3>1
  <2>15. ASSUME UNCHANGED <<serverVars, pc, todo, ctxDone>> PROVE WaitsForCalls'
    BY <2>15
  <2>16. ASSUME NEW r \in Run, Client(r) PROVE WaitsForCalls'
    BY <2>1, <2>2, <2>3, <2>4, <2>5, <2>6, <2>7, <2>8, <2>16
    DEF Client, LockTxn, LockTxnFails, LockAcquired, LockAcquiredLate, LockTimesOut,
        PauseFails, MigrateErrs, WatchEnds, UnmigrateReturns, Resumed, ReleaseLock
  <2>17. ASSUME NEW r \in Run, Crash(r) \/ LeaseEnds(r) PROVE WaitsForCalls'
    BY <2>15, <2>17 DEF Crash, LeaseEnds
  <2>18. ASSUME NEW n \in Node, BouncerDrains(n), UNCHANGED clientVars
         PROVE  WaitsForCalls'
    BY <2>10, <2>18 DEF BouncerDrains
  <2>19. ASSUME UNCHANGED vars PROVE WaitsForCalls'
    BY <2>15, <2>19 DEF vars
  <2> QED
    BY <2>9, <2>11, <2>12, <2>13, <2>14, <2>16, <2>17, <2>18, <2>19
    DEF Next, Server, Bouncer, Handle, PauseStep
<1> QED
  BY <1>1, <1>2, TypeCorrect, PTL DEF Spec
=============================================================================
