---------------------------- MODULE FailoverProofs ----------------------------
(***************************************************************************)
(* Failover for every set of runs and nodes and every combination of       *)
(* faults: the types, that one failover at a time is at work, that the     *)
(* queue for the lock always moves on and is served in its order, that no  *)
(* primary moves under a bouncer that was not paused, and that a bouncer   *)
(* never holds traffic back without something that will let it go.         *)
(***************************************************************************)
EXTENDS Failover, FiniteSetTheorems, TLAPS

\* The labels and statuses are members of their sets; citing this keeps the
\* enumerations out of the steps below.
LEMMA Names ==
    /\ "init" \in Label /\ "health" \in Label /\ "lock" \in Label /\ "waiting" \in Label
    /\ "pause" \in Label /\ "migrate" \in Label /\ "watch" \in Label
    /\ "unmigrate" \in Label /\ "resume" \in Label /\ "release" \in Label
    /\ "returned" \in Label
    /\ "idle" \in PauseStatus /\ "sent" \in PauseStatus /\ "draining" \in PauseStatus
    /\ "armed" \in PauseStatus /\ "held" \in PauseStatus /\ "expired" \in PauseStatus
    /\ "failed" \in PauseStatus /\ "cancelled" \in PauseStatus
    /\ "idle" \in CallStatus /\ "sent" \in CallStatus /\ "done" \in CallStatus
    /\ "failed" \in CallStatus
  BY DEF Label, PauseStatus, CallStatus

\* Sending Pause to every node keeps the types (Failover.Pause).
LEMMA EnterPauseTypes ==
    ASSUME TypeOK, NEW r \in Run, EnterPause(r)
    PROVE  ServerTypeOK' /\ pc' \in [Run -> Label] /\ step' \in [Run -> 0 .. 4]
           /\ todo' \in [Run -> SUBSET Node] /\ err' \in SUBSET Run
           /\ UNCHANGED <<ctxDone, crashed>>
<1>1. [n \in Node |-> "sent"] \in [Node -> PauseStatus]
  BY Names
<1> QED
  BY <1>1, Names DEF EnterPause, EnterStep, Goto, TypeOK, ServerTypeOK, crmVars

\* So does sending Resume, or not sending it (Failover.Resume).
LEMMA BeginResumeTypes ==
    ASSUME TypeOK, NEW r \in Run, BeginResume(r)
    PROVE  /\ pc' \in [Run -> Label]
           /\ todo' \in [Run -> SUBSET Node]
           /\ resume' \in [Run -> [Node -> CallStatus]]
           /\ UNCHANGED <<step, err, ctxDone, crashed>>
<1>1. [n \in Node |-> "sent"] \in [Node -> CallStatus]
  BY Names
<1>2. CASE r \in ctxDone
  <2>1. /\ Await(r, "resume", {})
        /\ UNCHANGED resume
    BY <1>2 DEF BeginResume
  <2> QED
    BY <2>1, Names DEF Await, Goto, TypeOK, ServerTypeOK
<1>3. CASE r \notin ctxDone
  <2>1. /\ Await(r, "resume", Node)
        /\ resume' = [resume EXCEPT ![r] = [n \in Node |-> "sent"]]
    BY <1>3 DEF BeginResume
  <2> QED
    BY <1>1, <2>1, Names DEF Await, Goto, TypeOK, ServerTypeOK
<1> QED
  BY <1>2, <1>3

\* A step of r's Pause at n.
PauseStep(r, n) ==
    \/ PauseExec(r, n) \/ PauseFail(r, n) \/ PauseSucceeds(r, n)
    \/ PauseTimeout(r, n) \/ TimerFires(r, n) \/ CancelArrives(r, n)

\* It leaves every other Pause and every other node alone, and takes back no
\* success (Server.Pause).
LEMMA PauseSteps ==
    ASSUME TypeOK, NEW r \in Run, NEW n \in Node, PauseStep(r, n)
    PROVE  /\ ServerTypeOK'
           /\ \A q \in Run, m \in Node \ {n} : pause'[q][m] = pause[q][m]
           /\ \A m \in Node \ {n} : bouncer'[m] = bouncer[m] /\ cancel'[m] = cancel[m]
           /\ lost \subseteq lost'
           /\ \A q \in Run, m \in Node :
                  pause[q][m] = "idle" => pause'[q][m] = "idle"
           /\ \A q \in Run, m \in Node :
                  pause[q][m] \in {"armed", "held", "expired"} =>
                      pause'[q][m] \in {"armed", "held", "expired"}
<1>1. pause \in [Run -> [Node -> PauseStatus]]
  BY DEF TypeOK, ServerTypeOK
<1>2. Scheduled \in PauseStatus
  BY Names DEF Scheduled
<1>3. ASSUME NEW s \in PauseStatus, SetPause(r, n, s),
             \/ pause[r][n] \in {"sent", "draining", "failed"}
             \/ pause[r][n] = "armed" /\ s = "expired"
             \/ s = pause[r][n]
      PROVE  /\ pause' \in [Run -> [Node -> PauseStatus]]
             /\ \A q \in Run, m \in Node \ {n} : pause'[q][m] = pause[q][m]
             /\ \A q \in Run \ {r} : pause'[q][n] = pause[q][n]
             /\ \/ pause[r][n] \in {"sent", "draining", "failed"}
                \/ pause[r][n] = "armed" /\ pause'[r][n] = "expired"
                \/ pause'[r][n] = pause[r][n]
  BY <1>1, <1>3 DEF SetPause
<1>4. \E s \in PauseStatus : /\ SetPause(r, n, s)
                             /\ \/ pause[r][n] \in {"sent", "draining", "failed"}
                                \/ pause[r][n] = "armed" /\ s = "expired"
                                \/ s = pause[r][n]
  <2>1. CASE PauseExec(r, n)
    BY <1>2, <2>1, Names DEF PauseExec
  <2>2. CASE PauseFail(r, n)
    BY <2>2, Names DEF PauseFail
  <2>3. CASE PauseSucceeds(r, n)
    BY <1>2, <2>3 DEF PauseSucceeds
  <2>4. CASE PauseTimeout(r, n)
    BY <1>2, <2>4, Names DEF PauseTimeout
  <2>5. CASE TimerFires(r, n)
    BY <2>5, Names DEF TimerFires
  <2>6. CASE CancelArrives(r, n)
    <3>1. CASE pause' = pause
      BY <1>1, <3>1 DEF SetPause
    <3>2. CASE pause' # pause
      BY <1>1, <2>6, <3>2, Names DEF CancelArrives
    <3> QED
      BY <3>1, <3>2
  <2> QED
    BY <2>1, <2>2, <2>3, <2>4, <2>5, <2>6 DEF PauseStep
<1>5. /\ bouncer' \in [Node -> {"active", "pausing", "paused"}]
      /\ cancel' \in [Node -> SUBSET Run]
      /\ \A m \in Node \ {n} : bouncer'[m] = bouncer[m] /\ cancel'[m] = cancel[m]
      /\ lost' \in SUBSET Node /\ lost \subseteq lost'
      /\ UNCHANGED <<resume, crmVars>>
  <2> USE DEF TypeOK, ServerTypeOK, SetBouncer
  <2>1. CASE PauseExec(r, n)
    BY <2>1 DEF PauseExec
  <2>2. CASE PauseFail(r, n)
    BY <2>2 DEF PauseFail
  <2>3. CASE PauseSucceeds(r, n)
    BY <2>3 DEF PauseSucceeds
  <2>4. CASE PauseTimeout(r, n)
    BY <2>4 DEF PauseTimeout
  <2>5. CASE TimerFires(r, n)
    BY <2>5 DEF TimerFires
  <2>6. CASE CancelArrives(r, n)
    BY <2>6 DEF CancelArrives
  <2> QED
    BY <2>1, <2>2, <2>3, <2>4, <2>5, <2>6 DEF PauseStep
<1>6. /\ pause' \in [Run -> [Node -> PauseStatus]]
      /\ \A q \in Run, m \in Node \ {n} : pause'[q][m] = pause[q][m]
      /\ \A q \in Run \ {r} : pause'[q][n] = pause[q][n]
      /\ \/ pause[r][n] \in {"sent", "draining", "failed"}
         \/ pause[r][n] = "armed" /\ pause'[r][n] = "expired"
         \/ pause'[r][n] = pause[r][n]
  BY <1>3, <1>4
<1>7. ServerTypeOK'
  BY <1>5, <1>6 DEF TypeOK, ServerTypeOK, crmVars
<1>8. ASSUME NEW q \in Run, NEW m \in Node
      PROVE  /\ pause[q][m] = "idle" => pause'[q][m] = "idle"
             /\ pause[q][m] \in {"armed", "held", "expired"} =>
                    pause'[q][m] \in {"armed", "held", "expired"}
  BY <1>6
<1> QED
  BY <1>5, <1>6, <1>7, <1>8

\* The safety part of Spec is enough for the types.
LEMMA TypesKept == Init /\ [][Next]_vars => []TypeOK
<1> USE DEF At, Goto, EnterStep, Await, BeginUnmigrate,
            SetPause, SetResume, SetBouncer,
            mutexVars, bouncerVars, crmVars, serverVars, clientVars
<1> USE DEF TypeOK, MutexTypeOK, ServerTypeOK
<1>1. Init => TypeOK
  <2>1. Init => MutexTypeOK
    BY DEF Init, MutexInit
  <2>2. Init => ServerTypeOK
    <3> SUFFICES ASSUME Init PROVE ServerTypeOK
      OBVIOUS
    <3> QED
      BY Names DEF Init, ServerInit
  <2> QED
    BY <2>1, <2>2, Names DEF Init
<1>2. TypeOK /\ [Next]_vars => TypeOK'
  <2> SUFFICES ASSUME TypeOK, [Next]_vars PROVE TypeOK'
    OBVIOUS
  <2> USE DEF NewSession, Enqueue, Unlock, LeaseExpires, Scheduled
  <2>1. ASSUME NEW r \in Run, Start(r) PROVE TypeOK'
    BY <2>1, Names DEF Start
  <2>2. ASSUME NEW r \in Run, StartFails(r) PROVE TypeOK'
    BY <2>2, Names DEF StartFails
  <2>3. ASSUME NEW r \in Run, HealthCheckFails(r) PROVE TypeOK'
    BY <2>3, Names DEF HealthCheckFails
  <2>4. ASSUME NEW r \in Run, HealthChecked(r) PROVE TypeOK'
    BY <2>4, Names DEF HealthChecked
  <2>5. ASSUME NEW r \in Run, LockTxn(r) PROVE TypeOK'
    <3>1. CASE keys = {} /\ EnterPause(r)
      BY <2>5, <3>1, EnterPauseTypes DEF LockTxn
    <3>2. CASE ~(keys = {} /\ EnterPause(r))
      <4>1. /\ Goto(r, "waiting")
            /\ UNCHANGED <<serverVars, step, todo, err, ctxDone, crashed>>
        BY <2>5, <3>2 DEF LockTxn
      <4>2. MutexTypeOK'
        BY <2>5 DEF LockTxn
      <4> QED
        BY <4>1, <4>2, Names
    <3> QED
      BY <3>1, <3>2
  <2>6. ASSUME NEW r \in Run, LockTxnFails(r) PROVE TypeOK'
    BY <2>6, Names DEF LockTxnFails
  <2>7. ASSUME NEW r \in Run, LockAcquired(r) PROVE TypeOK'
    BY <2>7, EnterPauseTypes DEF LockAcquired
  <2>8. ASSUME NEW r \in Run, LockAcquiredLate(r) PROVE TypeOK'
    BY <2>8, EnterPauseTypes DEF LockAcquiredLate
  <2>9. ASSUME NEW r \in Run, LockTimesOut(r) PROVE TypeOK'
    BY <2>9, Names DEF LockTimesOut
  <2>10. ASSUME NEW r \in Run, PauseFails(r) PROVE TypeOK'
    BY <2>10, BeginResumeTypes DEF PauseFails
  <2>11. ASSUME NEW r \in Run, Paused(r) PROVE TypeOK'
    BY <2>11, Names DEF Paused
  <2>12. ASSUME NEW r \in Run, Migrated(r) PROVE TypeOK'
    BY <2>12, Names DEF Migrated
  <2>13. ASSUME NEW r \in Run, MigrateErrs(r) PROVE TypeOK'
    BY <2>13, Names DEF MigrateErrs
  <2>14. ASSUME NEW r \in Run, WatchEnds(r) PROVE TypeOK'
    BY <2>14, Names DEF WatchEnds
  <2>15. ASSUME NEW r \in Run, UnmigrateReturns(r) PROVE TypeOK'
    BY <2>15, BeginResumeTypes DEF UnmigrateReturns
  <2>16. ASSUME NEW r \in Run, Resumed(r) PROVE TypeOK'
    BY <2>16, Names DEF Resumed
  <2>17. ASSUME NEW r \in Run, ReleaseLock(r) PROVE TypeOK'
    BY <2>17, Names DEF ReleaseLock
  <2>18. ASSUME NEW r \in Run, NEW n \in Node, HealthCheck(r, n) PROVE TypeOK'
    BY <2>18, Names DEF HealthCheck
  <2>19. ASSUME NEW r \in Run, NEW n \in Node, PauseReturns(r, n) PROVE TypeOK'
    BY <2>19, Names DEF PauseReturns, Erred
  <2>20. ASSUME NEW r \in Run, NEW n \in Node, ResumeReturns(r, n) PROVE TypeOK'
    BY <2>20, Names DEF ResumeReturns
  <2>21. ASSUME NEW r \in Run, MigrateExec(r), UNCHANGED <<mutexVars, clientVars>>
         PROVE  TypeOK'
    BY <2>21, Names DEF MigrateExec
  <2>22. ASSUME NEW r \in Run, MigrateFail(r), UNCHANGED <<mutexVars, clientVars>>
         PROVE  TypeOK'
    BY <2>22, Names DEF MigrateFail
  <2>23. ASSUME NEW r \in Run, UnmigrateExec(r), UNCHANGED <<mutexVars, clientVars>>
         PROVE  TypeOK'
    BY <2>23, Names DEF UnmigrateExec
  <2>24. ASSUME NEW r \in Run, UnmigrateFail(r), UNCHANGED <<mutexVars, clientVars>>
         PROVE  TypeOK'
    BY <2>24, Names DEF UnmigrateFail
  <2>25. ASSUME NEW r \in Run, NEW n \in Node, PauseStep(r, n),
                UNCHANGED <<mutexVars, clientVars>>
         PROVE  TypeOK'
    <3>1. ServerTypeOK'
      BY <2>25, PauseSteps
    <3> QED
      BY <2>25, <3>1
  <2>26. ASSUME NEW r \in Run, NEW n \in Node, ResumeExec(r, n),
                UNCHANGED <<mutexVars, clientVars>>
         PROVE  TypeOK'
    BY <2>26, Names DEF ResumeExec
  <2>27. ASSUME NEW r \in Run, NEW n \in Node, ResumeFail(r, n),
                UNCHANGED <<mutexVars, clientVars>>
         PROVE  TypeOK'
    BY <2>27, Names DEF ResumeFail
  <2>28. ASSUME NEW r \in Run, DeferCtxEnds(r) PROVE TypeOK'
    BY <2>28, Names DEF DeferCtxEnds
  <2>29. ASSUME NEW r \in Run, Crash(r) PROVE TypeOK'
    BY <2>29, Names DEF Crash
  <2>30. ASSUME NEW r \in Run, LeaseEnds(r) PROVE TypeOK'
    BY <2>30, Names DEF LeaseEnds
  <2>31. ASSUME NEW n \in Node, BouncerDrains(n),
                UNCHANGED <<mutexVars, clientVars>>
         PROVE  TypeOK'
    BY <2>31, Names DEF BouncerDrains
  <2>32. ASSUME NEW n \in Node, ServerRestart(n),
                UNCHANGED <<mutexVars, clientVars>>
         PROVE  TypeOK'
    <3>1. pause' \in [Run -> [Node -> PauseStatus]]
      BY <2>32, Names DEF ServerRestart
    <3>2. resume' \in [Run -> [Node -> CallStatus]]
      BY <2>32, Names DEF ServerRestart
    <3>3. /\ bouncer' \in [Node -> {"active", "pausing", "paused"}]
          /\ cancel' \in [Node -> SUBSET Run]
          /\ lost' \in SUBSET Node
          /\ UNCHANGED crmVars
      BY <2>32 DEF ServerRestart
    <3> QED
      BY <2>32, <3>1, <3>2, <3>3
  <2>33. ASSUME UNCHANGED vars PROVE TypeOK'
    BY <2>33, Names DEF vars
  <2> QED
    BY <2>1, <2>2, <2>3, <2>4, <2>5, <2>6, <2>7, <2>8, <2>9, <2>10, <2>11,
       <2>12, <2>13, <2>14, <2>15, <2>16, <2>17, <2>18, <2>19, <2>20, <2>21,
       <2>22, <2>23, <2>24, <2>25, <2>26, <2>27, <2>28, <2>29, <2>30, <2>31,
       <2>32, <2>33
    DEF Next, Client, Server, Bouncer, Handle, HandleCrm, PauseStep
<1> QED
  BY <1>1, <1>2, PTL

\* The variables hold what they are meant to hold, in every state.
THEOREM TypeCorrect == Spec => []TypeOK
  BY TypesKept, PTL DEF Spec

\* What a step does to the lock, for all that its keys, its queue and the places of the
\* runs tell: a contender joins, one acquires, or keys go, of runs that have left, died
\* or lost their lease.
LEMMA LockSteps ==
    ASSUME TypeOK, [Next]_vars
    PROVE  \/ \E r \in Run :
                /\ At(r, "lock") /\ Enqueue(r) /\ UNCHANGED crashed
                /\ \/ Goto(r, "pause") /\ keys = {}
                   \/ Goto(r, "waiting") \/ Goto(r, "release")
           \/ \E r \in Run :
                /\ At(r, "waiting") /\ Owns(r) /\ Goto(r, "pause") /\ UNCHANGED crashed
                /\ UNCHANGED mutexVars \/ ("late" \in Faults /\ Unlock(r))
           \/ /\ UNCHANGED ahead /\ keys' \subseteq keys /\ crashed \subseteq crashed'
              /\ \A q \in keys \ keys' : \/ "lapse" \in Faults
                                         \/ pc'[q] \in {"release", "returned"}
                                         \/ q \in crashed'
              /\ \A q \in Run : /\ pc'[q] \in Early => pc[q] \in Early
                                /\ pc'[q] = "waiting" => pc[q] = "waiting"
                                /\ Critical(q)' => Critical(q)
<1> DEFINE Goes == /\ UNCHANGED ahead /\ keys' \subseteq keys
                   /\ crashed \subseteq crashed'
                   /\ \A q \in keys \ keys' : \/ "lapse" \in Faults
                                              \/ pc'[q] \in {"release", "returned"}
                                              \/ q \in crashed'
                   /\ \A q \in Run : /\ pc'[q] \in Early => pc[q] \in Early
                                     /\ pc'[q] = "waiting" => pc[q] = "waiting"
                                     /\ Critical(q)' => Critical(q)
<1> USE DEF TypeOK, MutexTypeOK, At, Goto, EnterStep, EnterPause, Await, BeginUnmigrate,
            BeginResume, Critical, Early, mutexVars, clientVars
<1>1. ASSUME NEW r \in Run, Start(r) PROVE Goes
  BY <1>1 DEF Start, NewSession
<1>2. ASSUME NEW r \in Run, StartFails(r) \/ HealthCheckFails(r) \/ HealthChecked(r)
      PROVE  Goes
  BY <1>2 DEF StartFails, HealthCheckFails, HealthChecked
<1>3. ASSUME NEW r \in Run, LockTxn(r)
      PROVE  /\ At(r, "lock") /\ Enqueue(r) /\ UNCHANGED crashed
             /\ (Goto(r, "pause") /\ keys = {}) \/ Goto(r, "waiting")
  BY <1>3 DEF LockTxn
<1>4. ASSUME NEW r \in Run, LockTxnFails(r)
      PROVE  \/ Goes
             \/ At(r, "lock") /\ Enqueue(r) /\ UNCHANGED crashed /\ Goto(r, "release")
  BY <1>4 DEF LockTxnFails
<1>5. ASSUME NEW r \in Run, LockAcquired(r) \/ LockAcquiredLate(r)
      PROVE  /\ At(r, "waiting") /\ Owns(r) /\ Goto(r, "pause") /\ UNCHANGED crashed
             /\ UNCHANGED mutexVars \/ ("late" \in Faults /\ Unlock(r))
  BY <1>5 DEF LockAcquired, LockAcquiredLate
<1>6. ASSUME NEW r \in Run, LockTimesOut(r) PROVE Goes
  BY <1>6 DEF LockTimesOut, Unlock
<1>7. ASSUME NEW r \in Run, PauseFails(r) \/ Paused(r) PROVE Goes
  BY <1>7 DEF PauseFails, Paused
<1>8. ASSUME NEW r \in Run, Migrated(r) \/ MigrateErrs(r) \/ WatchEnds(r) PROVE Goes
  BY <1>8 DEF Migrated, MigrateErrs, WatchEnds
<1>9. ASSUME NEW r \in Run, UnmigrateReturns(r) \/ Resumed(r) PROVE Goes
  BY <1>9 DEF UnmigrateReturns, Resumed
<1>10. ASSUME NEW r \in Run, ReleaseLock(r) PROVE Goes
  BY <1>10 DEF ReleaseLock, Unlock
<1>11. ASSUME NEW r \in Run, NEW n \in Node,
              HealthCheck(r, n) \/ PauseReturns(r, n) \/ ResumeReturns(r, n)
       PROVE  Goes
  BY <1>11 DEF HealthCheck, PauseReturns, ResumeReturns
<1>12. ASSUME NEW r \in Run, DeferCtxEnds(r) \/ Crash(r) PROVE Goes
  BY <1>12 DEF DeferCtxEnds, Crash
<1>13. ASSUME NEW r \in Run, LeaseEnds(r) PROVE Goes
  BY <1>13 DEF LeaseEnds, LeaseExpires, Gone
<1>14. ASSUME UNCHANGED <<mutexVars, clientVars>> PROVE Goes
  BY <1>14
<1> QED
  BY <1>1, <1>2, <1>3, <1>4, <1>5, <1>6, <1>7, <1>8, <1>9, <1>10, <1>11, <1>12,
     <1>13, <1>14
  DEF Next, Client, Server, Bouncer, vars

\* Every contender is behind the keys that were there when its own was put, and behind
\* no other (Mutex.Lock).
LEMMA QueueKept == Spec => []QueueInv
<1> USE DEF QueueInv, Owns
<1>1. Init => QueueInv
  BY DEF Init, MutexInit, Critical
<1>2. TypeOK /\ QueueInv /\ [Next]_vars => QueueInv'
  <2> SUFFICES ASSUME TypeOK, QueueInv, [Next]_vars PROVE QueueInv'
    OBVIOUS
  <2> USE DEF TypeOK, MutexTypeOK
  <2>1. ASSUME NEW r \in Run, At(r, "lock"), Enqueue(r), UNCHANGED crashed,
               \/ Goto(r, "pause") /\ keys = {}
               \/ Goto(r, "waiting") \/ Goto(r, "release")
        PROVE  QueueInv'
    <3>1. /\ r \notin keys /\ keys' = keys \cup {r}
          /\ ahead'[r] = keys /\ \A q \in Run \ {r} : ahead'[q] = ahead[q]
          /\ \A q \in Run : r \notin ahead[q]
      BY <2>1 DEF At, Enqueue, Early
    <3>2. /\ \A q \in Run \ {r} : pc'[q] = pc[q]
          /\ pc'[r] \in {"pause", "waiting", "release"}
          /\ pc'[r] = "pause" => keys = {}
      BY <2>1 DEF Goto
    <3>3. \A q \in Run : pc'[q] \in Early =>
              q \notin keys' /\ \A p \in Run : q \notin ahead'[p]
      BY <3>1, <3>2 DEF Early
    <3>4. \A q \in Run : q \notin ahead'[q]
      BY <3>1
    <3>5. \A p, q \in keys' : p # q => p \in ahead'[q] \/ q \in ahead'[p]
      BY <3>1
    <3>6. ASSUME NEW p \in Run, NEW q \in Run, q \in ahead'[p] \cap keys'
          PROVE  ahead'[q] \cap keys' \subseteq ahead'[p]
      <4>1. q # r /\ q \in keys
        BY <3>1, <3>6
      <4>2. ahead'[q] \cap keys' = ahead[q] \cap keys
        BY <3>1, <4>1
      <4>3. CASE p = r
        BY <3>1, <4>2, <4>3
      <4>4. CASE p # r
        BY <3>1, <3>6, <4>1, <4>2, <4>4
      <4> QED
        BY <4>3, <4>4
    <3>7. ASSUME NEW q \in Run, Critical(q)' PROVE ahead'[q] \cap keys' = {}
      <4>1. CASE q = r
        BY <3>1, <3>2, <3>7, <4>1 DEF Critical
      <4>2. CASE q # r
        <5>1. Critical(q)
          BY <2>1, <3>2, <3>7, <4>2 DEF Critical
        <5> QED
          BY <3>1, <4>2, <5>1
      <4> QED
        BY <4>1, <4>2
    <3> QED
      BY <3>3, <3>4, <3>5, <3>6, <3>7
  <2>2. ASSUME NEW r \in Run, At(r, "waiting"), Owns(r), Goto(r, "pause"),
               UNCHANGED crashed, UNCHANGED mutexVars \/ Unlock(r)
        PROVE  QueueInv'
    <3>1. UNCHANGED ahead /\ keys' \subseteq keys
      BY <2>2 DEF Unlock, mutexVars
    <3>2. /\ \A q \in Run : pc'[q] \in Early => pc[q] \in Early
          /\ \A q \in Run \ {r} : Critical(q)' => Critical(q)
      BY <2>2 DEF Goto, Early, Critical
    <3> QED
      BY <2>2, <3>1, <3>2
  <2>3. ASSUME UNCHANGED ahead, keys' \subseteq keys,
               \A q \in Run : /\ pc'[q] \in Early => pc[q] \in Early
                              /\ Critical(q)' => Critical(q)
        PROVE  QueueInv'
    BY <2>3
  <2> QED
    BY <2>1, <2>2, <2>3, LockSteps
<1> QED
  BY <1>1, <1>2, TypeCorrect, PTL DEF Spec

\* "Ensuring only one failover takes place at a time", of those whose key etcd still has:
\* with every fault, so that what it takes for two failovers to run at once is a lease
\* that lapsed or a timeout that came late (Mutex.Lock, Failover.AcquireLock).
THEOREM ExclusiveWhileKept == Spec => []KeyExclusion
<1>1. TypeOK /\ QueueInv => KeyExclusion
  BY DEF TypeOK, MutexTypeOK, QueueInv, Owns, KeyExclusion
<1> QED
  BY <1>1, QueueKept, TypeCorrect, PTL

\* No key goes from under a run that waits, but with its lease.
LEMMA WaitStep ==
    ASSUME TypeOK, WaitInv, [Next]_vars, "lapse" \notin Faults
    PROVE  WaitInv'
<1> USE DEF WaitInv, At, Goto, TypeOK, MutexTypeOK
<1>1. ASSUME NEW r \in Run, At(r, "lock"), Enqueue(r), UNCHANGED crashed,
             Goto(r, "pause") \/ Goto(r, "waiting") \/ Goto(r, "release")
      PROVE  WaitInv'
  BY <1>1 DEF Enqueue
<1>2. ASSUME NEW r \in Run, Goto(r, "pause"), UNCHANGED crashed,
             UNCHANGED mutexVars \/ Unlock(r)
      PROVE  WaitInv'
  BY <1>2 DEF Unlock, mutexVars
<1>3. ASSUME crashed \subseteq crashed',
             \A q \in keys \ keys' : pc'[q] \in {"release", "returned"} \/ q \in crashed',
             \A q \in Run : pc'[q] = "waiting" => pc[q] = "waiting"
      PROVE  WaitInv'
  BY <1>3
<1> QED
  BY <1>1, <1>2, <1>3, LockSteps

\* "Ensuring only one failover takes place at a time": true when no lease of a
\* live run lapses and no lock timeout ends just as the lock is acquired, in
\* spite of crashes, lost answers and slow runs.
THEOREM Exclusive == Faults \cap {"lapse", "late"} = {} => (Spec => []MutualExclusion)
<1> SUFFICES ASSUME "lapse" \notin Faults, "late" \notin Faults
             PROVE  Spec => []MutualExclusion
  OBVIOUS
<1>1. Init => WaitInv /\ KeyInv
  BY DEF Init, WaitInv, KeyInv, At, Critical
<1>2. TypeOK /\ WaitInv /\ [Next]_vars => WaitInv'
  BY WaitStep
<1>3. TypeOK /\ WaitInv /\ KeyInv /\ [Next]_vars => KeyInv'
  <2> SUFFICES ASSUME TypeOK, WaitInv, KeyInv, [Next]_vars PROVE KeyInv'
    OBVIOUS
  <2> USE DEF WaitInv, KeyInv, Critical, At, Goto, TypeOK, MutexTypeOK
  <2>1. ASSUME NEW r \in Run, Enqueue(r), UNCHANGED crashed,
               Goto(r, "pause") \/ Goto(r, "waiting") \/ Goto(r, "release")
        PROVE  KeyInv'
    BY <2>1 DEF Enqueue
  <2>2. ASSUME NEW r \in Run, At(r, "waiting"), Goto(r, "pause"), UNCHANGED crashed,
               UNCHANGED mutexVars
        PROVE  KeyInv'
    BY <2>2 DEF mutexVars
  <2>3. ASSUME \A q \in keys \ keys' :
                   pc'[q] \in {"release", "returned"} \/ q \in crashed',
               \A q \in Run : Critical(q)' => Critical(q)
        PROVE  KeyInv'
    BY <2>3
  <2> QED
    BY <2>1, <2>2, <2>3, LockSteps
<1>4. KeyInv /\ KeyExclusion => MutualExclusion
  BY DEF KeyInv, KeyExclusion, MutualExclusion
<1> QED
  BY <1>1, <1>2, <1>3, <1>4, ExclusiveWhileKept, TypeCorrect, PTL DEF Spec

\* First come, first served, as long as no lease of a live run lapses: nobody acquires
\* the lock before a contender whose key is older (Mutex.Lock, waitDeletes).
THEOREM Served == "lapse" \notin Faults => (Spec => NotOvertaken)
<1> SUFFICES ASSUME "lapse" \notin Faults PROVE Spec => NotOvertaken
  OBVIOUS
<1> DEFINE Kept == \A r \in keys \cap keys', q \in Run :
                       Critical(q)' => Critical(q) \/ q = r \/ q \in ahead[r]
<1>1. Init => WaitInv
  BY DEF Init, WaitInv, At
<1>2. TypeOK /\ WaitInv /\ [Next]_vars => WaitInv'
  BY WaitStep
<1>3. TypeOK /\ QueueInv /\ WaitInv /\ [Next]_vars => Kept
  <2> SUFFICES ASSUME TypeOK, QueueInv, WaitInv, [Next]_vars PROVE Kept
    OBVIOUS
  <2> USE DEF Goto, TypeOK, MutexTypeOK
  <2>1. ASSUME NEW p \in Run, UNCHANGED crashed,
               \/ Goto(p, "pause") /\ keys = {}
               \/ Goto(p, "waiting") \/ Goto(p, "release")
        PROVE  Kept
    BY <2>1 DEF Critical
  <2>2. ASSUME NEW p \in Run, At(p, "waiting"), Owns(p), Goto(p, "pause"),
               UNCHANGED crashed
        PROVE  Kept
    <3>1. p \in keys
      BY <2>2 DEF WaitInv
    <3>2. \A r \in keys : p = r \/ p \in ahead[r]
      BY <2>2, <3>1 DEF QueueInv, Owns
    <3>3. \A q \in Run \ {p} : Critical(q)' => Critical(q)
      BY <2>2 DEF Critical
    <3> QED
      BY <3>2, <3>3
  <2>3. ASSUME \A q \in Run : Critical(q)' => Critical(q) PROVE Kept
    BY <2>3
  <2> QED
    BY <2>1, <2>2, <2>3, LockSteps
<1> QED
  BY <1>1, <1>2, <1>3, QueueKept, TypeCorrect, PTL DEF Spec, NotOvertaken

\* Each contender puts one key, so that etcd has finitely many.
LEMMA KeysFinite == Spec => []IsFiniteSet(keys)
<1>1. Init => IsFiniteSet(keys)
  BY FS_EmptySet DEF Init, MutexInit
<1>2. TypeOK /\ IsFiniteSet(keys) /\ [Next]_vars => IsFiniteSet(keys)'
  <2> SUFFICES ASSUME TypeOK, IsFiniteSet(keys), [Next]_vars PROVE IsFiniteSet(keys')
    OBVIOUS
  <2>1. ASSUME NEW r \in Run, keys' = keys \cup {r} PROVE IsFiniteSet(keys')
    BY <2>1, FS_AddElement
  <2>2. ASSUME keys' \subseteq keys PROVE IsFiniteSet(keys')
    BY <2>2, FS_Subset
  <2> QED
    BY <2>1, <2>2, LockSteps DEF Enqueue, Unlock, mutexVars
<1> QED
  BY <1>1, <1>2, TypeCorrect, PTL DEF Spec

\* A finite queue has an oldest contender.
LEMMA Oldest ==
    ASSUME TypeOK, QueueInv, IsFiniteSet(keys), NEW r \in Run, ~Owns(r)
    PROVE  \E q \in ahead[r] \cap keys : Owns(q)
<1> DEFINE S == ahead[r] \cap keys
           Behind == {ahead[q] \cap keys : q \in S}
<1> USE DEF TypeOK, MutexTypeOK, Owns
<1>1. Behind \subseteq FiniteSubsetsOf(keys) /\ Behind # {}
  <2>1. ASSUME NEW q \in S PROVE ahead[q] \cap keys \in FiniteSubsetsOf(keys)
    BY FS_Subset DEF FiniteSubsetsOf
  <2>2. PICK q \in ahead[r] : q \in keys
    OBVIOUS
  <2>3. ahead[q] \cap keys \in Behind
    BY <2>2
  <2> QED
    BY <2>1, <2>3, Zenon
<1>2. IsWellFoundedOn(StrictSubsetOrdering(keys), FiniteSubsetsOf(keys))
  BY FS_StrictSubsetOrderingWellFounded
<1>3. PICK A \in Behind : \A B \in Behind : <<B, A>> \notin StrictSubsetOrdering(keys)
  <2> HIDE DEF Behind
  <2> QED
    BY <1>1, <1>2, WFMin
<1>4. PICK q \in S : A = ahead[q] \cap keys
  OBVIOUS
<1>5. ASSUME NEW p \in A PROVE FALSE
  <2>1. p \in S /\ p \in ahead[q] \cap keys
    BY <1>4, <1>5 DEF QueueInv
  <2>2. ahead[p] \cap keys \subseteq A /\ p \notin ahead[p]
    BY <1>4, <2>1 DEF QueueInv
  <2>3. <<ahead[p] \cap keys, A>> \in StrictSubsetOrdering(keys)
    BY <1>4, <1>5, <2>2 DEF StrictSubsetOrdering
  <2> QED
    BY <1>3, <2>1, <2>3
<1> QED
  BY <1>4, <1>5

\* The lock cannot be deadlocked, whatever fails: of the runs that wait for it, and those
\* they wait for, one is at liberty to go on, or is gone and its lease will end
\* (Mutex.Lock, waitDeletes).
THEOREM LockNeverStuck == Spec => []LockMovesOn
<1>1. TypeOK /\ QueueInv /\ IsFiniteSet(keys) => LockMovesOn
  <2> SUFFICES ASSUME TypeOK, QueueInv, IsFiniteSet(keys),
                      NEW r \in Run, At(r, "waiting")
               PROVE  \E q \in {r} \cup (ahead[r] \cap keys) :
                          Owns(q) /\ pc[q] \notin {"init", "health", "lock"}
    BY DEF LockMovesOn
  <2>1. CASE Owns(r)
    BY <2>1 DEF At
  <2>2. CASE ~Owns(r)
    <3>1. PICK q \in ahead[r] \cap keys : Owns(q)
      BY <2>2, Oldest
    <3>2. pc[q] \notin Early
      BY <3>1 DEF QueueInv, TypeOK, MutexTypeOK
    <3> QED
      BY <3>1, <3>2 DEF Early
  <2> QED
    BY <2>1, <2>2
<1> QED
  BY <1>1, QueueKept, KeysFinite, TypeCorrect, PTL

\* What happens at one node keeps the belt if it does there (the handlers and
\* timers of pkg/failover/server.go, which share nothing between nodes).
LEMMA BeltAt ==
    ASSUME TypeOK, BeltInv, NEW n \in Node, pc' = pc, lost \subseteq lost',
           \A m \in Node \ {n} : bouncer'[m] = bouncer[m] /\ cancel'[m] = cancel[m],
           \A q \in Run, m \in Node \ {n} : pause'[q][m] = pause[q][m],
           \A q \in Run, m \in Node : pause[q][m] = "idle" => pause'[q][m] = "idle",
           \/ bouncer'[n] = "active" \/ n \in lost'
           \/ \E q \in Run : pause'[q][n] \in {"draining", "armed"} \/ q \in cancel'[n]
    PROVE  BeltInv'
<1>1. ASSUME NEW m \in Node, bouncer'[m] # "active"
      PROVE  m \in lost' \/ \E q \in Run : \/ pause'[q][m] \in {"draining", "armed"}
                                         \/ q \in cancel'[m]
  <2>1. CASE m = n
    BY <1>1, <2>1
  <2>2. CASE m # n
    <3>1. m \in lost \/ \E q \in Run : \/ pause[q][m] \in {"draining", "armed"}
                                      \/ q \in cancel[m]
      BY <1>1, <2>2 DEF BeltInv, SafetyBelt, Guards
    <3> QED
      BY <2>2, <3>1
  <2> QED
    BY <2>1, <2>2
<1> QED
  BY <1>1 DEF BeltInv, SafetyBelt, Guards

\* A step of a Pause leaves the node guarded: the handler hands over to the timer
\* or to the cancel request, and those that go have resumed PgBouncer.
LEMMA GuardedAt ==
    ASSUME TypeOK, BeltInv, Expires, NEW r \in Run, NEW n \in Node, PauseStep(r, n)
    PROVE  \/ bouncer'[n] = "active" \/ n \in lost'
           \/ \E q \in Run : pause'[q][n] \in {"draining", "armed"} \/ q \in cancel'[n]
<1> USE DEF TypeOK, ServerTypeOK, BeltInv, SafetyBelt, Guards, SetPause, SetBouncer
<1>1. CASE PauseExec(r, n)
  BY <1>1 DEF PauseExec, Scheduled
<1>2. CASE PauseFail(r, n)
  BY <1>2 DEF PauseFail
<1>3. CASE PauseSucceeds(r, n)
  BY <1>3 DEF PauseSucceeds, Scheduled
<1>4. CASE PauseTimeout(r, n)
  BY <1>4 DEF PauseTimeout
<1>5. CASE TimerFires(r, n)
  BY <1>5 DEF TimerFires
<1>6. CASE CancelArrives(r, n)
  BY <1>6 DEF CancelArrives
<1> QED
  BY <1>1, <1>2, <1>3, <1>4, <1>5, <1>6 DEF PauseStep

LEMMA PauseKeepsBelt ==
    ASSUME TypeOK, BeltInv, Expires, pc' = pc,
           NEW r \in Run, NEW n \in Node, PauseStep(r, n)
    PROVE  BeltInv'
<1>1. /\ \A q \in Run, m \in Node \ {n} : pause'[q][m] = pause[q][m]
      /\ \A m \in Node \ {n} : bouncer'[m] = bouncer[m] /\ cancel'[m] = cancel[m]
      /\ lost \subseteq lost'
      /\ \A q \in Run, m \in Node : pause[q][m] = "idle" => pause'[q][m] = "idle"
  BY PauseSteps
<1>2. \/ bouncer'[n] = "active" \/ n \in lost'
      \/ \E q \in Run : pause'[q][n] \in {"draining", "armed"} \/ q \in cancel'[n]
  BY GuardedAt
<1> QED
  BY <1>1, <1>2, BeltAt

\* The safety belt of Server.Pause, for requests that carry an expiry: while a
\* bouncer holds traffic back a handler or a timer is there to let it go,
\* unless the RESUME or the cancel request was lost on that node.
THEOREM Belted == Expires => (Spec => []SafetyBelt)
<1> SUFFICES ASSUME Expires PROVE Spec => []SafetyBelt
  OBVIOUS
<1> USE DEF BeltInv, SafetyBelt, Guards
<1>1. Init => BeltInv
  BY DEF Init, ServerInit
<1>2. TypeOK /\ BeltInv /\ [Next]_vars => BeltInv'
  <2> SUFFICES ASSUME TypeOK, BeltInv, [Next]_vars PROVE BeltInv'
    OBVIOUS
  <2> USE DEF TypeOK, ServerTypeOK, At, Goto, EnterStep, Await, BeginUnmigrate,
              BeginResume, SetPause, SetResume, SetBouncer, Scheduled,
              bouncerVars, crmVars, serverVars, clientVars
  <2>1. ASSUME NEW r \in Run, Start(r) PROVE BeltInv'
    BY <2>1 DEF Start
  <2>2. ASSUME NEW r \in Run, StartFails(r) PROVE BeltInv'
    BY <2>2 DEF StartFails
  <2>3. ASSUME NEW r \in Run, HealthCheckFails(r) PROVE BeltInv'
    BY <2>3 DEF HealthCheckFails
  <2>4. ASSUME NEW r \in Run, HealthChecked(r) PROVE BeltInv'
    BY <2>4 DEF HealthChecked
  <2>5. ASSUME NEW r \in Run, LockTxnFails(r) PROVE BeltInv'
    BY <2>5 DEF LockTxnFails
  <2>6. ASSUME NEW r \in Run, LockTimesOut(r) PROVE BeltInv'
    BY <2>6 DEF LockTimesOut
  <2>7. ASSUME NEW r \in Run, PauseFails(r) PROVE BeltInv'
    BY <2>7 DEF PauseFails
  <2>8. ASSUME NEW r \in Run, Paused(r) PROVE BeltInv'
    BY <2>8 DEF Paused
  <2>9. ASSUME NEW r \in Run, Migrated(r) PROVE BeltInv'
    BY <2>9 DEF Migrated
  <2>10. ASSUME NEW r \in Run, MigrateErrs(r) PROVE BeltInv'
    BY <2>10 DEF MigrateErrs
  <2>11. ASSUME NEW r \in Run, WatchEnds(r) PROVE BeltInv'
    BY <2>11 DEF WatchEnds
  <2>12. ASSUME NEW r \in Run, UnmigrateReturns(r) PROVE BeltInv'
    BY <2>12 DEF UnmigrateReturns
  <2>13. ASSUME NEW r \in Run, Resumed(r) PROVE BeltInv'
    BY <2>13 DEF Resumed
  <2>14. ASSUME NEW r \in Run, ReleaseLock(r) PROVE BeltInv'
    BY <2>14 DEF ReleaseLock
  <2>15. ASSUME NEW r \in Run, NEW n \in Node, HealthCheck(r, n) PROVE BeltInv'
    BY <2>15 DEF HealthCheck
  <2>16. ASSUME NEW r \in Run, NEW n \in Node, PauseReturns(r, n) PROVE BeltInv'
    BY <2>16 DEF PauseReturns, Erred
  <2>17. ASSUME NEW r \in Run, NEW n \in Node, ResumeReturns(r, n)
         PROVE  BeltInv'
    BY <2>17 DEF ResumeReturns
  <2>18. ASSUME NEW r \in Run, EnterPause(r), pc[r] \in {"lock", "waiting"}
         PROVE  BeltInv'
    <3>1. \A n \in Node : pause[r][n] = "idle"
      BY <2>18
    <3>2. \A q \in Run \ {r} : pause'[q] = pause[q] /\ pc'[q] = pc[q]
      BY <2>18 DEF EnterPause
    <3>3. pc'[r] = "pause" /\ UNCHANGED <<bouncer, cancel, lost>>
      BY <2>18 DEF EnterPause
    <3>4. SafetyBelt'
      <4>1. ASSUME NEW m \in Node, NEW q \in Run, Guards(q, m)
            PROVE  Guards(q, m)'
        BY <3>1, <3>2, <3>3, <4>1
      <4> QED
        BY <3>3, <4>1
    <3>5. ASSUME NEW q \in Run, pc'[q] \in {"init", "health", "lock", "waiting"}
          PROVE  pause'[q] = pause[q] /\ pc'[q] = pc[q]
      BY <3>2, <3>3, <3>5
    <3> QED
      BY <3>4, <3>5
  <2>19. ASSUME NEW r \in Run, LockTxn(r) PROVE BeltInv'
    <3>1. CASE EnterPause(r)
      BY <2>18, <2>19, <3>1 DEF LockTxn
    <3>2. CASE ~EnterPause(r)
      <4>1. /\ UNCHANGED serverVars /\ pc[r] = "lock"
            /\ pc' = [pc EXCEPT ![r] = "waiting"]
        BY <2>19, <3>2 DEF LockTxn
      <4>2. ASSUME NEW m \in Node, NEW q \in Run, Guards(q, m)
            PROVE  Guards(q, m)'
        BY <4>1, <4>2
      <4>3. SafetyBelt'
        BY <4>1, <4>2
      <4>4. ASSUME NEW q \in Run, pc'[q] \in {"init", "health", "lock", "waiting"}
            PROVE  pause'[q] = pause[q]
                   /\ pc[q] \in {"init", "health", "lock", "waiting"}
        BY <4>1, <4>4
      <4> QED
        BY <4>3, <4>4
    <3> QED
      BY <3>1, <3>2
  <2>20. ASSUME NEW r \in Run, LockAcquired(r) \/ LockAcquiredLate(r)
         PROVE  BeltInv'
    <3>1. EnterPause(r) /\ pc[r] = "waiting"
      BY <2>20 DEF LockAcquired, LockAcquiredLate
    <3> QED
      BY <2>18, <3>1
  <2>21. ASSUME NEW r \in Run, MigrateExec(r), UNCHANGED <<mutexVars, clientVars>>
         PROVE  BeltInv'
    BY <2>21 DEF MigrateExec
  <2>22. ASSUME NEW r \in Run, MigrateFail(r), UNCHANGED <<mutexVars, clientVars>>
         PROVE  BeltInv'
    BY <2>22 DEF MigrateFail
  <2>23. ASSUME NEW r \in Run, UnmigrateExec(r), UNCHANGED <<mutexVars, clientVars>>
         PROVE  BeltInv'
    BY <2>23 DEF UnmigrateExec
  <2>24. ASSUME NEW r \in Run, UnmigrateFail(r), UNCHANGED <<mutexVars, clientVars>>
         PROVE  BeltInv'
    BY <2>24 DEF UnmigrateFail
  <2>25. ASSUME NEW r \in Run, NEW n \in Node, PauseStep(r, n),
                UNCHANGED <<mutexVars, clientVars>>
         PROVE  BeltInv'
    BY <2>25, PauseKeepsBelt
  <2>26. ASSUME NEW r \in Run, NEW n \in Node, ResumeExec(r, n),
                UNCHANGED <<mutexVars, clientVars>>
         PROVE  BeltInv'
    BY <2>26 DEF ResumeExec
  <2>27. ASSUME NEW r \in Run, NEW n \in Node, ResumeFail(r, n),
                UNCHANGED <<mutexVars, clientVars>>
         PROVE  BeltInv'
    BY <2>27 DEF ResumeFail
  <2>28. ASSUME NEW r \in Run, DeferCtxEnds(r) PROVE BeltInv'
    BY <2>28 DEF DeferCtxEnds
  <2>29. ASSUME NEW r \in Run, Crash(r) PROVE BeltInv'
    BY <2>29 DEF Crash
  <2>30. ASSUME NEW r \in Run, LeaseEnds(r) PROVE BeltInv'
    BY <2>30 DEF LeaseEnds
  <2>31. ASSUME NEW n \in Node, BouncerDrains(n),
                UNCHANGED <<mutexVars, clientVars>>
         PROVE  BeltInv'
    BY <2>31 DEF BouncerDrains
  <2>32. ASSUME NEW n \in Node, ServerRestart(n),
                UNCHANGED <<mutexVars, clientVars>>
         PROVE  BeltInv'
    BY <2>32, BeltAt DEF ServerRestart
  <2>33. ASSUME UNCHANGED vars PROVE BeltInv'
    BY <2>33 DEF vars
  <2> QED
    BY <2>1, <2>2, <2>3, <2>4, <2>5, <2>6, <2>7, <2>8, <2>9, <2>10, <2>11,
       <2>12, <2>13, <2>14, <2>15, <2>16, <2>17, <2>18, <2>19, <2>20, <2>21,
       <2>22, <2>23, <2>24, <2>25, <2>26, <2>27, <2>28, <2>29, <2>30, <2>31,
       <2>32, <2>33
    DEF Next, Client, Server, Bouncer, Handle, HandleCrm, PauseStep
<1>3. BeltInv => SafetyBelt
  OBVIOUS
<1> QED
  BY <1>1, <1>2, <1>3, TypeCorrect, PTL DEF Spec

\* Of every node that answered without an error the pause has succeeded, and a success is
\* not taken back.
LEMMA PausedFirst == Init /\ [][Next]_vars => []MigrateOnlyWhenPaused
<1> USE DEF MigrateInv, MigrateOnlyWhenPaused
<1>1. Init => MigrateInv
  BY DEF Init, ServerInit
<1>2. TypeOK /\ MigrateInv /\ [Next]_vars => MigrateInv'
  <2> SUFFICES ASSUME TypeOK, MigrateInv, [Next]_vars PROVE MigrateInv'
    OBVIOUS
  <2> USE DEF TypeOK, ServerTypeOK, At, Goto, EnterStep, Await, BeginUnmigrate,
              BeginResume, SetPause, SetResume, SetBouncer, Scheduled,
              bouncerVars, crmVars, serverVars, clientVars
  <2>1. ASSUME NEW r \in Run, Start(r) PROVE MigrateInv'
    BY <2>1 DEF Start
  <2>2. ASSUME NEW r \in Run, StartFails(r) PROVE MigrateInv'
    BY <2>2 DEF StartFails
  <2>3. ASSUME NEW r \in Run, HealthCheckFails(r) PROVE MigrateInv'
    BY <2>3 DEF HealthCheckFails
  <2>4. ASSUME NEW r \in Run, HealthChecked(r) PROVE MigrateInv'
    BY <2>4 DEF HealthChecked
  <2>5. ASSUME NEW r \in Run, LockTxnFails(r) PROVE MigrateInv'
    BY <2>5 DEF LockTxnFails
  <2>6. ASSUME NEW r \in Run, LockTimesOut(r) PROVE MigrateInv'
    BY <2>6 DEF LockTimesOut
  <2>7. ASSUME NEW r \in Run, PauseFails(r) PROVE MigrateInv'
    BY <2>7 DEF PauseFails
  <2>8. ASSUME NEW r \in Run, Paused(r) PROVE MigrateInv'
    BY <2>8 DEF Paused
  <2>9. ASSUME NEW r \in Run, Migrated(r) PROVE MigrateInv'
    BY <2>9 DEF Migrated
  <2>10. ASSUME NEW r \in Run, MigrateErrs(r) PROVE MigrateInv'
    BY <2>10 DEF MigrateErrs
  <2>11. ASSUME NEW r \in Run, WatchEnds(r) PROVE MigrateInv'
    BY <2>11 DEF WatchEnds
  <2>12. ASSUME NEW r \in Run, UnmigrateReturns(r) PROVE MigrateInv'
    <3>1. /\ pc'[r] = "resume" /\ UNCHANGED <<pause, step, err>>
          /\ \A q \in Run \ {r} : pc'[q] = pc[q] /\ todo'[q] = todo[q]
      BY <2>12 DEF UnmigrateReturns
    <3> QED
      BY <3>1
  <2>13. ASSUME NEW r \in Run, Resumed(r) PROVE MigrateInv'
    BY <2>13 DEF Resumed
  <2>14. ASSUME NEW r \in Run, ReleaseLock(r) PROVE MigrateInv'
    BY <2>14 DEF ReleaseLock
  <2>15. ASSUME NEW r \in Run, NEW n \in Node, HealthCheck(r, n)
         PROVE  MigrateInv'
    BY <2>15 DEF HealthCheck
  <2>16. ASSUME NEW r \in Run, NEW n \in Node, PauseReturns(r, n)
         PROVE  MigrateInv'
    BY <2>16 DEF PauseReturns, Erred
  <2>17. ASSUME NEW r \in Run, NEW n \in Node, ResumeReturns(r, n)
         PROVE  MigrateInv'
    BY <2>17 DEF ResumeReturns
  <2>18. ASSUME NEW r \in Run, LockTxn(r) PROVE MigrateInv'
    <3>1. CASE EnterPause(r)
      BY <3>1 DEF EnterPause
    <3>2. CASE ~EnterPause(r)
      BY <2>18, <3>2 DEF LockTxn
    <3> QED
      BY <3>1, <3>2
  <2>19. ASSUME NEW r \in Run, LockAcquired(r) PROVE MigrateInv'
    BY <2>19 DEF LockAcquired, EnterPause
  <2>20. ASSUME NEW r \in Run, LockAcquiredLate(r) PROVE MigrateInv'
    BY <2>20 DEF LockAcquiredLate, EnterPause
  <2>21. ASSUME NEW r \in Run, MigrateExec(r), UNCHANGED <<mutexVars, clientVars>>
         PROVE  MigrateInv'
    BY <2>21 DEF MigrateExec
  <2>22. ASSUME NEW r \in Run, MigrateFail(r), UNCHANGED <<mutexVars, clientVars>>
         PROVE  MigrateInv'
    BY <2>22 DEF MigrateFail
  <2>23. ASSUME NEW r \in Run, UnmigrateExec(r), UNCHANGED <<mutexVars, clientVars>>
         PROVE  MigrateInv'
    BY <2>23 DEF UnmigrateExec
  <2>24. ASSUME NEW r \in Run, UnmigrateFail(r), UNCHANGED <<mutexVars, clientVars>>
         PROVE  MigrateInv'
    BY <2>24 DEF UnmigrateFail
  <2>25. ASSUME NEW r \in Run, NEW n \in Node, PauseStep(r, n),
                UNCHANGED <<mutexVars, clientVars>>
         PROVE  MigrateInv'
    <3>1. \A q \in Run, m \in Node :
              pause[q][m] \in {"armed", "held", "expired"} =>
                  pause'[q][m] \in {"armed", "held", "expired"}
      BY <2>25, PauseSteps
    <3> QED
      BY <2>25, <3>1
  <2>26. ASSUME NEW r \in Run, NEW n \in Node, ResumeExec(r, n),
                UNCHANGED <<mutexVars, clientVars>>
         PROVE  MigrateInv'
    BY <2>26 DEF ResumeExec
  <2>27. ASSUME NEW r \in Run, NEW n \in Node, ResumeFail(r, n),
                UNCHANGED <<mutexVars, clientVars>>
         PROVE  MigrateInv'
    BY <2>27 DEF ResumeFail
  <2>28. ASSUME NEW r \in Run, DeferCtxEnds(r) PROVE MigrateInv'
    BY <2>28 DEF DeferCtxEnds
  <2>29. ASSUME NEW r \in Run, Crash(r) PROVE MigrateInv'
    BY <2>29 DEF Crash
  <2>30. ASSUME NEW r \in Run, LeaseEnds(r) PROVE MigrateInv'
    BY <2>30 DEF LeaseEnds
  <2>31. ASSUME NEW n \in Node, BouncerDrains(n),
                UNCHANGED <<mutexVars, clientVars>>
         PROVE  MigrateInv'
    BY <2>31 DEF BouncerDrains
  <2>32. ASSUME NEW n \in Node, ServerRestart(n),
                UNCHANGED <<mutexVars, clientVars>>
         PROVE  MigrateInv'
    BY <2>32 DEF ServerRestart
  <2>33. ASSUME UNCHANGED vars PROVE MigrateInv'
    BY <2>33 DEF vars
  <2> QED
    BY <2>1, <2>2, <2>3, <2>4, <2>5, <2>6, <2>7, <2>8, <2>9, <2>10, <2>11,
       <2>12, <2>13, <2>14, <2>15, <2>16, <2>17, <2>18, <2>19, <2>20, <2>21,
       <2>22, <2>23, <2>24, <2>25, <2>26, <2>27, <2>28, <2>29, <2>30, <2>31,
       <2>32, <2>33
    DEF Next, Client, Server, Bouncer, Handle, HandleCrm, PauseStep
<1>3. MigrateInv => MigrateOnlyWhenPaused
  OBVIOUS
<1> QED
  BY <1>1, <1>2, <1>3, TypesKept, PTL

\* Pause succeeded on every node before Migrate is called on one, whatever else
\* fails (Failover.Pause, EachClient).
THEOREM AllPaused == Spec => []MigrateOnlyWhenPaused
  BY PausedFirst, PTL DEF Spec
=============================================================================
