---------------------------- MODULE FailoverServer ----------------------------
(***************************************************************************)
(* The failover API that every Postgres node serves (pkg/failover/server.go,*)
(* run by `pgcm supervise`), on top of the node's PgBouncer                *)
(* (pkg/pgbouncer): Pause, with the resume it schedules, and Resume.       *)
(*                                                                         *)
(* Every call runs in a goroutine of its own, so the calls of different    *)
(* runs, and the timers of earlier calls, interleave freely on a node.     *)
(* PgBouncer itself is outside the repository: its side of PAUSE, RESUME   *)
(* and cancel requests is what pkg/pgbouncer and its tests rely on.        *)
(***************************************************************************)
EXTENDS Deployment

VARIABLES bouncer,    \* state of the node's PgBouncer
          pause,      \* pause[r][n]: r's Pause request at n
          resume,     \* resume[r][n]: r's Resume request at n
          cancel,     \* cancel[n]: runs whose cancel request to n is on its way
          lost,       \* nodes where a RESUME that was due never reached PgBouncer
          prefer,     \* Pacemaker has the location constraint of a migration
          mig,        \* mig[r]: r's Migrate request, at whichever node
          unmig       \* unmig[r]: r's Unmigrate request

bouncerVars == <<bouncer, pause, resume, cancel, lost>>
crmVars == <<prefer, mig, unmig>>
serverVars == <<bouncerVars, crmVars>>

\* A Pause whose cancel request reached PgBouncer has "failed" first.
PauseStatus == {"idle", "sent", "draining", "armed", "held", "expired", "failed",
                "cancelled"}
CallStatus == {"idle", "sent", "done", "failed"}

ServerTypeOK ==
    /\ bouncer \in [Node -> {"active", "pausing", "paused"}]
    /\ pause \in [Run -> [Node -> PauseStatus]]
    /\ resume \in [Run -> [Node -> CallStatus]]
    /\ cancel \in [Node -> SUBSET Run]
    /\ lost \in SUBSET Node
    /\ prefer \in BOOLEAN
    /\ mig \in [Run -> CallStatus]
    /\ unmig \in [Run -> CallStatus]

ServerInit ==
    /\ bouncer = [n \in Node |-> "active"]
    /\ pause = [r \in Run |-> [n \in Node |-> "idle"]]
    /\ resume = [r \in Run |-> [n \in Node |-> "idle"]]
    /\ cancel = [n \in Node |-> {}]
    /\ lost = {}
    /\ prefer = FALSE
    /\ mig = [r \in Run |-> "idle"]
    /\ unmig = [r \in Run |-> "idle"]

SetPause(r, n, s) == pause' = [pause EXCEPT ![r][n] = s]
SetResume(r, n, s) == resume' = [resume EXCEPT ![r][n] = s]
SetBouncer(n, s) == bouncer' = [bouncer EXCEPT ![n] = s]

\* The handler or the timer of r's Pause, or its cancel request, will lift it.
Guards(r, n) == pause[r][n] \in {"draining", "armed"} \/ r \in cancel[n]

\* Mutant: the test of req.Expiry is inverted.
ScheduledUnlessExpires == IF Expires THEN "held" ELSE "armed"

\* What becomes of a Pause that succeeded: with an expiry, a goroutine that
\* sleeps until then and resumes is started.
Scheduled == IF Expires THEN "armed" ELSE "held"

-----------------------------------------------------------------------------
(* Server.Pause *)

\* PAUSE reaches PgBouncer.  It answers "already suspended/paused", which
\* counts as success, also while an earlier PAUSE still waits.
PauseExec(r, n) ==
    /\ pause[r][n] = "sent"
    /\ \/ /\ bouncer[n] = "active"
          /\ SetBouncer(n, "pausing")
          /\ SetPause(r, n, "draining")
       \/ /\ bouncer[n] # "active"
          /\ SetPause(r, n, Scheduled)
          /\ UNCHANGED bouncer
    /\ UNCHANGED <<resume, cancel, lost, crmVars>>

\* PgBouncer cannot be reached, answers another error, or the request never
\* gets to the node.
PauseFail(r, n) ==
    /\ pause[r][n] = "sent"
    /\ SetPause(r, n, "failed")
    /\ UNCHANGED <<bouncer, resume, cancel, lost, crmVars>>

\* The last running query ended.
BouncerDrains(n) ==
    /\ bouncer[n] = "pausing"
    /\ SetBouncer(n, "paused")
    /\ UNCHANGED <<pause, resume, cancel, lost, crmVars>>

\* Mutant: PAUSE is answered at once.
PauseSucceedsUndrained(r, n) ==
    /\ pause[r][n] = "draining"
    /\ SetPause(r, n, Scheduled)
    /\ UNCHANGED <<bouncer, resume, cancel, lost, crmVars>>

\* PAUSE is answered once PgBouncer is drained.
PauseSucceeds(r, n) ==
    /\ pause[r][n] = "draining" /\ bouncer[n] = "paused"
    /\ SetPause(r, n, Scheduled)
    /\ UNCHANGED <<bouncer, resume, cancel, lost, crmVars>>

\* Mutant: the deadline ends the call and PgBouncer is not told.
PauseTimeoutSilent(r, n) ==
    /\ pause[r][n] = "draining"
    /\ SetPause(r, n, "failed")
    /\ UNCHANGED <<bouncer, resume, cancel, lost, crmVars>>

\* Mutant: PAUSE is run without the deadline.
PauseUnbounded(r, n) == FALSE

\* The request's timeout or its caller ends timeoutCtx: pgx sends a cancel request
\* from a goroutine that nobody waits for, and gives up the answer, unless it has
\* just come ("late").
PauseTimeout(r, n) ==
    /\ \/ pause[r][n] = "draining"
       \/ pause[r][n] = "sent" /\ bouncer[n] # "active"
    /\ cancel' = [cancel EXCEPT ![n] = @ \cup {r}]
    /\ \/ SetPause(r, n, "failed")
       \/ /\ "late" \in Faults
          /\ pause[r][n] = "draining" => bouncer[n] = "paused"
          /\ SetPause(r, n, Scheduled)
    /\ UNCHANGED <<bouncer, resume, lost, crmVars>>

\* On a cancel request PgBouncer resumes, whoever has paused it by then.  The
\* errors of the request, which has a connection of its own, are dropped
\* ("nocancel").
CancelArrives(r, n) ==
    /\ r \in cancel[n]
    /\ cancel' = [cancel EXCEPT ![n] = @ \ {r}]
    /\ \/ /\ SetBouncer(n, "active")
          /\ SetPause(r, n, IF pause[r][n] = "failed" THEN "cancelled" ELSE pause[r][n])
          /\ UNCHANGED lost
       \/ /\ "nocancel" \in Faults
          /\ lost' = lost \cup {n}
          /\ UNCHANGED <<bouncer, pause>>
    /\ UNCHANGED <<resume, crmVars>>

\* The scheduled resume: one RESUME, with no regard to who paused since, and
\* not tried again: its error is only logged ("drop").
TimerFires(r, n) ==
    /\ pause[r][n] = "armed"
    /\ SetPause(r, n, "expired")
    /\ \/ SetBouncer(n, "active") /\ UNCHANGED lost
       \/ "drop" \in Faults /\ lost' = lost \cup {n} /\ UNCHANGED bouncer
    /\ UNCHANGED <<resume, cancel, crmVars>>

-----------------------------------------------------------------------------
(* Server.Resume *)

\* RESUME lifts any pause; "pooler is not paused/suspended" counts as success.
ResumeExec(r, n) ==
    /\ resume[r][n] = "sent"
    /\ SetBouncer(n, "active")
    /\ SetResume(r, n, "done")
    /\ UNCHANGED <<pause, cancel, lost, crmVars>>

ResumeFail(r, n) ==
    /\ resume[r][n] = "sent"
    /\ SetResume(r, n, "failed")
    /\ UNCHANGED <<bouncer, pause, cancel, lost, crmVars>>

-----------------------------------------------------------------------------
(* Server.Migrate, Server.Unmigrate *)

\* The sync node is found in the CIB, its address resolved, and
\* `crm resource migrate` writes the constraint.
MigrateExec(r) ==
    /\ mig[r] = "sent"
    /\ prefer' = TRUE
    /\ mig' = [mig EXCEPT ![r] = "done"]
    /\ UNCHANGED <<bouncerVars, unmig>>

\* No quorum, no sync node, no address, or crm failed: a crm that was killed
\* at the deadline may have written the constraint.
MigrateFail(r) ==
    /\ mig[r] = "sent"
    /\ prefer' \in {prefer, TRUE}
    /\ mig' = [mig EXCEPT ![r] = "failed"]
    /\ UNCHANGED <<bouncerVars, unmig>>

\* `crm resource unmigrate` removes the constraint, whoever wrote it.
UnmigrateExec(r) ==
    /\ unmig[r] = "sent"
    /\ prefer' = FALSE
    /\ unmig' = [unmig EXCEPT ![r] = "done"]
    /\ UNCHANGED <<bouncerVars, mig>>

UnmigrateFail(r) ==
    /\ unmig[r] = "sent"
    /\ prefer' \in {prefer, FALSE}
    /\ unmig' = [unmig EXCEPT ![r] = "failed"]
    /\ UNCHANGED <<bouncerVars, mig>>

-----------------------------------------------------------------------------
\* The supervise process dies and comes back: requests fail, scheduled
\* resumes are gone, and PgBouncer drops or completes a PAUSE whose
\* connection broke.
ServerRestart(n) ==
    /\ "restart" \in Faults
    /\ \E r \in Run : Guards(r, n) \/ "sent" \in {pause[r][n], resume[r][n]}
    /\ pause' = [r \in Run |-> [pause[r] EXCEPT ![n] =
            IF @ = "armed" THEN "expired"
            ELSE IF @ \in {"sent", "draining"} THEN "failed" ELSE @]]
    /\ resume' = [r \in Run |-> [resume[r] EXCEPT ![n] =
            IF @ = "sent" THEN "failed" ELSE @]]
    /\ cancel' = [cancel EXCEPT ![n] = {}]
    /\ \/ UNCHANGED bouncer
       \/ /\ \E r \in Run : pause[r][n] = "draining" \/ r \in cancel[n]
          /\ SetBouncer(n, "active")
    /\ lost' = IF \E r \in Run : Guards(r, n) THEN lost \cup {n} ELSE lost
    /\ UNCHANGED crmVars

Handle(r, n) ==
    \/ PauseExec(r, n) \/ PauseFail(r, n)
    \/ PauseSucceeds(r, n) \/ PauseTimeout(r, n)
    \/ ResumeExec(r, n) \/ ResumeFail(r, n)

HandleCrm(r) ==
    \/ MigrateExec(r) \/ MigrateFail(r)
    \/ UnmigrateExec(r) \/ UnmigrateFail(r)
=============================================================================
