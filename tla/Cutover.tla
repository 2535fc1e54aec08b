-------------------------------- MODULE Cutover --------------------------------
(***************************************************************************)
(* Step 4 of a failover at close range: Server.Migrate looks the standby   *)
(* up and tells Pacemaker to promote it, and Failover.Migrate waits until  *)
(* NotifyWhenMaster sees its address in etcd, where the supervise          *)
(* processes write it (Supervise) and from where a stream (EtcdStream)     *)
(* brings it.  Meanwhile Pacemaker promotes and chooses standbys as it     *)
(* sees fit.                                                               *)
(***************************************************************************)
EXTENDS EtcdStream

CONSTANTS Node, None

ASSUME CutoverAssumption == None \notin Node

VARIABLES primary, past,    \* Pacemaker's primary, and the nodes that were primary
          sync,             \* the synchronous standby, if there is one
          value,            \* value[k]: the node whose address etcd has at revision k
          prefer,           \* the node of Pacemaker's location constraint
          call,             \* the Migrate request, at its server
          target,           \* the node that it looked up
          pc,               \* where the run is
          start,            \* revision of the key when the run began to wait for it
          reader,           \* the goroutine of NotifyWhenMaster
          told,             \* the revision that ended the wait
          panicked          \* the process died of a panic

crmVars == <<primary, past, sync, prefer>>
serverVars == <<call, target>>
runVars == <<pc, start, reader, told, panicked>>
vars == <<streamVars, value, crmVars, serverVars, runVars>>

NodeOrNone == Node \cup {None}

TypeOK ==
    /\ StreamTypeOK
    /\ primary \in Node /\ past \in SUBSET Node
    /\ sync \in NodeOrNone /\ prefer \in NodeOrNone /\ target \in NodeOrNone
    /\ value \in [Revision -> NodeOrNone]
    /\ call \in {"idle", "sent", "found", "done", "failed"}
    /\ pc \in {"paused", "migrate", "watch", "unmigrate", "resume", "release",
               "returned"}
    /\ start \in Revision /\ told \in Revision
    /\ reader \in {"none", "reading", "sending", "closed"}
    /\ panicked \in BOOLEAN

Init ==
    /\ StreamInit
    /\ primary \in Node /\ past = {primary}
    /\ sync \in NodeOrNone \ {primary}
    /\ value = [k \in Revision |-> None]
    /\ prefer = None /\ call = "idle" /\ target = None
    /\ pc = "paused" /\ start = 0 /\ reader = "none" /\ told = 0
    /\ panicked = FALSE

-----------------------------------------------------------------------------
(* Pacemaker and the supervise processes *)

\* The primary fails, or Pacemaker obeys the constraint.  A new primary has no
\* standby yet.
Promote(n) ==
    /\ rev < MaxRev /\ n # primary
    /\ primary' = n /\ past' = past \cup {n} /\ sync' = None
    /\ UNCHANGED <<streamVars, value, prefer, serverVars, runVars>>

\* Only a call that is still to look it up reads the standby.
SyncChanges(n) ==
    /\ call \in {"idle", "sent", "found"}
    /\ n \notin {primary, sync}
    /\ sync' = n
    /\ UNCHANGED <<streamVars, value, primary, past, prefer, serverVars, runVars>>

\* Mutant: Put without the comparison.
PutAlways(n) == Put /\ value' = [value EXCEPT ![rev + 1] = n]

\* Nothing is put, and the revision stays, if the key has the address already.
CompareAndUpdate(n) ==
    /\ n # value[rev]
    /\ Put /\ value' = [value EXCEPT ![rev + 1] = n]

\* The operation of a supervise process whose poll found n as primary, perhaps long
\* ago; that they write nothing else is what Supervise shows.  Not with the last
\* change that MaxRev allows, so that etcd can always catch up.
Write(n) ==
    /\ n \in past /\ CompareAndUpdate(n)
    /\ n = primary \/ rev + 1 < MaxRev
    /\ UNCHANGED <<crmVars, serverVars, runVars>>

-----------------------------------------------------------------------------
(* Server.Migrate *)

\* The CIB names a synchronous standby, and its address is resolved.
Lookup ==
    /\ call = "sent" /\ sync # None
    /\ target' = sync /\ call' = "found"
    /\ UNCHANGED <<streamVars, value, crmVars, runVars>>

\* Mutant: the standby is looked up once more.
MigrateToSync ==
    /\ call = "found" /\ sync # None
    /\ prefer' = sync /\ call' = "done"
    /\ UNCHANGED <<streamVars, value, primary, past, sync, target, runVars>>

\* `crm resource migrate msPostgresql` to the node that was found, whatever it is by
\* now.
MigrateExec ==
    /\ call = "found"
    /\ prefer' = target /\ call' = "done"
    /\ UNCHANGED <<streamVars, value, primary, past, sync, target, runVars>>

\* No quorum, standby or address; or crm fails, having written the constraint or not.
MigrateFail ==
    /\ call \in {"sent", "found"} /\ call' = "failed"
    /\ prefer' \in {prefer, IF call = "found" THEN target ELSE prefer}
    /\ UNCHANGED <<streamVars, value, primary, past, sync, target, runVars>>

-----------------------------------------------------------------------------
(* Failover.Migrate *)

Alive == pc # "returned" /\ ~panicked

At(l) == pc = l /\ ~panicked

Goto(l) == pc' = l /\ UNCHANGED panicked

Migrate ==
    /\ At("paused") /\ Goto("migrate")
    /\ call' = "sent"
    /\ UNCHANGED <<streamVars, value, crmVars, target, start, reader, told>>

\* The call fails, or is given up and goes on at the server.
MigrateErrs ==
    /\ At("migrate") /\ Goto("unmigrate")
    /\ UNCHANGED <<streamVars, value, crmVars, serverVars, start, reader, told>>

\* NotifyWhenMaster starts the stream and the goroutine that reads it.
Migrated ==
    /\ At("migrate") /\ call = "done" /\ Goto("watch")
    /\ start' = rev /\ reader' = "reading"
    /\ UNCHANGED <<streamVars, value, crmVars, serverVars, told>>

\* The goroutine's send is received.  It closes the channel and reads on.
Noticed ==
    /\ At("watch") /\ reader = "sending" /\ Goto("unmigrate")
    /\ reader' = "closed" /\ told' = last
    /\ UNCHANGED <<streamVars, value, crmVars, serverVars, start>>

\* PauseExpiry has passed; a goroutine that is about to send is left alone.
TimesOut ==
    /\ At("watch") /\ Goto("unmigrate")
    /\ UNCHANGED <<streamVars, value, crmVars, serverVars, start, reader, told>>

\* The deferred Unmigrate, which may fail.
Unmigrated ==
    /\ At("unmigrate") /\ Goto("resume")
    /\ prefer' \in {prefer, None}
    /\ UNCHANGED <<streamVars, value, primary, past, sync, serverVars, start, reader,
                   told>>

\* The deferred Resume and the release of the lock, at the end of which the process
\* ends.
Resumed ==
    /\ At("resume") /\ Goto("release")
    /\ UNCHANGED <<streamVars, value, crmVars, serverVars, start, reader, told>>

Released ==
    /\ At("release") /\ Goto("returned")
    /\ UNCHANGED <<streamVars, value, crmVars, serverVars, start, reader, told>>

-----------------------------------------------------------------------------
(* NotifyWhenMaster *)

\* The first kv with the address is to be sent; for any other the send on the closed
\* channel panics.
ReaderTakes ==
    /\ Alive /\ reader \in {"reading", "closed"}
    /\ Taken
    /\ LET matches == value[fkv] = target
       IN /\ reader' = IF matches /\ reader = "reading" THEN "sending" ELSE reader
          /\ panicked' = (matches /\ reader = "closed")
    /\ UNCHANGED <<value, crmVars, serverVars, pc, start, told>>

\* A step of the stream, or the signal that ends its context.
Streams(A) ==
    /\ Alive /\ reader # "none" /\ A
    /\ UNCHANGED <<value, crmVars, serverVars, runVars>>

-----------------------------------------------------------------------------
Server == Lookup \/ MigrateExec \/ MigrateFail

Run ==
    \/ Migrate \/ MigrateErrs \/ Migrated \/ Noticed \/ TimesOut
    \/ Unmigrated \/ Resumed \/ Released

Next ==
    \/ \E n \in Node : Promote(n) \/ Write(n)
    \/ \E n \in NodeOrNone : SyncChanges(n)
    \/ Server \/ Run \/ ReaderTakes
    \/ Streams(Stream) \/ Streams(Quit)

\* The goroutines run and a Get succeeds in the end; the supervise processes bring
\* etcd up to date.  Nothing makes the wait time out, or a watch start or deliver.
Fairness ==
    /\ WF_vars(Streams(PollGet \/ PollFails \/ PollAgain))
    /\ WF_vars(Streams(FilterTakesWatched \/ FilterTakesPolled))
    /\ SF_vars(Streams(PollGet))
    /\ WF_vars(ReaderTakes) /\ WF_vars(Noticed)
    /\ WF_vars(\E n \in Node : n = primary /\ Write(n))

Spec == Init /\ [][Next]_vars /\ Fairness

-----------------------------------------------------------------------------
(* Properties *)

\* "timed out waiting for %s to become master": the run waits for the node that
\* Pacemaker was told to promote, although the standby may change at any time.
WaitsForMigrated == pc = "watch" => prefer = target

\* NotifyWhenMaster "receives an empty struct when the given targetAddr is updated in
\* etcd": what ends the wait was in etcd when it began or came later, and is the
\* target.  (It may have been there all along, if the target was primary before.)
ObservedCurrent == told # 0 => told >= start /\ value[told] = target

\* The goroutine that reads on kills the process only if etcd has left the target and
\* come back to it: one kv is never noticed twice.
PanicOnlyOnReturn ==
    panicked => \E j, k \in Revision :
        told < j /\ j < k /\ k <= rev /\ value[j] # target /\ value[k] = target

\* Pipeline's "Defer first, ensuring we always attempt our defer steps": a run that
\* dies of its own panic has attempted Resume.
ResumeAttempted == panicked => pc \in {"resume", "release"}

\* Why these hold.  What the stream carries was in etcd when the wait began or came
\* later, and is newer than what the reader had last; without a reader it is idle.
StreamInv ==
    /\ start <= rev /\ last <= rev /\ seen <= rev
    /\ wkv # 0 => start <= wkv /\ wkv <= rev
    /\ pkv # 0 => start <= pkv /\ pkv <= rev
    /\ fkv # 0 => start <= fkv /\ fkv <= rev /\ last < fkv
    /\ watch = "on" => start <= seen
    /\ reader = "none" => watch = "dialing" /\ wkv = 0 /\ pkv = 0 /\ fkv = 0 /\ last = 0

\* A change is a change.
KeyInv == \A k \in 1 .. rev : value[k] # value[k - 1]

\* What was looked up is not looked up again, and once crm has run nothing writes the
\* constraint before the run removes it.
CallInv ==
    /\ pc = "paused" <=> call = "idle"
    /\ pc \in {"paused", "migrate"} => reader = "none"
    /\ pc = "migrate" /\ call = "done" => prefer = target
    /\ pc = "watch" => call = "done" /\ prefer = target
    /\ reader # "none" => call = "done"

ReaderInv ==
    /\ reader = "sending" => last # 0 /\ start <= last /\ value[last] = target
    /\ told # 0 <=> reader = "closed"
    /\ told # 0 => start <= told /\ told <= last /\ value[told] = target
    /\ panicked => reader = "closed"
    /\ PanicOnlyOnReturn

CutoverInv == StreamInv /\ KeyInv /\ CallInv /\ ReaderInv

\* Once the node is primary and stays so the wait ends, by the polls if the watch is
\* silent.
NoticedIfPromoted ==
    []<>~(pc = "watch" /\ primary = target /\ ~quit /\ watch # "ended")
=============================================================================
