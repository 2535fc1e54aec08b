# pgsql-cluster-manager in TLA+

pgsql-cluster-manager (`pgcm`) keeps the clients of a Postgres cluster, which
Pacemaker manages, on the right primary, and moves the primary with as little
disturbance as it can. This directory holds TLA+ models of its core, the TLC
configurations that check them, and proofs for TLAPS.

    tlc -config Exclusion.cfg MCFailover.tla     # the .cfg files: see "Runs"
    tlapm FailoverProofs.tla                     # or any other *Proofs.tla

## 1. The system

Paths are relative to the repository.

| part | state it keeps | operations | talks to |
|---|---|---|---|
| failover client: `pkg/failover/failover.go`, `pkg/cmd/failover.go` | place in the pipeline, answers outstanding, `deferCtx`, an etcd session | health check, lock, pause, migrate, and the deferred unmigrate, resume, release | lock in etcd; the API of every node (gRPC); the etcd key of the primary |
| failover lock: `clientv3/concurrency` (vendored), used by `AcquireLock`/`ReleaseLock` | one key per contender, bound to a lease | `Lock`, `Unlock`, lease expiry | etcd |
| failover API: `pkg/failover/server.go`, run by `pgcm supervise` on every node | goroutines of running calls, timers of scheduled resumes | `Pause`, `Resume`, `Migrate`, `Unmigrate`, `HealthCheck` | PgBouncer of the node; `crm`, `cibadmin` |
| pipeline: `pkg/failover/pipeline.go` | deferred actions registered so far | run steps, unwind | - |
| PgBouncer access: `pkg/pgbouncer`, pgx (vendored) | none | `PAUSE`, `RESUME`, `RELOAD`, cancel requests, config file | PgBouncer |
| Pacemaker access: `pkg/pacemaker` | none | find nodes, `migrate`, `unmigrate`, polling stream | Pacemaker |
| proxy: `pkg/cmd/proxy.go` | the kv being applied | follow the key of the primary: write the config file, reload PgBouncer | etcd, PgBouncer |
| streams: `pkg/etcd/stream.go`, `pkg/streams` | last revisions or values seen, kvs in flight between goroutines | watch and poll, filter, fold with retries | etcd |
| supervise: `pkg/cmd/supervise.go`, `pkg/etcd/updater.go` | last value written | poll Pacemaker, resolve the primary's address, compare-and-put it in etcd | Pacemaker, etcd |
| acceptance test: `pkg/acceptance`, `cmd/pgcm-acceptance` | place in the script, an open transaction, results of the failovers it ran | boot a cluster, query through PgBouncer, run `pgcm failover` twice, a verdict | all of the above |
| command line, config, playground image | no protocol state | | |

A failover: the client takes the lock, asks every node to pause its PgBouncer
(each server schedules a resume of its own, in case the client never comes
back), asks one node to move the primary, waits until the supervisors have put
the new primary into etcd, then undoes the constraint, resumes every PgBouncer
and releases the lock. Meanwhile the proxies see the new value in etcd and point
their PgBouncers at it.

### What is hard about it

* Several clients, the servers' handlers, their timers and PgBouncer interleave.
  A handler works on when its client has given up, a timer fires when its
  failover is long over, and a cancel request arrives when it likes.
* The client may die anywhere; then only the timers and the lease undo its work.
* A server may restart and lose its timers; a RESUME or a cancel request may fail.
* Timeouts race with the answer they wait for (the lock, PAUSE).
* The pause of some nodes may succeed while that of others fails.
* A supervisor may write the old primary over the new one, and the filters of the
  others keep them from writing again. In the proxy a poll may be overtaken by the
  watch, a reload may come late, the file may be torn, and either half of the stream
  may end alone.
* Pacemaker chooses standbys and primaries as it sees fit while a server looks one up,
  and etcd lags: the run must wait for the node that was told to take over, and be
  told by what etcd says of it, once.

### What makes it correct

* One failover at a time. The primary is moved only after every PgBouncer was paused,
  and its queries had ended; what may have lifted the pause since is its own expiry (or
  something left on its way to PgBouncer, see "Findings").
* Whatever was asked for is asked to be undone, last first, also after an error;
  the constraint does not outlive the migration; no pause outlives its owner.
* Traffic flows again in the end, whatever becomes of the client; every run ends;
  the lock comes free.
* The supervisors leave the last primary in etcd, whoever overtakes whom; a proxy
  never goes back to an earlier primary, and ends up at the last one.

PROJECT.json lists every component, with what is left out, and every hazard, at
its line, with the properties that are about it.

## 2. Modules

| module | what it is |
|---|---|
| `Deployment` | the constants the parts of the failover share: `Run`, `Node`, `Expires`, `Faults` |
| `EtcdMutex` | the lock: keys, leases, who is ahead of whom (`mutex.go`, `key.go`, `session.go`) |
| `FailoverServer` | the API of the nodes and their PgBouncers (`server.go`, `pgbouncer.go`, `pacemaker.go`) |
| `Failover` | the clients, composed with the two above; all failover properties and the inductive invariants |
| `Pipeline` | the contract of `pipeline.go`, the abstract specification that each run of `Failover` implements |
| `MCFailover` | symmetry, for TLC |
| `EtcdStream` | one etcd key as a channel: watch, polls, `RevisionFilter` |
| `Proxy` | `RetryFold`, the config file, RELOAD and restarts over `EtcdStream` |
| `Supervise` | the processes that write the primary to etcd: polls of Pacemaker, `DedupeFilter`, `RetryFold`, `CompareAndUpdate`, and the `run.Group` with the API |
| `PrimaryKey` | what the supervise processes together promise of the etcd key: the abstract specification that `Supervise` implements |
| `Cutover` | step 4 at close range: `Server.Migrate` looking up the standby, `NotifyWhenMaster` over `EtcdStream`, Pacemaker changing its mind |
| `Acceptance` | the acceptance test over `Failover`, with Pacemaker, supervise and proxy as the script sees them |
| `FailoverProofs`, `InterferenceProofs`, `RefinementProofs`, `PipelineProofs`, `ProxyProofs`, `SuperviseProofs`, `CutoverProofs`, `AcceptanceProofs` | theorems |

They are composed in four ways. `Failover` extends the lock and the servers.
`Proxy` and `Cutover` extend the stream, whose `Put` is the write of a supervise
process: in `Cutover` with the value, in `Proxy` with the revision alone. `Supervise`
implements `PrimaryKey`: etcd has only nodes that are or were primary. `Cutover` builds
on that: what it lets a supervise process write, by the same `CompareAndUpdate`, is any
such node, in any order. `Acceptance` extends
`Failover` and adds what follows Pacemaker. What the API of `supervise` does is in
`FailoverServer`.

### Failover: state and actions

| variable | in the code |
|---|---|
| `keys`, `ahead`, `lease` | the contenders' keys under the lock's prefix; for each, the keys with a smaller creation revision, those that `waitDeletes` waits for; the sessions' leases |
| `bouncer[n]` | PgBouncer of n: active, pausing (waits for queries), paused |
| `pause[r][n]` | r's Pause at n: `sent`, `draining` (PAUSE waits), `armed` (succeeded, the timer sleeps), `held` (succeeded, no expiry), `expired` (the timer fired), `failed`, `cancelled` (failed, and its cancel request came) |
| `cancel[n]` | cancel requests that pgx has started and that have not reached PgBouncer |
| `lost` | nodes where a RESUME or cancel that was due never reached PgBouncer: history, read only by properties |
| `prefer`, `mig[r]`, `unmig[r]` | the location constraint in Pacemaker; the Migrate and Unmigrate calls |
| `pc[r]`, `step[r]` | where the run is; the pipeline step it entered last |
| `todo[r]`, `err` | the answers `EachClient` waits for; whether `result` is an error |
| `ctxDone`, `crashed` | the runs whose `deferCtx` is done; whose process died |

An action of `Failover` is a step of the client between two points at which it
waits: `LockTxn`, `LockAcquired`, `LockTimesOut` are the ways `Mutex.Lock` goes
on; `PauseReturns`, `ResumeReturns` are single answers in `EachClient`;
`PauseFails`, `Paused`, `MigrateErrs`, `WatchEnds`, `UnmigrateReturns`,
`Resumed`, `ReleaseLock` are the ends of the steps and deferred actions, each
with the call that follows at once. An action of `FailoverServer` is the effect
of a call at a server or a PgBouncer, a timer, a cancel request or a restart.
A call that the client gives up (`giveup`) goes on at the server.

`Faults` says what may go wrong beyond an error answer, so that a run can show
which property needs which assumption. Errors of calls are always possible.

### Proxy: state and actions

A kv is the revision of the key. `watch`/`seen`/`wkv` and `poll`/`pkv` are the two
goroutines of `NewStream` with the kv each is blocked on, `fkv`/`last` is the
filter's, `fold`/`kv` is `RetryFold` with the operation (`generate`, `reload`,
`sent`), `file` and `loaded` are the revisions of the host in the config file
(0: none, or torn) and in PgBouncer. `Restart` is a process that dies anywhere, or
has ended, and is started again.

### Supervise: state and actions

`sup[s]` is the process on node s: `polling` and `offered` are the goroutine of
`NewStream` and the kv it is blocked on, `passed` and `seen` the filter's kv and
`lastValues`, `fold` and `kv` those of `RetryFold` with its operation (`resolve` an
address, `commit` the transaction), `serving` the API, `quit` the context of the
command. `primary` is Pacemaker's, `master` etcd's. A kv is a node, not a revision,
because `DedupeFilter` and `CompareAndUpdate` compare values: a primary that moves
away and back is the same value again.

### Cutover: state and actions

| variable | in the code |
|---|---|
| `primary`, `sync`, `prefer` | Pacemaker: the primary, the synchronous standby (or none), the node of the location constraint |
| `past` | the nodes that were primary, which a supervise process may have polled and still write |
| `value[k]` | the node whose address the key has at revision k; `rev` and the stream's variables are those of `EtcdStream` |
| `call`, `target` | the Migrate request at its server (`found`: the standby is looked up, crm has not run), and the node it found |
| `pc`, `start`, `told` | the run from the end of its pause step on; the revision when it began to wait; the revision that ended the wait |
| `reader` | the goroutine of `NotifyWhenMaster`: reading, blocked in its send, or reading on with its channel `closed` |
| `panicked` | the process died of a send on that channel |

`Lookup`, `MigrateExec` and `MigrateFail` are `Server.Migrate`; between the first two
Pacemaker may promote and change standbys. `Migrated`, `Noticed` and `TimesOut` are
`Failover.Migrate`, `ReaderTakes` is one turn of the goroutine's loop, and
`Unmigrated`, `Resumed` and `Released` are the deferred actions, during which the
goroutine reads on. The stream goes on until the process ends.

### Acceptance: state and actions

`at` is the place of `RunAcceptance`, `unseen` the members it has still to reach
through PgBouncer, `open` its transaction on the PgBouncer of the async member;
`primary`, `etcd` and `host[n]` are what Pacemaker reports, what supervise wrote, and
where the PgBouncer of n connects. `Failover(r)` is a step of one of the two `pgcm
failover` that the script runs, `Ran0` and `RanErr` what `CombinedOutput` answers
once it has ended, `noticed` whether its `NotifyWhenMaster` saw the new master. The
steps of the script carry its log lines as comments. An open transaction keeps
`BouncerDrains` from happening on its node, and nothing else.

### Abstractions

* Time is abstract: a timeout may end whenever its call is waiting, and a timer
  may fire whenever it is armed. `Expires` is whether `PauseRequest.Expiry` is
  positive: below one second `pause-expiry` becomes 0 and nothing is scheduled.
* In `Failover` the watch of `NotifyWhenMaster` ends with the new primary or with
  `PauseExpiry`, in either case nondeterministically; both lead to the same next step.
  `Cutover` has the stream and the goroutine behind it.
* An etcd transaction that errs was applied or not; it is not applied later.
* A revision of the lock is reduced to who is ahead of whom.
* In `Failover` Pacemaker's constraint is a Boolean: `crm resource migrate` sets it,
  `unmigrate` removes whichever there is. In `Cutover` it is a node, and Pacemaker may
  promote any node whether there is a constraint or not. In `Acceptance` the cluster is
  healthy: Pacemaker moves the primary to the sync standby, when it is told to and
  not before, and the supervise processes write each primary once it is reported.
* `Cutover` has one run: what two runs do to each other is `Failover`'s subject. Its
  Resume and release are one step each.
* In `Acceptance` the script queries through the PgBouncers of other members only
  at the start, so that their `host` changes only until then. Booting the containers
  is the initial state, and the verdict the end, as it removes them.
* `Migrate` is sent to one endpoint of a map in random order; as nothing about
  that node matters, `mig[r]` has no node.
* PgBouncer is external. What is assumed of it: PAUSE waits for running queries;
  during that time, and later, another PAUSE answers "already suspended/paused"
  (which `pgbouncer.go:161` counts as success); RESUME and a cancel request for a
  PAUSE make it active, whoever paused it; a RELOAD that cannot read its file
  changes nothing.
* pgx sends a cancel request also for a RESUME whose context ends. `ResumeFail` has none:
  it fails and PgBouncer goes on. A context that ends early is the fault `giveup` or `slow`, under
  which the RESUME itself may also come late (`ResumeExec`), which makes the bouncer
  active as a cancel request would.
* When the supervise process dies with a PAUSE still waiting, PgBouncer either
  drops that PAUSE or goes on.
* The goroutines of `EachClient` write `result` without synchronisation. Only
  non-nil errors are written after the initial nil, so that every outcome of the race
  is an error, and `err` keeps exactly that.
* The proxy follows one key (`proxy.go:32-34`), which nothing in the repository
  deletes. A Get returns the current value: etcd reads are linearizable.
* Pacemaker always has a primary in `Supervise`. While it has none, or no quorum, a
  poll yields nothing, as one that times out; a local CIB that lags answers as a
  poll of then would have.

## 3. Runs

| run | instance and faults | properties |
|---|---|---|
| `Exclusion` | 2 runs, 1 node; slow, late, lapse | `KeyExclusion`, `LockMovesOn` |
| `PartialFailure` | 1 run, 3 nodes; crash, giveup, restart, drop, nocancel | `MigrateOnlyWhenPaused`, `CleanupSent`, `SafetyBelt`, refinement `RunsPipeline` |
| `Interference` | 2 runs, 2 nodes; drop | `PauseHeldUnlessStale`, `DrainedUnlessLeft`, `PausedHasOwner`, `ConstraintHeld`, `ConstraintHasOwner` |
| `Traffic` | 2 runs, 1 node; crash | `MutualExclusion`, liveness `TrafficResumes`, `LockFreed`, `EveryRunEnds` |
| `Pipeline` | 16 steps, two with nothing deferred | `CleanupInReverse`, `DeferredRan`, liveness `Terminates` |
| `Proxy` | 3 changes of the key, 2 starts | `Applied`, `FoldedInOrder`, `NeverBack`, liveness `Converges`, `ShutsDown` |
| `Supervise` | 2 supervisors, 2 nodes, 2 moves, 1 disturbance | `Settled`, refinement `KeyKept`, liveness `Converges`, `ShutsDown` |
| `Cutover` | 2 nodes, 4 changes of the key | `WaitsForMigrated`, `ObservedCurrent`, `PanicOnlyOnReturn`, liveness `NoticedIfPromoted` |
| `Acceptance` | 3 members, one of them a failover endpoint, 2 runs; slow, late | `TransactionKept`, `PassedIsFailover`, liveness `ConnectionServed` |
| `SlowRun`, `SecondNotice`, `NilKv` | smallest that shows it | violations, see "Findings" |

`TypeOK` is checked in `Exclusion`, `Pipeline`, `Proxy`, `Supervise` and `Cutover`,
`ScenarioTypeOK` in `Acceptance`.

What they show:

* `Exclusion`: runs lose their key to a lease that lapses, or give it away when their lock
  timeout ends as they are served, and go on; others return without releasing it, as
  their `deferCtx` is done. Of those that have kept their key one at most is between
  acquiring and releasing the lock, and those who wait for it do not all wait for each
  other, those without a key among them.
* `PartialFailure`: the step fails when any of the nodes does, in every order of
  answers; a run that returns has sent Unmigrate and Resume if it sent Migrate
  and Pause; a PgBouncer that holds traffic back always has a handler, a timer or a
  cancel request about to let it go, or else the node is on record as having lost
  one; and each run is a `Pipeline`.
* `Interference`: with no lock failure, what a run leaves behind meets the next
  run. While a run migrates, its pause is lifted only by a timer or cancel request
  of another run, and queries run at a bouncer it takes for paused only if another
  run's cancel request is on its way there (that both do happen is under
  "Findings"); a PgBouncer never stays paused for a run that was told it had resumed;
  no Unmigrate takes away the constraint of another run; the constraint goes with its
  runs.
* `Traffic`: no two live runs are between acquiring and releasing the lock, although those
  that die leave their key behind; for the liveness properties see "Fairness".
* `Proxy`: the filter makes one ordered sequence, without duplicates, of watch and
  polls; PgBouncer never goes back to an earlier primary, though polls are
  overtaken, RELOADs come late, files are torn and the process restarts; a proxy
  that keeps running ends up with the last host even if its watch is silent; and
  when either half of the stream ends the process does.
* `Supervise`: an earlier primary may be in etcd for a while, but not once every
  supervisor has seen the new one and is idle; those that keep running get there;
  a process that is told to stop does, through its `run.Group` or by a panic. Every
  write is one that `PrimaryKey` allows.
* `Cutover`: the run waits for the node that crm was given, although the standby may be
  another one by then (crm is told to promote it all the same); it is not told by what the key had before it began to wait, or
  by a kv that the filter should have dropped; the second send that panics takes a
  key that left the target and came back, as `CompareAndUpdate` never puts what is there;
  and if the target becomes and stays primary
  the wait ends, by the polls if the watch is silent.
* `Acceptance`: the test does what its log lines say. While its transaction is open
  neither run gets as far as Migrate; it passes only if the second failover, and
  not something else, moved the primary, and the proxies followed; and its connection
  is not held back for ever by the PAUSE of either run, even if `deferCtx` ends
  first ("slow") or a pause timeout comes as PgBouncer answers ("late").

### Bounds

* Two runs meet in every way two can; a third only matters to a lock that gives
  itself away (see "late" in "Findings"). Nodes share nothing except through the
  client's `todo` and `err`, so that one failing, one succeeding and one late
  (three nodes) are all the cases of `EachClient`. Each `Run` does one failover;
  any number of them is a matter of the proofs.
* Three changes of the key: one the poll has, one the watch brings, and one more
  while the second is applied. Two starts: one process, and one that finds what the
  first left. `MaxRev` and `MaxStarts` bound `Put` and `Restart`, nothing else.
* `Pipeline`: twice the deferred actions of any caller, and more; the proofs have
  no bound.
* `Supervise`: one supervisor overtakes the other; two moves are away and back. One
  disturbance (a crash, a signal, an API that fails) at any time, after which the
  process may start again. `MaxMoves` and `MaxFaults` bound nothing else. The
  invariants were also checked with two disturbances (420 thousand states).
* `Cutover`: away from the target and back to it takes three changes after the first
  value. The last change that `MaxRev` allows is the primary's, so that a bound does
  not keep etcd from catching up. A third node (checked once, with three changes, 7
  million states) adds a target that is neither the old nor the last primary. `MaxRev`
  is 3 in `SecondNotice`.
* `Acceptance`: the script reads the PgBouncer of the async member, which is the one
  endpoint of the failovers; with the master a second one (checked once, safety, no
  faults) only the order of answers is new, which `PartialFailure` has. Runs that crash
  (`RanErr`: the command exits with another status than 0) were checked once, the safety
  properties with "slow" and "late" (12 million states), `ConnectionServed` with "late";
  so was "giveup".
* A process that dies is one that takes no more steps, which every safety run allows;
  the fault "crash" adds that its lease ends. `PartialFailure` and `Traffic` have it.
* `Expires` is TRUE in every run; the theorems that do not name it are for either value.
* `Exclusion` was checked once with "drop" and "nocancel" as well (10 million states), and
  with "crash" in place of "slow"; `SafetyBelt` held in both for two runs at one
  bouncer, which in `PartialFailure` has one. `MutualExclusion` was checked once with "slow", and "crash" or "drop" and
  "nocancel". `ExclusiveWhileKept`, `LockNeverStuck`, `Exclusive` and `Belted` are proved with
  all of these.
* Symmetry (runs, nodes) is used for safety only.
* `CHECK_DEADLOCK FALSE` everywhere: runs return, pipelines end, processes stop.

### Fairness

`Failover`: weak fairness of each client's steps (every call it makes carries a
timeout, and the wait of `NotifyWhenMaster` ends by `PauseExpiry`), of each run's
handlers, timers and cancel requests (goroutines of a running server), and of
the lease of a process that is gone (etcd drops a lease that is not kept alive).
None of: queries ending (`BouncerDrains`), restarts, or any fault. A PAUSE whose
queries never end is therefore cut short by its timeout or not at all, which is
what `EveryRunEnds` is about. As `TrafficResumes` and `EveryRunEnds` are checked with
"crash", they do not count on the clients.

`Proxy`: the goroutines run; a Get, a write and a RELOAD that are tried again
and again succeed in the end (strong fairness: PgBouncer and etcd are not
broken for good); `select` picks every ready case at some time (Go picks at
random). None of: a watch starting or delivering (`stream.go:57-59` says that
its failures are hidden), changes in etcd, signals, restarts.

`Supervise`: the goroutines run; resolving and writing, tried again and again,
succeed in the end; `RetryFold` receives from a channel that is ready before the
retry interval has passed. None of: moves, disturbances, starts. `Converges` is
therefore about supervisors that all keep running.

`Cutover`: the stream's goroutines and the reader run, a Get that is tried again and
again succeeds in the end, and a supervise process writes the primary when etcd has
another node (what `Supervise!Converges` shows). None of: Pacemaker promoting
anything, a watch starting or delivering, the wait timing out.

`Acceptance`: the handlers, timers and cancel requests of the servers, supervise, the
proxy of the async member, and the script's own query, which `Eventually` repeats. None
of: the runs, so that `ConnectionServed` does not count on their clean-up; their
timeouts; the script giving up.

## 4. Proofs

For every set of runs and nodes, every combination of faults, and every value of
the other constants. All that is assumed of the constants are the named `ASSUME`s
of the modules.

| theorem | states | rests on |
|---|---|---|
| `FailoverProofs!TypeCorrect` | `TypeOK` | `EnterPauseTypes`, `BeginResumeTypes`, `PauseSteps` |
| `FailoverProofs!Exclusive` | `MutualExclusion`, if neither `lapse` nor `late` is among the faults | `QueueInv`, `KeyInv` |
| `FailoverProofs!ExclusiveWhileKept` | `KeyExclusion`: the same of runs that have their key in etcd, under all faults | `QueueInv` |
| `FailoverProofs!LockNeverStuck` | `LockMovesOn`, under all faults | `QueueInv`, `KeysFinite`, `Oldest` |
| `FailoverProofs!Served` | `NotOvertaken`: the lock is served in the order of the keys, without `lapse` | `QueueInv`, `WaitInv` |
| `FailoverProofs!Belted` | `SafetyBelt`, if pauses expire | `BeltInv`, `PauseKeepsBelt` |
| `FailoverProofs!AllPaused` | `MigrateOnlyWhenPaused`, under all faults | `MigrateInv` |
| `InterferenceProofs!CleanedInTime` | `CleanupSentInTime`: `CleanupSent` of each run whose `deferCtx` has not ended, under all faults | `CleanupInv` |
| `InterferenceProofs!Cleaned` | `CleanupSent`, if `slow` is not among the faults | `CleanedInTime` |
| `InterferenceProofs!Owned` | `ConstraintHasOwner`, without `giveup` | `SentInv` |
| `InterferenceProofs!PausesOwned` | `PausedHasOwner`, without `giveup`, `nocancel`, `restart` | `SentInv`, `HolderInv` |
| `InterferenceProofs!ConstraintKept`, `OnlyStaleLifts` | `ConstraintHeld`, `PauseHeldUnlessStale`, without the faults `Outliving`: crash, giveup, slow, late, lapse | `Exclusive`, `SentInv`, `RivalInv`, `CancelInv`, `LiftInv` |
| `InterferenceProofs!Drained` | `DrainedUnlessLeft`, without the faults `Abandoning`: crash, giveup, late, lapse, nocancel, restart | `Exclusive`, `SentInv`, `DrainInv`, `CancelInv` |
| `RefinementProofs!Implements` | `RunsPipeline`, under all faults | `StepInv`, `OnlyMoves` |
| `RefinementProofs!NoStepBack` | `RunsOnward`: every step of a run takes it further, or leaves fewer answers to wait for, under all faults | `StepInv`, `OnlyMoves`, `ClientMoves` |
| `RefinementProofs!NeverWaitsInVain` | `WaitsForCalls`: whoever waits for an answer has sent its call, under all faults | `PauseAsked` |
| `PipelineProofs!TypeCorrect`, `Reverse`, `Complete` | `TypeOK`, `CleanupInReverse`, `DeferredRan` | an invariant of the steps registered |
| `ProxyProofs!TypeCorrect` | `TypeOK` | |
| `ProxyProofs!NeverGoesBack`, `AppliedAlways`, `InOrder` | `NeverBack`, `Applied`, `FoldedInOrder` | `FreshInv` |
| `SuperviseProofs!TypeCorrect`, `Settles`, `KeepsKey` | `TypeOK`, `Settled`, `KeyKept` | `WriteInv`, `KeptInv`, `WrittenInv` |
| `CutoverProofs!TypeCorrect`, `Waits`, `Current`, `OnReturn` | `TypeOK`, `WaitsForMigrated`, `ObservedCurrent`, `PanicOnlyOnReturn` | `CutoverInv` |
| `AcceptanceProofs!ScenarioTypes`, `Kept`, `PassedRight` | `ScenarioTypeOK`, `TransactionKept`, `PassedIsFailover`, under all faults | `TypesKept`, `PausedFirst`, `OpenInv`, `PassedInv` |

* `QueueInv`, `WaitInv`, `KeyInv`. That nobody is ahead of the owner is not
  inductive: a rival might have neither key ahead of the other. `QueueInv` adds that
  of any two keys one is behind the other, that the order is transitive among the
  keys that exist, and that no key is behind one that is still to be written. It holds
  under every fault, and so do its consequences: of runs that have kept their keys
  one at most is at work (`ExclusiveWhileKept`), and of those who wait and those they
  wait for one has nobody ahead (`LockNeverStuck`). The latter needs that the keys are
  finitely many, each run putting one (`KeysFinite`), so that the sets of those ahead
  have a minimal one (`Oldest`, by `WFMin` of the library). What the faults take away is
  the key: a run that waits has its own as long as no lease lapses (`WaitInv`), a
  run at work as long as no lock timeout comes late either (`KeyInv`). The two
  premises of `Exclusive` are these and cannot be dropped.
* `BeltInv`. Sending a Pause overwrites the record of the run's request; it is
  added that a run before its pause step has asked for nothing, so that no timer
  is forgotten. `BeltAt` reduces the rest to the node at which something happens,
  and `GuardedAt` shows that each step of a Pause hands the node on: handler
  to timer, handler to cancel request, timer to RESUME.
* `MigrateInv`. The nodes that have answered without an error have succeeded, and
  a success is never taken back (`PauseSteps`).
* `CleanupInv`. Beyond `CleanupSentInTime`: nothing is asked for before its step, and
  from the first deferred action on what undoes it has been sent. It is said of each run
  with a `deferCtx` that is alive, whatever becomes of the others.
* `SentInv`. A caller that waits for its answers has a Pause or Migrate at a server
  only during that step, and has sent nothing that undoes it. So a Migrate that
  is carried out writes the constraint for a run that still has to unmigrate.
* `HolderInv` narrows `PausedHasOwner` to pauses that took hold (a Pause on its way
  does not hold a bouncer), so that a Resume, which lifts them all, and a Pause that
  fails both keep it.
* `RivalInv`, `LiftInv`, `CancelInv`. Under the lock, and with callers that wait and
  live, no Resume or Unmigrate of another run is at a server while a run pauses and
  migrates (`RivalInv`): only timers and cancel requests are. Each of the latter belongs
  to a Pause that failed (`CancelInv`), and each leaves a mark when it fires (`LiftInv`,
  which is said from the pause step on, as an early answer may be lifted before the
  last one). A restarting server and a RESUME that is lost change none of this.
* `DrainInv`. A bouncer that waits for queries has a Pause waiting, or a cancel request
  that will end it. Under the lock a Pause that waits would be the run's own, which has
  been answered; and the run's own cancel request would have failed it (`CancelInv`).
* The faults that `Exclusive`, `Cleaned`, `Owned`, `PausesOwned`, `ConstraintKept`,
  `OnlyStaleLifts` and `Drained` exclude are all needed: with any one of them alone
  TLC finds a counterexample to the property, with two runs and one node or, for
  `late` in `MutualExclusion`, `ConstraintHeld` and `DrainedUnlessLeft`, three runs.
* `EveryRunEnds` is checked and not proved, but what it comes to is: a run takes no step
  back or for nothing, and so at most ten and one for each answer (`NoStepBack`); it
  waits for no answer to a call that was never made, and a server can always fail
  what it was asked (`NeverWaitsInVain`); and its wait for the lock is for somebody who
  can go on, or is cut short by its timeout (`LockNeverStuck`). That it then does take
  these steps is fairness.
* `CutoverInv` is four parts. `StreamInv`: what the stream carries is no older than
  `start`, and newer than what the reader had. `KeyInv`: a change is a change. `CallInv`:
  the looked-up node is fixed before crm runs. `ReaderInv`: since the reader had `told`
  it has only had later kvs, so that another match means a revision in between
  with another value (`KeyInv`).
* `OpenInv`, `PassedInv`. The runs of the script are runs of `Failover` (`Simulates`), so
  that `MigrateOnlyWhenPaused` holds of them. A PgBouncer with an open transaction does
  not drain; then the Pause of the one run that is launched is not answered on that
  node, the run does not get to its step 4, and nothing asks for the constraint.
  `PassedInv` follows the value of `Sync` back from the clients to Pacemaker, and the
  verdict back to a run that had seen its target, which it had asked for.
* `StepInv`. Where a run is determines the steps it has entered, which is what
  maps it to `Pipeline`.
* `FreshInv`. Everything on its way to PgBouncer is no older than what is in the
  file and in PgBouncer, or the filter will drop it; a new process starts with
  an empty filter, and then it is etcd that is ahead of both.
* `WriteInv`. Which supervisor wrote what is in etcd is not recorded. Instead: there
  is always one whose filter would not keep the current value of `primary` from
  being written over what is in etcd, because it is busy, new, or has itself seen
  that value last. A write (`WrittenInv`) makes the writer that one; every other step
  leaves it so (`KeptInv`).

Every invariant, action property and refinement that a run checks is proved.
`NotOvertaken`, `CleanupSentInTime`, `RunsOnward`, `WaitsForCalls` and the
inductive invariants, which no run checks, were put to TLC on two runs and one node before
they were proved. Only model-checked: liveness
(`TrafficResumes`, `LockFreed`, `EveryRunEnds`, `Terminates`, `Converges`, `ShutsDown`,
`NoticedIfPromoted`, `ConnectionServed`), as temporal reasoning under fairness is beyond
what the prover does.

## 5. Findings

* `SlowRun`: `ctx.Done()` without `<-`: the ten seconds of `deferCtx` start with the
  run, and a longer run sends none of its deferred calls.
* `SecondNotice`: the goroutine of `NotifyWhenMaster` goes on after it closed its
  channel; when etcd leaves the target and comes back while the run cleans up, it sends
  on the closed channel and the process dies before it has sent Resume.
* `NilKv`: `RetryFold` takes a nil kv from the closed channel after a failed
  operation.

Found while modelling, not runs of their own: `Resume` does not cancel the resume that
`Pause` scheduled, and that resume does not know its Pause, so that it lifts the pause
of a later failover (`server.go:109-112`; `PauseHeldUnlessStale` without its
exception fails); "already suspended/paused" is also the answer while an earlier PAUSE
waits for queries (`pgbouncer.go:161`), so that a second failover may migrate over
running queries (`DrainedUnlessLeft` without its exception fails); with fault `lapse`
two failovers run at once, as nothing reads `session.Done()`; with `late` and three runs, too, as
`Mutex.Lock` deletes its key when the context is done by the time `waitDeletes` has
returned, and returns nil all the same (`mutex.go:72`); with `late` in one run a pause
timeout that ends as PgBouncer answers makes Pause succeed while its cancel
request lifts the pause; `pgbouncer-retry-timeout` (`proxy.go:35`) is not the
flag that is defined (`:48`), so that retries are not spaced, nor are
`etcd-dial-keep-alive-time` and `-timeout` (`flags.go:44-45` and `:54-55`); the
acceptance test may fail of a failover that succeeds, as `Receive` does not wait for
a run that is still cleaning up (`acceptance.go:178`, `NoResult`), or as a query
between the resume and the proxy's reload errs inside `Eventually` (`QueryErrs`); a second signal
panics the process, as `handleQuitSignal` closes a channel that stays registered;
a supervisor that wrote an old primary and is then killed for good leaves it in etcd,
as the others have seen the new one (`Settled` asks for every supervisor, not for
those that are left); and a supervisor whose gRPC server fails never ends, as its interrupt
cancels a context that the stream does not use (`ServeFails` enables nothing).

## 6. Not modelled

* Time. A clock of a few ticks would tell which of two timeouts ends first
  (`deferCtx` against the migration, expiry against the watch); the models have every
  order, which is what the code has to live with under load.
* The RPC messages (`failover.proto`, generated code): each model keeps of a message
  what its receiver acts on.
* The parsing of the CIB and the templating of the config file: a lookup finds its node
  or does not, a file has the host it was generated for or is torn.
* Flags, config files, logging and version output: no protocol state. What a flag that
  is misread does is under "Findings".
* Connections that `Executor` never closes: the limit is a deployment's. Dialling
  without the caller's context: how long that takes is the kernel's.
* A transaction of etcd that is applied after its writer has gone on to the next one.
* Integration-test helpers that boot PgBouncer and etcd; the playground image and the
  fencing script; the `pgsql` resource agent, a third-party OCF agent below Pacemaker's
  interface.

What could be added next: `Disable` and `ShowDatabases` of `pkg/pgbouncer`, which only
its tests call today.
