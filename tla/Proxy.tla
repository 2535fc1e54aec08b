--------------------------------- MODULE Proxy ---------------------------------
(***************************************************************************)
(* `pgcm proxy` (pkg/cmd/proxy.go): RetryFold (pkg/streams/fold.go) takes  *)
(* the kvs of the stream and for each writes PgBouncer's configuration and *)
(* reloads it, until that succeeds or a newer kv is there.                 *)
(***************************************************************************)
EXTENDS EtcdStream

CONSTANT MaxStarts      \* bound: how often the process is started

ASSUME ProxyAssumption == MaxStarts \in Nat \ {0}

VARIABLES fold,       \* what RetryFold does
          kv,         \* the kv it works on
          file,       \* revision of the host in the config file, 0: none or torn
          loaded,     \* revision of the host in PgBouncer's configuration
          reload,     \* a RELOAD that was given up may still reach PgBouncer
          starts      \* how often the process was started

foldVars == <<fold, kv>>
bouncerVars == <<file, loaded, reload>>
vars == <<streamVars, foldVars, bouncerVars, starts>>

TypeOK ==
    /\ StreamTypeOK
    /\ fold \in {"recv", "generate", "reload", "sent", "failed", "returned",
                "panicked"}
    /\ kv \in Revision
    /\ file \in Revision /\ loaded \in Revision /\ reload \in BOOLEAN
    /\ starts \in 1 .. MaxStarts

Init ==
    /\ StreamInit
    /\ fold = "recv" /\ kv = 0
    /\ file = 0 /\ loaded = 0 /\ reload = FALSE
    /\ starts = 1

Stopped == fold \in {"returned", "panicked"}

-----------------------------------------------------------------------------
(* RetryFold *)

\* The next kv, or a newer one instead of the one whose operation failed.
NextKv ==
    /\ fold \in {"recv", "failed"}
    /\ Taken
    /\ kv' = fkv /\ fold' = "generate"
    /\ UNCHANGED <<bouncerVars, starts>>

\* The channel is closed.
FoldReturns ==
    /\ fold = "recv" /\ fdone
    /\ fold' = "returned"
    /\ UNCHANGED <<streamVars, kv, bouncerVars, starts>>

Retry ==
    /\ fold = "failed"
    /\ fold' = "generate"
    /\ UNCHANGED <<streamVars, kv, bouncerVars, starts>>

\* After a failure the closed channel yields a nil kv, which the operation
\* dereferences.
NilKv ==
    /\ fold = "failed" /\ fdone
    /\ fold' = "panicked"
    /\ UNCHANGED <<streamVars, kv, bouncerVars, starts>>

-----------------------------------------------------------------------------
(* The operation: PgBouncer.GenerateConfig, then Reload *)

Generated ==
    /\ fold = "generate"
    /\ file' = kv /\ fold' = "reload"
    /\ UNCHANGED <<streamVars, kv, loaded, reload, starts>>

\* The template cannot be read, or the file is truncated and not written.
GenerateFails ==
    /\ fold = "generate"
    /\ file' \in {file, 0} /\ fold' = "failed"
    /\ UNCHANGED <<streamVars, kv, loaded, reload, starts>>

\* A connection is made; a context that is done by now ends the call.
ReloadSent ==
    /\ fold = "reload" /\ ~quit
    /\ fold' = "sent"
    /\ UNCHANGED <<streamVars, kv, bouncerVars, starts>>

Reloaded ==
    /\ fold = "sent"
    /\ loaded' = file /\ fold' = "recv"
    /\ UNCHANGED <<streamVars, kv, file, reload, starts>>

\* Mutant: an operation that failed is not tried again.
ReloadForgotten ==
    /\ fold \in {"reload", "sent"}
    /\ fold' = "recv" /\ reload' \in {reload, reload \/ fold = "sent"}
    /\ UNCHANGED <<streamVars, kv, file, loaded, starts>>

\* PgBouncer is not there, or does not answer within pgbouncer-timeout.
ReloadFails ==
    /\ fold \in {"reload", "sent"}
    /\ fold' = "failed" /\ reload' \in {reload, reload \/ fold = "sent"}
    /\ UNCHANGED <<streamVars, kv, file, loaded, starts>>

\* PgBouncer reads the file as it is then; one that it cannot load changes nothing.
LateReload ==
    /\ reload /\ reload' = FALSE
    /\ loaded' \in {loaded, IF file = 0 THEN loaded ELSE file}
    /\ UNCHANGED <<streamVars, foldVars, file, starts>>

-----------------------------------------------------------------------------
\* The process returns, panics or is killed, and is started again.
Restart ==
    /\ starts < MaxStarts /\ starts' = starts + 1
    /\ NewStream
    /\ fold' = "recv" /\ kv' = 0
    /\ file' \in {file, IF fold = "generate" THEN 0 ELSE file}
    /\ reload' \in {reload, reload \/ fold = "sent"}
    /\ UNCHANGED loaded

Fold ==
    \/ NextKv \/ FoldReturns \/ Retry \/ NilKv
    \/ Generated \/ GenerateFails \/ ReloadSent \/ Reloaded \/ ReloadFails

\* A step of the stream, by which nothing else changes.
Streams(A) == ~Stopped /\ A /\ UNCHANGED <<foldVars, bouncerVars, starts>>

Next ==
    \/ Streams(Stream) \/ Streams(Quit)
    \/ Put /\ UNCHANGED <<foldVars, bouncerVars, starts>>
    \/ Fold \/ LateReload \/ Restart

\* Every goroutine runs; a Get, a write and a RELOAD that are tried again and again
\* succeed in the end; and select picks each case that is ready again and again.
\* Nothing makes a watch start or deliver, nor etcd change.
Fairness ==
    /\ WF_vars(Streams(PollGet \/ PollFails \/ PollAgain))
    /\ WF_vars(Streams(FilterTakesWatched \/ FilterTakesPolled \/ FilterCloses))
    /\ WF_vars(Streams(quit /\ WatchEnds))
    /\ WF_vars(Fold)
    /\ SF_vars(Streams(PollGet)) /\ SF_vars(Streams(PollEnds))
    /\ SF_vars(Generated) /\ SF_vars(ReloadSent) /\ SF_vars(Reloaded)
    /\ SF_vars(NextKv \/ NilKv)

Spec == Init /\ [][Next]_vars /\ Fairness

-----------------------------------------------------------------------------
\* "We need to use the RevisionFilter to ensure we only fold our events in their
\* logical order, without duplicates": each kv that RetryFold takes is newer than
\* the one before, although two goroutines send and a poll may be overtaken.
FoldedInOrder ==
    [][fkv # 0 /\ fkv' = 0 /\ kv' = fkv => kv' > kv]_vars

\* PgBouncer is never pointed back at an earlier primary, through polls that were
\* overtaken, reloads that come late, torn files and restarts.
NeverBack == [][loaded' >= loaded]_vars

\* RetryFold waits for the next kv only when PgBouncer uses the last one.
Applied == fold = "recv" /\ kv # 0 => loaded = kv

\* RetryFold "consumes all kvs from the `in` channel and attempts to run an
\* operation on them": on nothing else.
OnlyKvs == fold # "panicked"

-----------------------------------------------------------------------------
(* Why: an inductive strengthening *)

\* x is no older than what is in the file and in PgBouncer.
Fresh(x) == x >= file /\ x >= loaded

\* Every kv is one that etcd had; etcd is ahead of PgBouncer, and so is a watch
\* by which nothing has come yet.
SourceFresh ==
    /\ seen <= rev /\ wkv <= rev /\ pkv <= rev /\ fkv <= rev /\ kv <= rev
    /\ Fresh(rev)
    /\ watch = "on" /\ last = 0 => Fresh(seen)

\* A kv on its way is fresh, or the filter will drop it.
InFlightFresh ==
    /\ wkv > last => Fresh(wkv)
    /\ pkv > last => Fresh(pkv)
    /\ fkv # 0 => fkv > last /\ Fresh(fkv)

\* RetryFold has the last kv, which is fresh; and what it has done for it is there.
FoldFresh ==
    /\ kv = last
    /\ fold \in {"generate", "reload", "sent", "failed"} => kv # 0
    /\ kv # 0 => Fresh(kv)
    /\ fold \in {"reload", "sent"} => file = kv
    /\ fold = "recv" /\ kv # 0 => file = kv /\ loaded = kv
    /\ file # 0 => file >= loaded

FreshInv == SourceFresh /\ InFlightFresh /\ FoldFresh

-----------------------------------------------------------------------------
(* Liveness *)

\* The proxy is not told to stop and its stream goes on.
Running == ~quit /\ watch # "ended" /\ ~Stopped

\* "polling interval, which ensures on boot that we receive the initial value,
\* along with at polling intervals": a proxy that keeps running ends up with the
\* last host, also when its watch never delivers.
Converges == <>[]Running => <>[](loaded = rev)

\* When it is told to stop, or its watch ends, the process ends: neither
\* goroutine keeps the other half of the stream waiting.
ShutsDown ==
    \A s \in 1 .. MaxStarts :
        (quit \/ watch = "ended") /\ starts = s ~> Stopped \/ starts # s
=============================================================================
