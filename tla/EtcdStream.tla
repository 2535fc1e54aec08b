------------------------------ MODULE EtcdStream ------------------------------
(***************************************************************************)
(* The changes of one etcd key as a channel of kvs (pkg/etcd/stream.go),   *)
(* put in order by RevisionFilter (pkg/streams/filter.go).                 *)
(*                                                                         *)
(* Two goroutines, one that watches and one that polls, send on the same   *)
(* unbuffered channel; the filter is a third.  A kv is its ModRevision, of *)
(* which the key's values are a function; 0 stands for none.               *)
(***************************************************************************)
EXTENDS Naturals

CONSTANT MaxRev     \* bound: how often the key changes

ASSUME StreamAssumption == MaxRev \in Nat

VARIABLES rev,        \* the key's revision in etcd
          quit,       \* the context given to NewStream is done
          watch,      \* the watch: not yet established, delivering or ended
          seen,       \* the last revision that it delivered
          wkv,        \* the kv that the watching goroutine sends
          poll,       \* what the polling goroutine does
          pkv,        \* the kv that it sends
          fkv,        \* the kv that the filter sends
          last,       \* lastRevisions of the filter
          fdone       \* the filter closed its channel

goroutines == <<watch, seen, wkv, poll, pkv>>
filterVars == <<fkv, last, fdone>>
streamVars == <<rev, quit, goroutines, filterVars>>

Revision == 0 .. MaxRev

\* The poll that sends has a kv to send.
PollTypeOK == poll = "send" <=> pkv # 0

StreamTypeOK ==
    /\ rev \in Revision /\ seen \in Revision /\ last \in Revision
    /\ wkv \in Revision /\ pkv \in Revision /\ fkv \in Revision
    /\ watch \in {"dialing", "on", "ended"}
    /\ poll \in {"get", "send", "wait", "ended"} /\ PollTypeOK
    /\ quit \in BOOLEAN /\ fdone \in BOOLEAN

StreamInit ==
    /\ rev = 0 /\ quit = FALSE
    /\ watch = "dialing" /\ seen = 0 /\ wkv = 0
    /\ poll = "get" /\ pkv = 0
    /\ fkv = 0 /\ last = 0 /\ fdone = FALSE

\* A new process starts both goroutines and the filter.
NewStream ==
    /\ quit' = FALSE
    /\ watch' = "dialing" /\ seen' = 0 /\ wkv' = 0
    /\ poll' = "get" /\ pkv' = 0
    /\ fkv' = 0 /\ last' = 0 /\ fdone' = FALSE
    /\ UNCHANGED rev

\* A supervise process writes the key.
Put ==
    /\ rev < MaxRev
    /\ rev' = rev + 1
    /\ UNCHANGED <<quit, goroutines, filterVars>>

\* SIGINT, SIGQUIT or SIGTERM.
Quit ==
    /\ ~quit /\ quit' = TRUE
    /\ UNCHANGED <<rev, goroutines, filterVars>>

-----------------------------------------------------------------------------
(* The watching goroutine.  The etcd client resumes a watch that broke where it *)
(* was; it may be silent for ever without an error.                            *)

\* Mutant: the watch starts with the first change.
WatchFromFirst ==
    /\ watch = "dialing"
    /\ watch' = "on" /\ seen' = 0
    /\ UNCHANGED <<rev, quit, wkv, poll, pkv, filterVars>>

\* The watch starts with the changes after etcd has it.
WatchStarts ==
    /\ watch = "dialing"
    /\ watch' = "on" /\ seen' = rev
    /\ UNCHANGED <<rev, quit, wkv, poll, pkv, filterVars>>

WatchEvent ==
    /\ watch = "on" /\ wkv = 0 /\ seen < rev
    /\ seen' = seen + 1 /\ wkv' = seen + 1
    /\ UNCHANGED <<rev, quit, watch, poll, pkv, filterVars>>

\* etcd's channel closes: the context is done, or the revision from which a
\* broken watch should resume was compacted.
WatchEnds ==
    /\ watch # "ended" /\ wkv = 0
    /\ quit \/ watch = "on"
    /\ watch' = "ended"
    /\ UNCHANGED <<rev, quit, seen, wkv, poll, pkv, filterVars>>

-----------------------------------------------------------------------------
(* The polling goroutine *)

\* Mutant: the end of the watch does not cancel the polls (`defer cancel()`).
CtxDoneByQuit == quit

\* The context of the polls, which the end of the watch cancels too.
CtxDone == quit \/ watch = "ended"

\* Mutant: whether the answer holds a kv is not asked.
PollGetUnchecked ==
    /\ poll = "get" /\ ~CtxDone
    /\ poll' = "send" /\ pkv' = rev
    /\ UNCHANGED <<rev, quit, watch, seen, wkv, filterVars>>

PollGet ==
    /\ poll = "get" /\ rev > 0 /\ ~CtxDone
    /\ poll' = "send" /\ pkv' = rev
    /\ UNCHANGED <<rev, quit, watch, seen, wkv, filterVars>>

\* The Get errs or times out, or there is no such key.
PollFails ==
    /\ poll = "get"
    /\ poll' = "wait"
    /\ UNCHANGED <<rev, quit, watch, seen, wkv, pkv, filterVars>>

\* Mutant: the key is read only when the process starts.
PollOnce == FALSE

\* PollInterval has passed.
PollAgain ==
    /\ poll = "wait"
    /\ poll' = "get"
    /\ UNCHANGED <<rev, quit, watch, seen, wkv, pkv, filterVars>>

PollEnds ==
    /\ poll = "wait" /\ CtxDone
    /\ poll' = "ended"
    /\ UNCHANGED <<rev, quit, watch, seen, wkv, pkv, filterVars>>

-----------------------------------------------------------------------------
(* RevisionFilter *)

\* Mutant: a kv of the revision that was sent last is not stale.
PassNotOlder(kv) == fkv' = IF last > kv THEN 0 ELSE kv

\* Mutant: every kv is passed on.
PassAll(kv) == fkv' = kv

\* A kv whose revision is not above that of the last one is dropped.
Pass(kv) == fkv' = IF last >= kv THEN 0 ELSE kv

FilterTakesWatched ==
    /\ fkv = 0 /\ wkv # 0
    /\ Pass(wkv) /\ wkv' = 0
    /\ UNCHANGED <<rev, quit, watch, seen, poll, pkv, last, fdone>>

\* The poll of the one key is over.
FilterTakesPolled ==
    /\ fkv = 0 /\ pkv # 0
    /\ Pass(pkv) /\ pkv' = 0 /\ poll' = "wait"
    /\ UNCHANGED <<rev, quit, watch, seen, wkv, last, fdone>>

\* The reader of the filter's channel takes the kv.
Taken ==
    /\ fkv # 0
    /\ last' = fkv /\ fkv' = 0
    /\ UNCHANGED <<rev, quit, goroutines, fdone>>

\* Both goroutines have ended: the channel closes, and the filter's with it.
FilterCloses ==
    /\ fkv = 0 /\ watch = "ended" /\ poll = "ended" /\ ~fdone
    /\ fdone' = TRUE
    /\ UNCHANGED <<rev, quit, goroutines, fkv, last>>

Stream ==
    \/ WatchStarts \/ WatchEvent \/ WatchEnds
    \/ PollGet \/ PollFails \/ PollAgain \/ PollEnds
    \/ FilterTakesWatched \/ FilterTakesPolled \/ FilterCloses
=============================================================================
