------------------------------- MODULE Supervise -------------------------------
(***************************************************************************)
(* `pgcm supervise` (pkg/cmd/supervise.go) on every node: a stream of the  *)
(* primary that Pacemaker reports (pkg/pacemaker/stream.go), DedupeFilter  *)
(* and RetryFold (pkg/streams), which writes the primary's address to one  *)
(* etcd key (pkg/etcd/updater.go); in a run.Group with the failover API.   *)
(*                                                                         *)
(* Each process is a chain of goroutines that hold one kv each: one that   *)
(* the poll offers, one that the filter passed on, and the one that        *)
(* RetryFold works on.  A kv is the primary at the time of the poll.       *)
(***************************************************************************)
EXTENDS Naturals

CONSTANTS Supervisor, Node,
          None,         \* no kv
          MaxMoves,     \* bound: how often the primary moves
          MaxFaults     \* bound: how often a process is disturbed

ASSUME SuperviseAssumption ==
    /\ Supervisor # {} /\ None \notin Node
    /\ MaxMoves \in Nat /\ MaxFaults \in Nat

VARIABLES primary,      \* the node that Pacemaker reports
          past,         \* the nodes that it has reported so far
          moves,        \* how often it has moved
          master,       \* the node whose address is in etcd
          sup,          \* the processes
          faults        \* how often one was killed, signalled or lost its API

vars == <<primary, past, moves, master, sup, faults>>

KvOrNone == Node \cup {None}

Process ==
    [up : BOOLEAN,          \* the process runs
     quit : BOOLEAN,        \* the context of the command is done
     polling : BOOLEAN,     \* the stream's goroutine runs
     offered : KvOrNone,    \* the kv that it sends
     passed : KvOrNone,     \* the kv that DedupeFilter sends
     seen : KvOrNone,       \* lastValues of DedupeFilter
     fold : {"recv", "resolve", "commit", "failed", "returned"},
     kv : KvOrNone,         \* the kv of RetryFold
     serving : BOOLEAN]     \* grpcServer serves the failover API

\* The kv is the one that DedupeFilter remembers, and an operation has one.
KvTypeOK(p) ==
    /\ p.kv = p.seen
    /\ p.fold \in {"resolve", "commit", "failed"} => p.kv # None

TypeOK ==
    /\ primary \in Node /\ past \in SUBSET Node /\ moves \in 0 .. MaxMoves
    /\ master \in KvOrNone
    /\ sup \in [Supervisor -> Process] /\ \A s \in Supervisor : KvTypeOK(sup[s])
    /\ faults \in 0 .. MaxFaults

Started ==
    [up |-> TRUE, quit |-> FALSE, polling |-> TRUE, offered |-> None,
     passed |-> None, seen |-> None, fold |-> "recv", kv |-> None,
     serving |-> TRUE]

Ended == [Started EXCEPT !.up = FALSE]

Init ==
    /\ primary \in Node /\ past = {primary} /\ moves = 0
    /\ master = None
    /\ sup = [s \in Supervisor |-> Started]
    /\ faults = 0

\* Pacemaker promotes another node.  While there is no primary a poll yields
\* nothing, as one that fails does; a local CIB that lags answers as a poll of
\* then would have.
Move ==
    /\ moves < MaxMoves /\ moves' = moves + 1
    /\ primary' \in Node \ {primary} /\ past' = past \cup {primary'}
    /\ UNCHANGED <<master, sup, faults>>

\* Process s goes on as p, and nothing else changes but perhaps etcd.
Becomes(s, p) ==
    /\ sup' = [sup EXCEPT ![s] = p]
    /\ UNCHANGED <<primary, past, moves, faults>>

\* Process s is disturbed, and goes on as p.
Disturbed(s, p) ==
    /\ faults < MaxFaults /\ faults' = faults + 1
    /\ sup' = [sup EXCEPT ![s] = p]
    /\ UNCHANGED <<primary, past, moves, master>>

-----------------------------------------------------------------------------
(* pacemaker.NewStream and DedupeFilter *)

\* Mutant: the XPath finds any node.
PolledAny(s) ==
    /\ sup[s].up /\ sup[s].polling /\ ~sup[s].quit /\ sup[s].offered = None
    /\ \E n \in Node : Becomes(s, [sup[s] EXCEPT !.offered = n])
    /\ UNCHANGED master

\* Get found the primary in a CIB with quorum.  With the context done it errs.
Polled(s) ==
    /\ sup[s].up /\ sup[s].polling /\ ~sup[s].quit /\ sup[s].offered = None
    /\ Becomes(s, [sup[s] EXCEPT !.offered = primary])
    /\ UNCHANGED master

PollEnds(s) ==
    /\ sup[s].up /\ sup[s].polling /\ sup[s].quit /\ sup[s].offered = None
    /\ Becomes(s, [sup[s] EXCEPT !.polling = FALSE])
    /\ UNCHANGED master

\* Mutant: the filter drops every kv once it has passed one on.
Unseen(p) == IF p.seen # None THEN None ELSE p.offered

\* What the filter makes of the kv offered: nothing, if it is that of the last.
Changed(p) == IF p.offered = p.seen THEN None ELSE p.offered

Deduped(s) ==
    /\ sup[s].up /\ sup[s].offered # None /\ sup[s].passed = None
    /\ Becomes(s, [sup[s] EXCEPT !.offered = None, !.passed = Changed(sup[s])])
    /\ UNCHANGED master

\* The poll has ended and both channels are closed.
Closed(p) == ~p.polling /\ p.offered = None /\ p.passed = None

-----------------------------------------------------------------------------
(* RetryFold *)

\* RetryFold receives, and with that the filter's send returns.
Taken(p) ==
    [p EXCEPT !.kv = p.passed, !.seen = p.passed, !.passed = None,
              !.fold = "resolve"]

\* The next kv, or a newer one instead of the one whose operation failed.
NextKv(s) ==
    /\ sup[s].up /\ sup[s].fold \in {"recv", "failed"} /\ sup[s].passed # None
    /\ Becomes(s, Taken(sup[s]))
    /\ UNCHANGED master

FoldReturns(s) ==
    /\ sup[s].up /\ sup[s].fold = "recv" /\ Closed(sup[s])
    /\ Becomes(s, [sup[s] EXCEPT !.fold = "returned"])
    /\ UNCHANGED master

Retry(s) ==
    /\ sup[s].up /\ sup[s].fold = "failed"
    /\ Becomes(s, [sup[s] EXCEPT !.fold = "resolve"])
    /\ UNCHANGED master

\* Mutant: the operation is run on the nil kv.
NilKvRuns(s) ==
    /\ sup[s].up /\ sup[s].fold = "failed" /\ Closed(sup[s])
    /\ Becomes(s, [sup[s] EXCEPT !.kv = None, !.fold = "resolve"])
    /\ UNCHANGED master

\* The closed channel yields a nil kv, which the operation dereferences.
NilKv(s) ==
    /\ sup[s].up /\ sup[s].fold = "failed" /\ Closed(sup[s])
    /\ Becomes(s, Ended)
    /\ UNCHANGED master

-----------------------------------------------------------------------------
(* The operation: ResolveAddress, then CompareAndUpdate *)

Resolved(s) ==
    /\ sup[s].up /\ sup[s].fold = "resolve" /\ ~sup[s].quit
    /\ Becomes(s, [sup[s] EXCEPT !.fold = "commit"])
    /\ UNCHANGED master

\* The transaction leaves the key alone if it has the value already.
Committed(s) ==
    /\ sup[s].up /\ sup[s].fold = "commit"
    /\ master' = sup[s].kv
    /\ Becomes(s, [sup[s] EXCEPT !.fold = "recv"])

\* Mutant: an operation that failed is not tried again.
FailureDropped(s) ==
    /\ sup[s].up /\ sup[s].fold \in {"resolve", "commit"}
    /\ master' \in {master, IF sup[s].fold = "commit" THEN sup[s].kv ELSE master}
    /\ Becomes(s, [sup[s] EXCEPT !.fold = "recv"])

\* The transaction of a Commit that errs was applied or not.
OperationFails(s) ==
    /\ sup[s].up /\ sup[s].fold \in {"resolve", "commit"}
    /\ master' \in {master, IF sup[s].fold = "commit" THEN sup[s].kv ELSE master}
    /\ Becomes(s, [sup[s] EXCEPT !.fold = "failed"])

-----------------------------------------------------------------------------
(* The process and its run.Group *)

\* The API's actor returns.  That interrupts the other one by a cancel of a
\* context that neither the stream nor RetryFold uses.
ServeFails(s) ==
    /\ sup[s].up /\ sup[s].serving
    /\ Disturbed(s, [sup[s] EXCEPT !.serving = FALSE])

\* Mutant: the API is not interrupted.
NotInterrupted(s) == FALSE

\* RetryFold returned: the API is interrupted by GracefulStop.
GracefulStop(s) ==
    /\ sup[s].up /\ sup[s].fold = "returned" /\ sup[s].serving
    /\ Becomes(s, [sup[s] EXCEPT !.serving = FALSE])
    /\ UNCHANGED master

\* Both actors have returned, and so does Run.
Exits(s) ==
    /\ sup[s].up /\ sup[s].fold = "returned" /\ ~sup[s].serving
    /\ Becomes(s, Ended)
    /\ UNCHANGED master

\* SIGINT, SIGQUIT or SIGTERM: the context of the command is done.
Quit(s) ==
    /\ sup[s].up /\ ~sup[s].quit
    /\ Disturbed(s, [sup[s] EXCEPT !.quit = TRUE])

Crash(s) ==
    /\ sup[s].up
    /\ Disturbed(s, Ended)

Start(s) ==
    /\ ~sup[s].up
    /\ Becomes(s, Started)
    /\ UNCHANGED master

-----------------------------------------------------------------------------
Stream(s) == Polled(s) \/ PollEnds(s) \/ Deduped(s)

Fold(s) ==
    \/ NextKv(s) \/ FoldReturns(s) \/ Retry(s) \/ NilKv(s)
    \/ Resolved(s) \/ Committed(s) \/ OperationFails(s)

Stops(s) == GracefulStop(s) \/ Exits(s)

Next ==
    \/ Move
    \/ \E s \in Supervisor :
           \/ Stream(s) \/ Fold(s) \/ Stops(s)
           \/ ServeFails(s) \/ Quit(s) \/ Crash(s) \/ Start(s)

\* The goroutines of a running process run.  Resolving and writing succeed in the
\* end if they are tried again and again; a channel that is ready is received
\* from, as RetryFold waits for the retry interval otherwise.
Fairness ==
    \A s \in Supervisor :
        /\ WF_vars(Stream(s)) /\ WF_vars(Fold(s) \/ Stops(s))
        /\ SF_vars(NextKv(s) \/ NilKv(s))
        /\ SF_vars(Resolved(s)) /\ SF_vars(Committed(s))

Spec == Init /\ [][Next]_vars /\ Fairness

-----------------------------------------------------------------------------
(* Properties *)

\* RetryFold waits for a kv and there is none between it and the poll.
Idle(p) == p.up /\ p.fold = "recv" /\ p.passed = None

\* When every supervisor has seen the primary and has nothing left to do, etcd has
\* it: a supervisor whose poll was overtaken may write an earlier primary over a
\* later one, but not unless it is going to see to that itself.
Settled ==
    (\A s \in Supervisor : Idle(sup[s]) /\ sup[s].seen = primary)
        => master = primary

\* Why: for the filter of one supervisor what is in etcd is not old news.  It starts
\* from nothing, it has something to write, or it has seen what is there last.
Watchful(p) ==
    \/ ~Idle(p)
    \/ p.seen = None
    \/ p.seen = master

Correctable == master # None => \E s \in Supervisor : Watchful(sup[s])

\* A supervisor that is idle and has seen something has written.
MasterKnown ==
    master = None => \A s \in Supervisor : Idle(sup[s]) => sup[s].seen = None

WriteInv == Correctable /\ MasterKnown

\* What is in etcd is, or was, the primary, whoever wrote it and however late: the
\* processes together are a PrimaryKey.
Key == INSTANCE PrimaryKey

KeyKept == Key!Spec

\* Why: so is every kv on its way to etcd.
InFlight(p) == {p.offered, p.passed, p.seen, p.kv} \ {None}

KvInv == primary \in past /\ \A s \in Supervisor : InFlight(sup[s]) \subseteq past

\* A supervise "daemon, which will continually query pacemaker to pull the current
\* Postgres primary IP address and push this value to etcd": when all of them keep
\* running, etcd ends up with the last primary.
AllRunning == \A s \in Supervisor : sup[s].up /\ ~sup[s].quit

Converges == <>[]AllRunning => <>[](master = primary)

\* A process that is told to stop does, also when its operation fails for good: as
\* the signals are few, there is a time when none is left to be heeded.
ShutsDown == []<>(\A s \in Supervisor : ~sup[s].quit)
=============================================================================
