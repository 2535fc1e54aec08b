----------------------------- MODULE CutoverProofs -----------------------------
(***************************************************************************)
(* Cutover for every number of nodes, changes of the key and promotions:   *)
(* the run waits for the node that it had promoted, is not misled by what  *)
(* the stream had before, and dies of a second notice only if etcd left    *)
(* the target and came back.                                               *)
(***************************************************************************)
EXTENDS Cutover, TLAPS

USE StreamAssumption, CutoverAssumption

\* The types, apart: the Booleans, the poll that sends, and the rest.
Flags == quit \in BOOLEAN /\ fdone \in BOOLEAN /\ panicked \in BOOLEAN

StreamValues ==
    /\ rev \in Revision /\ seen \in Revision /\ last \in Revision
    /\ wkv \in Revision /\ pkv \in Revision /\ fkv \in Revision
    /\ watch \in {"dialing", "on", "ended"}
    /\ poll \in {"get", "send", "wait", "ended"}

RunValues ==
    /\ primary \in Node /\ past \in SUBSET Node
    /\ sync \in NodeOrNone /\ prefer \in NodeOrNone /\ target \in NodeOrNone
    /\ value \in [Revision -> NodeOrNone]
    /\ call \in {"idle", "sent", "found", "done", "failed"}
    /\ pc \in {"paused", "migrate", "watch", "unmigrate", "resume", "release",
               "returned"}
    /\ start \in Revision /\ told \in Revision
    /\ reader \in {"none", "reading", "sending", "closed"}

Values == StreamValues /\ RunValues

LEMMA Types == TypeOK <=> Flags /\ Values /\ PollTypeOK
  BY DEF TypeOK, StreamTypeOK, Flags, Values, StreamValues, RunValues

\* The stream, the server and the run keep their types.
THEOREM TypeCorrect == Spec => []TypeOK
<1>1. Init => Flags /\ Values /\ PollTypeOK
  <2>1. Init => Flags /\ PollTypeOK
    BY DEF Init, StreamInit, Flags, PollTypeOK
  <2>2. Init => StreamValues
    BY DEF Init, StreamInit, StreamValues, Revision
  <2>3. Init => RunValues
    BY DEF Init, RunValues, Revision, NodeOrNone
  <2> QED
    BY <2>1, <2>2, <2>3 DEF Values
<1>2. Flags /\ Values /\ PollTypeOK /\ [Next]_vars => (Flags /\ Values /\ PollTypeOK)'
  <2> SUFFICES ASSUME Flags, Values, PollTypeOK, [Next]_vars
               PROVE  Flags' /\ Values' /\ PollTypeOK'
    OBVIOUS
  <2> USE DEF Next, vars, streamVars, goroutines, filterVars, crmVars, serverVars,
              runVars, Server, Run, Streams, Stream, Promote, SyncChanges, Write,
              CompareAndUpdate, Put, Lookup, MigrateExec, MigrateFail, Goto, At,
              Migrate, MigrateErrs, Migrated, Noticed, TimesOut, Unmigrated, Resumed,
              Released, ReaderTakes, Taken, Quit, WatchStarts, WatchEvent, WatchEnds,
              PollGet, PollFails, PollAgain, PollEnds, FilterTakesWatched,
              FilterTakesPolled, FilterCloses
  <2>1. Flags'
    BY DEF Flags
  <2>2. StreamValues'
    BY DEF Values, StreamValues, Revision, Pass
  <2>3. RunValues'
    BY DEF Values, StreamValues, RunValues, Revision, NodeOrNone
  <2>4. PollTypeOK'
    BY DEF PollTypeOK, Values, StreamValues, Revision
  <2> QED
    BY <2>1, <2>2, <2>3, <2>4 DEF Values
<1> QED
  BY <1>1, <1>2, Types, PTL DEF Spec

-----------------------------------------------------------------------------
(* The invariant, one conjunct after the other *)

LEMMA StreamStep ==
    ASSUME Values, StreamInv, CallInv, [Next]_vars PROVE StreamInv'
<1> USE DEF Values, StreamValues, RunValues, Revision, StreamInv, streamVars,
            goroutines, filterVars
<1>1. CASE UNCHANGED vars
  BY <1>1 DEF vars, runVars
<1>2. ASSUME UNCHANGED streamVars, UNCHANGED start, reader' = "none" => reader = "none"
      PROVE  StreamInv'
  BY <1>2
<1>3. CASE \E n \in Node : Promote(n) \/ Write(n)
  <2>1. CASE \E n \in Node : Promote(n)
    BY <1>2, <2>1 DEF Promote, runVars
  <2>2. CASE \E n \in Node : Write(n)
    <3>1. rev' = rev + 1 /\ UNCHANGED <<watch, seen, wkv, pkv, fkv, last, start, reader>>
      BY <2>2 DEF Write, CompareAndUpdate, Put, runVars
    <3> QED BY <3>1
  <2> QED BY <1>3, <2>1, <2>2
<1>4. CASE (\E n \in NodeOrNone : SyncChanges(n)) \/ Server
  BY <1>2, <1>4 DEF SyncChanges, Server, Lookup, MigrateExec, MigrateFail, runVars
<1>5. CASE Run
  <2>1. CASE Migrated
    <3>1. reader = "none"
      BY <2>1 DEF Migrated, At, CallInv
    <3>2. start' = rev /\ reader' = "reading" /\ UNCHANGED streamVars
      BY <2>1 DEF Migrated
    <3>3. UNCHANGED <<rev, watch, seen, wkv, pkv, fkv, last>>
      BY <3>2
    <3>4. watch = "dialing" /\ wkv = 0 /\ pkv = 0 /\ fkv = 0 /\ last = 0
      BY <3>1
    <3> QED BY <3>2, <3>3, <3>4
  <2>2. CASE Migrate \/ MigrateErrs \/ Noticed \/ TimesOut \/ Unmigrated \/ Resumed
             \/ Released
    BY <1>2, <2>2 DEF Migrate, MigrateErrs, Noticed, TimesOut, Unmigrated, Resumed,
                      Released
  <2> QED BY <1>5, <2>1, <2>2 DEF Run
<1>6. CASE ReaderTakes
  BY <1>6 DEF ReaderTakes, Taken
<1>7. CASE Streams(Quit)
  BY <1>7 DEF Streams, Quit, runVars
<1>8. ASSUME Stream, reader # "none", UNCHANGED runVars PROVE StreamInv'
  <2> USE <1>8 DEF runVars
  <2>1. CASE WatchStarts
    BY <2>1 DEF WatchStarts
  <2>2. CASE WatchEvent
    BY <2>2 DEF WatchEvent
  <2>3. CASE WatchEnds
    BY <2>3 DEF WatchEnds
  <2>4. CASE PollGet
    BY <2>4 DEF PollGet
  <2>5. CASE PollFails \/ PollAgain \/ PollEnds
    BY <2>5 DEF PollFails, PollAgain, PollEnds
  <2>6. CASE FilterTakesWatched
    BY <2>6 DEF FilterTakesWatched, Pass
  <2>7. CASE FilterTakesPolled
    BY <2>7 DEF FilterTakesPolled, Pass
  <2>8. CASE FilterCloses
    BY <2>8 DEF FilterCloses
  <2> QED BY <2>1, <2>2, <2>3, <2>4, <2>5, <2>6, <2>7, <2>8 DEF Stream
<1>9. CASE Streams(Stream)
  BY <1>8, <1>9 DEF Streams
<1> QED BY <1>1, <1>3, <1>4, <1>5, <1>6, <1>7, <1>9 DEF Next

\* Only Write changes what the key has had, and only beyond what it has.
LEMMA KeyStep ==
    ASSUME Values, KeyInv, [Next]_vars
    PROVE  /\ rev' \in Revision /\ rev <= rev'
           /\ \A k \in 0 .. rev : value'[k] = value[k]
           /\ KeyInv'
<1> USE DEF Values, StreamValues, RunValues, Revision, KeyInv
<1>1. CASE \E n \in Node : Write(n)
  <2>1. PICK n \in Node : /\ n # value[rev] /\ rev < MaxRev /\ rev' = rev + 1
                          /\ value' = [value EXCEPT ![rev + 1] = n]
    BY <1>1 DEF Write, CompareAndUpdate, Put
  <2>2. value'[rev + 1] = n /\ \A k \in 0 .. rev : value'[k] = value[k]
    BY <2>1
  <2>3. ASSUME NEW k \in 1 .. rev + 1 PROVE value'[k] # value'[k - 1]
    <3>1. CASE k = rev + 1
      BY <2>1, <2>2, <3>1
    <3>2. CASE k \in 1 .. rev
      BY <2>2, <3>2
    <3> QED BY <2>3, <3>1, <3>2
  <2> QED BY <2>1, <2>2, <2>3
<1>2. ASSUME UNCHANGED <<rev, value>>
      PROVE  /\ rev' \in Revision /\ rev <= rev'
             /\ \A k \in 0 .. rev : value'[k] = value[k]
             /\ KeyInv'
  BY <1>2
<1>3. CASE ~\E n \in Node : Write(n)
  <2>1. UNCHANGED <<rev, value>>
    BY <1>3 DEF Next, vars, streamVars, Promote, SyncChanges, Server, Lookup,
                MigrateExec, MigrateFail, Run, Migrate, MigrateErrs, Migrated, Noticed,
                TimesOut, Unmigrated, Resumed, Released, ReaderTakes, Taken, Streams,
                Stream, Quit, WatchStarts, WatchEvent, WatchEnds, PollGet, PollFails,
                PollAgain, PollEnds, FilterTakesWatched, FilterTakesPolled,
                FilterCloses
  <2> QED BY <1>2, <2>1
<1> QED BY <1>1, <1>3

LEMMA CallStep ==
    ASSUME Values, CallInv, [Next]_vars
    PROVE  CallInv' /\ (reader # "none" => target' = target)
<1> USE DEF Values, RunValues, CallInv, crmVars, serverVars, runVars
<1>1. CASE UNCHANGED vars
  BY <1>1 DEF vars
<1>2. CASE (\E n \in Node : Promote(n) \/ Write(n))
           \/ (\E n \in NodeOrNone : SyncChanges(n))
  BY <1>2 DEF Promote, Write, SyncChanges
<1>3. CASE Server
  BY <1>3 DEF Server, Lookup, MigrateExec, MigrateFail
<1>4. CASE Run
  <2>1. CASE Migrate \/ MigrateErrs \/ Migrated
    BY <2>1 DEF Migrate, MigrateErrs, Migrated, Goto, At
  <2>2. CASE Noticed \/ TimesOut \/ Unmigrated
    BY <2>2 DEF Noticed, TimesOut, Unmigrated, Goto, At
  <2>3. CASE Resumed \/ Released
    BY <2>3 DEF Resumed, Released, Goto, At
  <2> QED BY <1>4, <2>1, <2>2, <2>3 DEF Run
<1>5. CASE ReaderTakes
  BY <1>5 DEF ReaderTakes
<1>6. CASE Streams(Stream) \/ Streams(Quit)
  BY <1>6 DEF Streams
<1> QED BY <1>1, <1>2, <1>3, <1>4, <1>5, <1>6 DEF Next

\* That the key came back to the target stays true.
LEMMA ReturnStays ==
    ASSUME rev \in Revision, rev' \in Revision, rev <= rev', PanicOnlyOnReturn,
           \A k \in 0 .. rev : value'[k] = value[k], UNCHANGED <<panicked, told, target>>
    PROVE  PanicOnlyOnReturn'
<1>1. CASE ~panicked
  BY <1>1 DEF PanicOnlyOnReturn
<1>2. CASE panicked
  <2>1. PICK j, k \in Revision : /\ told < j /\ j < k /\ k <= rev
                                 /\ value[j] # target /\ value[k] = target
    BY <1>2 DEF PanicOnlyOnReturn
  <2>2. j \in 0 .. rev /\ k \in 0 .. rev /\ k <= rev'
    BY <2>1 DEF Revision
  <2>3. /\ told' < j /\ j < k /\ k <= rev'
        /\ value'[j] # target' /\ value'[k] = target'
    BY <2>1, <2>2
  <2>4. \E a, b \in Revision : /\ told' < a /\ a < b /\ b <= rev'
                               /\ value'[a] # target' /\ value'[b] = target'
    BY ONLY <2>3, j \in Revision, k \in Revision
  <2> QED BY <2>4 DEF PanicOnlyOnReturn
<1> QED BY <1>1, <1>2

\* What the reader was told stays true: neither the target nor what etcd had changes.
LEMMA ReaderStep ==
    ASSUME Values, Flags, StreamInv, KeyInv, CallInv, ReaderInv, [Next]_vars,
           CallInv', rev' \in Revision, rev <= rev',
           \A k \in 0 .. rev : value'[k] = value[k],
           reader # "none" => target' = target
    PROVE  ReaderInv'
<1> USE DEF Values, StreamValues, RunValues, Flags, Revision, ReaderInv,
            PanicOnlyOnReturn
<1>1. ASSUME UNCHANGED <<reader, told, panicked, last, start>> PROVE ReaderInv'
  <2>1. last \in 0 .. rev
    BY DEF StreamInv
  <2>2. CASE reader = "none"
    BY <1>1, <2>2
  <2>3. CASE reader # "none"
    <3>1. target' = target
      BY <2>3
    <3>2. reader = "sending" => value'[last] = target'
      BY <2>1, <3>1
    <3>3. told # 0 => told \in 0 .. rev /\ value'[told] = target'
      BY <2>1, <3>1
    <3>4. PanicOnlyOnReturn'
      BY <1>1, <3>1, ReturnStays
    <3> QED BY <1>1, <3>2, <3>3, <3>4
  <2> QED BY <2>2, <2>3
<1>2. CASE Migrated
  BY <1>2 DEF Migrated, CallInv, StreamInv, At, Goto
<1>3. CASE Noticed
  BY <1>3 DEF Noticed, CallInv, StreamInv, At, Goto, streamVars, goroutines,
              filterVars, serverVars
<1>4. CASE ReaderTakes
  <2>1. /\ fkv # 0 /\ last < fkv /\ start <= fkv /\ fkv <= rev /\ last' = fkv
        /\ ~panicked /\ reader \in {"reading", "closed"}
        /\ UNCHANGED <<rev, value, told, start, target>>
    BY <1>4 DEF ReaderTakes, Taken, StreamInv, Alive, serverVars, runVars
  <2>2. /\ reader' = IF value[fkv] = target /\ reader = "reading" THEN "sending"
                     ELSE reader
        /\ panicked' = (value[fkv] = target /\ reader = "closed")
    BY <1>4 DEF ReaderTakes
  <2>3. CASE reader = "reading"
    BY <2>1, <2>2, <2>3
  <2>4. CASE reader = "closed" /\ value[fkv] # target
    BY <2>1, <2>2, <2>4
  <2>5. CASE reader = "closed" /\ value[fkv] = target
    <3>1. told # 0 /\ told <= last /\ value[told] = target /\ start <= told
      BY <2>5
    <3>2. value[told + 1] # target /\ told + 1 < fkv
      BY <2>1, <2>5, <3>1 DEF KeyInv
    <3>3. PanicOnlyOnReturn'
      BY <2>1, <2>5, <3>2
    <3> QED BY <2>1, <2>2, <2>5, <3>1, <3>3
  <2> QED BY <2>1, <2>3, <2>4, <2>5
<1>5. CASE ~(Migrated \/ Noticed \/ ReaderTakes)
  <2>1. UNCHANGED <<reader, told, panicked, last, start>>
    BY <1>5 DEF Next, vars, streamVars, goroutines, filterVars, runVars, Promote,
                Write, CompareAndUpdate, Put, SyncChanges, Server, Lookup,
                MigrateExec, MigrateFail, Run, Goto, Migrate, MigrateErrs, TimesOut,
                Unmigrated, Resumed, Released, Streams, Stream, Quit, WatchStarts,
                WatchEvent, WatchEnds, PollGet, PollFails, PollAgain, PollEnds,
                FilterTakesWatched, FilterTakesPolled, FilterCloses
  <2> QED BY <1>1, <2>1
<1> QED BY <1>2, <1>3, <1>4, <1>5

THEOREM Invariant == Spec => []CutoverInv
<1>1. Init => CutoverInv
  BY DEF Init, StreamInit, CutoverInv, StreamInv, KeyInv, CallInv, ReaderInv,
         PanicOnlyOnReturn
<1>2. Values /\ Flags /\ CutoverInv /\ [Next]_vars => CutoverInv'
  <2> SUFFICES ASSUME Values, Flags, CutoverInv, [Next]_vars PROVE CutoverInv'
    OBVIOUS
  <2>1. StreamInv'
    BY StreamStep DEF CutoverInv
  <2>2. KeyInv'
    BY KeyStep DEF CutoverInv
  <2>3. CallInv'
    BY CallStep DEF CutoverInv
  <2>4. ReaderInv'
    BY <2>3, KeyStep, CallStep, ReaderStep DEF CutoverInv
  <2> QED
    BY <2>1, <2>2, <2>3, <2>4 DEF CutoverInv
<1>3. TypeOK => Values /\ Flags
  BY Types
<1> QED
  BY <1>1, <1>2, <1>3, TypeCorrect, PTL DEF Spec

-----------------------------------------------------------------------------
\* The run waits for the node that Pacemaker was told to promote, whatever becomes of
\* the standby between the lookup and `crm resource migrate`.
THEOREM Waits == Spec => []WaitsForMigrated
<1>1. CutoverInv => WaitsForMigrated
  BY DEF CutoverInv, CallInv, WaitsForMigrated
<1> QED
  BY <1>1, Invariant, PTL

\* What ends the wait of NotifyWhenMaster was in etcd when it began or came later.
THEOREM Current == Spec => []ObservedCurrent
<1>1. CutoverInv => ObservedCurrent
  BY DEF CutoverInv, ReaderInv, ObservedCurrent
<1> QED
  BY <1>1, Invariant, PTL

\* The goroutine of NotifyWhenMaster that reads on sends on its closed channel only if
\* etcd has left the target and come back to it.
THEOREM OnReturn == Spec => []PanicOnlyOnReturn
<1>1. CutoverInv => PanicOnlyOnReturn
  BY DEF CutoverInv, ReaderInv
<1> QED
  BY <1>1, Invariant, PTL
================================================================================
