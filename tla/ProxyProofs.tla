------------------------------ MODULE ProxyProofs ------------------------------
(***************************************************************************)
(* Proxy for every number of changes and restarts: PgBouncer is never      *)
(* pointed back, RetryFold takes the kvs in order and once, and waits only *)
(* when PgBouncer uses the last one.                                       *)
(***************************************************************************)
EXTENDS Proxy, TLAPS

\* The types, apart: the Booleans, the poll that sends, and the rest.
Flags == quit \in BOOLEAN /\ fdone \in BOOLEAN /\ reload \in BOOLEAN

Values ==
    /\ rev \in Revision /\ seen \in Revision /\ last \in Revision
    /\ wkv \in Revision /\ pkv \in Revision /\ fkv \in Revision
    /\ watch \in {"dialing", "on", "ended"}
    /\ poll \in {"get", "send", "wait", "ended"}
    /\ fold \in {"recv", "generate", "reload", "sent", "failed", "returned",
                 "panicked"}
    /\ kv \in Revision /\ file \in Revision /\ loaded \in Revision
    /\ starts \in 1 .. MaxStarts

LEMMA Types == TypeOK <=> Flags /\ Values /\ PollTypeOK
  BY DEF TypeOK, StreamTypeOK, Flags, Values

\* The variables of the stream and of the proxy keep their types.
THEOREM TypeCorrect == Spec => []TypeOK
<1> USE StreamAssumption, ProxyAssumption
<1>1. Init => Flags /\ Values /\ PollTypeOK
  <2>1. Init => Flags
    BY DEF Init, StreamInit, Flags
  <2>2. Init => Values
    BY DEF Init, StreamInit, Values, Revision
  <2>3. Init => PollTypeOK
    BY DEF Init, StreamInit, PollTypeOK
  <2> QED
    BY <2>1, <2>2, <2>3
<1>2. Flags /\ Values /\ PollTypeOK /\ [Next]_vars => (Flags /\ Values /\ PollTypeOK)'
  <2> SUFFICES ASSUME Flags, Values, PollTypeOK, [Next]_vars
               PROVE  Flags' /\ Values' /\ PollTypeOK'
    OBVIOUS
  <2> USE DEF vars, goroutines, filterVars, streamVars, foldVars, bouncerVars,
              Next, Streams, Stream, Fold, WatchStarts, WatchEvent, WatchEnds,
              PollGet, PollFails, PollAgain, PollEnds, FilterTakesWatched,
              FilterTakesPolled, FilterCloses, Quit, Put, NextKv, Taken, FoldReturns,
              Retry, NilKv, Generated, GenerateFails, ReloadSent, Reloaded,
              ReloadFails, LateReload, Restart, NewStream
  <2>1. Flags'
    BY DEF Flags
  <2>2. Values'
    BY DEF Values, Revision, Pass
  <2>3. PollTypeOK'
    BY DEF PollTypeOK, Values, Revision
  <2> QED
    BY <2>1, <2>2, <2>3
<1> QED
  BY <1>1, <1>2, Types, PTL DEF Spec

LEMMA ValuesCorrect == Spec => []Values
<1>1. TypeOK => Values
  BY Types
<1> QED
  BY <1>1, TypeCorrect, PTL

\* What is on its way to PgBouncer is no older than what PgBouncer uses: the
\* filter takes care of that within a process, and etcd across restarts.
THEOREM StaysFresh == Spec => []FreshInv
<1> USE DEF FreshInv, SourceFresh, InFlightFresh, FoldFresh, Fresh
<1>1. Init => FreshInv
  BY DEF Init, StreamInit
<1>2. Values /\ FreshInv /\ [Next]_vars => FreshInv'
  <2> SUFFICES ASSUME Values, FreshInv, [Next]_vars PROVE FreshInv'
    OBVIOUS
  <2> USE DEF Values, Revision, goroutines, filterVars, streamVars, foldVars,
              bouncerVars
  <2> USE StreamAssumption
  <2>1. ASSUME UNCHANGED <<foldVars, bouncerVars, starts>>, Stream PROVE FreshInv'
    <3>1. CASE WatchStarts
      BY <2>1, <3>1 DEF WatchStarts
    <3>2. CASE WatchEvent
      BY <2>1, <3>2 DEF WatchEvent
    <3>3. CASE WatchEnds
      BY <2>1, <3>3 DEF WatchEnds
    <3>4. CASE PollGet
      BY <2>1, <3>4 DEF PollGet
    <3>5. CASE PollFails \/ PollAgain \/ PollEnds
      BY <2>1, <3>5 DEF PollFails, PollAgain, PollEnds
    <3>6. CASE FilterTakesWatched
      BY <2>1, <3>6 DEF FilterTakesWatched, Pass
    <3>7. CASE FilterTakesPolled
      BY <2>1, <3>7 DEF FilterTakesPolled, Pass
    <3>8. CASE FilterCloses
      BY <2>1, <3>8 DEF FilterCloses
    <3> QED
      BY <2>1, <3>1, <3>2, <3>3, <3>4, <3>5, <3>6, <3>7, <3>8 DEF Stream
  <2>2. ASSUME UNCHANGED <<foldVars, bouncerVars, starts>>, Quit PROVE FreshInv'
    BY <2>2 DEF Quit
  <2>3. ASSUME UNCHANGED <<foldVars, bouncerVars, starts>>, Put PROVE FreshInv'
    BY <2>3 DEF Put
  <2>4. CASE NextKv
    <3>1. /\ fkv # 0 /\ fkv > last /\ Fresh(fkv)
          /\ kv' = fkv /\ last' = fkv /\ fkv' = 0 /\ fold' = "generate"
          /\ UNCHANGED <<rev, watch, seen, wkv, pkv, file, loaded>>
      BY <2>4 DEF NextKv, Taken
    <3>2. SourceFresh'
      BY <3>1
    <3>3. InFlightFresh'
      BY <3>1
    <3>4. FoldFresh'
      BY <3>1
    <3> QED
      BY <3>2, <3>3, <3>4
  <2>5. CASE FoldReturns \/ Retry \/ NilKv
    BY <2>5 DEF FoldReturns, Retry, NilKv
  <2>6. CASE Generated
    BY <2>6 DEF Generated
  <2>7. CASE GenerateFails
    BY <2>7 DEF GenerateFails
  <2>8. CASE ReloadSent \/ ReloadFails
    BY <2>8 DEF ReloadSent, ReloadFails
  <2>9. CASE Reloaded
    BY <2>9 DEF Reloaded
  <2>10. CASE LateReload
    BY <2>10 DEF LateReload
  <2>11. CASE Restart
    BY <2>11 DEF Restart, NewStream
  <2>12. CASE UNCHANGED vars
    BY <2>12 DEF vars
  <2>13. Fold => NextKv \/ (FoldReturns \/ Retry \/ NilKv) \/ Generated
                 \/ GenerateFails \/ (ReloadSent \/ ReloadFails) \/ Reloaded
    BY DEF Fold
  <2>14. CASE Fold
    BY <2>4, <2>5, <2>6, <2>7, <2>8, <2>9, <2>13, <2>14
  <2>15. CASE Streams(Stream) \/ Streams(Quit)
    BY <2>1, <2>2, <2>15 DEF Streams
  <2> QED
    BY <2>3, <2>10, <2>11, <2>12, <2>14, <2>15 DEF Next
<1> HIDE DEF FreshInv, SourceFresh, InFlightFresh, FoldFresh, Fresh
<1> QED
  BY <1>1, <1>2, ValuesCorrect, PTL DEF Spec

\* RetryFold waits for the next kv only when PgBouncer uses the last one.
THEOREM AppliedAlways == Spec => []Applied
<1>1. FreshInv => Applied
  BY DEF FreshInv, FoldFresh, Applied
<1> QED
  BY <1>1, StaysFresh, PTL

\* PgBouncer is never pointed back at an earlier primary.
THEOREM NeverGoesBack == Spec => NeverBack
<1>1. Values /\ FreshInv /\ [Next]_vars => [loaded' >= loaded]_vars
  <2> SUFFICES ASSUME Values, FreshInv, Next PROVE loaded' >= loaded
    BY DEF vars
  <2> USE DEF Values, Revision, FreshInv, FoldFresh, foldVars, bouncerVars
  <2> USE StreamAssumption
  <2>1. CASE Reloaded
    BY <2>1 DEF Reloaded, Fresh
  <2>2. CASE LateReload
    BY <2>2 DEF LateReload
  <2>3. CASE ~Reloaded /\ ~LateReload
    <3>1. UNCHANGED loaded
      BY <2>3 DEF Next, Streams, Fold, NextKv, FoldReturns, Retry, NilKv, Generated,
                  GenerateFails, ReloadSent, ReloadFails, Restart
    <3> QED
      BY <3>1
  <2> QED
    BY <2>1, <2>2, <2>3
<1> QED
  BY <1>1, ValuesCorrect, StaysFresh, PTL DEF Spec, NeverBack

\* RetryFold takes every kv once, in the order of the revisions.
THEOREM InOrder == Spec => FoldedInOrder
<1>1. FreshInv /\ [Next]_vars =>
          [fkv # 0 /\ fkv' = 0 /\ kv' = fkv => kv' > kv]_vars
  BY DEF FreshInv, InFlightFresh, FoldFresh
<1> QED
  BY <1>1, StaysFresh, PTL DEF Spec, FoldedInOrder
=============================================================================
