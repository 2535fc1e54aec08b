---------------------------- MODULE SuperviseProofs ----------------------------
(* Theorems about Supervise, for every number of supervisors, nodes, moves of the *)
(* primary and disturbances.                                                      *)
EXTENDS Supervise, TLAPS

USE SuperviseAssumption

IInv == TypeOK /\ WriteInv

\* Most steps: process s goes on as p, and etcd keeps what it has.  They preserve the
\* invariant if p is watchful where s was, and has news for etcd where s had none.
Kept(s, p) ==
    /\ p \in Process /\ KvTypeOK(p)
    /\ Watchful(sup[s]) => Watchful(p)
    /\ Idle(p) => p.seen = None \/ (Idle(sup[s]) /\ p.seen = sup[s].seen)

LEMMA KeptInv ==
    ASSUME IInv, NEW s \in Supervisor, NEW p, Kept(s, p),
           sup' = [sup EXCEPT ![s] = p], faults' \in 0 .. MaxFaults,
           UNCHANGED <<primary, past, moves, master>>
    PROVE  IInv'
<1>1. TypeOK'
  BY DEF IInv, TypeOK, Kept, KvTypeOK
<1>2. MasterKnown'
  BY DEF IInv, TypeOK, WriteInv, MasterKnown, Kept, Idle
<1>3. Correctable'
  <2>1. SUFFICES ASSUME master # None PROVE \E t \in Supervisor : Watchful(sup[t])'
    BY DEF Correctable
  <2>2. PICK t \in Supervisor : Watchful(sup[t])
    BY <2>1 DEF IInv, WriteInv, Correctable
  <2>3. CASE t = s
    BY <2>2, <2>3 DEF IInv, TypeOK, Kept, Watchful, Idle
  <2>4. CASE t # s
    BY <2>2, <2>4 DEF IInv, TypeOK, Watchful, Idle
  <2> QED BY <2>3, <2>4
<1> QED BY <1>1, <1>2, <1>3 DEF IInv, WriteInv

\* What the steps below need of the types, most of the time.
LEMMA InProcess ==
    ASSUME IInv, NEW s \in Supervisor
    PROVE  sup[s] \in Process
BY DEF IInv, TypeOK

\* A step that leaves to process s its work for etcd is one of them: it changes only
\* what the poll, the API or the context do, or how far the operation is.
LEMMA SameWork ==
    ASSUME IInv, NEW s \in Supervisor, NEW p \in Process,
           p.up = sup[s].up, p.passed = sup[s].passed, p.seen = sup[s].seen,
           p.kv = sup[s].kv, p.fold = sup[s].fold
    PROVE  Kept(s, p)
BY DEF IInv, TypeOK, KvTypeOK, Kept, Watchful, Idle

\* So is one after which process s has work to do, or none any more.
LEMMA Busy ==
    ASSUME NEW s \in Supervisor, NEW p \in Process, KvTypeOK(p), ~Idle(p)
    PROVE  Kept(s, p)
BY DEF Kept, Watchful

\* A transaction writes the kv of process s, which goes on as p: the one step by
\* which etcd may get an old value.  But s is the one to know.
LEMMA WrittenInv ==
    ASSUME IInv, NEW s \in Supervisor, sup[s].fold = "commit",
           NEW f \in {"recv", "failed"},
           sup' = [sup EXCEPT ![s] = [sup[s] EXCEPT !.fold = f]],
           master' = sup[s].kv, UNCHANGED <<primary, past, moves, faults>>
    PROVE  IInv'
<1>1. TypeOK' /\ master' # None
  BY DEF IInv, TypeOK, KvTypeOK, Process, KvOrNone
<1>2. MasterKnown'
  BY <1>1 DEF MasterKnown
<1>3. Watchful(sup[s])'
  BY DEF IInv, TypeOK, KvTypeOK, Process, Watchful, Idle
<1>4. Correctable'
  BY <1>3 DEF Correctable
<1> QED BY <1>1, <1>2, <1>4 DEF IInv, WriteInv

LEMMA InitInv == Init => IInv
BY DEF Init, IInv, TypeOK, KvTypeOK, Process, KvOrNone, Started, WriteInv,
       Correctable, MasterKnown, Idle

LEMMA NextInv == IInv /\ [Next]_vars => IInv'
<1> SUFFICES ASSUME IInv, [Next]_vars PROVE IInv'
  OBVIOUS
<1> USE DEF Becomes, Disturbed
<1>1. CASE UNCHANGED vars
  BY <1>1 DEF IInv, TypeOK, KvTypeOK, WriteInv, Correctable, MasterKnown,
              Watchful, Idle, vars
<1>2. CASE Move
  BY <1>2 DEF IInv, TypeOK, KvTypeOK, WriteInv, Correctable, MasterKnown,
              Watchful, Idle, Move
<1>3. ASSUME NEW s \in Supervisor, Stream(s) PROVE IInv'
  <2>1. CASE Polled(s)
    <3>1. Kept(s, [sup[s] EXCEPT !.offered = primary])
      BY SameWork DEF IInv, TypeOK, Process, KvOrNone
    <3> QED BY <2>1, <3>1, KeptInv DEF Polled, IInv, TypeOK
  <2>2. CASE PollEnds(s)
    <3>1. Kept(s, [sup[s] EXCEPT !.polling = FALSE])
      <4> DEFINE p == [sup[s] EXCEPT !.polling = FALSE]
      <4>1. p \in Process
        BY InProcess DEF Process
      <4>2. /\ p.up = sup[s].up /\ p.passed = sup[s].passed
            /\ p.seen = sup[s].seen /\ p.kv = sup[s].kv
            /\ p.fold = sup[s].fold
        BY InProcess DEF Process
      <4> HIDE DEF p
      <4>3. Kept(s, p)
        BY <4>1, <4>2, SameWork
      <4> QED BY <4>3 DEF p
    <3> QED BY <2>2, <3>1, KeptInv DEF PollEnds, IInv, TypeOK
  <2>3. CASE Deduped(s)
    <3>1. PICK k \in KvOrNone : k = Changed(sup[s])
      BY DEF Changed, IInv, TypeOK, Process, KvOrNone
    <3>2. [sup[s] EXCEPT !.offered = None, !.passed = k] \in Process
      <4>1. sup[s] \in Process /\ None \in KvOrNone
        BY InProcess DEF KvOrNone
      <4> QED BY <4>1 DEF Process
    <3>3. Kept(s, [sup[s] EXCEPT !.offered = None, !.passed = k])
      <4> DEFINE p == [sup[s] EXCEPT !.offered = None, !.passed = k]
      <4>1. sup[s] \in Process /\ KvTypeOK(sup[s]) /\ sup[s].passed = None
        BY <2>3 DEF Deduped, IInv, TypeOK
      <4>2. /\ p.up = sup[s].up /\ p.fold = sup[s].fold
            /\ p.seen = sup[s].seen /\ p.kv = sup[s].kv
        BY <4>1 DEF Process
      <4>3. p \in Process
        BY <3>2
      <4> HIDE DEF p
      <4>4. KvTypeOK(p) /\ (Idle(p) => Idle(sup[s]))
        BY <4>1, <4>2 DEF KvTypeOK, Idle
      <4>5. Kept(s, p)
        BY <4>2, <4>3, <4>4 DEF Kept, Watchful
      <4> QED BY <4>5 DEF p
    <3> QED BY <2>3, <3>1, <3>3, KeptInv DEF Deduped, IInv, TypeOK
  <2> QED BY <1>3, <2>1, <2>2, <2>3 DEF Stream
<1>4. ASSUME NEW s \in Supervisor, Fold(s) PROVE IInv'
  <2>1. CASE NextKv(s)
    <3>1. Kept(s, Taken(sup[s]))
      <4>1. sup[s] \in Process /\ sup[s].passed # None
        BY <2>1 DEF NextKv, IInv, TypeOK
      <4>2. Taken(sup[s]) \in Process
        BY <4>1 DEF Taken, Process, KvOrNone
      <4>3. /\ Taken(sup[s]).fold = "resolve"
            /\ Taken(sup[s]).kv = sup[s].passed /\ Taken(sup[s]).seen = sup[s].passed
        BY <4>1 DEF Taken, Process
      <4> QED BY <4>1, <4>2, <4>3, Busy DEF KvTypeOK, Idle
    <3> QED BY <2>1, <3>1, KeptInv DEF NextKv, IInv, TypeOK
  <2>2. CASE FoldReturns(s)
    <3>1. Kept(s, [sup[s] EXCEPT !.fold = "returned"])
      <4>1. /\ [sup[s] EXCEPT !.fold = "returned"] \in Process
            /\ [sup[s] EXCEPT !.fold = "returned"].fold # "recv"
            /\ KvTypeOK([sup[s] EXCEPT !.fold = "returned"])
        BY <2>2 DEF FoldReturns, IInv, TypeOK, KvTypeOK, Process
      <4> QED BY <4>1, Busy DEF Idle
    <3> QED BY <2>2, <3>1, KeptInv DEF FoldReturns, IInv, TypeOK
  <2>3. CASE Retry(s)
    <3>1. Kept(s, [sup[s] EXCEPT !.fold = "resolve"])
      <4>1. /\ [sup[s] EXCEPT !.fold = "resolve"] \in Process
            /\ [sup[s] EXCEPT !.fold = "resolve"].fold # "recv"
            /\ KvTypeOK([sup[s] EXCEPT !.fold = "resolve"])
        BY <2>3 DEF Retry, IInv, TypeOK, KvTypeOK, Process
      <4> QED BY <4>1, Busy DEF Idle
    <3> QED BY <2>3, <3>1, KeptInv DEF Retry, IInv, TypeOK
  <2>4. CASE NilKv(s)
    <3>1. Kept(s, Ended)
      BY DEF Ended, Started, KvTypeOK, Process, KvOrNone, Kept, Watchful, Idle
    <3> QED BY <2>4, <3>1, KeptInv DEF NilKv, IInv, TypeOK
  <2>5. CASE Resolved(s)
    <3>1. Kept(s, [sup[s] EXCEPT !.fold = "commit"])
      <4>1. /\ [sup[s] EXCEPT !.fold = "commit"] \in Process
            /\ [sup[s] EXCEPT !.fold = "commit"].fold # "recv"
            /\ KvTypeOK([sup[s] EXCEPT !.fold = "commit"])
        BY <2>5 DEF Resolved, IInv, TypeOK, KvTypeOK, Process
      <4> QED BY <4>1, Busy DEF Idle
    <3> QED BY <2>5, <3>1, KeptInv DEF Resolved, IInv, TypeOK
  <2>6. CASE Committed(s)
    BY <2>6, WrittenInv DEF Committed
  <2>7. CASE OperationFails(s)
    <3>1. CASE master' = master
      <4>1. Kept(s, [sup[s] EXCEPT !.fold = "failed"])
        <5>1. /\ [sup[s] EXCEPT !.fold = "failed"] \in Process
              /\ [sup[s] EXCEPT !.fold = "failed"].fold # "recv"
              /\ KvTypeOK([sup[s] EXCEPT !.fold = "failed"])
          BY <2>7 DEF OperationFails, IInv, TypeOK, KvTypeOK, Process
        <5> QED BY <5>1, Busy DEF Idle
      <4> QED BY <2>7, <3>1, <4>1, KeptInv DEF OperationFails, IInv, TypeOK
    <3>2. CASE sup[s].fold = "commit" /\ master' = sup[s].kv
      BY <2>7, <3>2, WrittenInv DEF OperationFails
    <3> QED BY <2>7, <3>1, <3>2 DEF OperationFails
  <2> QED BY <1>4, <2>1, <2>2, <2>3, <2>4, <2>5, <2>6, <2>7 DEF Fold
<1>5. ASSUME NEW s \in Supervisor, Stops(s) PROVE IInv'
  <2>1. CASE GracefulStop(s)
    <3>1. Kept(s, [sup[s] EXCEPT !.serving = FALSE])
      <4> DEFINE p == [sup[s] EXCEPT !.serving = FALSE]
      <4>1. p \in Process
        BY InProcess DEF Process
      <4>2. /\ p.up = sup[s].up /\ p.passed = sup[s].passed
            /\ p.seen = sup[s].seen /\ p.kv = sup[s].kv
            /\ p.fold = sup[s].fold
        BY InProcess DEF Process
      <4> HIDE DEF p
      <4>3. Kept(s, p)
        BY <4>1, <4>2, SameWork
      <4> QED BY <4>3 DEF p
    <3> QED BY <2>1, <3>1, KeptInv DEF GracefulStop, IInv, TypeOK
  <2>2. CASE Exits(s)
    <3>1. Kept(s, Ended)
      BY DEF Ended, Started, KvTypeOK, Process, KvOrNone, Kept, Watchful, Idle
    <3> QED BY <2>2, <3>1, KeptInv DEF Exits, IInv, TypeOK
  <2> QED BY <1>5, <2>1, <2>2 DEF Stops
<1>6. ASSUME NEW s \in Supervisor,
             ServeFails(s) \/ Quit(s) \/ Crash(s) \/ Start(s)
      PROVE  IInv'
  <2>1. faults' \in 0 .. MaxFaults
    BY <1>6 DEF ServeFails, Quit, Crash, Start, IInv, TypeOK
  <2>2. CASE ServeFails(s)
    <3>1. Kept(s, [sup[s] EXCEPT !.serving = FALSE])
      <4> DEFINE p == [sup[s] EXCEPT !.serving = FALSE]
      <4>1. p \in Process
        BY InProcess DEF Process
      <4>2. /\ p.up = sup[s].up /\ p.passed = sup[s].passed
            /\ p.seen = sup[s].seen /\ p.kv = sup[s].kv
            /\ p.fold = sup[s].fold
        BY InProcess DEF Process
      <4> HIDE DEF p
      <4>3. Kept(s, p)
        BY <4>1, <4>2, SameWork
      <4> QED BY <4>3 DEF p
    <3> QED BY <2>1, <2>2, <3>1, KeptInv DEF ServeFails
  <2>3. CASE Quit(s)
    <3>1. Kept(s, [sup[s] EXCEPT !.quit = TRUE])
      <4> DEFINE p == [sup[s] EXCEPT !.quit = TRUE]
      <4>1. p \in Process
        BY InProcess DEF Process
      <4>2. /\ p.up = sup[s].up /\ p.passed = sup[s].passed
            /\ p.seen = sup[s].seen /\ p.kv = sup[s].kv
            /\ p.fold = sup[s].fold
        BY InProcess DEF Process
      <4> HIDE DEF p
      <4>3. Kept(s, p)
        BY <4>1, <4>2, SameWork
      <4> QED BY <4>3 DEF p
    <3> QED BY <2>1, <2>3, <3>1, KeptInv DEF Quit
  <2>4. CASE Crash(s)
    <3>1. Kept(s, Ended)
      BY DEF Ended, Started, KvTypeOK, Process, KvOrNone, Kept, Watchful, Idle
    <3> QED BY <2>1, <2>4, <3>1, KeptInv DEF Crash
  <2>5. CASE Start(s)
    <3>1. Kept(s, Started)
      BY DEF Started, KvTypeOK, Process, KvOrNone, Kept, Watchful, Idle
    <3> QED BY <2>1, <2>5, <3>1, KeptInv DEF Start
  <2> QED BY <1>6, <2>2, <2>3, <2>4, <2>5
<1> QED BY <1>1, <1>2, <1>3, <1>4, <1>5, <1>6 DEF Next

THEOREM Invariant == Spec => []IInv
BY InitInv, NextInv, PTL DEF Spec

-----------------------------------------------------------------------------
\* Every variable keeps its type; RetryFold works on the kv that DedupeFilter
\* remembers, and never on none.
THEOREM TypeCorrect == Spec => []TypeOK
<1>1. IInv => TypeOK
  BY DEF IInv
<1> QED BY <1>1, Invariant, PTL

\* However polls and transactions of the supervisors overtake each other, and
\* whichever of them are killed and started again: once all have seen the primary and
\* have nothing left to do, etcd has it.
THEOREM Settles == Spec => []Settled
<1>1. IInv => Settled
  <2>1. SUFFICES ASSUME IInv,
                        \A s \in Supervisor :
                            Idle(sup[s]) /\ sup[s].seen = primary
                 PROVE  master = primary
    BY DEF Settled
  <2>2. primary # None
    BY <2>1 DEF IInv, TypeOK
  <2>3. PICK s \in Supervisor : Watchful(sup[s])
    BY <2>1, <2>2 DEF IInv, WriteInv, MasterKnown, Correctable
  <2> QED BY <2>1, <2>2, <2>3 DEF Watchful
<1> QED BY <1>1, Invariant, PTL

-----------------------------------------------------------------------------
(* The processes are a PrimaryKey *)

\* Most steps: process s goes on with no kv that is not of a primary, and etcd keeps
\* what it has or gets such a kv.
LEMMA CarriedOn ==
    ASSUME TypeOK, KvInv, NEW s \in Supervisor, NEW p, InFlight(p) \subseteq past,
           sup' = [sup EXCEPT ![s] = p], UNCHANGED <<primary, past>>,
           master' = master \/ master' \in past
    PROVE  KvInv' /\ [Key!Next]_(Key!vars)
<1>1. \A t \in Supervisor : InFlight(sup'[t]) \subseteq past
  BY DEF TypeOK, KvInv
<1>2. InFlight(sup[s])' = InFlight(sup'[s])
  BY DEF InFlight
<1>3. KvInv'
  BY <1>1 DEF KvInv, InFlight
<1>4. [Key!Next]_(Key!vars)
  BY DEF Key!Next, Key!Write, Key!vars
<1> QED BY <1>3, <1>4

\* A process that keeps its kvs, or drops some.
LEMMA NoNewKv ==
    ASSUME KvInv, NEW s \in Supervisor, NEW p,
           InFlight(p) \subseteq InFlight(sup[s])
    PROVE  InFlight(p) \subseteq past
BY DEF KvInv

LEMMA KeyStep ==
    TypeOK /\ KvInv /\ [Next]_vars => KvInv' /\ [Key!Next]_(Key!vars)
<1> SUFFICES ASSUME TypeOK, KvInv, [Next]_vars
             PROVE  KvInv' /\ [Key!Next]_(Key!vars)
  OBVIOUS
<1> USE DEF Becomes, Disturbed
<1>0. \A s \in Supervisor : sup[s] \in Process
  BY DEF TypeOK
<1>1. CASE UNCHANGED vars
  BY <1>1 DEF vars, KvInv, InFlight, Key!vars
<1>2. CASE Move
  BY <1>2 DEF Move, KvInv, InFlight, Key!Next, Key!Move
<1>3. ASSUME NEW s \in Supervisor, Stream(s) PROVE KvInv' /\ [Key!Next]_(Key!vars)
  <2>1. CASE Polled(s)
    <3>1. InFlight([sup[s] EXCEPT !.offered = primary]) \subseteq past
      BY <1>0 DEF Process, InFlight, KvInv
    <3> QED BY <2>1, <3>1, CarriedOn DEF Polled
  <2>2. CASE PollEnds(s)
    <3>1. InFlight([sup[s] EXCEPT !.polling = FALSE]) \subseteq past
      BY <1>0, NoNewKv DEF Process, InFlight
    <3> QED BY <2>2, <3>1, CarriedOn DEF PollEnds
  <2>3. CASE Deduped(s)
    <3>1. InFlight([sup[s] EXCEPT !.offered = None, !.passed = Changed(sup[s])])
              \subseteq past
      BY <1>0, NoNewKv DEF Process, InFlight, Changed
    <3> QED BY <2>3, <3>1, CarriedOn DEF Deduped
  <2> QED BY <1>3, <2>1, <2>2, <2>3 DEF Stream
<1>4. ASSUME NEW s \in Supervisor, NEW f,
             sup' = [sup EXCEPT ![s] = [sup[s] EXCEPT !.fold = f]],
             UNCHANGED <<primary, past>>,
             master' = master \/ (sup[s].fold = "commit" /\ master' = sup[s].kv)
      PROVE  KvInv' /\ [Key!Next]_(Key!vars)
  <2>1. InFlight([sup[s] EXCEPT !.fold = f]) \subseteq past
    BY <1>0, NoNewKv DEF Process, InFlight
  <2>2. sup[s].fold = "commit" => sup[s].kv \in past
    BY <1>0 DEF TypeOK, KvTypeOK, KvInv, InFlight
  <2> QED BY <1>4, <2>1, <2>2, CarriedOn
<1>5. ASSUME NEW s \in Supervisor, Fold(s) PROVE KvInv' /\ [Key!Next]_(Key!vars)
  <2>1. CASE NextKv(s)
    <3>1. InFlight(Taken(sup[s])) \subseteq past
      BY <1>0, NoNewKv DEF Process, InFlight, Taken
    <3> QED BY <2>1, <3>1, CarriedOn DEF NextKv
  <2>2. CASE NilKv(s)
    <3>1. InFlight(Ended) \subseteq past
      BY DEF Ended, Started, InFlight
    <3> QED BY <2>2, <3>1, CarriedOn DEF NilKv
  <2>3. CASE FoldReturns(s) \/ Retry(s) \/ Resolved(s)
    BY <1>4, <2>3 DEF FoldReturns, Retry, Resolved
  <2>4. CASE Committed(s) \/ OperationFails(s)
    BY <1>4, <2>4 DEF Committed, OperationFails
  <2> QED BY <1>5, <2>1, <2>2, <2>3, <2>4 DEF Fold
<1>6. ASSUME NEW s \in Supervisor, Stops(s) \/ ServeFails(s) \/ Quit(s)
      PROVE  KvInv' /\ [Key!Next]_(Key!vars)
  <2>1. CASE Exits(s)
    <3>1. InFlight(Ended) \subseteq past
      BY DEF Ended, Started, InFlight
    <3> QED BY <2>1, <3>1, CarriedOn DEF Exits
  <2>2. CASE GracefulStop(s) \/ ServeFails(s)
    <3>1. InFlight([sup[s] EXCEPT !.serving = FALSE]) \subseteq past
      BY <1>0, NoNewKv DEF Process, InFlight
    <3> QED BY <2>2, <3>1, CarriedOn DEF GracefulStop, ServeFails
  <2>3. CASE Quit(s)
    <3>1. InFlight([sup[s] EXCEPT !.quit = TRUE]) \subseteq past
      BY <1>0, NoNewKv DEF Process, InFlight
    <3> QED BY <2>3, <3>1, CarriedOn DEF Quit
  <2> QED BY <1>6, <2>1, <2>2, <2>3 DEF Stops
<1>7. ASSUME NEW s \in Supervisor, Crash(s) \/ Start(s)
      PROVE  KvInv' /\ [Key!Next]_(Key!vars)
  <2>1. InFlight(Ended) \subseteq past /\ InFlight(Started) \subseteq past
    BY DEF Ended, Started, InFlight
  <2> QED BY <1>7, <2>1, CarriedOn DEF Crash, Start
<1> QED BY <1>1, <1>2, <1>3, <1>5, <1>6, <1>7 DEF Next

\* Every step of the processes maps to a step or a stutter of PrimaryKey: only
\* primaries get into etcd, by whatever chain of polls, retries and restarts.
THEOREM KeepsKey == Spec => KeyKept
<1>1. Init => Key!Init
  BY DEF Init, Key!Init
<1>2. Init => KvInv
  BY DEF Init, KvInv, InFlight, Started
<1> QED BY <1>1, <1>2, KeyStep, TypeCorrect, PTL DEF Spec, KeyKept, Key!Spec
=============================================================================
