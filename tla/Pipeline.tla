------------------------------ MODULE Pipeline ------------------------------
(***************************************************************************)
(* The contract of pkg/failover/pipeline.go: steps run one after the other *)
(* until one fails; a step's deferred action is registered before the step *)
(* runs, and the registered ones run last to first before the pipeline     *)
(* returns.  Failover.tla is shown to implement it.                        *)
(***************************************************************************)
EXTENDS Naturals

CONSTANTS N,          \* number of steps
          Deferred    \* the steps that were given a deferred action

ASSUME PipelineAssumption == N \in Nat \ {0} /\ Deferred \in SUBSET (1 .. N)

VARIABLES step,       \* steps entered so far; the last one entered is `step'
          unwinding,  \* the loop is over, deferred actions are running
          pending,    \* steps whose deferred action is registered and not run
          ran         \* steps whose deferred action has run

vars == <<step, unwinding, pending, ran>>

TypeOK ==
    /\ step \in 0 .. N
    /\ unwinding \in BOOLEAN
    /\ pending \in SUBSET Deferred
    /\ ran \in SUBSET Deferred

Init ==
    /\ step = 0
    /\ unwinding = FALSE
    /\ pending = {}
    /\ ran = {}

\* Mutant: the loop runs once too often.
EnterBeyond ==
    /\ ~unwinding /\ step <= N
    /\ step' = step + 1
    /\ pending' = pending \cup (Deferred \cap {step + 1})
    /\ UNCHANGED <<unwinding, ran>>

\* Mutant: the deferred action of a step is registered once it succeeded.
EnterThenDefer ==
    /\ ~unwinding /\ step < N
    /\ step' = step + 1
    /\ pending' = pending \cup (Deferred \cap {step})
    /\ UNCHANGED <<unwinding, ran>>

\* The step before succeeded (or there is none): register, then enter.
Enter ==
    /\ ~unwinding /\ step < N
    /\ step' = step + 1
    /\ pending' = pending \cup (Deferred \cap {step + 1})
    /\ UNCHANGED <<unwinding, ran>>

\* The step entered last failed, or it was the last one.
Leave ==
    /\ ~unwinding /\ step > 0
    /\ unwinding' = TRUE
    /\ UNCHANGED <<step, pending, ran>>

\* Mutant: first in, first out.
RunInOrder ==
    /\ unwinding
    /\ \E i \in pending :
        /\ \A j \in pending : j >= i
        /\ pending' = pending \ {i}
        /\ ran' = ran \cup {i}
    /\ UNCHANGED <<step, unwinding>>

\* Mutant: an error of the first deferred action ends the others.
RunFirstOnly ==
    /\ unwinding /\ ran = {}
    /\ \E i \in pending :
        /\ \A j \in pending : j <= i
        /\ pending' = pending \ {i}
        /\ ran' = ran \cup {i}
    /\ UNCHANGED <<step, unwinding>>

\* Go runs deferred calls last in, first out.
RunDeferred ==
    /\ unwinding
    /\ \E i \in pending :
        /\ \A j \in pending : j <= i
        /\ pending' = pending \ {i}
        /\ ran' = ran \cup {i}
    /\ UNCHANGED <<step, unwinding>>

Next == Enter \/ Leave \/ RunDeferred

Spec == Init /\ [][Next]_vars /\ WF_vars(Next)

Returned == unwinding /\ pending = {}

-----------------------------------------------------------------------------
\* An action is pending only if its step was entered, none runs before the
\* loop is over, and later steps are cleaned up before earlier ones: the lock
\* is released last.  (defer deferAction(deferCtx), inside the loop.)
CleanupInReverse ==
    /\ \A i \in pending : i <= step
    /\ ran # {} => unwinding
    /\ \A i \in ran, j \in pending : j < i

\* A pipeline that returns has run the deferred action of every step it
\* entered, and only those: also that of the step that failed ("we always
\* attempt our defer steps, even if the primary action fails").
DeferredRan == Returned => ran = {i \in Deferred : i <= step}

\* A pipeline that was started returns.
Terminates == (step > 0) ~> Returned
=============================================================================
