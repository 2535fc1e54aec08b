---------------------------- MODULE PipelineProofs ----------------------------
(***************************************************************************)
(* What Pipeline promises, for any number of steps and any choice of those *)
(* with a deferred action.                                                 *)
(***************************************************************************)
EXTENDS Pipeline, TLAPS

\* The registered and the run actions are together those of the entered steps.
Inv ==
    /\ TypeOK
    /\ CleanupInReverse
    /\ pending \cup ran = {i \in Deferred : i <= step}

\* Inv is inductive.
LEMMA Inductive == Spec => []Inv
<1> USE PipelineAssumption DEF Inv, TypeOK, CleanupInReverse
<1>1. Init => Inv
  <2> SUFFICES ASSUME Init PROVE Inv
    OBVIOUS
  <2>1. step = 0 /\ 0 \in 0 .. N /\ unwinding = FALSE /\ pending = {} /\ ran = {}
    BY DEF Init
  <2>2. \A i \in Deferred : ~(i <= step)
    BY <2>1
  <2>3. TypeOK
    BY <2>1
  <2>4. CleanupInReverse
    BY <2>1
  <2> QED
    BY <2>1, <2>2, <2>3, <2>4
<1>2. Inv /\ [Next]_vars => Inv'
  <2> SUFFICES ASSUME Inv, [Next]_vars PROVE Inv'
    OBVIOUS
  <2>1. CASE Enter
    <3>1. /\ ran = {} /\ ran' = {} /\ unwinding' = unwinding
          /\ step' = step + 1 /\ step' \in 1 .. N
          /\ pending' = pending \cup (Deferred \cap {step + 1})
      BY <2>1 DEF Enter
    <3>2. {i \in Deferred : i <= step + 1} =
             {i \in Deferred : i <= step} \cup (Deferred \cap {step + 1})
      <4>1. \A i \in Deferred : i <= step + 1 <=> i <= step \/ i = step + 1
        OBVIOUS
      <4> QED
        BY <4>1
    <3> QED
      BY <3>1, <3>2
  <2>2. CASE Leave
    BY <2>2 DEF Leave
  <2>3. CASE RunDeferred
    <3>1. PICK i \in pending : /\ \A j \in pending : j <= i
                              /\ pending' = pending \ {i}
                              /\ ran' = ran \cup {i}
      BY <2>3 DEF RunDeferred
    <3>2. unwinding /\ unwinding' = unwinding /\ step' = step
      BY <2>3 DEF RunDeferred
    <3>3. \A k \in ran', j \in pending' : j < k
      BY <3>1
    <3>4. pending' \cup ran' = pending \cup ran
      BY <3>1
    <3> QED
      BY <3>1, <3>2, <3>3, <3>4
  <2>4. CASE UNCHANGED vars
    BY <2>4 DEF vars
  <2> QED
    BY <2>1, <2>2, <2>3, <2>4 DEF Next
<1> QED
  BY <1>1, <1>2, PTL DEF Spec

\* The step and the registered actions of Pipeline are of their kinds.
THEOREM TypeCorrect == Spec => []TypeOK
  BY Inductive, PTL DEF Inv

\* The deferred actions run after the loop, each after those of the later
\* steps: what `defer` in the loop of Pipeline gives.
THEOREM Reverse == Spec => []CleanupInReverse
  BY Inductive, PTL DEF Inv

\* A pipeline that has returned ran the deferred action of each step it entered.
THEOREM Complete == Spec => []DeferredRan
<1>1. Inv => DeferredRan
  BY DEF Inv, DeferredRan, Returned
<1> QED
  BY <1>1, Inductive, PTL
=============================================================================
