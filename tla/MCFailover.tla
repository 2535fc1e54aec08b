------------------------------ MODULE MCFailover ------------------------------
(* Failover on small instances. *)
EXTENDS Failover, TLC

\* Runs and nodes are interchangeable in the safety properties.
Symmetry == Permutations(Run) \cup Permutations(Node)
=============================================================================
