------------------------------ MODULE PrimaryKey ------------------------------
(***************************************************************************)
(* What the supervise processes of all nodes together promise of the etcd  *)
(* key of the primary: it holds a node that is, or has been, the primary.  *)
(* It may lag, and it may go back; how far is for Supervise to say.        *)
(***************************************************************************)
CONSTANTS Node,
          None          \* the key does not exist yet

VARIABLES primary,      \* the node that Pacemaker reports
          past,         \* the nodes that it has reported so far
          master        \* the node whose address is in etcd

vars == <<primary, past, master>>

Init ==
    /\ primary \in Node /\ past = {primary}
    /\ master = None

Move ==
    /\ primary' \in Node \ {primary}
    /\ past' = past \cup {primary'}
    /\ UNCHANGED master

\* CompareAndUpdate writes only what is not there already.
Write ==
    /\ master' \in past \ {master}
    /\ UNCHANGED <<primary, past>>

Next == Move \/ Write

Spec == Init /\ [][Next]_vars
=============================================================================
