------------------------------ MODULE EtcdMutex ------------------------------
(***************************************************************************)
(* The failover lock: a concurrency.Mutex of etcd's client library on a    *)
(* session of its own (cmd/failover.go makes one of each per process).     *)
(*                                                                         *)
(* A contender writes a key bound to its session's lease; it holds the     *)
(* lock once no key with a smaller create revision is left.  Revisions     *)
(* only order the keys, so the model keeps, for each run, the set of runs  *)
(* whose keys were there before its own.                                   *)
(*                                                                         *)
(* The operators are steps of the modules that EXTEND this one; each says  *)
(* what becomes of all three variables.                                    *)
(***************************************************************************)
EXTENDS Deployment

VARIABLES lease,      \* runs whose session lease is live in etcd
          keys,       \* runs whose lock key exists in etcd
          ahead       \* ahead[r]: runs whose key was older than r's

mutexVars == <<lease, keys, ahead>>

MutexTypeOK ==
    /\ lease \in SUBSET Run
    /\ keys \in SUBSET lease
    /\ ahead \in [Run -> SUBSET Run]

MutexInit ==
    /\ lease = {}
    /\ keys = {}
    /\ ahead = [r \in Run |-> {}]

\* A lease is granted and kept alive in the background.
NewSession(r) ==
    /\ lease' = lease \cup {r}
    /\ UNCHANGED <<keys, ahead>>

\* Nobody older is left: r is the owner of the lock.
Owns(r) == ahead[r] \cap keys = {}

\* Mutant: Lock waits for the keys up to its own, and not before it.
EnqueueBehindItself(r) ==
    /\ r \in lease
    /\ keys' = keys \cup {r}
    /\ ahead' = [ahead EXCEPT ![r] = keys']
    /\ UNCHANGED lease

\* Mutant: the key is put, and the older ones are not looked up.
EnqueueUnordered(r) ==
    /\ r \in lease
    /\ keys' = keys \cup {r}
    /\ ahead' = [ahead EXCEPT ![r] = {}]
    /\ UNCHANGED lease

\* The transaction of Lock: r's key is put under its lease, behind the keys
\* that exist.  etcd refuses the put when the lease is gone.
Enqueue(r) ==
    /\ r \in lease
    /\ keys' = keys \cup {r}
    /\ ahead' = [ahead EXCEPT ![r] = keys]
    /\ UNCHANGED lease

\* Unlock deletes the key; deleting a key that is not there is no error.
Unlock(r) ==
    /\ keys' = keys \ {r}
    /\ UNCHANGED <<lease, ahead>>

\* Mutant: the key was put without its lease.
LeaseExpiresAlone(r) ==
    /\ r \in lease
    /\ lease' = lease \ {r}
    /\ UNCHANGED <<keys, ahead>>

\* etcd drops a lease that is not renewed, and with it the key bound to it.
LeaseExpires(r) ==
    /\ r \in lease
    /\ lease' = lease \ {r}
    /\ keys' = keys \ {r}
    /\ UNCHANGED ahead
=============================================================================
