----------------------------- MODULE DagDirectory -----------------------------
(***************************************************************************)
(* What the scheduler replicas promise about DAG definitions, without      *)
(* sockets, gossip or Anna replicas: one store of DAG records, and a cache *)
(* per replica.  A cache entry is only ever added, by the replica's own     *)
(* creation (which also writes the store) or by copying the stored record   *)
(* of names it lacks; it is never replaced, and a cache is only ever lost   *)
(* as a whole.  When some writers of the store are replicas outside        *)
(* Replicas (External), the store may also change under every cache.       *)
(***************************************************************************)
EXTENDS FiniteSets, TLC

CONSTANTS Replicas, DagNames, DagShapes, External

VARIABLES store, cache

vars == <<store, cache>>

Put(f, k, v) == (k :> v) @@ f
NoDags == [d \in {} |-> {}]

Init ==
    /\ store = NoDags
    /\ cache = [r \in Replicas |-> NoDags]

\* A replica defines a name it does not have cached.
Create(r, d, s) ==
    /\ d \notin DOMAIN cache[r]
    /\ store' = Put(store, d, s)
    /\ cache' = [cache EXCEPT ![r] = Put(@, d, s)]

\* A replica copies the stored records of stored names it does not have.
Learn(r, names) ==
    /\ names \subseteq DOMAIN store
    /\ names \cap DOMAIN cache[r] = {}
    /\ cache' = [cache EXCEPT ![r] = @ @@ [d \in names |-> store[d]]]
    /\ UNCHANGED store

\* A replica loses its whole cache.
Forget(r) ==
    /\ cache' = [cache EXCEPT ![r] = NoDags]
    /\ UNCHANGED store

\* A replica not in Replicas creates a name: only the store changes.
ExternalCreate(d, s) ==
    /\ External
    /\ store' = Put(store, d, s)
    /\ UNCHANGED cache

Next ==
    \/ \E d \in DagNames, s \in DagShapes : ExternalCreate(d, s)
    \/ \E r \in Replicas :
        \/ \E d \in DagNames, s \in DagShapes : Create(r, d, s)
        \/ \E names \in SUBSET DagNames : Learn(r, names)
        \/ Forget(r)

Spec == Init /\ [][Next]_vars
=============================================================================
