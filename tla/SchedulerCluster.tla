--------------------------- MODULE SchedulerCluster ---------------------------
(***************************************************************************)
(* Several replicas of scheduler() (src/functions/scheduler/server.py)     *)
(* sharing one Anna store, seen through the DAG cache and the gossip       *)
(* exchange: DAG creation (lines 151-153), the sched-update handler        *)
(* (lines 216-229), the gossip push of housekeeping (lines 239-251) and    *)
(* restarts, which start scheduler() with an empty cache (line 94).        *)
(*                                                                         *)
(* Anna is eventually consistent: each replica's reads see the records     *)
(* its Anna replica has received so far (view), a subset of the names      *)
(* written; a read returns the latest record of a name or nothing.          *)
(* Executors, statuses and key maps are the subject of Scheduler.tla and    *)
(* are left out here.                                                      *)
(***************************************************************************)
EXTENDS Naturals, FiniteSets, TLC

CONSTANTS
    Replicas,       \* scheduler ips (the schedulers list, line 239)
    DagNames,
    DagShapes,      \* the function sets a DAG may have
    AnnaLags,       \* TRUE: a read may miss a record another replica wrote
    MaxEvictions    \* how many times a running replica may be evicted and restarted

VARIABLES
    dags,           \* dags[r]: the local DAG cache of replica r, name -> shape
    failure,        \* failure[r]: exception that ended scheduler() at r
    store,          \* Anna: name -> latest DAG record written
    view,           \* view[r]: names r's Anna reads can return
    chan,           \* chan[r]: KeySets pushed to r and not yet received
    evictions       \* evictions of running replicas so far (bounded by MaxEvictions)

vars == <<dags, failure, store, view, chan, evictions>>

Put(f, k, v) == (k :> v) @@ f
NoDags == [d \in {} |-> {}]
PartialFns(S, T) == UNION {[D -> T] : D \in SUBSET S}

\* kvs.get(dname) at replica r: the stored record if r's Anna replica has
\* it, else None.
Readable(r) == IF AnnaLags THEN view[r] ELSE DOMAIN store

Init ==
    /\ dags = [r \in Replicas |-> NoDags]
    /\ failure = [r \in Replicas |-> "none"]
    /\ store = NoDags
    /\ view = [r \in Replicas |-> {}]
    /\ chan = [r \in Replicas |-> {}]
    /\ evictions = 0

Running(r) == failure[r] = "none"

-----------------------------------------------------------------------------
(* Actions of replica r                                                     *)

\* Lines 151-153: create_dag with a name not cached here: the record is put
\* into Anna (overwriting another replica's record of that name) and
\* cached.  A taken name or an unknown function only replies an error.
DagCreate(r, d, s) ==
    /\ Running(r)
    /\ d \notin DOMAIN dags[r]
    /\ store' = Put(store, d, s)
    /\ dags' = [dags EXCEPT ![r] = Put(@, d, s)]
    /\ UNCHANGED <<failure, view, chan, evictions>>

\* Names of KeySet m that r has not cached (line 225).
Missing(r, m) == m \ DOMAIN dags[r]

\* Mutant: 'dags[dname] = dname', the key cached instead of the record.
SchedUpdateStoresName(r, m) ==
    /\ Running(r)
    /\ m \in chan[r]
    /\ Missing(r, m) \subseteq Readable(r)
    /\ dags' = [dags EXCEPT ![r] = @ @@ [d \in Missing(r, m) |-> d]]
    /\ chan' = [chan EXCEPT ![r] = @ \ {m}]
    /\ UNCHANGED <<failure, store, view, evictions>>

\* Mutant: the 'if dname not in dags' test (line 225) dropped.
SchedUpdateOverwrites(r, m) ==
    /\ Running(r)
    /\ m \in chan[r]
    /\ m \subseteq Readable(r)
    /\ dags' = [dags EXCEPT ![r] = [d \in m |-> store[d]] @@ @]
    /\ chan' = [chan EXCEPT ![r] = @ \ {m}]
    /\ UNCHANGED <<failure, store, view, evictions>>

\* Lines 216-229: a peer's KeySet is received; each name not cached is read
\* from Anna and cached.
SchedUpdateFetch(r, m) ==
    /\ Running(r)
    /\ m \in chan[r]
    /\ Missing(r, m) \subseteq Readable(r)
    /\ dags' = [dags EXCEPT ![r] = @ @@ [d \in Missing(r, m) |-> store[d]]]
    /\ chan' = [chan EXCEPT ![r] = @ \ {m}]
    /\ UNCHANGED <<failure, store, view, evictions>>

\* Line 227: kvs.get(dname) returned None for a missing name, and None.value
\* raises AttributeError, which ends scheduler().
SchedUpdateMissing(r, m) ==
    /\ Running(r)
    /\ m \in chan[r]
    /\ ~(Missing(r, m) \subseteq Readable(r))
    /\ failure' = [failure EXCEPT ![r] = "AttributeError"]
    /\ chan' = [chan EXCEPT ![r] = @ \ {m}]
    /\ UNCHANGED <<dags, store, view, evictions>>

\* Mutant: the peer test of line 247 inverted, pushing only to itself.
HousekeepingSendsToSelf(r) ==
    /\ Running(r)
    /\ chan' = [p \in Replicas |-> IF p = r THEN chan[p] \cup {DOMAIN dags[r]}
                                           ELSE chan[p]]
    /\ UNCHANGED <<dags, failure, store, view, evictions>>

\* Lines 239-251: the names of every cached DAG are pushed as one KeySet to
\* every scheduler other than this one.
Housekeeping(r) ==
    /\ Running(r)
    /\ chan' = [p \in Replicas |-> IF p # r THEN chan[p] \cup {DOMAIN dags[r]}
                                           ELSE chan[p]]
    /\ UNCHANGED <<dags, failure, store, view, evictions>>

\* Lines 83-136 run again after the process ended (or its pod was evicted):
\* the cache starts empty (line 94); KeySets buffered in the dead process
\* are lost, those still queued at the senders arrive later.  A running
\* replica is evicted at most MaxEvictions times in all.
Restart(r) ==
    /\ ~Running(r) \/ evictions < MaxEvictions
    /\ evictions' = IF Running(r) THEN evictions + 1 ELSE evictions
    /\ dags' = [dags EXCEPT ![r] = NoDags]
    /\ failure' = [failure EXCEPT ![r] = "none"]
    /\ \E kept \in SUBSET chan[r] : chan' = [chan EXCEPT ![r] = kept]
    /\ UNCHANGED <<store, view>>

\* Anna propagates the record of d to r's replica.
Propagate(r, d) ==
    /\ AnnaLags
    /\ d \in DOMAIN store \ view[r]
    /\ view' = [view EXCEPT ![r] = @ \cup {d}]
    /\ UNCHANGED <<dags, failure, store, chan, evictions>>

Next ==
    \E r \in Replicas :
        \/ \E d \in DagNames, s \in DagShapes : DagCreate(r, d, s)
        \/ \E m \in chan[r] : SchedUpdateFetch(r, m) \/ SchedUpdateMissing(r, m)
        \/ Housekeeping(r)
        \/ Restart(r)
        \/ \E d \in DagNames : Propagate(r, d)

Spec == Init /\ [][Next]_vars

\* The poll loop reads every queued KeySet (the PULL socket is FIFO), the
\* housekeeping timer fires, Anna propagates, Kubernetes restarts a dead
\* scheduler.  Clients creating DAGs get no fairness.
FairSpec ==
    /\ Spec
    /\ \A r \in Replicas :
          /\ WF_vars(Housekeeping(r))
          /\ \A m \in SUBSET DagNames :
                WF_vars(SchedUpdateFetch(r, m) \/ SchedUpdateMissing(r, m))
          /\ WF_vars(~Running(r) /\ Restart(r))
          /\ \A d \in DagNames : WF_vars(Propagate(r, d))

-----------------------------------------------------------------------------
(* Properties                                                              *)

TypeOK ==
    /\ dags \in [Replicas -> PartialFns(DagNames, DagShapes)]
    /\ failure \in [Replicas -> {"none", "AttributeError"}]
    /\ store \in PartialFns(DagNames, DagShapes)
    /\ view \in [Replicas -> SUBSET DOMAIN store]
    /\ chan \in [Replicas -> SUBSET SUBSET DagNames]
    /\ evictions \in 0 .. MaxEvictions

\* The sched-update handler never ends the scheduler: every name a peer
\* advertises can be read from Anna when it arrives (line 227).
SchedUpdateNeverRaises == \A r \in Replicas : failure[r] # "AttributeError"

\* Spec 4.7: a DAG created anywhere is eventually known everywhere: every
\* name written to Anna ends up in the cache of every replica.
DagNamesConverge ==
    \A d \in DagNames :
        d \in DOMAIN store ~> \A r \in Replicas : d \in DOMAIN dags[r]

\* The replicas implement DagDirectory: a cached DAG is never replaced, it
\* is only added by the replica's own create_dag or copied from Anna, and
\* a cache is only lost as a whole, by a restart.
Directory == INSTANCE DagDirectory WITH External <- FALSE, store <- store, cache <- dags

DirectoryRefined == Directory!Spec
=============================================================================
