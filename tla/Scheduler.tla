------------------------------ MODULE Scheduler ------------------------------
(***************************************************************************)
(* One Fluent scheduler replica (src/functions/scheduler/server.py) and    *)
(* the collaborators it talks to: the management service (membership),    *)
(* the Anna store (executor cache snapshots, function and DAG records),   *)
(* executor threads (pinned functions, ThreadStatus pushes), clients and  *)
(* peer schedulers.                                                        *)
(*                                                                         *)
(* The scheduler is a single thread (the poll loop of scheduler()); every *)
(* handler runs to completion, so each handler is one atomic action.  The *)
(* DAG-call handler is the exception: its retry loop (lines 163-168) is a *)
(* loop that never yields to the poller, modelled by dag_call: while it   *)
(* names a call, only DagCallAttempt and the environment take steps.      *)
(* An unhandled exception ends scheduler(): failure records its class and *)
(* every scheduler action is disabled until the pod is restarted.         *)
(***************************************************************************)
EXTENDS Naturals, Sequences, FiniteSets, TLC, Bags, BagsExt

CONSTANTS
    NodeIps,          \* executor node addresses returned by the management service
    NUM_EXEC_THREADS, \* utils.NUM_EXEC_THREADS: executor threads per node
    Funcs,            \* function names
    CacheKeys,        \* keys an executor may cache
    DagNames,         \* DAG names
    DagShapes,        \* the function sets a DAG-create request may list
    NoCall,           \* model value: no DAG call in the retry loop / nothing dispatched
    MaxStatusQueue    \* bound on ThreadStatus messages in flight

Tids == 0 .. NUM_EXEC_THREADS - 1
ExecKeys == NodeIps \X Tids            \* (status.ip, status.tid)

VARIABLES
    \* environment: management service, Anna, executors
    mgmt_nodes,        \* node ips the management service returns on NODES_PORT
    cache_snapshots,   \* ip -> key set stored under 'ANNA_METADATA|cache_ip|ip'
    serving,           \* executor thread -> functions it has pinned
    status_queue,      \* ThreadStatus messages pushed to STATUS_PORT, FIFO
    func_store,        \* functions registered in Anna by create_func
    dag_store,         \* DAG name -> function set of the Dag record in Anna
    \* scheduler(): the locals of the poll loop
    executors,         \* the list 'executors' (no duplicates: a set)
    key_cache_map,     \* ip -> set of keys
    key_ip_map,        \* key -> ips (built without duplicates: a set)
    thread_statuses,   \* (ip, tid) -> functions of the stored ThreadStatus
    func_locations,    \* func -> list of (ip, tid); order irrelevant: a bag
    dags,              \* name -> [funcs, pins]; pins is NoCall for gossiped DAGs
    dag_call,          \* DAG name whose call is in the retry loop, or NoCall
    advertised,        \* last KeySet of DAG names pushed to the peers
    last_dispatch,     \* last call message sent to an executor, or NoCall
    failure            \* "none", or the exception class that ended scheduler()

env_vars == <<mgmt_nodes, cache_snapshots, serving, status_queue, func_store, dag_store>>
sched_vars == <<executors, key_cache_map, key_ip_map, thread_statuses,
                func_locations, dags, dag_call, advertised, last_dispatch, failure>>
vars == <<env_vars, sched_vars>>

-----------------------------------------------------------------------------
(* Helpers                                                                 *)

\* Partial functions: the Python dicts.  Put adds or replaces one entry.
Put(f, k, v) == (k :> v) @@ f
PartialFns(S, T) == UNION {[D -> T] : D \in SUBSET S}

\* Mutant: range(NUM_EXEC_THREADS + 1), one thread too many per node.
GetExecutorListOffByOne == mgmt_nodes \X (0 .. NUM_EXEC_THREADS)

\* _get_ip_list(mgmt_ip, NODES_PORT, ctx, True): every node address
\* expanded to one entry per executor thread.
GetExecutorList == mgmt_nodes \X Tids

\* _update_key_maps(kc_map, key_ip_map, executors, kvs): drop the cache
\* entries of ips no longer in executors, then rebuild key_ip_map from
\* the snapshots read now; an ip without a snapshot is still joining and
\* keeps whatever kc_map already held for it.
\* Mutant: the del of departed ips (line 59) dropped.
UpdatedKcMapNoPrune(kc, execs) ==
    LET read == {e[1] : e \in execs} \cap DOMAIN cache_snapshots
    IN [ip \in DOMAIN kc \cup read |-> IF ip \in read THEN cache_snapshots[ip] ELSE kc[ip]]

UpdatedKcMap(kc, execs) ==
    LET exec_ips == {e[1] : e \in execs}
        kept     == (DOMAIN kc) \cap exec_ips
        read     == exec_ips \cap DOMAIN cache_snapshots
    IN [ip \in kept \cup read |->
            IF ip \in read THEN cache_snapshots[ip] ELSE kc[ip]]

UpdatedKeyIpMap(execs) ==
    LET read == {e[1] : e \in execs} \cap DOMAIN cache_snapshots
    IN [k \in {k2 \in CacheKeys : \E ip \in read : k2 \in cache_snapshots[ip]} |->
            {ip \in read : k \in cache_snapshots[ip]}]

\* The refresh done by housekeeping and by each DAG-call retry
\* (lines 164-165 and 236-237).
RefreshKeyMaps ==
    /\ executors' = GetExecutorList
    /\ key_cache_map' = UpdatedKcMap(key_cache_map, GetExecutorList)
    /\ key_ip_map' = UpdatedKeyIpMap(GetExecutorList)

Alive(e) == e[1] \in mgmt_nodes

-----------------------------------------------------------------------------
(* call.py / create.py: not under src/, modelled from the spec (4.3-4.5). *)

\* create_dag: the pinnings it may choose, one indexed executor per function
\* (spec 4.3); empty when some function is unknown or has no location.
CreateDagPins(fs) ==
    IF \A f \in fs : f \in DOMAIN func_locations /\ DOMAIN func_locations[f] # {}
    THEN {p \in [fs -> ExecKeys] : \A f \in fs : p[f] \in DOMAIN func_locations[f]}
    ELSE {}

\* call_dag: the executors a call of DAG d may be sent to, one per function,
\* from the stored pinning or, for a gossiped DAG, from func_locations.
CallDagTargets(d) ==
    IF dags[d].pins # NoCall THEN {dags[d].pins}
    ELSE {t \in [dags[d].funcs -> ExecKeys] :
            \A f \in dags[d].funcs :
                f \in DOMAIN func_locations /\ t[f] \in DOMAIN func_locations[f]}

\* call_dag is accepted when the DAG is known and every target executor
\* admits its function: it is alive and still serves it (spec 4.5).
CallDagAccepted(d) ==
    /\ d \in DOMAIN dags
    /\ \E t \in CallDagTargets(d) :
          \A f \in dags[d].funcs : Alive(t[f]) /\ f \in serving[t[f]]

\* call_function(func_call_socket, ctx, executors, key_ip_map): the
\* executors a call of a function whose argument is key k may go to: those
\* on an ip caching k when there are any, else any known executor.
CallFunctionTargets(k) ==
    LET local == {e \in executors : k \in DOMAIN key_ip_map /\ e[1] \in key_ip_map[k]}
    IN IF local # {} THEN local ELSE executors

-----------------------------------------------------------------------------
(* The exec-status handler, lines 185-214                                  *)

\* Line 206: list.remove raises ValueError when the thread is missing from
\* the list of a function that has one.
RemoveRaises(key, old) ==
    \E f \in old : f \in DOMAIN func_locations /\ key \notin DOMAIN func_locations[f]

\* Mutant: the removal loop (lines 204-206) dropped; only appends.
ReindexedAppendOnly(key, old, new) ==
    [f \in DOMAIN func_locations \cup new |->
        IF f \in new
        THEN BagAdd(IF f \in DOMAIN func_locations THEN func_locations[f] ELSE EmptyBag, key)
        ELSE func_locations[f]]

\* Lines 204-212: remove the thread from the lists of its old functions,
\* then append it to the lists of its new ones, creating missing lists.
Reindexed(key, old, new) ==
    LET removed == [f \in DOMAIN func_locations |->
                        IF f \in old THEN BagRemove(func_locations[f], key)
                                     ELSE func_locations[f]]
    IN [f \in DOMAIN removed \cup new |->
          IF f \in new
          THEN BagAdd(IF f \in DOMAIN removed THEN removed[f] ELSE EmptyBag, key)
          ELSE removed[f]]

-----------------------------------------------------------------------------
(* Scheduler actions: one per handler of the poll loop                     *)

\* The poll loop is running and not inside the DAG-call retry loop.
Polling == failure = "none" /\ dag_call = NoCall

EmptyFn == [x \in {} |-> {}]

\* scheduler(), lines 86-136: fresh locals, membership and key maps
\* fetched once before the loop starts.
SchedulerStart ==
    /\ executors' = GetExecutorList
    /\ key_cache_map' = UpdatedKcMap(EmptyFn, GetExecutorList)
    /\ key_ip_map' = UpdatedKeyIpMap(GetExecutorList)
    /\ thread_statuses' = EmptyFn
    /\ func_locations' = EmptyFn
    /\ dags' = EmptyFn
    /\ dag_call' = NoCall
    /\ advertised' = {}
    /\ last_dispatch' = NoCall
    /\ failure' = "none"

\* Lines 141-143: the reply names routing_addr, which is not defined
\* (the parameter is route_addr): NameError.
Connect ==
    /\ Polling
    /\ failure' = "NameError"
    /\ UNCHANGED <<env_vars, executors, key_cache_map, key_ip_map, thread_statuses,
                   func_locations, dags, dag_call, advertised, last_dispatch>>

\* Lines 145-146: create_func stores the function in Anna.
FuncCreate(f) ==
    /\ Polling
    /\ func_store' = func_store \cup {f}
    /\ UNCHANGED <<mgmt_nodes, cache_snapshots, serving, status_queue, dag_store, sched_vars>>

\* Lines 148-149: call_function sends the call to an executor chosen from
\* executors and key_ip_map; with no executor it only replies an error.
FuncCall(f, k) ==
    /\ Polling
    /\ IF CallFunctionTargets(k) = {}
       THEN UNCHANGED last_dispatch
       ELSE \E e \in CallFunctionTargets(k) : last_dispatch' = [func |-> f, target |-> e]
    /\ UNCHANGED <<env_vars, executors, key_cache_map, key_ip_map, thread_statuses,
                   func_locations, dags, dag_call, advertised, failure>>

\* Lines 151-153: create_dag; an unknown function or a taken name only
\* replies an error, otherwise the DAG is pinned, stored and cached.
DagCreate(d, fs) ==
    /\ Polling
    /\ IF CreateDagPins(fs) = {} \/ d \in DOMAIN dags
       THEN UNCHANGED <<dags, dag_store>>
       ELSE \E p \in CreateDagPins(fs) :
              /\ dags' = Put(dags, d, [funcs |-> fs, pins |-> p])
              /\ dag_store' = Put(dag_store, d, fs)
    /\ UNCHANGED <<mgmt_nodes, cache_snapshots, serving, status_queue, func_store,
                   executors, key_cache_map, key_ip_map, thread_statuses,
                   func_locations, dag_call, advertised, last_dispatch, failure>>

\* Lines 155-158: a DAG call is read; the handler now loops until
\* call_dag accepts it.
DagCallReceive(d) ==
    /\ Polling
    /\ dag_call' = d
    /\ UNCHANGED <<env_vars, executors, key_cache_map, key_ip_map, thread_statuses,
                   func_locations, dags, advertised, last_dispatch, failure>>

\* Lines 160-173: one call_dag attempt; accepted, the reply is sent and the
\* loop exits; rejected, membership and key maps are refreshed (only those)
\* before the next attempt.
DagCallAttempt ==
    /\ failure = "none"
    /\ dag_call # NoCall
    /\ IF CallDagAccepted(dag_call)
       THEN /\ dag_call' = NoCall
            /\ UNCHANGED <<executors, key_cache_map, key_ip_map>>
       ELSE /\ RefreshKeyMaps
            /\ UNCHANGED dag_call
    /\ UNCHANGED <<env_vars, thread_statuses, func_locations, dags, advertised,
                   last_dispatch, failure>>

\* Lines 175-183: the handler calls _get_func_list(client, prefix); client
\* is not defined: NameError.
ListFunctions ==
    /\ Polling
    /\ failure' = "NameError"
    /\ UNCHANGED <<env_vars, executors, key_cache_map, key_ip_map, thread_statuses,
                   func_locations, dags, dag_call, advertised, last_dispatch>>

\* Lines 194-198: first status of a thread: stored, and the thread added to
\* executors; func_locations is left as it is.
StatusFromNewThread(st) ==
    LET key == <<st.ip, st.tid>> IN
    /\ key \notin DOMAIN thread_statuses
    /\ thread_statuses' = Put(thread_statuses, key, st.functions)
    /\ executors' = executors \cup {key}
    /\ UNCHANGED <<func_locations, failure>>

\* Lines 199-214: a changed status re-indexes the thread and is stored.
StatusChanged(st) ==
    LET key == <<st.ip, st.tid>> IN
    /\ key \in DOMAIN thread_statuses
    /\ thread_statuses[key] # st.functions
    /\ ~RemoveRaises(key, thread_statuses[key])
    /\ func_locations' = Reindexed(key, thread_statuses[key], st.functions)
    /\ thread_statuses' = Put(thread_statuses, key, st.functions)
    /\ UNCHANGED <<executors, failure>>

\* Line 206 raising: the exception leaves the loop and ends scheduler().
StatusRemoveRaises(st) ==
    LET key == <<st.ip, st.tid>> IN
    /\ key \in DOMAIN thread_statuses
    /\ thread_statuses[key] # st.functions
    /\ RemoveRaises(key, thread_statuses[key])
    /\ failure' = "ValueError"
    /\ UNCHANGED <<executors, thread_statuses, func_locations>>

\* An identical status is ignored.
StatusUnchanged(st) ==
    LET key == <<st.ip, st.tid>> IN
    /\ key \in DOMAIN thread_statuses
    /\ thread_statuses[key] = st.functions
    /\ UNCHANGED <<executors, thread_statuses, func_locations, failure>>

\* Lines 185-214: receive the next ThreadStatus from the PULL socket.
ExecStatus ==
    /\ Polling
    /\ status_queue # <<>>
    /\ LET st == Head(status_queue) IN
          \/ StatusFromNewThread(st)
          \/ StatusChanged(st)
          \/ StatusRemoveRaises(st)
          \/ StatusUnchanged(st)
    /\ status_queue' = Tail(status_queue)
    /\ UNCHANGED <<mgmt_nodes, cache_snapshots, serving, func_store, dag_store,
                   key_cache_map, key_ip_map, dags, dag_call, advertised, last_dispatch>>

\* Mutant: the 'if dname not in dags' test (line 225) dropped.
SchedUpdateOverwrites(names) ==
    /\ Polling
    /\ dags' = [d \in DOMAIN dags \cup names |->
                  IF d \in names THEN [funcs |-> dag_store[d], pins |-> NoCall] ELSE dags[d]]
    /\ UNCHANGED <<env_vars, executors, key_cache_map, key_ip_map, thread_statuses,
                   func_locations, dag_call, advertised, last_dispatch, failure>>

\* Lines 216-229: a peer's KeySet of DAG names; every name not cached is
\* read from Anna and cached as the bare Dag, without a pinning.
SchedUpdate(names) ==
    /\ Polling
    /\ dags' = [d \in DOMAIN dags \cup names |->
                  IF d \in DOMAIN dags THEN dags[d]
                  ELSE [funcs |-> dag_store[d], pins |-> NoCall]]
    /\ UNCHANGED <<env_vars, executors, key_cache_map, key_ip_map, thread_statuses,
                   func_locations, dag_call, advertised, last_dispatch, failure>>

\* Mutant: housekeeping only gossips; the refresh (lines 236-237) dropped.
HousekeepingNoKeyRefresh ==
    /\ Polling
    /\ advertised' = DOMAIN dags
    /\ UNCHANGED <<env_vars, executors, key_cache_map, key_ip_map, thread_statuses, func_locations,
                   dags, dag_call, last_dispatch, failure>>

\* Lines 233-253: every THRESHOLD seconds, refresh membership and key
\* maps, then push the names of the cached DAGs to every other scheduler.
Housekeeping ==
    /\ Polling
    /\ RefreshKeyMaps
    /\ advertised' = DOMAIN dags
    /\ UNCHANGED <<env_vars, thread_statuses, func_locations, dags, dag_call,
                   last_dispatch, failure>>

-----------------------------------------------------------------------------
(* Environment                                                             *)

\* The pod is restarted (after an exception, or evicted at any time):
\* scheduler() runs again from its first line; statuses still in the
\* dead socket's buffer may be lost.
Restart ==
    /\ SchedulerStart
    /\ \E keep \in BOOLEAN : status_queue' = IF keep THEN status_queue ELSE <<>>
    /\ UNCHANGED <<mgmt_nodes, cache_snapshots, serving, func_store, dag_store>>

NodeJoin(ip) ==
    /\ ip \notin mgmt_nodes
    /\ mgmt_nodes' = mgmt_nodes \cup {ip}
    /\ UNCHANGED <<cache_snapshots, serving, status_queue, func_store, dag_store, sched_vars>>

\* A node leaves: its executor threads are gone with their pinned
\* functions; its cache snapshot stays in Anna.
NodeLeave(ip) ==
    /\ ip \in mgmt_nodes
    /\ mgmt_nodes' = mgmt_nodes \ {ip}
    /\ serving' = [e \in ExecKeys |-> IF e[1] = ip THEN {} ELSE serving[e]]
    /\ UNCHANGED <<cache_snapshots, status_queue, func_store, dag_store, sched_vars>>

\* An executor node publishes the set of keys it caches.
PublishCacheSnapshot(ip, ks) ==
    /\ ip \in mgmt_nodes
    /\ cache_snapshots' = Put(cache_snapshots, ip, ks)
    /\ UNCHANGED <<mgmt_nodes, serving, status_queue, func_store, dag_store, sched_vars>>

\* An executor thread pins or unpins registered functions.
ExecutorPin(e, fs) ==
    /\ Alive(e)
    /\ fs \subseteq func_store
    /\ fs # serving[e]
    /\ serving' = [serving EXCEPT ![e] = fs]
    /\ UNCHANGED <<mgmt_nodes, cache_snapshots, status_queue, func_store, dag_store, sched_vars>>

\* An executor thread pushes its ThreadStatus.
SendStatus(e) ==
    /\ Alive(e)
    /\ Len(status_queue) < MaxStatusQueue
    /\ status_queue' = Append(status_queue, [ip |-> e[1], tid |-> e[2], functions |-> serving[e]])
    /\ UNCHANGED <<mgmt_nodes, cache_snapshots, serving, func_store, dag_store, sched_vars>>

\* Another scheduler replica creates DAG d and writes its record to Anna.
PeerDagCreate(d, fs) ==
    /\ dag_store' = Put(dag_store, d, fs)
    /\ UNCHANGED <<mgmt_nodes, cache_snapshots, serving, status_queue, func_store, sched_vars>>

-----------------------------------------------------------------------------

Init ==
    /\ mgmt_nodes \in SUBSET NodeIps
    /\ cache_snapshots \in PartialFns(NodeIps, SUBSET CacheKeys)
    /\ serving = [e \in ExecKeys |-> {}]
    /\ status_queue = <<>>
    /\ func_store = {}
    /\ dag_store = EmptyFn
    /\ executors = GetExecutorList
    /\ key_cache_map = UpdatedKcMap(EmptyFn, GetExecutorList)
    /\ key_ip_map = UpdatedKeyIpMap(GetExecutorList)
    /\ thread_statuses = EmptyFn
    /\ func_locations = EmptyFn
    /\ dags = EmptyFn
    /\ dag_call = NoCall
    /\ advertised = {}
    /\ last_dispatch = NoCall
    /\ failure = "none"

SchedulerNext ==
    \/ Connect
    \/ \E f \in Funcs : FuncCreate(f)
    \/ \E f \in Funcs, k \in CacheKeys : FuncCall(f, k)
    \/ \E d \in DagNames, fs \in DagShapes : DagCreate(d, fs)
    \/ \E d \in DagNames : DagCallReceive(d)
    \/ DagCallAttempt
    \/ ListFunctions
    \/ ExecStatus
    \/ \E names \in SUBSET DOMAIN dag_store : names # {} /\ SchedUpdate(names)
    \/ Housekeeping

EnvNext ==
    \/ Restart
    \/ \E ip \in NodeIps : NodeJoin(ip) \/ NodeLeave(ip)
    \/ \E ip \in NodeIps, ks \in SUBSET CacheKeys : PublishCacheSnapshot(ip, ks)
    \/ \E e \in ExecKeys, fs \in SUBSET Funcs : ExecutorPin(e, fs)
    \/ \E e \in ExecKeys : SendStatus(e)
    \/ \E d \in DagNames, fs \in DagShapes : PeerDagCreate(d, fs)

Next == SchedulerNext \/ EnvNext

Spec == Init /\ [][Next]_vars

\* The poll loop keeps running: a pending status is eventually received,
\* the THRESHOLD timer eventually fires, the retry loop keeps retrying,
\* and a pod that died is restarted.  Clients, executors and the
\* management service are not assumed to do anything.
FairSpec ==
    /\ Spec
    /\ WF_vars(ExecStatus)
    /\ WF_vars(Housekeeping)
    /\ WF_vars(DagCallAttempt)
    /\ WF_vars(failure # "none" /\ Restart)

-----------------------------------------------------------------------------
(* Properties                                                              *)

Status == [ip : NodeIps, tid : Tids, functions : SUBSET Funcs]
DagEntry == [funcs : SUBSET Funcs, pins : {NoCall} \cup PartialFns(Funcs, ExecKeys)]

TypeOK ==
    /\ mgmt_nodes \subseteq NodeIps
    /\ cache_snapshots \in PartialFns(NodeIps, SUBSET CacheKeys)
    /\ serving \in [ExecKeys -> SUBSET Funcs]
    /\ status_queue \in Seq(Status) /\ Len(status_queue) <= MaxStatusQueue
    /\ func_store \subseteq Funcs
    /\ dag_store \in PartialFns(DagNames, SUBSET Funcs)
    /\ executors \subseteq ExecKeys
    /\ key_cache_map \in PartialFns(NodeIps, SUBSET CacheKeys)
    /\ key_ip_map \in PartialFns(CacheKeys, SUBSET NodeIps)
    /\ thread_statuses \in PartialFns(ExecKeys, SUBSET Funcs)
    /\ \A f \in DOMAIN func_locations : f \in Funcs /\ IsABag(func_locations[f])
                                       /\ BagToSet(func_locations[f]) \subseteq ExecKeys
    /\ dags \in PartialFns(DagNames, DagEntry)
    /\ dag_call \in DagNames \cup {NoCall}
    /\ advertised \subseteq DagNames
    /\ last_dispatch \in {NoCall} \cup [func : Funcs, target : ExecKeys]
    /\ failure \in {"none", "ValueError", "NameError"}

\* The exec-status handler keeps func_locations sound: it never lists a thread under a function its stored status does not
\* serve, nor lists it twice, whatever order statuses, restarts and
\* crashes come in.
FuncLocationsSound ==
    \A f \in DOMAIN func_locations : \A e \in DOMAIN func_locations[f] :
        /\ e \in DOMAIN thread_statuses
        /\ f \in thread_statuses[e]
        /\ func_locations[f][e] = 1

\* Spec 7: handler errors are reported to the client and never crash the
\* process; here, the exec-status handler never raises.
StatusHandlerNeverRaises == failure # "ValueError"

\* _update_key_maps keeps its two maps inverse to each other and limited
\* to executor ips: key_ip_map lists ip under k exactly when
\* key_cache_map[ip] holds k, across membership changes, snapshot
\* changes, retries and restarts.
KeyMapsConsistent ==
    /\ DOMAIN key_cache_map \subseteq {e[1] : e \in executors}
    /\ \A k \in CacheKeys, ip \in NodeIps :
          (k \in DOMAIN key_ip_map /\ ip \in key_ip_map[k])
             <=> (ip \in DOMAIN key_cache_map /\ k \in key_cache_map[ip])

\* The replica implements DagDirectory, its peers being writers outside it:
\* the function set of a cached DAG was either written by this replica's
\* own create_dag or is the Anna record of the name when gossip brought
\* it; it is never replaced; the cache is only lost whole, by a restart.
Self == "self"
Directory == INSTANCE DagDirectory
                 WITH Replicas <- {Self}, External <- TRUE,
                      store <- dag_store,
                      cache <- [r \in {Self} |-> [d \in DOMAIN dags |-> dags[d].funcs]]

DirectoryRefined == Directory!Spec

\* Spec 4.5/9: a DAG call that entered the handler eventually leaves it
\* (answered, or the process gone), so the loop serves other sockets.
DagCallsAnswered == dag_call # NoCall ~> dag_call = NoCall

\* Spec 5: the scheduler writes only newly created DAG records and never
\* mutates a record another scheduler might also write.  A step of this
\* replica (create_dag at lines 151-153 is the only one that writes Anna)
\* never changes a DAG record that is already in Anna, such as one a peer
\* wrote and has not yet gossiped here.
DagRecordsNeverOverwritten ==
    [][~UNCHANGED sched_vars =>
         \A d \in DOMAIN dag_store : d \in DOMAIN dag_store' /\ dag_store'[d] = dag_store[d]]_vars

\* Spec 4.2: the membership and key-location views are stale at most until
\* the next refresh: once membership and snapshots stop changing, executors
\* eventually equals the threads of the current members (a thread a late
\* status re-added at line 198 after its node left is dropped again) and
\* key_ip_map the snapshots of those members, and both stay so.
KeyMapsFresh ==
    /\ executors = GetExecutorList
    /\ key_ip_map = UpdatedKeyIpMap(GetExecutorList)
KeyMapsEventuallyFresh ==
    <>[][UNCHANGED <<mgmt_nodes, cache_snapshots>>]_vars => <>[]KeyMapsFresh

=============================================================================
