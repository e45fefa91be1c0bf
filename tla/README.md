# TLA+ models of the Fluent scheduler

This directory holds TLA+ models of the function scheduler in
`src/functions/scheduler/server.py`, with the collaborators the scheduler talks
to modelled alongside it, and of the random DAG generator in
`src/functions/dag_generator.py`. Each model comes with TLC configurations that check
it. Two helpers, `create.py` and `call.py`, are imported by `server.py` but are
not part of `src/`. Their behaviour (`create_dag`, `call_dag`, `call_function`,
`create_func`) is modelled from `spec.md` §4.3–4.5, and PROJECT.json marks those
definitions `spec_modelled`.

## 1. Inventory

### Components and their state

| Component | Code | State it keeps | Operations |
|---|---|---|---|
| Event loop | `scheduler()` lines 83–253 | eight sockets; `start` timer | one handler per socket per iteration; housekeeping every `THRESHOLD` s |
| Membership directory | `_get_ip_list` 37–55 | `executors` list of (ip, tid); `schedulers` | REQ/REP to the management service |
| Key-location index | `_update_key_maps` 57–80 | `key_cache_map` ip→keys, `key_ip_map` key→ips | rebuilt from Anna snapshots `ANNA_METADATA\|cache_ip\|ip` |
| Executor status tracker / function index | exec-status handler 185–214 | `thread_statuses` (ip,tid)→ThreadStatus, `func_locations` func→list of (ip,tid) | incremental re-index on a changed status |
| DAG registry | DAG-create handler 151–153 + `create_dag` | `dags` name→DAG (+ pinning); Anna record per name | validate, pin, persist, cache |
| DAG dispatcher | DAG-call handler 155–173 + `call_dag` | none after dispatch | admission check; unbounded refresh-and-retry loop |
| Call router | 148–149 + `call_function` | none | pick an executor by key locality |
| Gossip exchange | receive 216–229, send 241–251 | `dags` | push cached names to peers; pull unknown DAGs from Anna |
| Connect / list | 141–143, 175–183 | none | reply routing address / function list (both use undefined names) |
| DAG generator | `dag_generator.py` | locals only (sequential) | `generate_dag`, `generate_arg_map` (random DAG + argument keys) |
| Benchmark driver | `benchmarks/composition.py`, `benchmarks/server.py` | client-side latency counters | register, create DAG, call DAG, poll Anna for result |
| Cluster provisioning | `k8s/create_cluster.py`, `k8s/add_nodes.py` | pods created; files copied into the kops pod | sequential Kubernetes/EC2 API calls; `copy_file_to_pod` streams a tar into a pod |

### Interactions

The scheduler is one thread. Executors push `ThreadStatus` messages over PULL,
a one-way FIFO per sender. Clients make REQ/REP calls. Peer schedulers push
`KeySet`s of DAG names. The scheduler asks the management service for
membership, and reads and writes Anna (the key-value store that coordinates the
components). Nothing else shares memory with the scheduler.

### What is hard

- **Message order.** Status messages of several executors interleave with
  scheduler restarts. The first status of a thread is treated specially.
- **The DAG-call retry loop.** It blocks every other socket.
- **Key-map refresh under churn.** Membership and cache snapshots change
  between refreshes.
- **DAG name collisions across replicas.** `create_dag` checks a name only
  against the local cache, and the gossip handler skips names that are
  already cached.
- **Process death.** An unhandled exception in any handler ends the process.

### What makes each component correct

- **Function index:** it lists a thread under a function only if the
  thread's stored status serves it, at most once (spec §3). Threads of
  departed nodes may stay listed; threads never indexed (line 195) are not
  checked here.
- **Status handler:** it never raises.
- **Key maps:** they are inverse to each other and exact once the environment
  stops changing.
- **DAG registry:** a replica's DAG cache implements the abstract directory
  (an entry is never replaced and is always a stored record), and a replica
  never overwrites a DAG record a peer wrote (spec §5).
- **DAG dispatcher:** every DAG call eventually leaves the handler.
- **Gossip:** a DAG created anywhere is eventually cached everywhere (spec
  §4.7), and a cached DAG is never replaced.
- **Benchmark driver:** every DAG call of `composition.run` returns a result.
- **Provisioning:** the kops pod holds its kube config and ssh keys before
  the script builds on it.

## 2. Modules

### `Scheduler.tla`: one scheduler replica and its environment

- **State.** The loop's locals are modelled as VARIABLES:
  - `executors`, `key_cache_map`, `key_ip_map`, `thread_statuses`, `dags`;
  - `func_locations`, with each list modelled as a bag, because `list.remove`
    and `append` only change multiplicities;
  - `dag_call`, the DAG call stuck in the retry loop;
  - `advertised`, the last gossip push;
  - `last_dispatch`, the last function call sent to an executor;
  - `failure`, the class of the exception that ended `scheduler()`.

  The environment is modelled as:
  - `mgmt_nodes`, the management service's answer;
  - `cache_snapshots` and `dag_store`, the Anna contents;
  - `func_store`, the functions registered in Anna;
  - `serving`, the functions each executor thread has pinned;
  - `status_queue`, the PULL socket (FIFO, bounded by `MaxStatusQueue`).
- **Actions.** There is one action per handler: `Connect`, `FuncCreate`,
  `FuncCall`, `DagCreate`, `DagCallReceive`, `DagCallAttempt`, `ListFunctions`,
  `ExecStatus` and `SchedUpdate`, plus `Housekeeping` for the timer branch.
  `ExecStatus` has four disjuncts, one per branch of lines 194–214: a new
  thread, a changed status, a changed status whose `remove` raises, and an
  unchanged status.
  - While `dag_call # NoCall`, only `DagCallAttempt` and the environment move.
    This is lines 163–168. Each rejected attempt refreshes executors and key
    maps, and nothing else.
  - An exception sets `failure` and disables every scheduler action. `Restart`
    re-runs `scheduler()` (lines 83–136). It may also happen at any time, as a
    pod eviction would.
  - The environment actions are `NodeJoin`, `NodeLeave`,
    `PublishCacheSnapshot`, `ExecutorPin`, `SendStatus` and `PeerDagCreate`.
    `PeerDagCreate` stands for another replica writing a DAG record.
- **Refinement.** `Directory == INSTANCE DagDirectory WITH Replicas <- {Self},
  External <- TRUE, store <- dag_store, cache <- [..dags[d].funcs..]`. Peers
  are writers outside `Replicas`: `PeerDagCreate` maps to `ExternalCreate`,
  `SchedUpdate` to `Learn`, `Restart` to `Forget` and `DagCreate` to `Create`.
  `DirectoryRefined == Directory!Spec` is checked as a PROPERTY.
- **Abstractions:**
  - A ThreadStatus is modelled as (ip, tid, set of functions). The code
    compares statuses as protobufs, so a reordered list also counts as a change.
    That takes the same branch as a real change and needs no separate case.
  - The kvs key string and protobuf encoding are left out; Anna is indexed by
    ip and DAG name directly.
  - Anna is a single consistent store (no replica lag).
- **Fairness (`FairSpec`).** The scheduler's own steps get weak fairness:
  receiving a pending status, the housekeeping timer (time passes, the loop
  polls with a 1 s timeout), each retry of the loop, and restarting a dead pod
  (Kubernetes restarts containers). Clients, executors and the management
  service get no fairness.

### `DagGenerator.tla`: the random DAG generator

`src/functions/dag_generator.py` is sequential. `generate_dag` draws a random
DAG over a function list, and `generate_arg_map` draws the argument keys of
each function. The module runs one after the other, as a benchmark would use
them (the script itself only logs the DAG).
- **State.** The locals of both functions are VARIABLES, and `pc` says which
  loop the program is in.
- **Actions.** Each action is one loop iteration:
  - `PickEndFunc` (lines 20-23);
  - `PopSink` (25-27);
  - `AddSource` / `SkipSource`, the two outcomes of `random.random() <= 0.4`
    (28-35);
  - `ComputeLength` (37-56);
  - `NextFunc` (62-70);
  - `DrawKey` (71-80). A draw of a key already chosen is a stuttering step.
  - `StoreRefs` (82).
- **Operators.** The nested length loops (37-54) are the RECURSIVE operators
  `ScanPass` and `WalkToEnd`. The `zfill` key (line 74) is `KeyString` over
  `Digits`.
- **Abstraction.** A `FluentReference` is modelled as its key.
- **Checks.** They compare the result with reference definitions:
  - `LongestFrom` for the longest path;
  - `Graphs` for in-degree, out-degree and successors.
- **Fairness.** `Spec` has weak fairness on `Next`, because a running program
  keeps taking steps.

### `DagDirectory.tla`: what the replicas promise about DAGs

This is an abstract specification with no sockets and no Anna replicas. It has
one store of DAG records and one cache per replica.
- **Actions:**
  - `Create` writes the store and the creating replica's cache;
  - `Learn` copies stored records of names the cache lacks;
  - `Forget` drops a whole cache;
  - `ExternalCreate`, enabled only when the constant `External` is TRUE,
    writes the store alone: a replica outside `Replicas` created the name.
- **What it rules out:** replacing a cached entry, and caching a name that was
  never stored.

### `SchedulerCluster.tla`: replicas, gossip and a lagging Anna

This module models several `scheduler()` processes, seen through their DAG
caches.
- **State:**
  - `dags[r]`, the cache of replica `r` (line 94);
  - `failure[r]`, the exception that ended replica `r`;
  - `store`, Anna's latest record per name;
  - `view[r]`, the names `r`'s Anna reads can return;
  - `chan[r]`, the KeySets pushed to `r` and not yet received.
- **Actions:**
  - `DagCreate` (lines 151–153);
  - `SchedUpdateFetch` (lines 216–229), when every uncached name is readable;
  - `SchedUpdateMissing` (line 227), where `kvs.get` returns None and `.value`
    raises AttributeError;
  - `Housekeeping` (lines 239–251), which pushes the cached names to every
    other replica;
  - `Restart` (lines 83–136), which empties the cache. KeySets already in the
    dead process are lost; those still queued at senders arrive later.
  - `Propagate`, an Anna replica receiving a record.
- **Constants:**
  - `AnnaLags` switches lagging reads on;
  - `MaxEvictions` bounds how often a running replica is evicted (the
    variable `evictions` counts them); a replica ended by an exception is
    restarted without limit.
- **Abstractions:**
  - A read returns the latest record or nothing, never an older version.
  - `chan` is a set of KeySets, so identical pending KeySets merge. Handling
    one twice changes nothing.
  - Executors and key maps are left to `Scheduler.tla`, and the refresh half
    of housekeeping with them.
- **Fairness (`FairSpec`).** Weak fairness applies to:
  - housekeeping;
  - the receipt of each pending KeySet, since the PULL socket is FIFO;
  - Anna propagation;
  - the restart of a dead replica.

  DAG creation gets no fairness.
- **Refinement.** `Directory == INSTANCE DagDirectory WITH External <- FALSE,
  store <- store, cache <- dags`. The property `DirectoryRefined == Directory!Spec` is checked
  as a PROPERTY.

### `Composition.tla`: the benchmark driver against the replicas

This module EXTENDS `SchedulerCluster` and adds `composition.run`.
- **Driver actions:**
  - `Register` (lines 16–33);
  - `RegisterDag` (lines 37–45), which exits on DagAlreadyExists;
  - `CallDag` (lines 56–58);
  - `Poll` (lines 63–68);
  - `Finish`.
- **Scheduler actions:**
  - `DagCallAccept` (lines 155–173). A replica holding a call (`call[r]`)
    does nothing else until the DAG is cached there, as in the retry loop at
    lines 163–168.
  - `ReplicaStep` is the rest of an idle replica's loop.
  - `ReplicaRestart` also drops the call.
- **Executors.** `Execute` writes the result.
- **Routing.** Each request reaches any running replica, a nondeterministic
  choice. The client library, which is not in `src/`, connects through a
  service address.

### `Provisioning.tla`: the cluster bring-up script

This module models `create_cluster.py` from its command line up to the first
`add_nodes` call.
- **State:**
  - `pc`, the statement the script is at;
  - `failure`, how the script ended;
  - `pods` and `kopsPhase`, the Kubernetes side;
  - `toCopy` and `session`, the `copy_file_to_pod` calls and their exec
    stream;
  - `tar` and `copied`, the remote tar in the kops pod and the files it has
    extracted.
- **Script actions:**
  - `Main` (lines 183–206, with `ParsedCount` for `parse_args`);
  - `CreateObject`, `CreateKopsPod` and `WaitKops` (lines 32–57). The busy
    wait is stuttering.
  - `CopyOpen`, `CopyWrite` and `CopyFinish` (lines 137–167);
  - `StartMonitoring` (lines 67–73);
  - `AddRoutingNodes` (lines 75–76), where the assert of `add_nodes`
    (`AddNodesRaises`, `add_nodes.py` 32–34) raises TypeError.
- **Environment actions:**
  - `KopsStarts`, the pod becoming Running;
  - `TarEnds(f)`, the remote tar extracting `f` or failing. It may end
    before or after the script's one-second read window.
- **Assumed to succeed:** the `util.py` helpers, which are not in `src/`.
- **Not reachable:** everything after line 76, and the body of `add_nodes`
  past its assert. No code in `src/` calls them with arguments that get that
  far.

### MC modules and the cfg files

`MC_Scheduler`, `MC_DagGenerator`, `MC_SchedulerCluster` and `MC_Composition`
declare the model values and the small sets each configuration needs:
- `n1, n2, f1, f2, k1, k2, d1` for the single replica;
- `f1..f4` for the generator;
- `s1, s2` with `d1, d2` for the cluster;
- `s1, s2, incr, square, composition` for the driver;
- `kubeconfig, sshkey, sshpub` and command lines of 4–7 entries for
  provisioning (`MC_Provisioning`).

## 3. Runs

| Run | cfg | Expect | What it shows |
|---|---|---|---|
| status_handler_raises | MC_status_raises.cfg | violation | a 10-step trace: n1's first status {f1} is not indexed (line 195); n2 gets f1 indexed; n1 drops f1; `remove` raises ValueError (line 206) |
| dag_registry | MC_dags.cfg | pass | `DirectoryRefined`: the one replica, its peers being external writers of Anna, implements `DagDirectory`; local create, a peer's create, gossip and restart never replace a cached DAG or cache one Anna never held |
| dag_call_stuck | MC_dag_call_stuck.cfg | violation | a call of a DAG not cached spins forever, and the gossip that would bring the DAG is never read |
| dag_collision | MC_dag_collision.cfg | violation | `DagRecordsNeverOverwritten`: a peer writes d1, an executor's two statuses get f1 indexed, and this replica's `create_dag(d1)` replaces the peer's record in Anna |
| indexes | MC_keymaps.cfg | pass | `KeyMapsConsistent` (the two maps are inverse), `FuncLocationsSound` (a listed thread's stored status serves the function, and no thread is listed twice; with one function per thread the duplicate case is not exercised) and `KeyMapsEventuallyFresh` (`executors` and `key_ip_map` exact once membership and snapshots are quiet, so a thread re-added by a late status at line 198 is dropped again) |
| dag_generator | MC_DagGenerator.cfg | pass | every run of the generator builds an in-tree rooted at `end_func`, reports the longest path as `max_length`, gives each function two inputs (parents plus distinct keys), and returns |
| cluster_registry | MC_cluster_registry.cfg | pass | `DirectoryRefined`: two replicas with gossip, a lagging Anna, one eviction and restarts after crashes implement `DagDirectory` |
| cluster_converge | MC_cluster_converge.cfg | pass | `DagNamesConverge`: with a consistent Anna and no evictions every created DAG name reaches every cache |
| cluster_gossip_raises | MC_cluster_raises.cfg | violation | a peer advertises a DAG the receiver's Anna replica has not yet received: AttributeError (line 227) ends the receiver |
| cluster_restart_loses_dags | MC_cluster_restart.cfg | violation | `DagNamesConverge` with one eviction: s1 creates d1 and is evicted before its next gossip round; d1 stays in Anna and in no cache, forever |
| provisioning_copy_unchecked | MC_prov_copy.cfg | violation | `copy_file_to_pod` closes the stream one read window after writing, so `create_cluster` starts the monitoring pod while the kops pod still lacks the ssh keys |
| composition_two_replicas | MC_comp_two_replicas.cfg | violation | `register_dag` reaches s1, `call_dag` reaches s2 before s1's gossip is read: s2 loops in the DAG-call handler forever and the driver hangs |

### Bounds and why they are enough

Each run uses at most two executor threads: two nodes of one thread, or in the
DAG runs one node of one thread. It also uses at most two functions, one cache key, one
DAG name with two possible shapes, and at most one status message in flight.
That is enough for these cases:
- the crash, which needs two threads sharing a function;
- a collision, which needs two shapes of one name;
- membership churn, where a node leaves with a snapshot still in Anna.

The generator run uses four functions, one fewer than the script's list. The
liveness check on five takes over five minutes. Four functions already allow
every in-degree up to two at several levels and paths of up to three edges. `key_space = 1` is the smallest key space in
which a function without parents can finish. With `key_space = 0`,
`GeneratorTerminates` fails. No caller in `src/` passes 0, so that case is
listed as a hazard and not checked.

The cluster runs use two replicas, because gossip, a collision and a replica
that never heard of a DAG all need two. The registry run has two DAG names
with two shapes, so a KeySet can mix cached, uncached, readable and unreadable
names. The driver run issues two requests on two replicas.

The provisioning run copies the script's three files. Any subset of them may
be missing locally, and the command line has 4 to 7 entries. That covers the
usage branch, the ValueError branch, the default ssh key and an explicit ssh
key.

The cluster registry run allows one eviction of a running replica (a
replica ended by an exception restarts without limit); the restart run allows
one, so that its only counterexample is the creator evicted before it
gossips; the convergence run allows none.

Larger sets only multiply the same cases. Symmetry is not used, because the
liveness properties run under the same configurations.

Every passing property has a mutant in PROJECT.json: a plausible bug in the
mapped code that TLC detects.

## 4. Not modelled (yet)

- **Cluster provisioning after line 76 of `create_cluster.py`:** the call
  `add_nodes(client, ['routing'], ...)` raises TypeError, so the rest of the
  script is never run. The same holds for the body of `add_nodes`:
  - it is called with the API client as `kinds`, and at line 98 with an
    unknown keyword `route_addr`;
  - called correctly, it would stop at `get_kops_ip` (line 101:
    `list_namespace_pods` is not a CoreV1Api method);
  - `kind` is undefined at line 61.

  Modelling that code would model behaviour the program cannot reach. The
  `util.py` helpers are not in `src/`.
- **Termination of the kops-pod wait (line 53):** this is recorded as a
  hazard. The loop is modelled, but no run checks termination.
- **`benchmarks/server.py`:** it only dispatches to the causal benchmark,
  whose module is not in `src/`, or replies END.
- **Composition, left out on purpose:**
  - **Executor failure:** the poll loop at `composition.py` line 65 has no
    bound, so a lost result hangs the driver. This is recorded as a hazard.
  - **Rerunning the benchmark:** it exits on DagAlreadyExists at line 43,
    which is what `create_dag` is specified to do.
- **Socket handles:** the per-round PUSH socket leak (line 248) is recorded as
  a hazard.
- **Code bugs without a run of their own:** the hazards at `server.py` lines
  143 and 248, `composition.py` line 65, and `create_cluster.py`
  lines 53, 76 and 184 are bugs or divergences whose trace is plain from the
  code; each would need a violation run of its own, and the runs are spent on
  the disagreements listed in §3. They stay recorded as hazards.
- **Stale Anna reads of an overwritten record:** the cluster's Anna returns
  the latest record or nothing.

## 5. Plan

1. **Done: `Scheduler`.** Event loop, status tracker, key maps, DAG
   registry/dispatcher handlers, gossip receive against environment peers.
   The DAG cache refines `DagDirectory` with `Self` as the only replica
   and peers as external writers.
2. **Done: `DagGenerator`.** Tree shape, `max_length` against a reference
   longest path, argument counts, and termination at `key_space = 1`.
3. **Done: `SchedulerCluster` and `DagDirectory`.** Two replicas over a
   lagging Anna, with convergence, the line-227 crash, the loss of DAGs on
   restart, and the refinement of `DagDirectory`.
4. **Done: `Composition`.** The driver hangs when its create and call reach
   different replicas.
5. **Done: `Provisioning`.** The reachable part of `create_cluster.py`, and
   the unchecked remote copy.
6. **Next:**
   - executor threads in the cluster, so that `call_dag` admission (spec
     §4.5) meets gossiped DAGs without pinning;
   - larger cluster instances (three replicas) for convergence over relays.
