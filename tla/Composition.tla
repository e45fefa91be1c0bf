----------------------------- MODULE Composition -----------------------------
(***************************************************************************)
(* The benchmark driver composition.run (src/functions/benchmarks/         *)
(* composition.py) against the scheduler replicas of SchedulerCluster.      *)
(*                                                                         *)
(* The driver registers incr and square, creates the DAG 'composition',    *)
(* then issues num_requests DAG calls one after another, polling Anna for  *)
(* each result.  Each request of the client library reaches some running    *)
(* replica (the scheduler service balances connections), which is a        *)
(* nondeterministic choice.  A replica inside the DAG-call handler (lines  *)
(* 155-173) does nothing else until call_dag accepts; call_dag accepts     *)
(* when the DAG is cached there (executors admitting the call are the      *)
(* subject of Scheduler.tla).  Executors run an accepted call and write    *)
(* its result under its response id.                                       *)
(***************************************************************************)
EXTENDS SchedulerCluster, Naturals

CONSTANTS
    NumRequests,    \* num_requests
    CompositionDag, \* dag_name = 'composition' (line 37)
    CompShape,      \* its functions ['incr', 'square'] (line 39)
    NoCall

VARIABLES
    pc,             \* where composition.run is
    remaining,      \* iterations of 'for _ in range(num_requests)' left
    request,        \* response id the client waits for
    call,           \* call[r]: request r's DAG-call handler is looping on
    inflight,       \* accepted calls whose result is not yet in Anna
    results         \* response ids with a result in Anna

client_vars == <<pc, remaining, request, call, inflight, results>>
all_vars == <<vars, client_vars>>

Rids == 1 .. NumRequests

CInit ==
    /\ Init
    /\ pc = "register"
    /\ remaining = NumRequests
    /\ request = NoCall
    /\ call = [r \in Replicas |-> NoCall]
    /\ inflight = {}
    /\ results = {}

\* Replica r is in its poll loop, not inside the DAG-call retry loop.
Idle(r) == Running(r) /\ call[r] = NoCall

\* A request of the driver can reach replica r: the service routes it to
\* any running replica, which serves it once its loop polls.
Reaches(r) == Idle(r)

-----------------------------------------------------------------------------
(* The driver                                                              *)

\* Lines 16-33: incr and square registered and tested.
Register ==
    /\ pc = "register"
    /\ pc' = "create"
    /\ UNCHANGED <<vars, remaining, request, call, inflight, results>>

\* Lines 37-45: register_dag at replica r; DagAlreadyExists ends the driver
\* with sys.exit(1).
RegisterDag(r) ==
    /\ pc = "create"
    /\ Reaches(r)
    /\ \/ /\ CompositionDag \notin DOMAIN dags[r]
          /\ DagCreate(r, CompositionDag, CompShape)
          /\ pc' = "call"
       \/ /\ CompositionDag \in DOMAIN dags[r]
          /\ pc' = "exit"
          /\ UNCHANGED vars
    /\ UNCHANGED <<remaining, request, call, inflight, results>>

\* Lines 56-58: the next call_dag goes to replica r and the driver blocks
\* on the reply.
CallDag(r) ==
    /\ pc = "call"
    /\ remaining > 0
    /\ Reaches(r)
    /\ request' = NumRequests - remaining + 1
    /\ call' = [call EXCEPT ![r] = request']
    /\ pc' = "wait"
    /\ UNCHANGED <<vars, remaining, inflight, results>>

\* Lines 73-80: all requests done; the latencies are printed.
Finish ==
    /\ pc = "call"
    /\ remaining = 0
    /\ pc' = "done"
    /\ UNCHANGED <<vars, remaining, request, call, inflight, results>>

\* Lines 63-68: the result of the current request is in Anna; while it is
\* not, kvs.get returns None and the loop polls again (a stuttering step).
Poll ==
    /\ pc = "poll"
    /\ request \in results
    /\ remaining' = remaining - 1
    /\ pc' = "call"
    /\ UNCHANGED <<vars, request, call, inflight, results>>

-----------------------------------------------------------------------------
(* Scheduler and executors                                                 *)

\* Lines 160-173: call_dag accepts once the DAG is cached at r; the reply
\* carries the response id.  A rejected attempt refreshes executors and key
\* maps only (lines 163-168), which leaves this state as it is.
DagCallAccept(r) ==
    /\ Running(r)
    /\ call[r] # NoCall
    /\ CompositionDag \in DOMAIN dags[r]
    /\ inflight' = inflight \cup {call[r]}
    /\ call' = [call EXCEPT ![r] = NoCall]
    /\ pc' = "poll"
    /\ UNCHANGED <<vars, remaining, request, results>>

\* The executors run an accepted call and put its result into Anna.
Execute(id) ==
    /\ id \in inflight
    /\ inflight' = inflight \ {id}
    /\ results' = results \cup {id}
    /\ UNCHANGED <<vars, pc, remaining, request, call>>

\* A restart also ends the DAG-call handler; the driver's request is lost.
ReplicaRestart(r) ==
    /\ Restart(r)
    /\ call' = [call EXCEPT ![r] = NoCall]
    /\ UNCHANGED <<pc, remaining, request, inflight, results>>

\* The poll loop of an idle replica: gossip and Anna, as in SchedulerCluster.
ReplicaStep(r) ==
    /\ Idle(r)
    /\ \/ Housekeeping(r)
       \/ \E m \in chan[r] : SchedUpdateFetch(r, m) \/ SchedUpdateMissing(r, m)
    /\ UNCHANGED client_vars

CNext ==
    \/ Register \/ Finish \/ Poll
    \/ \E r \in Replicas :
          RegisterDag(r) \/ CallDag(r) \/ DagCallAccept(r) \/ ReplicaRestart(r) \/ ReplicaStep(r)
    \/ \E id \in inflight : Execute(id)
    \/ \E r \in Replicas, d \in DagNames : Propagate(r, d) /\ UNCHANGED client_vars

CSpec == CInit /\ [][CNext]_all_vars

\* The driver and the scheduler loops keep taking steps; executors finish
\* accepted calls; a dead scheduler is restarted; Anna propagates.
CFairSpec ==
    /\ CSpec
    /\ WF_all_vars(Register) /\ WF_all_vars(Finish) /\ WF_all_vars(Poll)
    /\ WF_all_vars(\E r \in Replicas : RegisterDag(r))
    /\ WF_all_vars(\E r \in Replicas : CallDag(r))
    /\ \A id \in Rids : WF_all_vars(Execute(id))
    /\ \A r \in Replicas :
          /\ WF_all_vars(DagCallAccept(r))
          /\ WF_all_vars(Idle(r) /\ Housekeeping(r) /\ UNCHANGED client_vars)
          /\ \A m \in SUBSET DagNames :
                WF_all_vars(Idle(r) /\ (SchedUpdateFetch(r, m) \/ SchedUpdateMissing(r, m))
                            /\ UNCHANGED client_vars)
          /\ WF_all_vars(~Running(r) /\ ReplicaRestart(r))
          /\ \A d \in DagNames : WF_all_vars(Propagate(r, d) /\ UNCHANGED client_vars)

-----------------------------------------------------------------------------
(* Properties                                                              *)

CTypeOK ==
    /\ TypeOK
    /\ pc \in {"register", "create", "call", "wait", "poll", "done", "exit"}
    /\ remaining \in 0 .. NumRequests
    /\ request \in Rids \cup {NoCall}
    /\ call \in [Replicas -> Rids \cup {NoCall}]
    /\ inflight \subseteq Rids /\ results \subseteq Rids

\* The spec's end-to-end scenario (spec 9): the driver gets the result of
\* each of its DAG calls and finishes.
BenchmarkCompletes == <>(pc = "done")
=============================================================================
