----------------------------- MODULE Provisioning -----------------------------
(***************************************************************************)
(* The cluster bring-up script src/k8s/create_cluster.py, from its command *)
(* line to the first call of add_nodes (src/k8s/add_nodes.py), against the *)
(* Kubernetes API and the tar process it starts inside the kops pod.       *)
(*                                                                         *)
(* The script is sequential: pc is the statement it is at.  The API server *)
(* starts the kops pod at some later time; the remote tar of each          *)
(* copy_file_to_pod extracts the file or fails at some time relative to    *)
(* the script's one-second read window.  The helpers of k8s/util.py        *)
(* (run_process, init_k8s, load_yaml, get_pod_ips, check_or_get_env_arg)   *)
(* are not under src/ and are taken to succeed.                            *)
(***************************************************************************)
EXTENDS Naturals, Sequences, FiniteSets

CONSTANTS
    ArgCounts,      \* values of len(sys.argv) the operator may type
    CopyFiles,      \* <<kube config, ssh key, ssh key .pub>>, lines 61-65
    NoFile

VARIABLES
    pc,             \* the statement the script is at
    failure,        \* "none", or how the script ended early
    argc,           \* len(sys.argv)
    localFiles,     \* the files of CopyFiles that exist on this machine
    pods,           \* pods created in the cluster
    kopsPhase,      \* status.phase of the kops pod
    toCopy,         \* files copy_file_to_pod still has to copy
    session,        \* the exec stream of the current copy: "none", "open", "written"
    tar,            \* tar[f]: the remote 'tar xvf -' of file f
    copied          \* files extracted inside the kops pod

vars == <<pc, failure, argc, localFiles, pods, kopsPhase, toCopy, session, tar, copied>>

Files == {CopyFiles[i] : i \in DOMAIN CopyFiles}

Init ==
    /\ pc = "main"
    /\ failure = "none"
    /\ argc \in ArgCounts
    /\ localFiles \in SUBSET Files
    /\ pods = {}
    /\ kopsPhase = "absent"
    /\ toCopy = CopyFiles
    /\ session = "none"
    /\ tar = [f \in Files |-> "idle"]
    /\ copied = {}

Running == failure = "none"

\* The Python type of the client init_k8s returns (line 36).
K8sClientType == "CoreV1Api"

\* Current file of copy_file_to_pod.
Current == IF toCopy = <<>> THEN NoFile ELSE Head(toCopy)

-----------------------------------------------------------------------------
(* The script                                                              *)

\* Lines 170-181: parse_args keeps args[:length]; a value that is not an
\* integer ends the script with sys.exit(1).
ParsedCount(n) == IF n - 1 < 5 THEN n - 1 ELSE 5

\* Lines 183-206: fewer than five entries in sys.argv print the usage;
\* otherwise parse_args exits (sys.exit(1)) on an argument that is not an
\* integer, and the five counts are unpacked from its result, which raises
\* ValueError when fewer than five were given; the ssh key defaults when
\* exactly five counts follow the script name.
Main ==
    /\ pc = "main" /\ Running
    /\ \/ /\ argc < 5
          /\ failure' = "usage" /\ UNCHANGED pc
       \/ /\ argc >= 5
          /\ failure' = "usage" /\ UNCHANGED pc        \* not an integer
       \/ /\ argc >= 5 /\ ParsedCount(argc) < 5
          /\ failure' = "ValueError" /\ UNCHANGED pc
       \/ /\ argc >= 5 /\ ParsedCount(argc) = 5
          /\ pc' = "object" /\ UNCHANGED failure
    /\ UNCHANGED <<argc, localFiles, pods, kopsPhase, toCopy, session, tar, copied>>

\* Lines 32-36: the kops cluster object is created and a client obtained.
CreateObject ==
    /\ pc = "object" /\ Running
    /\ pc' = "kops_pod"
    /\ UNCHANGED <<failure, argc, localFiles, pods, kopsPhase, toCopy, session, tar, copied>>

\* Lines 38-48: the kops pod is created; it starts Pending.
CreateKopsPod ==
    /\ pc = "kops_pod" /\ Running
    /\ pods' = pods \cup {"kops"}
    /\ kopsPhase' = "Pending"
    /\ pc' = "wait"
    /\ UNCHANGED <<failure, argc, localFiles, toCopy, session, tar, copied>>

\* Lines 50-57: the script re-lists the pod until its phase is Running;
\* while it is not, the loop spins (a stuttering step), with no timeout.
WaitKops ==
    /\ pc = "wait" /\ Running
    /\ kopsPhase = "Running"
    /\ pc' = "copy"
    /\ UNCHANGED <<failure, argc, localFiles, pods, kopsPhase, toCopy, session, tar, copied>>

\* Lines 137-148: copy_file_to_pod opens an exec stream running tar in the
\* pod, then tars the local file; a missing file raises FileNotFoundError.
CopyOpen ==
    /\ pc = "copy" /\ Running
    /\ toCopy # <<>> /\ session = "none"
    /\ \/ /\ Current \in localFiles
          /\ session' = "open" /\ UNCHANGED failure
       \/ /\ Current \notin localFiles
          /\ failure' = "FileNotFoundError" /\ UNCHANGED session
    /\ UNCHANGED <<pc, argc, localFiles, pods, kopsPhase, toCopy, tar, copied>>

\* Lines 150-164, first iteration: resp.update sees no output yet (tar has
\* read nothing), and the archive is written to the stream's stdin.
CopyWrite ==
    /\ pc = "copy" /\ Running
    /\ session = "open"
    /\ session' = "written"
    /\ tar' = [tar EXCEPT ![Current] = "reading"]
    /\ UNCHANGED <<pc, failure, argc, localFiles, pods, kopsPhase, toCopy, copied>>

\* Lines 154-167, second iteration: if the stream is still open and tar has
\* already written to stderr, the script exits (line 161); otherwise
\* (nothing on stderr within update's one-second window, or the stream
\* already closed by the finished tar) the loop breaks and the stream is
\* closed, whatever tar is still doing.
CopyFinish ==
    /\ pc = "copy" /\ Running
    /\ session = "written"
    /\ \/ /\ tar[Current] = "error"
          /\ failure' = "copy_error"
          /\ UNCHANGED <<pc, toCopy, session>>
       \/ /\ session' = "none"
          /\ toCopy' = Tail(toCopy)
          /\ pc' = IF Tail(toCopy) = <<>> THEN "monitoring" ELSE "copy"
          /\ UNCHANGED failure
    /\ UNCHANGED <<argc, localFiles, pods, kopsPhase, tar, copied>>

\* Lines 67-73: the monitoring pod is created with the kops pod's ip.
StartMonitoring ==
    /\ pc = "monitoring" /\ Running
    /\ pods' = pods \cup {"monitoring"}
    /\ pc' = "routing"
    /\ UNCHANGED <<failure, argc, localFiles, kopsPhase, toCopy, session, tar, copied>>

\* add_nodes.py lines 32-34: the assert calls len(kinds), which raises
\* TypeError unless kinds (here: its Python type) is a list.
AddNodesRaises(kindsType) == kindsType # "list"

\* Lines 75-76: add_nodes(client, ['routing'], [route_count], mon_ips)
\* passes the API client as kinds.
AddRoutingNodes ==
    /\ pc = "routing" /\ Running
    /\ AddNodesRaises(K8sClientType)
    /\ failure' = "TypeError"
    /\ UNCHANGED <<pc, argc, localFiles, pods, kopsPhase, toCopy, session, tar, copied>>

-----------------------------------------------------------------------------
(* Kubernetes                                                              *)

\* The kops pod is scheduled and its container starts.
KopsStarts ==
    /\ kopsPhase = "Pending"
    /\ kopsPhase' = "Running"
    /\ UNCHANGED <<pc, failure, argc, localFiles, pods, toCopy, session, tar, copied>>

\* The remote tar of f ends: the file is extracted, or tar fails and
\* writes to stderr (a missing target directory, a truncated archive).
TarEnds(f) ==
    /\ tar[f] = "reading"
    /\ \/ tar' = [tar EXCEPT ![f] = "extracted"] /\ copied' = copied \cup {f}
       \/ tar' = [tar EXCEPT ![f] = "error"] /\ UNCHANGED copied
    /\ UNCHANGED <<pc, failure, argc, localFiles, pods, kopsPhase, toCopy, session>>

Next ==
    \/ Main \/ CreateObject \/ CreateKopsPod \/ WaitKops
    \/ CopyOpen \/ CopyWrite \/ CopyFinish
    \/ StartMonitoring \/ AddRoutingNodes
    \/ KopsStarts
    \/ \E f \in Files : TarEnds(f)

Spec == Init /\ [][Next]_vars

-----------------------------------------------------------------------------
(* Properties                                                              *)

TypeOK ==
    /\ pc \in {"main", "object", "kops_pod", "wait", "copy", "monitoring", "routing"}
    /\ failure \in {"none", "usage", "ValueError", "FileNotFoundError", "copy_error", "TypeError"}
    /\ localFiles \subseteq Files
    /\ pods \subseteq {"kops", "monitoring"}
    /\ kopsPhase \in {"absent", "Pending", "Running"}
    /\ session \in {"none", "open", "written"}
    /\ tar \in [Files -> {"idle", "reading", "extracted", "error"}]
    /\ copied \subseteq Files

\* The kops pod is configured before the script relies on it: once
\* copy_file_to_pod has returned for the last file and the script goes on to
\* the monitoring pod, the kube config and both ssh keys are inside the kops
\* pod (the pod later runs kubectl and ssh with them).
KopsPodConfigured == pc \in {"monitoring", "routing"} => Files \subseteq copied
=============================================================================
