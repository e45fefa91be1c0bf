--------------------------- MODULE MC_Provisioning ---------------------------
(* The three files create_cluster copies into the kops pod, as model      *)
(* values, and command lines of four to seven entries.                     *)
EXTENDS Provisioning

CONSTANTS kubeconfig, sshkey, sshpub

MC_CopyFiles == <<kubeconfig, sshkey, sshpub>>
MC_ArgCounts == 4 .. 7
=============================================================================
