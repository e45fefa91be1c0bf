------------------------- MODULE MC_SchedulerCluster -------------------------
(* Two scheduler replicas, at most two DAG names, and two shapes so that    *)
(* two replicas can define one name differently.                           *)
EXTENDS SchedulerCluster

CONSTANTS s1, s2, f1, f2, d1, d2

MC_Replicas == {s1, s2}
MC_OneName == {d1}
MC_TwoNames == {d1, d2}
MC_Shapes == {{f1}, {f2}}
MC_OneShape == {{f1}}
=============================================================================
