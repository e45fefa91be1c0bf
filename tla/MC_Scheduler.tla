---------------------------- MODULE MC_Scheduler ----------------------------
(* Model values and small sets for the Scheduler runs; each cfg picks the *)
(* ones its question needs.                                                *)
EXTENDS Scheduler

CONSTANTS n1, n2, f1, f2, k1, k2, d1

MC_NoKeys == {}
MC_NoDags == {}
MC_NoShapes == {}
MC_OneNode == {n1}
MC_OneFunc == {f1}
MC_OneKey == {k1}
MC_Dags == {d1}
MC_Shapes == {{f1}, {f2}}
=============================================================================
