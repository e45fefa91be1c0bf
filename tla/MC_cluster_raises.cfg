\* A KeySet naming a DAG that Anna has not yet propagated.
CONSTANTS
    s1 = s1
    s2 = s2
    f1 = f1
    f2 = f2
    d1 = d1
    d2 = d2
    Replicas <- MC_Replicas
    DagNames <- MC_OneName
    DagShapes <- MC_OneShape
    AnnaLags = TRUE
    MaxEvictions = 0

SPECIFICATION Spec

INVARIANT SchedUpdateNeverRaises
