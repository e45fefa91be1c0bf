\* Convergence when one running replica may be evicted once.
CONSTANTS
    s1 = s1
    s2 = s2
    f1 = f1
    f2 = f2
    d1 = d1
    d2 = d2
    Replicas <- MC_Replicas
    DagNames <- MC_OneName
    DagShapes <- MC_OneShape
    AnnaLags = FALSE
    MaxEvictions = 1

SPECIFICATION FairSpec

PROPERTY DagNamesConverge
