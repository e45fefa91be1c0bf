\* Gossip convergence with a consistent Anna and no evictions.
CONSTANTS
    s1 = s1
    s2 = s2
    f1 = f1
    f2 = f2
    d1 = d1
    d2 = d2
    Replicas <- MC_Replicas
    DagNames <- MC_TwoNames
    DagShapes <- MC_Shapes
    AnnaLags = FALSE
    MaxEvictions = 0

SPECIFICATION FairSpec

PROPERTY DagNamesConverge
