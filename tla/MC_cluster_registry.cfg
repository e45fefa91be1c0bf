\* Replicas with a lagging Anna and evictions implement DagDirectory.
CONSTANTS
    s1 = s1
    s2 = s2
    f1 = f1
    f2 = f2
    d1 = d1
    d2 = d2
    Replicas <- MC_Replicas
    DagNames <- MC_TwoNames
    DagShapes <- MC_Shapes
    AnnaLags = TRUE
    MaxEvictions = 1

SPECIFICATION Spec

INVARIANT TypeOK
PROPERTY DirectoryRefined
