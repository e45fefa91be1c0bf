\* The generator ends: CHECK_DEADLOCK is off for its final state.
CONSTANTS
    f1 = f1
    f2 = f2
    f3 = f3
    f4 = f4
    FunctionList <- MC_FunctionList
    KeySpace = 1

SPECIFICATION Spec

INVARIANT TypeOK
INVARIANT GeneratedDagIsTree
INVARIANT MaxLengthIsLongestPath
INVARIANT ArgMapGivesTwoInputs

CHECK_DEADLOCK FALSE
PROPERTY GeneratorTerminates
