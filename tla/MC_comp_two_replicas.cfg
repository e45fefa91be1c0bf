\* Two replicas reached request by request, with a consistent Anna and no faults.
CONSTANTS
    s1 = s1
    s2 = s2
    incr = incr
    square = square
    composition = composition
    NoCall = NoCall
    Replicas <- MC_Replicas
    DagNames <- MC_Names
    DagShapes <- MC_Shapes
    CompositionDag = composition
    CompShape <- MC_CompShape
    NumRequests = 2
    AnnaLags = FALSE
    MaxEvictions = 0

SPECIFICATION CFairSpec

PROPERTY BenchmarkCompletes
