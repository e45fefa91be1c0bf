\* The exec-status handler raising ValueError (line 206).
CONSTANTS
    n1 = n1
    n2 = n2
    f1 = f1
    f2 = f2
    k1 = k1
    k2 = k2
    d1 = d1
    NoCall = NoCall
    NodeIps = {n1, n2}
    Funcs = {f1, f2}
    CacheKeys <- MC_NoKeys
    DagNames <- MC_NoDags
    DagShapes <- MC_NoShapes
    NUM_EXEC_THREADS = 1
    MaxStatusQueue = 1

SPECIFICATION Spec

INVARIANT StatusHandlerNeverRaises
