\* A DAG call stuck in the retry loop of lines 163-168.
CONSTANTS
    n1 = n1
    n2 = n2
    f1 = f1
    f2 = f2
    k1 = k1
    k2 = k2
    d1 = d1
    NoCall = NoCall
    NodeIps <- MC_OneNode
    Funcs = {f1, f2}
    CacheKeys <- MC_NoKeys
    DagNames <- MC_Dags
    DagShapes <- MC_Shapes
    NUM_EXEC_THREADS = 1
    MaxStatusQueue = 1

SPECIFICATION FairSpec

PROPERTY DagCallsAnswered
