\* DAG create, DAG call and gossip updates: one node with one executor
\* thread, two functions, one DAG name that this scheduler and a peer may
\* create with different function sets; no cache keys.
CONSTANTS
    n1 = n1
    n2 = n2
    f1 = f1
    f2 = f2
    k1 = k1
    k2 = k2
    d1 = d1
    NoCall = NoCall
    NodeIps <- MC_OneNode
    Funcs = {f1, f2}
    CacheKeys <- MC_NoKeys
    DagNames <- MC_Dags
    DagShapes <- MC_Shapes
    NUM_EXEC_THREADS = 1
    MaxStatusQueue = 1

SPECIFICATION Spec

INVARIANT TypeOK
PROPERTY DirectoryRefined
