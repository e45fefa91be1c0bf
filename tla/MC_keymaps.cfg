\* Membership, key-location refresh and the exec-status handler: two nodes of
\* one thread that join, leave, pin one function, push statuses and publish
\* cache snapshots of one key; restarts; no DAGs.
CONSTANTS
    n1 = n1
    n2 = n2
    f1 = f1
    f2 = f2
    k1 = k1
    k2 = k2
    d1 = d1
    NoCall = NoCall
    NodeIps = {n1, n2}
    Funcs <- MC_OneFunc
    CacheKeys <- MC_OneKey
    DagNames <- MC_NoDags
    DagShapes <- MC_NoShapes
    NUM_EXEC_THREADS = 1
    MaxStatusQueue = 1

SPECIFICATION FairSpec

INVARIANT KeyMapsConsistent
INVARIANT FuncLocationsSound
PROPERTY KeyMapsEventuallyFresh
