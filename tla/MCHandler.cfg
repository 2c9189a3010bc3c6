SPECIFICATION FairSpec
CONSTANTS
    pooled = pooled
    empty = empty
    c1 = c1
    c2 = c2
    c3 = c3
    Handlers = {pooled, empty}
    Conns = {c1, c2, c3}
    NoConn = NoConn
    WorkerCount <- MCWorkerCount
INVARIANTS
    OnePlace
    NoWorkerOutlivesHandler
    PoolIsWhole
PROPERTIES
    ImplementsDispatch
CHECK_DEADLOCK FALSE
