SPECIFICATION FairSpec
CONSTANTS
    h1 = h1
    h2 = h2
    l1 = l1
    l2 = l2
    c1 = c1
    c2 = c2
    Handlers = {h1, h2}
    Listeners = {l1, l2}
    Conns = {c1, c2}
    NoConn = NoConn
    WorkerCount <- MCWorkerCount
    HandlerOf <- MCHandlerOf
    Forbids <- MCForbids
    HandlerOrder <- MCHandlerOrder
    ListenerOrder <- MCListenerOrder
    Fragile = {c2}
    MaxErrors = 1
    RunMayThrow = {l2}
    StartMayThrow = {h2}
INVARIANTS
    ExitIsClean
    ClientsReachTheirHandler
PROPERTIES
    ConnectedIsServed
    ShutdownCompletes
    HandlerContract
