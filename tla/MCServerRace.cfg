SPECIFICATION Spec
CONSTANTS
    h1 = h1
    h2 = h2
    l1 = l1
    l2 = l2
    c1 = c1
    c2 = c2
    Handlers = {h1, h2}
    Listeners = {l1, l2}
    Conns = {c1, c2}
    NoConn = NoConn
    WorkerCount <- MCWorkerCount
    HandlerOf <- MCHandlerOf
    Forbids <- MCForbids
    HandlerOrder <- MCHandlerOrder
    ListenerOrder <- MCListenerOrder
    Fragile = {}
    MaxErrors = 0
    RunMayThrow = {}
    StartMayThrow = {}
INVARIANTS
    ShutdownIsSafe
