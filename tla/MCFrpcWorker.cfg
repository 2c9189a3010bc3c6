SPECIFICATION Spec
CONSTANTS
    NoConn = NoConn
    WorkerCount = 2
    Conns = {c1, c2, c3}
    Methods = {m1, m2}
    KeepAlive = TRUE
    MaxKeepAlive = 2
INVARIANTS
    HeadersStayHome
    AllMethodsOrNone
CHECK_DEADLOCK FALSE
