SPECIFICATION FairSpec
CONSTANTS
    c1 = c1
    c2 = c2
    NoConn = NoConn
    NoFd = NoFd
    NoRegistry = NoRegistry
    WorkerCount = 2
    Conns = {c1, c2}
    Fds = {3, 4}
    Requests <- MCRequests
    Routes <- MCRoutes
INVARIANTS
    OwnDescriptor
    WorkFollowsSocket
    AnswersAreWhole
PROPERTIES
    ImplementsHandler
CHECK_DEADLOCK FALSE
