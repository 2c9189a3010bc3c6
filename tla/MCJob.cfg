SPECIFICATION FairSpec
CONSTANTS
    NoThread = NoThread
    Count = 2
    Threads = {t1, t2, t3, t4}
INVARIANTS
    StoppedIsQuiet
    HooksArePaired
    OnlyStopEndsWorkers
PROPERTIES
    StopReturns
CHECK_DEADLOCK FALSE
