SPECIFICATION ServiceSpec
CONSTANTS
    MaxFaults = 2
    MaxHups = 1
    MaxTerms = 2
    a = a
    b = b
    Libraries = {a, b}
    NoLibrary = NoLibrary
    Configs <- MCConfigs
INVARIANTS
    OneServer
    ReopenIsHarmless
    CodeIsLoaded
    WiredAsConfigured
    ClosedUnlessShared
    PidFileNamesGuard
    ForksAreSingleThreaded
PROPERTIES
    StraysOnlyBetweenServers
    CrashIsRepaired
    HeardRequestEndsService
    AnnouncedStartServes
CHECK_DEADLOCK FALSE
