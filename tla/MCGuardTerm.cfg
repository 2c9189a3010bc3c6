SPECIFICATION FairSpec
CONSTANTS
    MaxFaults = 0
    MaxHups = 0
    MaxTerms = 1
PROPERTIES
    AnnouncedShutdownHappens
CHECK_DEADLOCK FALSE
