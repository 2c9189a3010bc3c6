SPECIFICATION AccessSpec
CONSTANTS
    W = 3
    Entries <- MCEntries
    MaxEntries = 2
INVARIANTS
    AllowDenyMeaning
CHECK_DEADLOCK FALSE
