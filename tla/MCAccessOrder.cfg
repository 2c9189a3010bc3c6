SPECIFICATION AccessSpec
CONSTANTS
    W = 3
    Entries <- MCEntries
    MaxEntries = 2
INVARIANTS
    DenyAllowMeaning
CHECK_DEADLOCK FALSE
