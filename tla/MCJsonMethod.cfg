SPECIFICATION JsonSpec
CONSTANTS
    Requests <- MCRequests
    SizeBits = 8
    Asked <- MCAsked
    Spelled <- MCSpelled
    IntMax = 4
INVARIANTS
    SentArrives
    UnescapeMeaning
    IndexedArrives
    DocumentReadsBack
    FreedOnce
CHECK_DEADLOCK FALSE
