SPECIFICATION Spec
CONSTANTS
    l1 = l1
    l2 = l2
    c1 = c1
    c2 = c2
    Listeners = {l1, l2}
    Conns = {c1, c2}
    Forbids <- MCForbids
    Fragile = {c2}
    MaxErrors = 1
INVARIANTS
    OneAccept
    VerdictBeforeHandoff
PROPERTIES
    AcceptedIsKept
CHECK_DEADLOCK FALSE
