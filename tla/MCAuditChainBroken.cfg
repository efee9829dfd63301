SPECIFICATION Spec
CONSTANTS
    Writers = {w1, w2}
    Tickets = {t1, t2}
    Ids = {1, 2, 3}
    None = None
    MaxTime = 2
INVARIANT UntamperedChainIntact
CHECK_DEADLOCK FALSE
