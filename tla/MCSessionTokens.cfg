CONSTANTS
    Users = {u1}
    Tokens <- MCTokens
    Requests = {r1, r2}
    None = None
    Grace = 0
    Idle = 1
    RefreshTtl = 3
    AccessTtl = 1
    Cap = 1
    MaxDuration = 1
    MaxTime = 3
SPECIFICATION Spec
INVARIANTS SingleUse  NewestIsUnconsumed SurvivorsPredateRevocation RotationsNeverDeadlock
PROPERTIES ImplementsChain
SYMMETRY Symmetry
CHECK_DEADLOCK FALSE
