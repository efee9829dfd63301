SPECIFICATION ListSpec
SYMMETRY WriterSymmetry
CONSTANTS
    Ids = {0, 1, 2, 3, 4}
    RequestIds = {0, 4}
    Writers = {w1, w2}
    Limits = {0, 1, 2, 3}
    MaxLimit = 2
    NoCursor = NoCursor
    MaxTime = 2
INVARIANTS
    ListTypeOK
    NoRepeat
    NoSkip
CHECK_DEADLOCK FALSE
