SPECIFICATION Spec
CONSTANTS
  Tokens = {t1, t2}
  Changes = {c1, c2}
  AccessTtl = 2
  EpochTtl = 2
  MaxDuration = 1
  MaxTime = 5
SYMMETRY Symmetry
CHECK_DEADLOCK FALSE
INVARIANTS OldTokensAreRefused RefreshPicksUpChange
