SPECIFICATION FairSpec
CONSTANTS
  Keys = {k1}
  Hashes = {h1, h2}
  TicketIds = {t1, t2}
  Requests = {r1, r2}
  None = None
  Ttl = 2
  MaxAttempts = 2
  MaxDuration = 1
  MaxTime = 5
CHECK_DEADLOCK FALSE
INVARIANTS DuplicatesOnlyAfterLostAck ReplayIsSound ClaimIsExclusive StuckOnlyAfterCrash
PROPERTIES ClaimsSettle
