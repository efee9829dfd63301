SPECIFICATION Spec
SYMMETRY RequestSymmetry
CONSTANTS
    Requests = {r1, r2}
    Emails <- MCEmails
    Lower <- MCLower
    Erased = Erased
    None = None
    MaxTokens = 3
    MaxGen = 2
    MaxTime = 1
    TokenTtl = 1
    Cooldown = 1
    PurgeAfter = 0
INVARIANTS
    TypeOK
    SpentIffApplied
    ReplacedStayDead
    PendingHasToken
PROPERTIES
    PurgeSparesNewAccounts
    TokensFollowTheirAccount
CHECK_DEADLOCK FALSE
