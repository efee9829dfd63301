SPECIFICATION Spec
SYMMETRY RequestSymmetry
CONSTANTS
    Requests = {r1, r2}
    AccountThreshold = 2
    IpThreshold = 3
    Window = 1
    MfaThreshold = 2
    MfaTtl = 3
    MaxTokens = 2
    MaxSecrets = 1
    MaxCodes = 2
    MaxTime = 2
    MaxRequests = 5
INVARIANTS
    TypeOK
    BoundedGuesses
    BoundedTries
    StepLogsInOnce
    RecoveryCodeLogsInOnce
CHECK_DEADLOCK FALSE
