SPECIFICATION GrantSpec
CONSTANTS
    Req = {r1, r2}
    TokenLife = 2
    FlushEvery = 1
    MaxPair = 4
    MaxConsent = 2
    MaxTime = 2
    MaxCrash = 1
    None = None
INVARIANTS RejectedNotReused
CHECK_DEADLOCK FALSE
