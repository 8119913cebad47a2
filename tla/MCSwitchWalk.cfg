SPECIFICATION FairSpec
CONSTANTS
    Servers = {a, b, c}
    Band = 2
    Attempts = 2
    VerifySeconds = 2
    RecoveryBudget = 5
    QuickReserve = 3
    Backoff = 2
    CallTime = 1
    MaxSwitches = 1
    MaxFaults = 2
    None = None
INVARIANTS
    WalkSound
PROPERTIES
    SwitchEnds
