SPECIFICATION FairSpec
CONSTANTS
    Servers = {a, b}
    BadWindows = 2
    MaxSessions = 2
    None = None
INVARIANTS
    VerdictBacked
    CounterHonest
PROPERTIES
    LossTrips
