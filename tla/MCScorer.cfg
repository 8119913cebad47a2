SPECIFICATION FairSpec
CONSTANTS
    a = a
    b = b
    c = c
    Server = {a, b, c}
    Producer = {p}
    Measurements <- MCMeasurements
    Overcommitted = {c}
    VerdictTTL = 1
    EjectPercent = 50
    MaxNow = 2
    MaxCrashes = 2
    JournalLosses = TRUE
    None = None
INVARIANTS
    RankingHonest
    BaseRecoverable
PROPERTIES
    RankingLives
