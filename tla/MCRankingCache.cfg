SPECIFICATION FairSpec
CONSTANTS
    RankingTTL = 1
    MaxNow = 4
    MaxCrashes = 1
    None = None
INVARIANTS
    CacheSound
PROPERTIES
    ControlProceeds
