SPECIFICATION Spec
CONSTANTS
    None = None
    NotionReq = {"r1", "r2"}
    NotionLife = 1
    NotionFlush = 1
    NotionPairs = 2
    NotionConsents = 1
    NotionTime = 1
    NotionCrashes = 1
    Client = {"c1", "c2"}
    Item = {"i1", "i2"}
    First = "i1"
    Field = {"f1", "f2"}
    Keys = 2
    Retries = 3
    MaxMisses = 3
    MaxVersion = 3
    MaxServeFault = 4
    Caller = {"c1", "c2"}
    MaxKeeperLogin = 3
    MaxStop = 2
    Log = {"f1"}
    Requests <- MCRequests
    Stable = 1
    MaxAttempts = 2
    MaxPieces = 9
    MaxSeen = 0
    MaxRestart = 1
    Torrent = {1, 2, 3}
    Series <- MCSeries
    Files <- MCFiles
    Wanted <- MCWanted
    MaxDeath = 1
    TempPath = {"t1", "t2"}
    LibPath = {"l1"}
    Inode = {"i1", "i2"}
    Batch = 1
    MaxChange = 1
    Environments = {"homelab", "work"}
    Inputs <- MCInputs
    MaxFault = 2
    MaxStage = 2
    Context = {"dev", "other"}
    Scope <- MCScope
    Default <- MCDefault
    User = {"ann", "bob"}
    MaxLogin = 2
    MaxUpset = 2
    GmailCall = {"c1", "c2"}
    TokenLife = 2
    Margin = 1
    LabelLife = 1
    MaxTime = 2
    MaxRename = 1
    MaxCallFail = 3
    Starting = {"s1", "s2"}
    MaxAlter = 1
    IdleSeconds = 2
    RolloutDeadline = 1
    Revision = {1, 2}
    MaxUse = 2
INVARIANTS
    VaultWritesKept
    ReportsHonest
    TranscriptsWhole
    ImportSound
    UnlinkSafe
    WorkspaceWhole
    WorkAuthReviewed
    GmailCallsSound
PROPERTIES
    VaultSidecarSettles
    ServicesProgress
CHECK_DEADLOCK FALSE
