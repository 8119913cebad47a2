SPECIFICATION ToolsSpec
CONSTANTS
    None = None
    Tool = {t1, t2}
    Path = {"p1"}
    MaxItem = 2
    MaxFile = 3
    MaxEdit = 1
    Secrets <- MCSecrets
    ServerAnswers <- MCAnswers
    Provisioner = {p1, p2}
    MaxTokens = 4
    MaxDrop = 2
    Served = {"s", "g"}
    Unlisted = {"u"}
    Retired = {"r"}
    Own = {"o"}
    Sets = {None, {"s"}, {}}
    Kinds = {"opencode", "claude", "pi", "codex", "local"}
    MaxConfigEdit = 2
    MaxRun = 3
    HubEnv = {"homelab"}
    Machine = {m1, m2}
    HubOperator = {o1, o2}
    Tries = 1
    MaxMint = 2
    MaxOwner = 1
    Account = {"me", "other"}
    Owner = "me"
    ConsentRun = {"i1", "i2", "l1"}
    PathOf <- MCPathOf
    MaxKill = 1
    Agent = {"a1"}
    TTL = 1
    IntakeToken = TRUE
    MaxPost = 2
    MaxNow = 2
    MaxCrash = 1
    Server <- MCServer
    Pools <- MCPools
    MaxLoad = 5
    Size = 2
    MaxLoss = 5
    Probes <- MCProbes
    MaxScorerRestart = 1
    Requester = {q1, q2}
    GrantLife = 1
    FlushEvery = 1
    MaxPair = 3
    MaxConsent = 2
    MaxGrantTime = 1
    Rotation = {r1, r2}
    Skill = {s1, s2}
    MaxSkill = 3
    MaxOther = 1
    Import = {c1, c2}
    Output = {d1, d2}
    Order <- MCOrder
    MaxImportKill = 1
    FileSets <- MCFileSets
    MaxDepth = 4
SYMMETRY MCSymmetry
INVARIANTS
    VaultToolsKeep
    BlueprintTells
    IntakeKeeps
    CycleSound
    GuardTells
PROPERTIES
    ProvisioningKeeps
    AgentConfigKept
    HubAccessSound
    GoogleGrantSound
    NotionGrantKept
CHECK_DEADLOCK FALSE
