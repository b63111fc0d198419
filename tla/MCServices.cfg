SPECIFICATION ServicesSpec
CONSTANTS
    NoFleet = "none"
    NoVec = "novec"
    InsightsMax = 3
    SampleSize = 3
    MinToCluster = 3
    EvolveMax = 2
    NameKey <- MCNameKey
    NameTokens <- MCNameTokens
    NameLength <- MCNameLength
    Alike <- MCAlike
    BadNames = {"it"}
    TextNames <- MCTextNames
    NearTexts <- MCNearTexts
    InvalidTexts = {"r"}
    BackfillBatch = 2
    ResolveBatch = 3
    CandidateLimit = 2
    CrossBatch = 2
    MinCooccurrence = 2
    FrontierCap = 2
    MinActive = 2
    DedupBatch = 2
    DedupNeighbors = 2
    MaxPairs = 3
    MinCluster = 3
    MaxBatch = 4
    NotesMax = 2
    BulletinMax = 2
    TopMax = 3
    MatchMax = 3
    BoostMax = 3
    SuccessorMax = 1
    NearMisses = 1
    NScenes <- MCNWithQuiet
    Workers = {1, 2}
    Sections = {"a", "b"}
    Leaves = {"x", "y"}
    SetVals = {1, 2, 3}
    SetDefault = 3
    SetTTL = 2
    Tenants = {"t1", "t2"}
    NoTenant = "none"
    Local = "t1"
    Org = "t1"
    TTL = 2
    ErrTTL = 1
    MaxDeliveries = 2
    PurgeTables = {"memories"}
    Installs = {1, 2}
    NoInstall = 0
    Names = {"a"}
    Main = "main"
    MainOf <- MCMainOf
    Label <- MCLabel
    Fleets = {"f1", "f2"}
    Unassigned = "none"
    DefaultTrust = 1
    GScenes <- MCGWithQuiet
INVARIANTS
     SettingsKept AgentRules
     OutcomesTrue EntitiesSound AlgorithmsExact ArchivedRepresented
      NoStrandedJoiner
PROPERTIES
    IdentityKept GovernanceConverges GraphStepsSound
CHECK_DEADLOCK FALSE
