SPECIFICATION DiskFairSpec
CONSTANTS
    MinClusterSize = 2
    MinDistinctAgents = 2
    FreshnessWindow = 2
    MaxMemoryIds = 3
    MinTotalWeight = 5
    RecallThreshold = 3
    Jaccard = 5
    GoalTopK = 3
    EntityTopK = 2
    StepWordsCap = 2
    Stopwords = {1}
    Singular <- MCSingular
    Slugs = {"a", "memclaw", "forge/a"}
    Bodies <- MCBodies
    Reqs = {1, 2}
    Lake <- MCLake
    Answers <- MCAnswers
    Cooloff = 1
    MaxWrites = 1
    Scenes <- MCScenes
    Pulls = {1, 2}
    SafeSlugs = {"a", "memclaw"}
    Protected = "memclaw"
    Limit = 2
    Foreign = 9
 
PROPERTIES   DiskConverges
CHECK_DEADLOCK FALSE
