SPECIFICATION ClientsSpec
CONSTANTS
    MeshPeers = {"p", "q"}
    HealthTtl = 0
    Cooldown = 1
    MaxProbes = 1
    Meshes <- McMeshes
    Apps = {"t1", "t2"}
    Edges = {"x", "y", "z"}
    Plans <- McPlans
    MaxTries = 3
    EdgeCooldown = 1
PROPERTIES
    CandidatesFollow
    CallsRecover
