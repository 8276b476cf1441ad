SPECIFICATION ClusterSpec
CONSTANTS
    n1 = n1
    n2 = n2
    n3 = n3
    Nodes = {n1, n2, n3}
    Writers = {n1}
    MaxEpoch = 2
    MaxSeq = 2
    RangeLimit = 1
    Budgets <- McBudgets
    RegPeers = {"p"}
    Visitors = {"v"}
    Addrs = {"x", "y"}
    MaxConns = 2
    MaxTime = 3
    MaxPeerEvents = 6
    Catalogue <- McCatalogue
    Filters <- McFilters
    MaxRowEpoch = 2
    MaxBulk = 2
    MaxStoreOps = 4
INVARIANTS
    QuorumMeansHeld
    
    
PROPERTIES
    KeepsPromise
    WritesAnswered
    HeadsConverge
CHECK_DEADLOCK FALSE
