SPECIFICATION Spec
CONSTANTS
    l1 = l1
    l2 = l2
    Docs = {d1}
    Layers = {l1, l2}
    Home <- MCHome
    Vectors = {v1, v2}
    First = v1
    Created = {l2}
    Replicas = {w1, w2}
    Ids = {1, 2, 3, 4, 5, 6}
    FirstId = 1
    None = None
    FailureBound = 1
    MaxClock = 2
    MaxStarting = 1
    MaxOps = 3
    MaxFaults = 1
    MaxEvents = 3
CONSTRAINT Explored
SYMMETRY ReplicaSymmetry
INVARIANTS
    
    DeletedStaysDeleted
    LiveHasSlots
    SupersededIsOnRecord
CHECK_DEADLOCK FALSE
